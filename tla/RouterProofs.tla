------------------------------ MODULE RouterProofs ------------------------------
(***************************************************************************)
(* The router's circuit breakers, and dispatching through them, for any    *)
(* number of hosts, tasks, providers and models, and any thresholds,       *)
(* cooldowns and bounds.                                                   *)
(*                                                                         *)
(* CircuitsTypeOK /\ CircuitInv is inductive.  One lemma per breaker       *)
(* operation says what it preserves; the actions of RouterCircuits only    *)
(* combine them.  Over the log of all reports, each breaker's state is then *)
(* shown to be what the reports before it make of it.                      *)
(*                                                                         *)
(* TypeOK /\ DispatchInv of RouterDispatch is inductive too: its circuit   *)
(* part is that of the breakers, since every step of a host is one call on *)
(* them or none.                                                           *)
(***************************************************************************)
EXTENDS CircuitLog, RouterDispatch, BoundedMapProofs, WellFoundedInduction

(* The parts of CircuitInv that speak of the outcome breaker. *)
OutcomeCooldown ==
  \A k \in OutcomeKey : entries[k].openedUntil <= now + OutcomeCooldownMs

OutcomeInv ==
  /\ MapIsBounded
  /\ AbsentIsFresh
  /\ OpenIffStreak
  /\ ProbeOnlyHalfOpen
  /\ OutcomeCooldown

(* The part that speaks of the windowed one. *)
WindowCooldown == \A k \in RouteKey : openedUntil[k] <= now + CooldownMs

LEMMA CircuitInvParts ==
  CircuitInv <=> OutcomeInv /\ WindowCooldown /\ EscalationBounded
BY DEF CircuitInv, OutcomeInv, BlockedAtMostOneCooldown, OutcomeCooldown, WindowCooldown

(* A bucket's key is never a route key, and both are outcome keys. *)
LEMMA KeyKinds ==
  /\ RouteKey \subseteq OutcomeKey
  /\ \A p \in Provider : BucketOf(p) \in OutcomeKey \ RouteKey
  /\ \A k \in OutcomeKey : k[1] \in Provider
BY KeysAssumption DEF RouteKey, OutcomeKey, BucketOf

LEMMA FreshIsEntry ==
  /\ Fresh \in Entry
  /\ Fresh.consecutive = 0 /\ Fresh.openedUntil = 0 /\ Fresh.probeGranted = FALSE
BY DEF Fresh, Entry, NotOpened

(* A failed entry is an entry; it is open exactly when its streak reached   *)
(* the threshold, and its probe slot is free.                               *)
LEMMA FailedEntry ==
  ASSUME NEW e \in Entry, NEW t \in Nat \ {0},
         e.openedUntil # NotOpened <=> e.consecutive >= ConsecutiveFailures,
         e.openedUntil <= t + OutcomeCooldownMs
  PROVE  /\ Failed(e, t) \in Entry
         /\ Failed(e, t).openedUntil # NotOpened
              <=> Failed(e, t).consecutive >= ConsecutiveFailures
         /\ Failed(e, t).openedUntil <= t + OutcomeCooldownMs
         /\ Failed(e, t).probeGranted = FALSE
<1>1. /\ e.consecutive \in Nat /\ e.openedUntil \in Nat
      /\ ConsecutiveFailures \in Nat \ {0} /\ OutcomeCooldownMs \in Nat
  BY OutcomeAssumption DEF Entry
<1>2. /\ Failed(e, t).consecutive = e.consecutive + 1
      /\ Failed(e, t).openedUntil =
           IF e.consecutive + 1 >= ConsecutiveFailures
           THEN t + OutcomeCooldownMs ELSE e.openedUntil
      /\ Failed(e, t).probeGranted = FALSE
  BY DEF Failed
<1>3. Failed(e, t) \in Entry
  BY <1>1 DEF Failed, Entry
<1> QED BY <1>1, <1>2, <1>3 DEF NotOpened

(* How a breaker call that files something under k leaves the map. *)
LEMMA OrderWithKey ==
  ASSUME OutcomeTypeOK, MapIsBounded, NEW k \in OutcomeKey,
         order' = OrderWith(k)
  PROVE  /\ order' \in Seq(OutcomeKey)
         /\ MapIsBounded'
         /\ ToSet(order)' = (ToSet(order) \ Evicted(k)) \cup {k}
<1>1. MaxEntries \in Nat \ {0}
  BY OutcomeAssumption
<1> QED
  BY <1>1, InsertKeys DEF OutcomeTypeOK, MapIsBounded, OrderWith, Evicted

(* A failure filed under any key, the evicted key's reset included. *)
LEMMA FailureStep ==
  ASSUME CircuitsTypeOK, OutcomeInv, NEW k \in OutcomeKey,
         OutcomeFailure(k, now), now' = now
  PROVE  OutcomeTypeOK' /\ OutcomeInv'
<1>1. /\ order' \in Seq(OutcomeKey) /\ MapIsBounded'
      /\ ToSet(order)' = (ToSet(order) \ Evicted(k)) \cup {k}
  BY OrderWithKey DEF CircuitsTypeOK, OutcomeInv, OutcomeFailure
<1>2. \A x \in OutcomeKey :
        entries'[x] = IF x = k THEN Failed(entries[k], now)
                      ELSE IF x \in Evicted(k) THEN Fresh ELSE entries[x]
  BY DEF OutcomeFailure
<1>3. \A x \in OutcomeKey : entries[x] \in Entry
  BY DEF CircuitsTypeOK, OutcomeTypeOK
<1>4. /\ Failed(entries[k], now) \in Entry
      /\ Failed(entries[k], now).openedUntil # NotOpened
           <=> Failed(entries[k], now).consecutive >= ConsecutiveFailures
      /\ Failed(entries[k], now).openedUntil <= now + OutcomeCooldownMs
      /\ Failed(entries[k], now).probeGranted = FALSE
  BY <1>3, FailedEntry DEF CircuitsTypeOK, OutcomeInv, OpenIffStreak, OutcomeCooldown
<1>5. OutcomeTypeOK'
  <2>1. \A x \in OutcomeKey : entries'[x] \in Entry
    BY <1>2, <1>3, <1>4, FreshIsEntry
  <2> QED BY <1>1, <2>1 DEF OutcomeTypeOK, OutcomeFailure
<1>6. AbsentIsFresh'
  BY <1>1, <1>2 DEF OutcomeInv, AbsentIsFresh
<1>7. OpenIffStreak'
  BY <1>2, <1>4, FreshIsEntry, OutcomeAssumption DEF OutcomeInv, OpenIffStreak, NotOpened
<1>8. ProbeOnlyHalfOpen'
  BY <1>2, <1>4, FreshIsEntry DEF OutcomeInv, ProbeOnlyHalfOpen, Phase
<1>9. OutcomeCooldown'
  BY <1>2, <1>4, FreshIsEntry, OutcomeAssumption
     DEF CircuitsTypeOK, OutcomeInv, OutcomeCooldown
<1> QED BY <1>1, <1>5, <1>6, <1>7, <1>8, <1>9 DEF OutcomeInv

(* A success: the key, its provider's bucket and the evicted key reset. *)
LEMMA SuccessStep ==
  ASSUME CircuitsTypeOK, OutcomeInv, NEW k \in OutcomeKey,
         OutcomeSuccess(k), now' = now
  PROVE  OutcomeTypeOK' /\ OutcomeInv'
<1>1. /\ order' \in Seq(OutcomeKey) /\ MapIsBounded'
      /\ ToSet(order)' = (ToSet(order) \ Evicted(k)) \cup {k}
  BY OrderWithKey DEF CircuitsTypeOK, OutcomeInv, OutcomeSuccess
<1>2. \A x \in OutcomeKey :
        entries'[x] = IF x \in ClearedBy(k) \cup Evicted(k)
                      THEN Fresh ELSE entries[x]
  BY DEF OutcomeSuccess
<1>3. k \in ClearedBy(k)
  BY DEF ClearedBy
<1>4. OutcomeTypeOK'
  <2>1. \A x \in OutcomeKey : entries'[x] \in Entry
    BY <1>2, FreshIsEntry DEF CircuitsTypeOK, OutcomeTypeOK
  <2> QED BY <1>1, <2>1 DEF OutcomeTypeOK, OutcomeSuccess
<1>5. AbsentIsFresh'
  BY <1>1, <1>2, <1>3 DEF OutcomeInv, AbsentIsFresh
<1>6. OpenIffStreak'
  BY <1>2, FreshIsEntry, OutcomeAssumption DEF OutcomeInv, OpenIffStreak, NotOpened
<1>7. ProbeOnlyHalfOpen'
  BY <1>2, FreshIsEntry DEF OutcomeInv, ProbeOnlyHalfOpen, Phase
<1>8. OutcomeCooldown'
  BY <1>2, FreshIsEntry, OutcomeAssumption
     DEF CircuitsTypeOK, OutcomeInv, OutcomeCooldown
<1> QED BY <1>1, <1>4, <1>5, <1>6, <1>7, <1>8 DEF OutcomeInv

(* Granting the probe slot: only a key the map holds can be half-open. *)
LEMMA GrantStep ==
  ASSUME CircuitsTypeOK, OutcomeInv, NEW k \in OutcomeKey,
         GrantProbe(k, now), now' = now
  PROVE  OutcomeTypeOK' /\ OutcomeInv'
<1>1. /\ order' = order
      /\ entries' = [entries EXCEPT ![k].probeGranted = TRUE]
      /\ Phase(k, now) = "half_open"
  BY DEF GrantProbe, ProbeFree
<1>2. entries \in [OutcomeKey -> Entry]
  BY DEF CircuitsTypeOK, OutcomeTypeOK
<1>3. /\ \A x \in OutcomeKey \ {k} : entries'[x] = entries[x]
      /\ entries'[k] = [entries[k] EXCEPT !.probeGranted = TRUE]
      /\ entries' \in [OutcomeKey -> Entry]
  BY <1>1, <1>2 DEF Entry
<1>4. \A x \in OutcomeKey :
        /\ entries'[x].openedUntil = entries[x].openedUntil
        /\ entries'[x].consecutive = entries[x].consecutive
        /\ x # k => entries'[x].probeGranted = entries[x].probeGranted
  BY <1>2, <1>3 DEF Entry
<1>5. k \in ToSet(order)
  BY <1>1, FreshIsEntry DEF OutcomeInv, AbsentIsFresh, Phase, NotOpened
<1>6. OutcomeTypeOK' /\ MapIsBounded'
  BY <1>1, <1>3 DEF OutcomeInv, CircuitsTypeOK, OutcomeTypeOK, MapIsBounded
<1>7. AbsentIsFresh'
  BY <1>1, <1>3, <1>5 DEF OutcomeInv, AbsentIsFresh
<1>8. OpenIffStreak' /\ OutcomeCooldown'
  BY <1>4 DEF OutcomeInv, OpenIffStreak, OutcomeCooldown
<1>9. ProbeOnlyHalfOpen'
  BY <1>1, <1>4 DEF OutcomeInv, ProbeOnlyHalfOpen, Phase
<1> QED BY <1>6, <1>7, <1>8, <1>9 DEF OutcomeInv

(* The windowed breaker: lists stay finite, and no circuit is open for more *)
(* than a cooldown.                                                         *)
LEMMA WindowStep ==
  ASSUME CircuitsTypeOK, WindowCooldown, NEW k \in RouteKey, now' = now,
         WindowFailure(k, now) \/ WindowSuccess(k)
  PROVE  CircuitTypeOK' /\ WindowCooldown'
<1>1. /\ failures \in [RouteKey -> SUBSET Failure]
      /\ \A x \in RouteKey : IsFiniteSet(failures[x])
      /\ openedUntil \in [RouteKey -> Nat]
      /\ now \in Nat /\ CooldownMs \in Nat
  BY CircuitAssumption DEF CircuitsTypeOK, CircuitTypeOK
<1>2. CASE WindowSuccess(k)
  BY <1>1, <1>2, FS_EmptySet DEF WindowSuccess, CircuitTypeOK, WindowCooldown, Unset
<1>3. CASE WindowFailure(k, now)
  <2> DEFINE recent == InWindow(k, now)
             simultaneous == {f \in recent : f.at = now}
             new == [at |-> now, nth |-> Cardinality(simultaneous)]
             list == recent \cup {new}
  <2>1. IsFiniteSet(recent) /\ IsFiniteSet(simultaneous) /\ recent \subseteq Failure
    BY <1>1, FS_Subset DEF InWindow
  <2>2. Cardinality(simultaneous) \in Nat
    BY <2>1, FS_CardinalityType
  <2>3. list \in SUBSET Failure /\ IsFiniteSet(list)
    <3>1. new \in Failure
      BY <1>1, <2>2 DEF Failure
    <3> HIDE DEF new, recent
    <3> QED BY <2>1, <3>1, FS_AddElement
  <2>4. /\ failures' = [failures EXCEPT ![k] = list]
        /\ openedUntil' = [openedUntil EXCEPT
             ![k] = IF Cardinality(list) >= FailureThreshold
                    THEN now + CooldownMs ELSE @]
    BY <1>3 DEF WindowFailure
  <2> HIDE DEF list
  <2>5. CircuitTypeOK'
    BY <1>1, <2>3, <2>4 DEF CircuitTypeOK
  <2>6. WindowCooldown'
    BY <1>1, <2>4 DEF WindowCooldown
  <2> QED BY <2>5, <2>6
<1> QED BY <1>2, <1>3

(* The escalation set under a verdict. *)
LEMMA EscalationStep ==
  ASSUME CircuitsTypeOK, EscalationBounded, NEW k \in RouteKey,
         escalated' = Relaxed(k) \/ escalated' = WithEscalation(k)
  PROVE  escalated' \in Seq(RouteKey) /\ EscalationBounded'
<1>1. EscalationLimit \in Nat \ {0} /\ escalated \in Seq(RouteKey)
  BY RouterAssumption DEF CircuitsTypeOK
<1>2. CASE escalated' = Relaxed(k)
  BY <1>1, <1>2, DeleteKeys DEF EscalationBounded, Relaxed
<1>3. CASE escalated' = WithEscalation(k)
  BY <1>1, <1>3, InsertKeys DEF EscalationBounded, WithEscalation
<1> QED BY <1>2, <1>3

(* What no call touches stays right. *)
LEMMA CircuitsStutter ==
  ASSUME CircuitsTypeOK, CircuitInv, UNCHANGED circuitsVars
  PROVE  CircuitsTypeOK' /\ CircuitInv'
BY DEF circuitsVars, CircuitsTypeOK, CircuitTypeOK, OutcomeTypeOK, CircuitInv,
       MapIsBounded, AbsentIsFresh, OpenIffStreak, ProbeOnlyHalfOpen, Phase,
       BlockedAtMostOneCooldown, EscalationBounded

LEMMA TickStep ==
  ASSUME CircuitsTypeOK, CircuitInv, Tick
  PROVE  CircuitsTypeOK' /\ CircuitInv'
<1>1. /\ now' = now + 1 /\ now \in Nat
      /\ UNCHANGED <<failures, openedUntil, entries, order, escalated>>
  BY DEF Tick, CircuitsTypeOK
<1>2. CircuitsTypeOK'
  BY <1>1 DEF CircuitsTypeOK, CircuitTypeOK, OutcomeTypeOK
<1>3. MapIsBounded' /\ AbsentIsFresh' /\ OpenIffStreak' /\ EscalationBounded'
  BY <1>1 DEF CircuitInv, MapIsBounded, AbsentIsFresh, OpenIffStreak, EscalationBounded
<1>4. \A k \in OutcomeKey : entries[k].openedUntil \in Nat
  BY DEF CircuitsTypeOK, OutcomeTypeOK, Entry
<1>5. ProbeOnlyHalfOpen'
  BY <1>1, <1>4 DEF CircuitInv, ProbeOnlyHalfOpen, Phase
<1>6. BlockedAtMostOneCooldown'
  BY <1>1, <1>4, CircuitAssumption, OutcomeAssumption
     DEF CircuitInv, BlockedAtMostOneCooldown, CircuitsTypeOK, CircuitTypeOK
<1> QED BY <1>2, <1>3, <1>5, <1>6 DEF CircuitInv

LEMMA RecordOutcomeStep ==
  ASSUME CircuitsTypeOK, CircuitInv, NEW k \in RouteKey, NEW ok \in BOOLEAN,
         RecordOutcome(k, ok)
  PROVE  CircuitsTypeOK' /\ CircuitInv'
<1>1. OutcomeInv /\ WindowCooldown /\ EscalationBounded /\ k \in OutcomeKey
  BY CircuitInvParts, KeyKinds
<1>2. now' = now /\ escalated' = escalated
  BY DEF RecordOutcome
<1>3. CircuitTypeOK' /\ WindowCooldown'
  BY <1>1, <1>2, WindowStep DEF RecordOutcome
<1>4. OutcomeTypeOK' /\ OutcomeInv'
  BY <1>1, <1>2, FailureStep, SuccessStep DEF RecordOutcome
<1>5. CircuitsTypeOK' /\ EscalationBounded'
  BY <1>1, <1>2, <1>3, <1>4 DEF CircuitsTypeOK, EscalationBounded
<1>6. CircuitInv'
  BY <1>3, <1>4, <1>5
     DEF CircuitInv, OutcomeInv, BlockedAtMostOneCooldown, OutcomeCooldown, WindowCooldown
<1> QED BY <1>5, <1>6

LEMMA VerdictStep ==
  ASSUME CircuitsTypeOK, CircuitInv, NEW k \in RouteKey, NEW ok \in BOOLEAN,
         ReportVerifierOutcome(k, ok)
  PROVE  CircuitsTypeOK' /\ CircuitInv'
<1>1. OutcomeInv /\ WindowCooldown /\ EscalationBounded /\ k \in OutcomeKey
  BY CircuitInvParts, KeyKinds
<1>2. now' = now /\ failures' = failures /\ openedUntil' = openedUntil
  BY DEF ReportVerifierOutcome
<1>3. OutcomeTypeOK' /\ OutcomeInv'
  BY <1>1, <1>2, FailureStep, SuccessStep DEF ReportVerifierOutcome
<1>4. escalated' \in Seq(RouteKey) /\ EscalationBounded'
  BY <1>1, EscalationStep DEF ReportVerifierOutcome
<1>5. CircuitsTypeOK' /\ WindowCooldown'
  BY <1>1, <1>2, <1>3, <1>4 DEF CircuitsTypeOK, CircuitTypeOK, WindowCooldown
<1>6. CircuitInv'
  BY <1>3, <1>4, <1>5
     DEF CircuitInv, OutcomeInv, BlockedAtMostOneCooldown, OutcomeCooldown, WindowCooldown
<1> QED BY <1>5, <1>6

(* A request error files a failure under a bucket, a probe takes a slot:    *)
(* neither touches the windowed breaker or the escalations.                 *)
LEMMA ErrorOrProbeStep ==
  ASSUME CircuitsTypeOK, CircuitInv, NEW k \in OutcomeKey,
         OutcomeFailure(k, now) \/ GrantProbe(k, now),
         UNCHANGED <<now, failures, openedUntil, escalated>>
  PROVE  CircuitsTypeOK' /\ CircuitInv'
<1>1. OutcomeInv /\ WindowCooldown /\ EscalationBounded
  BY CircuitInvParts
<1>2. OutcomeTypeOK' /\ OutcomeInv'
  BY <1>1, FailureStep, GrantStep
<1>3. CircuitsTypeOK' /\ WindowCooldown' /\ EscalationBounded'
  BY <1>1, <1>2 DEF CircuitsTypeOK, CircuitTypeOK, WindowCooldown, EscalationBounded
<1>4. CircuitInv'
  BY <1>2, <1>3
     DEF CircuitInv, OutcomeInv, BlockedAtMostOneCooldown, OutcomeCooldown, WindowCooldown
<1> QED BY <1>3, <1>4

(* Every call on the breakers keeps the invariant. *)
LEMMA CircuitsStep ==
  ASSUME CircuitsTypeOK, CircuitInv, [CircuitsNext]_circuitsVars
  PROVE  CircuitsTypeOK' /\ CircuitInv'
<1>1. CASE UNCHANGED circuitsVars
  BY <1>1, CircuitsStutter
<1>2. CASE Tick
  BY <1>2, TickStep
<1>3. ASSUME NEW k \in RouteKey, NEW ok \in BOOLEAN, RecordOutcome(k, ok)
      PROVE  CircuitsTypeOK' /\ CircuitInv'
  BY <1>3, RecordOutcomeStep
<1>4. ASSUME NEW k \in RouteKey, NEW ok \in BOOLEAN, ReportVerifierOutcome(k, ok)
      PROVE  CircuitsTypeOK' /\ CircuitInv'
  BY <1>4, VerdictStep
<1>5. ASSUME NEW p \in Provider, RequestError(p)
      PROVE  CircuitsTypeOK' /\ CircuitInv'
  <2>1. BucketOf(p) \in OutcomeKey
    BY KeyKinds
  <2> QED BY <1>5, <2>1, ErrorOrProbeStep DEF RequestError
<1>6. ASSUME NEW k \in RouteKey, AcquireProbe(k)
      PROVE  CircuitsTypeOK' /\ CircuitInv'
  <2>1. k \in OutcomeKey
    BY KeyKinds
  <2> QED BY <1>6, <2>1, ErrorOrProbeStep DEF AcquireProbe
<1> QED BY <1>1, <1>2, <1>3, <1>4, <1>5, <1>6 DEF CircuitsNext

LEMMA CircuitsInitially ==
  ASSUME CircuitsInit
  PROVE  CircuitsTypeOK /\ CircuitInv
<1>1. CircuitsTypeOK
  BY FreshIsEntry, FS_EmptySet
     DEF CircuitsInit, CircuitInit, OutcomeInit, CircuitsTypeOK, CircuitTypeOK,
         OutcomeTypeOK, Unset
<1>2. /\ order = << >> /\ escalated = << >> /\ now = 1
      /\ \A k \in OutcomeKey : entries[k] = Fresh
      /\ \A k \in RouteKey : openedUntil[k] = 0
  BY DEF CircuitsInit, CircuitInit, OutcomeInit, Unset
<1>3. MapIsBounded /\ EscalationBounded
  BY <1>2, OutcomeAssumption, RouterAssumption
     DEF MapIsBounded, EscalationBounded, IsBoundedMap, IsInjective
<1>4. AbsentIsFresh /\ OpenIffStreak /\ ProbeOnlyHalfOpen
  BY <1>2, FreshIsEntry, OutcomeAssumption
     DEF AbsentIsFresh, OpenIffStreak, ProbeOnlyHalfOpen, NotOpened
<1>5. BlockedAtMostOneCooldown
  BY <1>2, FreshIsEntry, OutcomeAssumption, CircuitAssumption
     DEF BlockedAtMostOneCooldown
<1> QED BY <1>1, <1>3, <1>4, <1>5 DEF CircuitInv

(* The map and the escalation set stay within their bounds, a forgotten key *)
(* is one that never failed, a circuit is open exactly while its streak has *)
(* reached the threshold, an outstanding probe means half-open, and no      *)
(* route is blocked for longer than a cooldown: in every interleaving of    *)
(* outcomes, verdicts, request errors and probes; and the state keeps its   *)
(* type.                                                                    *)
THEOREM CircuitsInvariant == CircuitsSpec => []CircuitsSound
<1>1. CircuitsInit => CircuitsTypeOK /\ CircuitInv
  BY CircuitsInitially
<1>2. CircuitsTypeOK /\ CircuitInv /\ [CircuitsNext]_circuitsVars
        => (CircuitsTypeOK /\ CircuitInv)'
  BY CircuitsStep
<1> QED BY <1>1, <1>2, PTL DEF CircuitsSpec, CircuitsSound

----
(***************************************************************************)
(* What the breakers mean over the log of the reports.  Every report is    *)
(* one Append, and the sets the log's operators count change by at most    *)
(* the new index, so that no induction over the log is needed: the first   *)
(* lemmas say how each set grows, the steps compare that with what the     *)
(* breaker did.                                                            *)
(***************************************************************************)
Reports == [src : {"outcome", "verifier", "error", "probe"}, key : OutcomeKey,
            ok : BOOLEAN, at : Nat, drops : SUBSET OutcomeKey]

LogTyped == log \in Seq(Reports) /\ \A i \in DOMAIN log : log[i].at <= now

(* The step that files r as the n-th report. *)
Files(r, n) ==
  /\ log' \in Seq(Reports) /\ Len(log) = n - 1 /\ Len(log') = n
  /\ DOMAIN log = 1 .. (n - 1) /\ DOMAIN log' = 1 .. n
  /\ log'[n] = r /\ \A i \in 1 .. (n - 1) : log'[i] = log[i]

(* Clears, of a report and not of its index. *)
ClearsBy(r, k) ==
  \/ k \in r.drops
  \/ r.src # "probe" /\ r.ok /\ k \in {r.key, BucketOf(r.key[1])}

LEMMA Filed ==
  ASSUME CircuitsTypeOK, MapIsBounded, LogTyped,
         NEW src \in {"outcome", "verifier", "error", "probe"},
         NEW k \in OutcomeKey, NEW ok \in BOOLEAN, Report(src, k, ok)
  PROVE  \E n \in Nat \ {0} : \E r \in Reports :
           /\ Files(r, n)
           /\ r = [src |-> src, key |-> k, ok |-> ok, at |-> now,
                   drops |-> IF src = "probe" THEN {} ELSE Evicted(k)]
<1> DEFINE r == [src |-> src, key |-> k, ok |-> ok, at |-> now,
                 drops |-> IF src = "probe" THEN {} ELSE Evicted(k)]
           n == Len(log) + 1
<1>1. Evicted(k) \in SUBSET OutcomeKey
  <2>1. order \in Seq(OutcomeKey) /\ Len(order) \in Nat /\ MaxEntries \in Nat \ {0}
    BY LenProperties, OutcomeAssumption DEF CircuitsTypeOK, OutcomeTypeOK
  <2>2. CASE k \in ToSet(order) \/ Len(order) < MaxEntries
    BY <2>2 DEF Evicted, Evicts
  <2>3. CASE ~(k \in ToSet(order) \/ Len(order) < MaxEntries)
    <3>1. order # << >>
      BY <2>1, <2>3, EmptySeq
    <3>2. Head(order) \in OutcomeKey
      BY <2>1, <3>1, HeadTailProperties
    <3> QED BY <2>3, <3>2 DEF Evicted, Evicts
  <2> QED BY <2>2, <2>3
<1>2. r \in Reports
  BY <1>1 DEF Reports, CircuitsTypeOK
<1>3. log' = Append(log, r) /\ log \in Seq(Reports)
  BY DEF Report, LogTyped
<1> HIDE DEF r
<1>4. n \in Nat \ {0} /\ DOMAIN log = 1 .. Len(log) /\ Len(log) = n - 1
  BY <1>3, LenProperties
<1>5. Files(r, n)
  <2>1. /\ log' \in Seq(Reports) /\ Len(log') = Len(log) + 1
        /\ log'[Len(log) + 1] = r
        /\ \A i \in 1 .. Len(log) : log'[i] = log[i]
    BY <1>2, <1>3, AppendProperties
  <2>2. DOMAIN log' = 1 .. n
    BY <2>1, LenProperties
  <2> QED BY <1>4, <2>1, <2>2 DEF Files
<1> QED BY <1>2, <1>4, <1>5 DEF r

(* A report clears what it clears, of itself and of nobody else's past. *)
LEMMA SinceGrows ==
  ASSUME NEW n \in Nat \ {0}, NEW r, Files(r, n), NEW k
  PROVE  /\ \A i \in 1 .. (n - 1) : Clears(i, k)' <=> Clears(i, k)
         /\ Clears(n, k)' <=> ClearsBy(r, k)
         /\ \A i \in 1 .. (n - 1) : Since(i, k)' <=> Since(i, k) /\ ~ClearsBy(r, k)
         /\ Since(n, k)'
<1>1. \A i \in 1 .. (n - 1) : Clears(i, k)' <=> Clears(i, k)
  BY DEF Clears, Files
<1>2. Clears(n, k)' <=> ClearsBy(r, k)
  BY DEF Clears, ClearsBy, Files
<1>3. ASSUME NEW i \in 1 .. (n - 1)
      PROVE  Since(i, k)' <=> Since(i, k) /\ ~ClearsBy(r, k)
  <2>1. Since(i, k) <=> \A j \in (i + 1) .. (n - 1) : ~Clears(j, k)
    BY DEF Since, Files
  <2>2. Since(i, k)' <=> \A j \in (i + 1) .. n : ~Clears(j, k)'
    BY DEF Since, Files
  <2>3. \A j \in (i + 1) .. n : j = n \/ (j \in (i + 1) .. (n - 1) /\ j \in 1 .. (n - 1))
    OBVIOUS
  <2>4. n \in (i + 1) .. n /\ \A j \in (i + 1) .. (n - 1) : j \in (i + 1) .. n /\ j \in 1 .. (n - 1)
    OBVIOUS
  <2> QED BY <1>1, <1>2, <2>1, <2>2, <2>3, <2>4
<1>4. Since(n, k)'
  BY DEF Since, Files
<1> QED BY <1>1, <1>2, <1>3, <1>4

LEMMA StreakGrows ==
  ASSUME NEW n \in Nat \ {0}, NEW r, Files(r, n), NEW k
  PROVE  /\ Streak(k) \subseteq 1 .. (n - 1)
         /\ Streak(k)' = (IF ClearsBy(r, k) THEN {} ELSE Streak(k))
                           \cup (IF r.key = k /\ ~r.ok THEN {n} ELSE {})
<1>1. Streak(k) = {i \in 1 .. (n - 1) : log[i].key = k /\ ~log[i].ok /\ Since(i, k)}
  BY DEF Streak, Files
<1>2. Streak(k)' = {i \in 1 .. n : log'[i].key = k /\ ~log'[i].ok /\ Since(i, k)'}
  BY DEF Streak, Files
<1>3. \A i \in 1 .. n : i = n \/ i \in 1 .. (n - 1)
  OBVIOUS
<1>4. n \in 1 .. n /\ n \notin 1 .. (n - 1) /\ \A i \in 1 .. (n - 1) : i \in 1 .. n
  OBVIOUS
<1>5. log'[n] = r /\ \A i \in 1 .. (n - 1) : log'[i] = log[i]
  BY DEF Files
<1> QED BY <1>1, <1>2, <1>3, <1>4, <1>5, SinceGrows

LEMMA ProbeOutGrows ==
  ASSUME NEW n \in Nat \ {0}, NEW r, Files(r, n), NEW k
  PROVE  ProbeOutByLog(k)' <=>
           \/ r.src = "probe" /\ r.key = k
           \/ ProbeOutByLog(k) /\ ~ClearsBy(r, k) /\ (r.key = k => r.src = "probe")
<1> DEFINE Quiet(i) == \A j \in (i + 1) .. (n - 1) : log[j].key = k => log[j].src = "probe"
<1>1. ProbeOutByLog(k) <=>
        \E i \in 1 .. (n - 1) : log[i].src = "probe" /\ log[i].key = k /\ Since(i, k) /\ Quiet(i)
  BY DEF ProbeOutByLog, Files
<1>2. ProbeOutByLog(k)' <=>
        \E i \in 1 .. n : /\ log'[i].src = "probe" /\ log'[i].key = k /\ Since(i, k)'
                          /\ \A j \in (i + 1) .. n : log'[j].key = k => log'[j].src = "probe"
  BY DEF ProbeOutByLog, Files
<1>3. log'[n] = r /\ \A i \in 1 .. (n - 1) : log'[i] = log[i]
  BY DEF Files
<1>4. ASSUME NEW i \in 1 .. (n - 1)
      PROVE  (\A j \in (i + 1) .. n : log'[j].key = k => log'[j].src = "probe")
               <=> Quiet(i) /\ (r.key = k => r.src = "probe")
  <2>1. \A j \in (i + 1) .. n : j = n \/ (j \in (i + 1) .. (n - 1) /\ j \in 1 .. (n - 1))
    OBVIOUS
  <2>2. n \in (i + 1) .. n /\ \A j \in (i + 1) .. (n - 1) : j \in (i + 1) .. n /\ j \in 1 .. (n - 1)
    OBVIOUS
  <2> QED BY <1>3, <2>1, <2>2
<1>5. (n + 1) .. n = {}
  OBVIOUS
<1>6. n \in 1 .. n /\ \A i \in 1 .. n : i = n \/ i \in 1 .. (n - 1)
  OBVIOUS
<1>7. \A i \in 1 .. (n - 1) : i \in 1 .. n
  OBVIOUS
<1> HIDE DEF Quiet
<1>8. ASSUME ProbeOutByLog(k)'
      PROVE  \/ r.src = "probe" /\ r.key = k
             \/ ProbeOutByLog(k) /\ ~ClearsBy(r, k) /\ (r.key = k => r.src = "probe")
  <2>1. PICK i \in 1 .. n : /\ log'[i].src = "probe" /\ log'[i].key = k /\ Since(i, k)'
                            /\ \A j \in (i + 1) .. n : log'[j].key = k => log'[j].src = "probe"
    BY <1>2, <1>8
  <2>2. CASE i = n
    BY <1>3, <2>1, <2>2
  <2>3. CASE i \in 1 .. (n - 1)
    BY <1>1, <1>3, <1>4, <2>1, <2>3, SinceGrows
  <2> QED BY <1>6, <2>2, <2>3
<1>9. ASSUME r.src = "probe" /\ r.key = k
      PROVE  ProbeOutByLog(k)'
  BY <1>2, <1>3, <1>5, <1>6, <1>9, SinceGrows
<1>10. ASSUME ProbeOutByLog(k), ~ClearsBy(r, k), r.key = k => r.src = "probe"
       PROVE  ProbeOutByLog(k)'
  <2>1. PICK i \in 1 .. (n - 1) : log[i].src = "probe" /\ log[i].key = k /\ Since(i, k) /\ Quiet(i)
    BY <1>1, <1>10
  <2> QED BY <1>2, <1>3, <1>4, <1>7, <1>10, <2>1, SinceGrows
<1> QED BY <1>8, <1>9, <1>10

(* Every set of indices that is not empty has a last one. *)
LEMMA LastExists ==
  ASSUME NEW n \in Nat, NEW S \in SUBSET (1 .. n), S # {}
  PROVE  Max(S) \in S /\ \A i \in S : i <= Max(S)
<1> DEFINE R == OpToRel(<, Nat)
           Above == {m \in Nat : \A i \in S : i <= m}
<1>1. IsWellFoundedOn(R, Nat)
  BY NatLessThanWellFounded
<1>2. \A x, y \in Nat : <<x, y>> \in R <=> x < y
  BY DEF OpToRel
<1>3. n \in Above
  OBVIOUS
<1> HIDE DEF R
<1>4. PICK m \in Above : \A o \in Above : <<o, m>> \notin R
  BY <1>1, <1>3, WFMin
<1>5. m \in Nat /\ (\A i \in S : i <= m) /\ \A o \in Above : ~(o < m)
  BY <1>2, <1>4
<1>6. m \in S
  <2>1. SUFFICES ASSUME m \notin S PROVE FALSE
    OBVIOUS
  <2>2. \A i \in S : i \in 1 .. n /\ i <= m /\ i # m
    BY <1>5, <2>1
  <2>3. PICK i \in S : TRUE
    OBVIOUS
  <2>4. m - 1 \in Nat /\ \A j \in S : j <= m - 1
    BY <1>5, <2>2, <2>3
  <2>5. m - 1 \in Above /\ m - 1 < m
    BY <1>5, <2>4
  <2> QED BY <1>5, <2>5
<1>7. \E x \in S : \A y \in S : x >= y
  BY <1>5, <1>6
<1>8. Max(S) \in S /\ \A y \in S : Max(S) >= y
  BY <1>7 DEF Max
<1> QED BY <1>8

LEMMA LastAdded ==
  ASSUME NEW n \in Nat \ {0}, NEW S \in SUBSET (1 .. (n - 1))
  PROVE  Max(S \cup {n}) = n
<1>1. S \cup {n} \in SUBSET (1 .. n) /\ S \cup {n} # {}
  OBVIOUS
<1>2. /\ Max(S \cup {n}) \in S \cup {n}
      /\ \A i \in S \cup {n} : i <= Max(S \cup {n})
  BY <1>1, LastExists
<1>3. \A i \in S : i < n
  OBVIOUS
<1> DEFINE m == Max(S \cup {n})
<1>4. m \in S \cup {n} /\ n <= m
  BY <1>2
<1> HIDE DEF m
<1>5. m = n
  BY <1>3, <1>4
<1> QED BY <1>5 DEF m

(* What one report does to the entry of a key. *)
EntryMatches(k) ==
  /\ entries[k].consecutive = Cardinality(Streak(k))
  /\ entries[k].openedUntil = OpenUntilByLog(k)
  /\ entries[k].probeGranted = ProbeOutByLog(k)

(* A key the report leaves alone keeps the streak it has. *)
LEMMA EntryKept ==
  ASSUME NEW n \in Nat \ {0}, NEW r, Files(r, n), NEW k,
         EntryMatches(k), ~ClearsBy(r, k), r.key = k => r.ok,
         entries'[k].consecutive = entries[k].consecutive,
         entries'[k].openedUntil = entries[k].openedUntil,
         entries'[k].probeGranted = (entries[k].probeGranted \/ r.key = k),
         r.key = k => r.src = "probe"
  PROVE  EntryMatches(k)'
<1>1. Streak(k)' = Streak(k) /\ Streak(k) \subseteq 1 .. (n - 1)
  BY StreakGrows
<1>2. ProbeOutByLog(k)' <=> ProbeOutByLog(k) \/ r.key = k
  BY ProbeOutGrows
<1>3. OpenUntilByLog(k)' = OpenUntilByLog(k)
  <2>1. CASE Streak(k) = {}
    <3>1. Cardinality(Streak(k)) < ConsecutiveFailures
      BY <2>1, FS_EmptySet, OutcomeAssumption
    <3> QED BY <1>1, <3>1 DEF OpenUntilByLog
  <2>2. CASE Streak(k) # {}
    <3>1. n - 1 \in Nat
      OBVIOUS
    <3>2. Max(Streak(k)) \in 1 .. (n - 1)
      BY <1>1, <2>2, <3>1, LastExists
    <3> QED BY <1>1, <3>2 DEF OpenUntilByLog, Files
  <2> QED BY <2>1, <2>2
<1> QED BY <1>1, <1>2, <1>3 DEF EntryMatches, ProbeOutByLog

(* A cleared key has no streak, no cooldown and no slot out. *)
LEMMA EntryCleared ==
  ASSUME NEW n \in Nat \ {0}, NEW r, Files(r, n), NEW k,
         ClearsBy(r, k), r.key = k => r.ok, r.key = k => r.src # "probe",
         entries'[k] = Fresh
  PROVE  EntryMatches(k)'
<1>1. Streak(k)' = {}
  BY StreakGrows
<1>2. ~ProbeOutByLog(k)'
  BY ProbeOutGrows
<1>3. Cardinality({}) = 0
  BY FS_EmptySet
<1>4. OpenUntilByLog(k)' = NotOpened
  BY <1>1, <1>3, OutcomeAssumption DEF OpenUntilByLog
<1>5. ProbeOutByLog(k)' = FALSE
  BY <1>2 DEF ProbeOutByLog
<1> QED BY <1>1, <1>3, <1>4, <1>5, FreshIsEntry DEF EntryMatches, NotOpened

(* A failure is one more of its key's streak; from the threshold on it      *)
(* opens the circuit from its own instant.                                  *)
LEMMA EntryFailed ==
  ASSUME NEW n \in Nat \ {0}, NEW r, Files(r, n), NEW k,
         EntryMatches(k), ~ClearsBy(r, k), r.key = k, ~r.ok, r.src # "probe",
         r.at = now, entries'[k] = Failed(entries[k], now)
  PROVE  EntryMatches(k)'
<1>1. /\ Streak(k) \subseteq 1 .. (n - 1)
      /\ Streak(k)' = Streak(k) \cup {n}
  BY StreakGrows
<1>2. /\ IsFiniteSet(Streak(k)) /\ Cardinality(Streak(k)) \in Nat
      /\ Cardinality(Streak(k)') = Cardinality(Streak(k)) + 1
  <2>1. IsFiniteSet(1 .. (n - 1)) /\ n \notin 1 .. (n - 1)
    BY FS_Interval
  <2>2. IsFiniteSet(Streak(k)) /\ n \notin Streak(k)
    BY <1>1, <2>1, FS_Subset
  <2> QED BY <1>1, <2>2, FS_AddElement, FS_CardinalityType
<1>3. Max(Streak(k)') = n /\ log'[n].at = now
  BY <1>1, LastAdded DEF Files
<1>4. /\ Failed(entries[k], now).consecutive = entries[k].consecutive + 1
      /\ Failed(entries[k], now).openedUntil =
           IF entries[k].consecutive + 1 >= ConsecutiveFailures
           THEN now + OutcomeCooldownMs ELSE entries[k].openedUntil
      /\ Failed(entries[k], now).probeGranted = FALSE
  BY DEF Failed
<1>5. ProbeOutByLog(k)' = FALSE
  <2>1. ~ProbeOutByLog(k)'
    BY ProbeOutGrows
  <2> QED BY <2>1 DEF ProbeOutByLog
<1>6. OpenUntilByLog(k)' = Failed(entries[k], now).openedUntil
  <2>1. CASE Cardinality(Streak(k)') >= ConsecutiveFailures
    BY <1>2, <1>3, <1>4, <2>1, OutcomeAssumption DEF EntryMatches, OpenUntilByLog
  <2>2. CASE ~(Cardinality(Streak(k)') >= ConsecutiveFailures)
    BY <1>2, <1>4, <2>2, OutcomeAssumption DEF EntryMatches, OpenUntilByLog
  <2> QED BY <2>1, <2>2
<1> QED BY <1>2, <1>4, <1>5, <1>6 DEF EntryMatches

(* Making room for a key never pushes out the key itself. *)
LEMMA EvictedIsAnother ==
  ASSUME CircuitsTypeOK, NEW k
  PROVE  k \notin Evicted(k)
<1>1. order \in Seq(OutcomeKey) /\ Len(order) \in Nat /\ MaxEntries \in Nat \ {0}
  BY LenProperties, OutcomeAssumption DEF CircuitsTypeOK, OutcomeTypeOK
<1>2. CASE k \in ToSet(order) \/ Len(order) < MaxEntries
  BY <1>2 DEF Evicted, Evicts
<1>3. CASE ~(k \in ToSet(order) \/ Len(order) < MaxEntries)
  <2>1. order # << >>
    BY <1>1, <1>3, EmptySeq
  <2>2. Head(order) = order[1] /\ 1 \in DOMAIN order
    BY <1>1, <2>1, LenProperties, HeadTailProperties, EmptySeq
  <2>3. Head(order) \in ToSet(order)
    BY <2>2 DEF ToSet
  <2> QED BY <1>3, <2>3 DEF Evicted, Evicts
<1> QED BY <1>2, <1>3

LEMMA OutcomeMatchesParts ==
  OutcomeBreakerMatchesLog <=> \A k \in OutcomeKey : EntryMatches(k)
BY DEF OutcomeBreakerMatchesLog, EntryMatches

LEMMA FailureMatches ==
  ASSUME CircuitsTypeOK, OutcomeBreakerMatchesLog, NEW q \in OutcomeKey,
         OutcomeFailure(q, now),
         NEW n \in Nat \ {0}, NEW r, Files(r, n),
         r.src # "probe", r.key = q, ~r.ok, r.at = now, r.drops = Evicted(q)
  PROVE  OutcomeBreakerMatchesLog'
<1>1. \A x \in OutcomeKey :
        entries'[x] = IF x = q THEN Failed(entries[q], now)
                      ELSE IF x \in Evicted(q) THEN Fresh ELSE entries[x]
  BY DEF OutcomeFailure
<1>2. \A x : ClearsBy(r, x) <=> x \in Evicted(q)
  BY DEF ClearsBy
<1>3. ASSUME NEW k \in OutcomeKey
      PROVE  EntryMatches(k)'
  <2>1. EntryMatches(k)
    BY OutcomeMatchesParts
  <2>2. CASE k = q
    BY <1>1, <1>2, <2>1, <2>2, EntryFailed, EvictedIsAnother
  <2>3. CASE k # q /\ k \in Evicted(q)
    BY <1>1, <1>2, <2>1, <2>3, EntryCleared
  <2>4. CASE k # q /\ k \notin Evicted(q)
    <3>1. entries'[k] = entries[k] /\ entries[k].probeGranted \in BOOLEAN
      BY <1>1, <2>4 DEF CircuitsTypeOK, OutcomeTypeOK, Entry
    <3>2. entries'[k].probeGranted = (entries[k].probeGranted \/ r.key = k)
      BY <2>4, <3>1
    <3> QED BY <1>2, <2>1, <2>4, <3>1, <3>2, EntryKept
  <2> QED BY <2>2, <2>3, <2>4
<1>4. (\A k \in OutcomeKey : EntryMatches(k))'
  BY <1>3
<1> QED BY <1>4, OutcomeMatchesParts DEF OutcomeBreakerMatchesLog, EntryMatches

LEMMA SuccessMatches ==
  ASSUME CircuitsTypeOK, OutcomeBreakerMatchesLog, NEW q \in OutcomeKey,
         OutcomeSuccess(q),
         NEW n \in Nat \ {0}, NEW r, Files(r, n),
         r.src # "probe", r.key = q, r.ok, r.drops = Evicted(q)
  PROVE  OutcomeBreakerMatchesLog'
<1>1. \A x \in OutcomeKey :
        entries'[x] = IF x \in ClearedBy(q) \cup Evicted(q) THEN Fresh ELSE entries[x]
  BY DEF OutcomeSuccess
<1>2. \A x : ClearsBy(r, x) <=> x \in ClearedBy(q) \cup Evicted(q)
  BY DEF ClearsBy, ClearedBy
<1>3. q \in ClearedBy(q)
  BY DEF ClearedBy
<1>4. ASSUME NEW k \in OutcomeKey
      PROVE  EntryMatches(k)'
  <2>1. EntryMatches(k)
    BY OutcomeMatchesParts
  <2>2. CASE k \in ClearedBy(q) \cup Evicted(q)
    BY <1>1, <1>2, <2>2, EntryCleared
  <2>3. CASE k \notin ClearedBy(q) \cup Evicted(q)
    <3>1. entries'[k] = entries[k] /\ entries[k].probeGranted \in BOOLEAN
      BY <1>1, <2>3 DEF CircuitsTypeOK, OutcomeTypeOK, Entry
    <3>2. entries'[k].probeGranted = (entries[k].probeGranted \/ r.key = k)
      BY <1>3, <2>3, <3>1
    <3> QED BY <1>2, <1>3, <2>1, <2>3, <3>1, <3>2, EntryKept
  <2> QED BY <2>2, <2>3
<1>5. (\A k \in OutcomeKey : EntryMatches(k))'
  BY <1>4
<1> QED BY <1>5, OutcomeMatchesParts DEF OutcomeBreakerMatchesLog, EntryMatches

LEMMA GrantMatches ==
  ASSUME CircuitsTypeOK, OutcomeBreakerMatchesLog, NEW q \in OutcomeKey,
         GrantProbe(q, now),
         NEW n \in Nat \ {0}, NEW r, Files(r, n),
         r.src = "probe", r.key = q, r.ok, r.drops = {}
  PROVE  OutcomeBreakerMatchesLog'
<1>1. entries \in [OutcomeKey -> Entry] /\ entries' = [entries EXCEPT ![q].probeGranted = TRUE]
  BY DEF GrantProbe, CircuitsTypeOK, OutcomeTypeOK
<1>2. \A x : ~ClearsBy(r, x)
  BY DEF ClearsBy
<1>3. ASSUME NEW k \in OutcomeKey
      PROVE  EntryMatches(k)'
  <2>1. EntryMatches(k)
    BY OutcomeMatchesParts
  <2>2. /\ entries[k].probeGranted \in BOOLEAN
        /\ entries'[k].consecutive = entries[k].consecutive
        /\ entries'[k].openedUntil = entries[k].openedUntil
        /\ k # q => entries'[k].probeGranted = entries[k].probeGranted
        /\ k = q => entries'[k].probeGranted = TRUE
    BY <1>1 DEF Entry
  <2>3. entries'[k].probeGranted = (entries[k].probeGranted \/ r.key = k)
    BY <2>2
  <2> QED BY <1>2, <2>1, <2>2, <2>3, EntryKept
<1>4. (\A k \in OutcomeKey : EntryMatches(k))'
  BY <1>3
<1> QED BY <1>4, OutcomeMatchesParts DEF OutcomeBreakerMatchesLog, EntryMatches

(* A slot is granted only while none is out: the past grants of the key are *)
(* all behind a failure or a clearing report of it.                         *)
LEMMA OneProbeStep ==
  ASSUME OneProbePerEpisode, NEW n \in Nat \ {0}, NEW r, Files(r, n),
         r.src = "probe" => ~ProbeOutByLog(r.key)
  PROVE  OneProbePerEpisode'
<1>1. log'[n] = r /\ (\A i \in 1 .. (n - 1) : log'[i] = log[i])
      /\ DOMAIN log = 1 .. (n - 1) /\ DOMAIN log' = 1 .. n /\ Len(log) = n - 1
  BY DEF Files
<1>2. \A m, k : Clears(m, k) <=> ClearsBy(log[m], k)
  BY DEF Clears, ClearsBy
<1>3. SUFFICES
        ASSUME NEW i \in 1 .. n, NEW j \in 1 .. n, i < j,
               log'[i].src = "probe", log'[j].src = "probe", log'[i].key = log'[j].key
        PROVE  \E m \in (i + 1) .. (j - 1) :
                 \/ log'[m].key = log'[i].key /\ log'[m].src # "probe"
                 \/ ClearsBy(log'[m], log'[i].key)
  BY <1>1 DEF OneProbePerEpisode, Clears, ClearsBy
<1>4. i \in 1 .. (n - 1) /\ log'[i] = log[i]
  BY <1>1, <1>3
<1>5. \A m \in (i + 1) .. (j - 1) : m \in 1 .. (n - 1)
  BY <1>3
<1>6. CASE j = n
  <2>1. ~ProbeOutByLog(r.key) /\ log[i].src = "probe" /\ log[i].key = r.key
    BY <1>1, <1>3, <1>4, <1>6
  <2>2. PICK m \in (i + 1) .. (n - 1) :
          Clears(m, r.key) \/ (log[m].key = r.key /\ log[m].src # "probe")
    BY <1>1, <1>4, <2>1 DEF ProbeOutByLog, Since
  <2> QED BY <1>1, <1>2, <1>4, <1>5, <1>6, <2>1, <2>2
<1>7. CASE j # n
  <2>1. j \in 1 .. (n - 1) /\ log'[j] = log[j]
    BY <1>1, <1>3, <1>7
  <2>2. PICK m \in (i + 1) .. (j - 1) :
          Clears(m, log[i].key) \/ (log[m].key = log[i].key /\ log[m].src # "probe")
    BY <1>1, <1>3, <1>4, <2>1 DEF OneProbePerEpisode
  <2> QED BY <1>1, <1>2, <1>4, <1>5, <2>2
<1> QED BY <1>6, <1>7

(* What the escalation set is to the log: it holds no route the verifier    *)
(* has not failed since its last PASS, and it holds the route of the last   *)
(* FAIL.  (It need not hold the others: it is bounded.)                     *)
IsLastFail(i) ==
  \A j \in (i + 1) .. Len(log) : log[j].src # "verifier" \/ log[j].ok

StandsFor(k) ==
  /\ k \in Escalated => \E i \in DOMAIN log : Unanswered(i, k)
  /\ \A i \in DOMAIN log : Unanswered(i, k) /\ IsLastFail(i) => k \in Escalated

FailsStand == \A k \in RouteKey : StandsFor(k)

LEMMA UnansweredGrows ==
  ASSUME NEW n \in Nat \ {0}, NEW r, Files(r, n), NEW k
  PROVE  /\ \A i \in 1 .. (n - 1) :
              /\ Unanswered(i, k)' <=>
                   Unanswered(i, k) /\ (r.src = "verifier" /\ r.key = k => ~r.ok)
              /\ IsLastFail(i)' <=> IsLastFail(i) /\ (r.src # "verifier" \/ r.ok)
         /\ Unanswered(n, k)' <=> r.src = "verifier" /\ r.key = k /\ ~r.ok
         /\ IsLastFail(n)'
<1>1. /\ log'[n] = r /\ (\A i \in 1 .. (n - 1) : log'[i] = log[i])
      /\ Len(log) = n - 1 /\ Len(log') = n
  BY DEF Files
<1>2. (n + 1) .. n = {}
  OBVIOUS
<1>3. ASSUME NEW i \in 1 .. (n - 1)
      PROVE  /\ Unanswered(i, k)' <=>
                  Unanswered(i, k) /\ (r.src = "verifier" /\ r.key = k => ~r.ok)
             /\ IsLastFail(i)' <=> IsLastFail(i) /\ (r.src # "verifier" \/ r.ok)
  <2>1. \A j \in (i + 1) .. n : j = n \/ (j \in (i + 1) .. (n - 1) /\ j \in 1 .. (n - 1))
    OBVIOUS
  <2>2. n \in (i + 1) .. n /\ \A j \in (i + 1) .. (n - 1) : j \in (i + 1) .. n /\ j \in 1 .. (n - 1)
    OBVIOUS
  <2>3. Unanswered(i, k)' <=>
          Unanswered(i, k) /\ (r.src = "verifier" /\ r.key = k => ~r.ok)
    BY <1>1, <2>1, <2>2 DEF Unanswered
  <2>4. IsLastFail(i)' <=> IsLastFail(i) /\ (r.src # "verifier" \/ r.ok)
    BY <1>1, <2>1, <2>2 DEF IsLastFail
  <2> QED BY <2>3, <2>4
<1>4. Unanswered(n, k)' <=> r.src = "verifier" /\ r.key = k /\ ~r.ok
  BY <1>1, <1>2 DEF Unanswered
<1>5. IsLastFail(n)'
  BY <1>1, <1>2 DEF IsLastFail
<1> QED BY <1>3, <1>4, <1>5

(* A verdict moves its own route; whatever else is reported moves none.  A  *)
(* FAIL may push out a route that failed before it, never the one it names. *)
LEMMA FailsStandStep ==
  ASSUME FailsStand, NEW n \in Nat \ {0}, NEW r, Files(r, n),
         IF r.src # "verifier" THEN Escalated' = Escalated
         ELSE IF r.ok THEN Escalated' = Escalated \ {r.key}
         ELSE r.key \in Escalated' /\ Escalated' \subseteq Escalated \cup {r.key}
  PROVE  FailsStand'
<1>1. DOMAIN log = 1 .. (n - 1) /\ DOMAIN log' = 1 .. n
  BY DEF Files
<1>2. n \in 1 .. n /\ \A i \in 1 .. n : i = n \/ i \in 1 .. (n - 1)
  OBVIOUS
<1>3. \A i \in 1 .. (n - 1) : i \in 1 .. n
  OBVIOUS
<1>4. ASSUME NEW k \in RouteKey
      PROVE  StandsFor(k)'
  <2>1. StandsFor(k)
    BY DEF FailsStand
  <2>2. ASSUME k \in Escalated'
        PROVE  \E i \in 1 .. n : Unanswered(i, k)'
    <3>1. CASE r.src = "verifier" /\ r.key = k
      BY <1>2, <2>2, <3>1, UnansweredGrows
    <3>2. CASE ~(r.src = "verifier" /\ r.key = k)
      <4>1. k \in Escalated
        BY <2>2, <3>2
      <4>2. PICK i \in 1 .. (n - 1) : Unanswered(i, k)
        BY <1>1, <2>1, <4>1 DEF StandsFor
      <4> QED BY <1>3, <3>2, <4>2, UnansweredGrows
    <3> QED BY <3>1, <3>2
  <2>3. ASSUME NEW i \in 1 .. n, Unanswered(i, k)', IsLastFail(i)'
        PROVE  k \in Escalated'
    <3>1. CASE i = n
      BY <2>3, <3>1, UnansweredGrows
    <3>2. CASE i \in 1 .. (n - 1)
      <4>1. /\ Unanswered(i, k) /\ (r.src = "verifier" /\ r.key = k => ~r.ok)
            /\ IsLastFail(i) /\ (r.src # "verifier" \/ r.ok)
        BY <2>3, <3>2, UnansweredGrows
      <4>2. k \in Escalated
        BY <1>1, <2>1, <3>2, <4>1 DEF StandsFor
      <4> QED BY <4>1, <4>2
    <3> QED BY <1>2, <3>1, <3>2
  <2> QED BY <1>1, <2>2, <2>3 DEF StandsFor
<1>5. (\A k \in RouteKey : StandsFor(k))'
  BY <1>4
<1> QED BY <1>5 DEF FailsStand

(* What the effort of a request is to the escalation set. *)
LEMMA EffortFollowsFails ==
  ASSUME FailsStand
  PROVE  EscalatedOnFailOnly
<1>1. ASSUME NEW k \in RouteKey, NEW pacing \in Pacings
      PROVE  LET standing == {i \in DOMAIN log : Unanswered(i, k)}
                 last == \E i \in standing : IsLastFail(i)
                 base == BaseEffort(pacing, "FREE_LIMITED")
                 effort == EffortFor(pacing, "FREE_LIMITED", k, FALSE)
             IN  /\ effort # base => standing # {} /\ pacing.escalateOnVerifierFail /\ OneAbove(base, effort)
                 /\ (last /\ pacing.escalateOnVerifierFail /\ base \notin {AdapterDefault, "max"})
                      => effort # base
  <2> DEFINE standing == {i \in DOMAIN log : Unanswered(i, k)}
             last == \E i \in standing : IsLastFail(i)
             base == BaseEffort(pacing, "FREE_LIMITED")
             effort == EffortFor(pacing, "FREE_LIMITED", k, FALSE)
  <2>1. k \in Escalated => standing # {}
    BY DEF FailsStand, StandsFor
  <2>2. last => k \in Escalated
    BY DEF FailsStand, StandsFor
  <2>3. effort = IF base # AdapterDefault /\ pacing.escalateOnVerifierFail /\ k \in Escalated
                 THEN EscalateEffort(base) ELSE base
    BY DEF EffortFor
  <2>4. base \in {"off", "low", "high", "max", AdapterDefault}
    <3>1. DOMAIN EffortLevels = 1 .. 4
      BY DEF EffortLevels
    <3>2. ToSet(EffortLevels) \subseteq {"off", "low", "high", "max"}
      BY <3>1 DEF EffortLevels, ToSet
    <3>3. pacing.byCostClass \in [{"FREE_LIMITED"} -> ToSet(EffortLevels)]
      BY DEF Pacings, EffortPacing
    <3> QED BY <3>2, <3>3 DEF BaseEffort
  <2>5. ASSUME base \in {"off", "low", "high"}
        PROVE  EscalateEffort(base) # base /\ OneAbove(base, EscalateEffort(base))
    <3>1. /\ DOMAIN EffortLevels = 1 .. 4
          /\ EffortLevels[1] = "off" /\ EffortLevels[2] = "low"
          /\ EffortLevels[3] = "high" /\ EffortLevels[4] = "max"
      BY DEF EffortLevels
    <3>2. CASE base = "off"
      <4>1. EscalateEffort(base) = "low"
        BY <3>2 DEF EscalateEffort
      <4> QED BY <3>1, <3>2, <4>1 DEF OneAbove
    <3>3. CASE base = "low"
      <4>1. EscalateEffort(base) = "high"
        BY <3>3 DEF EscalateEffort
      <4>2. 3 \in DOMAIN EffortLevels \ {1} /\ 3 - 1 = 2
        BY <3>1
      <4> QED BY <3>1, <3>3, <4>1, <4>2 DEF OneAbove
    <3>4. CASE base = "high"
      <4>1. EscalateEffort(base) = "max"
        BY <3>4 DEF EscalateEffort
      <4> QED BY <3>1, <3>4, <4>1 DEF OneAbove
    <3> QED BY <2>5, <3>2, <3>3, <3>4
  <2>6. EscalateEffort("max") = "max"
    BY DEF EscalateEffort
  <2> HIDE DEF standing, last, base, effort
  <2>7. /\ effort # base => standing # {} /\ pacing.escalateOnVerifierFail /\ OneAbove(base, effort)
        /\ (last /\ pacing.escalateOnVerifierFail /\ base \notin {AdapterDefault, "max"})
             => effort # base
    BY <2>1, <2>2, <2>3, <2>4, <2>5, <2>6
  <2> QED BY <2>7 DEF standing, last, base, effort
<1> QED BY <1>1 DEF EscalatedOnFailOnly, IsLastFail

(***************************************************************************)
(* The windowed breaker keeps a list that every failure prunes; the log    *)
(* keeps everything.  What ties them: the list is the failures of the      *)
(* streak that no later failure of it has found outside its window, each   *)
(* numbered among those of its own instant.                                *)
(***************************************************************************)
Kept(k) ==
  {j \in WindowStreak(k) :
     \A i \in WindowStreak(k) : log[i].at - log[j].at <= WindowMs}

Twins(j, k) == {i \in WindowStreak(k) : i < j /\ log[i].at = log[j].at}

Listed(j, k) == [at |-> log[j].at, nth |-> Cardinality(Twins(j, k))]

WindowListed(k) == failures[k] = {Listed(j, k) : j \in Kept(k)}

WindowKept == \A k \in RouteKey : WindowListed(k)

(* Counting the image of an injection. *)
LEMMA ImageCount ==
  ASSUME NEW S, IsFiniteSet(S), NEW f, f = [x \in S |-> f[x]],
         \A x, y \in S : f[x] = f[y] => x = y
  PROVE  /\ IsFiniteSet({f[x] : x \in S})
         /\ Cardinality({f[x] : x \in S}) = Cardinality(S)
<1> DEFINE T == {f[x] : x \in S}
<1>1. f \in Surjection(S, T) /\ f \in Injection(S, T)
  BY DEF Surjection, Injection, IsInjective
<1> QED BY <1>1, FS_Surjection

LEMMA WindowStreakGrows ==
  ASSUME NEW n \in Nat \ {0}, NEW r, Files(r, n), NEW k
  PROVE  /\ WindowStreak(k) \subseteq 1 .. (n - 1)
         /\ WindowStreak(k)' = IF r.src = "outcome" /\ r.key = k
                               THEN IF r.ok THEN {} ELSE WindowStreak(k) \cup {n}
                               ELSE WindowStreak(k)
<1> DEFINE New == IF r.src = "outcome" /\ r.key = k THEN {n} ELSE {}
<1>1. /\ log'[n] = r /\ (\A i \in 1 .. (n - 1) : log'[i] = log[i])
      /\ DOMAIN log = 1 .. (n - 1) /\ DOMAIN log' = 1 .. n
  BY DEF Files
<1>2. \A i : i \in 1 .. n <=> i = n \/ i \in 1 .. (n - 1)
  OBVIOUS
<1>3. n \notin 1 .. (n - 1) /\ \A i \in 1 .. (n - 1) : n > i /\ ~(i > n)
  OBVIOUS
<1>4. Attributed(k) \subseteq 1 .. (n - 1) /\ Attributed(k)' = Attributed(k) \cup New
  BY <1>1, <1>2, <1>3 DEF Attributed
<1>5. WindowStreak(k) = {i \in Attributed(k) :
        ~log[i].ok /\ \A j \in Attributed(k) : j > i => ~log[j].ok}
  BY DEF WindowStreak
<1>6. WindowStreak(k)' = {i \in Attributed(k) \cup New :
        ~log'[i].ok /\ \A j \in Attributed(k) \cup New : j > i => ~log'[j].ok}
  BY <1>4 DEF WindowStreak
<1>7. \A i \in Attributed(k) : log'[i] = log[i] /\ n > i /\ i # n
  BY <1>1, <1>3, <1>4
<1>8. ~(n > n)
  OBVIOUS
<1>9. CASE r.src = "outcome" /\ r.key = k /\ r.ok
  BY <1>1, <1>4, <1>5, <1>6, <1>7, <1>9
<1>10. CASE r.src = "outcome" /\ r.key = k /\ ~r.ok
  <2>1. \A i \in Attributed(k) : ~(i > n)
    BY <1>3, <1>4
  <2> QED BY <1>1, <1>4, <1>5, <1>6, <1>7, <1>8, <1>10, <2>1
<1>11. CASE ~(r.src = "outcome" /\ r.key = k)
  <2>1. New = {}
    BY <1>11
  <2> QED BY <1>4, <1>5, <1>6, <1>7, <1>11, <2>1
<1> QED BY <1>9, <1>10, <1>11

LEMMA StreakFinite ==
  ASSUME LogTyped, NEW k
  PROVE  /\ WindowStreak(k) \subseteq DOMAIN log
         /\ IsFiniteSet(WindowStreak(k))
         /\ \A i \in DOMAIN log : i \in Nat /\ log[i].at \in Nat /\ log[i].at <= now
<1>1. Len(log) \in Nat /\ DOMAIN log = 1 .. Len(log)
  BY LenProperties DEF LogTyped
<1>2. WindowStreak(k) \subseteq 1 .. Len(log)
  BY <1>1 DEF WindowStreak, Attributed
<1>3. IsFiniteSet(1 .. Len(log))
  BY <1>1, FS_Interval
<1>4. \A i \in DOMAIN log : log[i] \in Reports
  BY DEF LogTyped
<1>5. \A i \in DOMAIN log : i \in Nat /\ log[i].at \in Nat /\ log[i].at <= now
  BY <1>1, <1>4 DEF LogTyped, Reports
<1> QED BY <1>1, <1>2, <1>3, <1>5, FS_Subset

(* No two failures of a streak are listed alike. *)
ListsApart ==
  \A k \in RouteKey :
    \A i, j \in WindowStreak(k) : Listed(i, k) = Listed(j, k) => i = j

LEMMA ListedApart == LogTyped => ListsApart
<1>1. ASSUME LogTyped, NEW k \in RouteKey
      PROVE  \A i, j \in WindowStreak(k) : Listed(i, k) = Listed(j, k) => i = j
  <2>1. /\ IsFiniteSet(WindowStreak(k))
        /\ \A i \in WindowStreak(k) : i \in Nat
    BY <1>1, StreakFinite
  <2>2. ASSUME NEW i \in WindowStreak(k), NEW j \in WindowStreak(k),
               i < j, Listed(i, k) = Listed(j, k)
        PROVE  FALSE
    <3>1. /\ log[i].at = log[j].at
          /\ Cardinality(Twins(i, k)) = Cardinality(Twins(j, k))
      BY <2>2 DEF Listed
    <3>2. Twins(i, k) \subseteq Twins(j, k)
      BY <2>1, <2>2, <3>1 DEF Twins
    <3>3. IsFiniteSet(Twins(j, k))
      BY <2>1, FS_Subset DEF Twins
    <3>4. Twins(i, k) = Twins(j, k)
      BY <3>1, <3>2, <3>3, FS_Subset
    <3>5. i \in Twins(j, k) /\ i \notin Twins(i, k)
      BY <2>1, <2>2, <3>1 DEF Twins
    <3> QED BY <3>4, <3>5
  <2>3. SUFFICES ASSUME NEW i \in WindowStreak(k), NEW j \in WindowStreak(k),
                        Listed(i, k) = Listed(j, k), i # j
                 PROVE  FALSE
    OBVIOUS
  <2>4. i < j \/ j < i
    BY <2>1, <2>3
  <2>5. CASE i < j
    BY <2>2, <2>3, <2>5
  <2>6. CASE j < i
    BY <2>2, <2>3, <2>6
  <2> QED BY <2>4, <2>5, <2>6
<1> QED BY <1>1 DEF ListsApart

(* A failure prunes the list and adds itself to it. *)
LEMMA WindowFailureListed ==
  ASSUME CircuitsTypeOK, LogTyped, LogTyped', NEW k \in RouteKey, WindowListed(k),
         WindowFailure(k, now), NEW n \in Nat \ {0}, NEW r, Files(r, n),
         r.src = "outcome", r.key = k, ~r.ok, r.at = now
  PROVE  /\ WindowListed(k)'
         /\ Cardinality(failures'[k]) = Cardinality(Kept(k)')
         /\ Kept(k)' = {j \in WindowStreak(k)' : now - log'[j].at <= WindowMs}
<1> DEFINE Old == WindowStreak(k)
           Recent == {j \in Old : now - log[j].at <= WindowMs}
           Now == {j \in Old : log[j].at = now}
<1>1. /\ Old \subseteq 1 .. (n - 1) /\ WindowStreak(k)' = Old \cup {n}
      /\ log'[n] = r /\ (\A i \in 1 .. (n - 1) : log'[i] = log[i])
  BY WindowStreakGrows DEF Files
<1>2. /\ IsFiniteSet(Old) /\ now \in Nat /\ WindowMs \in Nat
      /\ \A j \in Old : j \in Nat /\ j < n /\ log[j].at \in Nat /\ log[j].at <= now
  <2>1. \A j \in Old : j \in 1 .. (n - 1)
    BY <1>1
  <2> QED BY <2>1, StreakFinite, CircuitAssumption DEF CircuitsTypeOK
<1>3. \A j \in Old : log'[j] = log[j]
  BY <1>1
<1> HIDE DEF Old
<1>4. Recent \subseteq Kept(k)
  BY <1>2 DEF Kept, Old
<1>5. Kept(k)' = Recent \cup {n}
  <2>1. Kept(k)' = {j \in Old \cup {n} :
                      \A i \in Old \cup {n} : log'[i].at - log'[j].at <= WindowMs}
    BY <1>1 DEF Kept
  <2>2. now - now <= WindowMs /\ \A j \in Old : log[j].at - now <= WindowMs
    BY <1>2
  <2>3. n \in Kept(k)'
    BY <1>1, <1>3, <2>1, <2>2
  <2>4. \A j \in Old : j \in Kept(k)' => j \in Recent
    BY <1>1, <1>3, <2>1
  <2>5. \A j \in Recent : \A i \in Old : log[i].at - log[j].at <= WindowMs
    BY <1>2
  <2>6. Recent \subseteq Kept(k)'
    BY <1>1, <1>3, <2>1, <2>5
  <2> QED BY <2>1, <2>3, <2>4, <2>6
<1>6. \A j \in Old : Listed(j, k)' = Listed(j, k)
  <2>1. ASSUME NEW j \in Old
        PROVE  Twins(j, k)' = Twins(j, k)
    <3>1. Twins(j, k)' = {i \in Old \cup {n} : i < j /\ log'[i].at = log'[j].at}
      BY <1>1 DEF Twins
    <3>2. Twins(j, k) = {i \in Old : i < j /\ log[i].at = log[j].at}
      BY DEF Twins, Old
    <3>3. ~(n < j)
      BY <1>2
    <3> QED BY <1>3, <3>1, <3>2, <3>3
  <2> QED BY <1>3, <2>1 DEF Listed
<1>7. Listed(n, k)' = [at |-> now, nth |-> Cardinality(Now)]
  <2>1. Twins(n, k)' = {i \in Old \cup {n} : i < n /\ log'[i].at = log'[n].at}
    BY <1>1 DEF Twins
  <2>2. log'[n].at = now /\ \A i \in Old \cup {n} : i < n <=> i \in Old
    BY <1>1, <1>2
  <2>3. Twins(n, k)' = Now
    BY <1>3, <2>1, <2>2
  <2> QED BY <2>2, <2>3 DEF Listed
<1>8. \A j \in Old : Listed(j, k).at = log[j].at
  BY DEF Listed
<1>9. InWindow(k, now) = {Listed(j, k) : j \in Recent}
  <2>1. InWindow(k, now) = {f \in {Listed(j, k) : j \in Kept(k)} : now - f.at <= WindowMs}
    BY DEF InWindow, WindowListed
  <2>2. Kept(k) \subseteq Old
    BY DEF Kept, Old
  <2> QED BY <1>4, <1>8, <2>1, <2>2
<1>10. Cardinality({f \in InWindow(k, now) : f.at = now}) = Cardinality(Now)
  <2>1. {f \in InWindow(k, now) : f.at = now} = {Listed(j, k) : j \in Now}
    <3>1. Now \subseteq Recent
      BY <1>2
    <3> QED BY <1>8, <1>9, <3>1
  <2>2. IsFiniteSet(Now)
    BY <1>2, FS_Subset
  <2> DEFINE f == [j \in Now |-> Listed(j, k)]
  <2>3. /\ f = [j \in Now |-> f[j]]
        /\ {f[j] : j \in Now} = {Listed(j, k) : j \in Now}
    OBVIOUS
  <2>4. \A i, j \in Now : f[i] = f[j] => i = j
    BY ListedApart DEF ListsApart, Old
  <2> HIDE DEF f, Now
  <2>5. Cardinality({f[j] : j \in Now}) = Cardinality(Now)
    BY <2>2, <2>3, <2>4, ImageCount
  <2> QED BY <2>1, <2>3, <2>5
<1>11. failures'[k] = InWindow(k, now)
                        \cup {[at |-> now, nth |-> Cardinality({f \in InWindow(k, now) : f.at = now})]}
  BY DEF WindowFailure, CircuitsTypeOK, CircuitTypeOK
<1>12. failures'[k] = {Listed(j, k)' : j \in Kept(k)'}
  <2>1. {Listed(j, k)' : j \in Kept(k)'} = {Listed(j, k)' : j \in Recent} \cup {Listed(n, k)'}
    BY <1>5
  <2>2. {Listed(j, k)' : j \in Recent} = {Listed(j, k) : j \in Recent}
    BY <1>6
  <2> QED BY <1>7, <1>9, <1>10, <1>11, <2>1, <2>2
<1>13. Cardinality(failures'[k]) = Cardinality(Kept(k)')
  <2> DEFINE g == [j \in Kept(k)' |-> Listed(j, k)']
  <2>1. IsFiniteSet(Kept(k)')
    <3>1. IsFiniteSet(Recent)
      BY <1>2, FS_Subset
    <3> HIDE DEF Recent
    <3> QED BY <1>5, <3>1, FS_AddElement
  <2>2. g = [j \in Kept(k)' |-> g[j]] /\ {g[j] : j \in Kept(k)'} = {Listed(j, k)' : j \in Kept(k)'}
    OBVIOUS
  <2>3. \A i, j \in Kept(k)' : g[i] = g[j] => i = j
    <3>1. LogTyped' => ListsApart'
      BY ListedApart, PTL
    <3>2. Kept(k)' \subseteq WindowStreak(k)'
      BY DEF Kept
    <3>3. \A i, j \in WindowStreak(k)' : Listed(i, k)' = Listed(j, k)' => i = j
      BY <3>1 DEF ListsApart
    <3> QED BY <3>2, <3>3
  <2> HIDE DEF g
  <2> QED BY <1>12, <2>1, <2>2, <2>3, ImageCount
<1>14. Kept(k)' = {j \in WindowStreak(k)' : now - log'[j].at <= WindowMs}
  <2>1. now - log'[n].at <= WindowMs
    BY <1>1, <1>2
  <2> QED BY <1>1, <1>3, <1>5, <2>1
<1>15. WindowListed(k)'
  BY <1>12 DEF WindowListed
<1> QED BY <1>13, <1>14, <1>15

WindowMatches(k) == openedUntil[k] = TrippedUntilByLog(k)

Tripping(k) == {i \in WindowStreak(k) : Trips(i, k)}

(* The breaker opens with the failure that completes a full window, and     *)
(* with no other; the earlier ones have tripped it or not, as before.       *)
LEMMA WindowFailureMatches ==
  ASSUME CircuitsTypeOK, LogTyped, LogTyped', NEW k \in RouteKey,
         WindowListed(k), WindowMatches(k),
         WindowFailure(k, now), NEW n \in Nat \ {0}, NEW r, Files(r, n),
         r.src = "outcome", r.key = k, ~r.ok, r.at = now
  PROVE  WindowMatches(k)'
<1> DEFINE Old == WindowStreak(k)
<1>1. /\ Old \subseteq 1 .. (n - 1) /\ WindowStreak(k)' = Old \cup {n}
      /\ log'[n] = r /\ (\A i \in 1 .. (n - 1) : log'[i] = log[i])
  BY WindowStreakGrows DEF Files
<1>2. \A j \in Old : j \in Nat /\ j < n /\ j <= n /\ ~(n <= j) /\ log'[j] = log[j]
  BY <1>1
<1> HIDE DEF Old
<1>3. ASSUME NEW i \in Old
      PROVE  Trips(i, k)' <=> Trips(i, k)
  <2>1. {j \in Old \cup {n} : j <= i /\ log'[i].at - log'[j].at <= WindowMs}
          = {j \in Old : j <= i /\ log[i].at - log[j].at <= WindowMs}
    BY <1>2
  <2> QED BY <1>1, <2>1 DEF Trips, Old
<1>4. Trips(n, k)' <=> Cardinality(failures'[k]) >= FailureThreshold
  <2>1. {j \in WindowStreak(k)' : j <= n /\ log'[n].at - log'[j].at <= WindowMs} = Kept(k)'
    <3>1. Kept(k)' = {j \in WindowStreak(k)' : now - log'[j].at <= WindowMs}
      BY WindowFailureListed
    <3>2. log'[n].at = now /\ \A j \in WindowStreak(k)' : j <= n
      BY <1>1, <1>2
    <3> QED BY <3>1, <3>2
  <2>2. Cardinality(failures'[k]) = Cardinality(Kept(k)')
    BY WindowFailureListed
  <2> QED BY <2>1, <2>2 DEF Trips
<1>5. Tripping(k)' = Tripping(k) \cup (IF Trips(n, k)' THEN {n} ELSE {})
  BY <1>1, <1>3 DEF Tripping, Old
<1>6. openedUntil'[k] = IF Cardinality(failures'[k]) >= FailureThreshold
                        THEN now + CooldownMs ELSE openedUntil[k]
  BY DEF WindowFailure, CircuitsTypeOK, CircuitTypeOK
<1>7. /\ TrippedUntilByLog(k) = IF Tripping(k) = {} THEN Unset
                                ELSE log[Max(Tripping(k))].at + CooldownMs
      /\ TrippedUntilByLog(k)' = IF Tripping(k)' = {} THEN Unset
                                 ELSE log'[Max(Tripping(k)')].at + CooldownMs
  BY DEF TrippedUntilByLog, Tripping
<1>8. Tripping(k) \subseteq 1 .. (n - 1)
  BY <1>1 DEF Tripping, Old
<1>9. CASE Trips(n, k)'
  <2>1. Max(Tripping(k)') = n /\ Tripping(k)' # {}
    BY <1>5, <1>8, <1>9, LastAdded
  <2>2. log'[n].at = now
    BY <1>1
  <2> QED BY <1>4, <1>6, <1>7, <1>9, <2>1, <2>2 DEF WindowMatches
<1>10. CASE ~Trips(n, k)'
  <2>1. Tripping(k)' = Tripping(k)
    BY <1>5, <1>10
  <2>2. Tripping(k) # {} => log'[Max(Tripping(k))] = log[Max(Tripping(k))]
    <3>1. n - 1 \in Nat
      OBVIOUS
    <3> QED BY <1>1, <1>8, <3>1, LastExists
  <2> QED BY <1>4, <1>6, <1>7, <1>10, <2>1, <2>2 DEF WindowMatches
<1> QED BY <1>9, <1>10

LEMMA WindowSuccessMatches ==
  ASSUME CircuitsTypeOK, NEW k \in RouteKey,
         WindowSuccess(k), NEW n \in Nat \ {0}, NEW r, Files(r, n),
         r.src = "outcome", r.key = k, r.ok
  PROVE  WindowListed(k)' /\ WindowMatches(k)'
<1>1. WindowStreak(k)' = {}
  BY WindowStreakGrows
<1>2. failures'[k] = {} /\ openedUntil'[k] = Unset
  BY DEF WindowSuccess, CircuitsTypeOK, CircuitTypeOK
<1>3. Kept(k)' = {}
  BY <1>1 DEF Kept
<1> QED BY <1>1, <1>2, <1>3 DEF WindowListed, WindowMatches, TrippedUntilByLog

(* What is not an attributed outcome of the route does not reach it. *)
LEMMA WindowUntouched ==
  ASSUME NEW k \in RouteKey, WindowListed(k), WindowMatches(k),
         NEW n \in Nat \ {0}, NEW r, Files(r, n),
         ~(r.src = "outcome" /\ r.key = k),
         failures'[k] = failures[k], openedUntil'[k] = openedUntil[k]
  PROVE  WindowListed(k)' /\ WindowMatches(k)'
<1>1. /\ WindowStreak(k) \subseteq 1 .. (n - 1) /\ WindowStreak(k)' = WindowStreak(k)
      /\ \A i \in 1 .. (n - 1) : log'[i] = log[i]
  BY WindowStreakGrows DEF Files
<1>2. \A j \in WindowStreak(k) : log'[j] = log[j]
  BY <1>1
<1>3. Kept(k)' = Kept(k) /\ Kept(k) \subseteq WindowStreak(k)
  BY <1>1, <1>2 DEF Kept
<1>4. \A j \in WindowStreak(k) : Listed(j, k)' = Listed(j, k)
  <2>1. \A j \in WindowStreak(k) : Twins(j, k)' = Twins(j, k)
    BY <1>1, <1>2 DEF Twins
  <2> QED BY <1>2, <2>1 DEF Listed
<1>5. WindowListed(k)'
  BY <1>3, <1>4 DEF WindowListed
<1>6. Tripping(k)' = Tripping(k) /\ Tripping(k) \subseteq 1 .. (n - 1)
  <2>1. \A i \in WindowStreak(k) : Trips(i, k)' <=> Trips(i, k)
    <3>1. ASSUME NEW i \in WindowStreak(k)
          PROVE  {j \in WindowStreak(k) : j <= i /\ log'[i].at - log'[j].at <= WindowMs}
                   = {j \in WindowStreak(k) : j <= i /\ log[i].at - log[j].at <= WindowMs}
      BY <1>2
    <3> QED BY <1>1, <3>1 DEF Trips
  <2> QED BY <1>1, <2>1 DEF Tripping
<1>7. Tripping(k) # {} => log'[Max(Tripping(k))] = log[Max(Tripping(k))]
  <2>1. n - 1 \in Nat
    OBVIOUS
  <2> QED BY <1>1, <1>6, <2>1, LastExists
<1>8. /\ TrippedUntilByLog(k) = IF Tripping(k) = {} THEN Unset
                                ELSE log[Max(Tripping(k))].at + CooldownMs
      /\ TrippedUntilByLog(k)' = IF Tripping(k)' = {} THEN Unset
                                 ELSE log'[Max(Tripping(k)')].at + CooldownMs
  BY DEF TrippedUntilByLog, Tripping
<1>9. WindowMatches(k)'
  BY <1>6, <1>7, <1>8 DEF WindowMatches
<1> QED BY <1>5, <1>9

(* The inductive invariant of the log. *)
LogInv ==
  /\ LogTyped
  /\ OutcomeBreakerMatchesLog
  /\ OneProbePerEpisode
  /\ FailsStand
  /\ WindowKept
  /\ WindowBreakerMatchesLog

LEMMA LogUntouched ==
  ASSUME LogInv, UNCHANGED <<log, failures, openedUntil, entries, escalated>>,
         now' = now \/ (now' = now + 1 /\ now \in Nat)
  PROVE  LogInv'
<1>1. LogTyped'
  <2>1. \A i \in DOMAIN log : log[i] \in Reports
    BY DEF LogInv, LogTyped
  <2>2. \A i \in DOMAIN log : log[i].at \in Nat
    BY <2>1 DEF Reports
  <2> QED BY <2>2 DEF LogInv, LogTyped
<1>2. OutcomeBreakerMatchesLog'
  <2>1. ASSUME NEW k \in OutcomeKey
        PROVE  EntryMatches(k)'
    <3>1. Streak(k)' = Streak(k)
      BY DEF Streak, Since, Clears
    <3>2. OpenUntilByLog(k)' = OpenUntilByLog(k)
      BY <3>1 DEF OpenUntilByLog
    <3>3. ProbeOutByLog(k)' = ProbeOutByLog(k)
      BY DEF ProbeOutByLog, Since, Clears
    <3>4. EntryMatches(k)
      BY OutcomeMatchesParts DEF LogInv
    <3> QED BY <3>1, <3>2, <3>3, <3>4 DEF EntryMatches
  <2> QED BY <2>1 DEF OutcomeBreakerMatchesLog, EntryMatches
<1>3. OneProbePerEpisode'
  BY DEF LogInv, OneProbePerEpisode, Clears
<1>4. FailsStand'
  BY DEF LogInv, FailsStand, StandsFor, IsLastFail, Unanswered, Escalated
<1>5. ASSUME NEW k \in RouteKey
      PROVE  /\ {Listed(j, k) : j \in Kept(k)}' = {Listed(j, k) : j \in Kept(k)}
             /\ TrippedUntilByLog(k)' = TrippedUntilByLog(k)
  <2>1. WindowStreak(k)' = WindowStreak(k)
    BY DEF WindowStreak, Attributed
  <2>2. Kept(k)' = Kept(k)
    BY <2>1 DEF Kept
  <2>3. \A j : Twins(j, k)' = Twins(j, k)
    BY <2>1 DEF Twins
  <2>4. \A j : Listed(j, k)' = Listed(j, k)
    BY <2>3 DEF Listed
  <2>5. \A j : Trips(j, k)' <=> Trips(j, k)
    BY <2>1 DEF Trips
  <2>6. Tripping(k)' = Tripping(k)
    BY <2>1, <2>5 DEF Tripping
  <2>7. TrippedUntilByLog(k)' = TrippedUntilByLog(k)
    BY <2>6 DEF TrippedUntilByLog, Tripping
  <2> QED BY <2>2, <2>4, <2>7
<1>6. WindowKept' /\ WindowBreakerMatchesLog'
  BY <1>5 DEF LogInv, WindowKept, WindowListed, WindowBreakerMatchesLog
<1> QED BY <1>1, <1>2, <1>3, <1>4, <1>5, <1>6 DEF LogInv

(* What every filed report keeps, whatever its kind. *)
LEMMA FiledTyped ==
  ASSUME LogTyped, now \in Nat, now' = now,
         NEW n \in Nat \ {0}, NEW r \in Reports, Files(r, n), r.at = now
  PROVE  LogTyped'
<1>1. \A i \in 1 .. n : log'[i].at <= now
  <2>1. \A i \in 1 .. n : i = n \/ i \in 1 .. (n - 1)
    OBVIOUS
  <2> QED BY <2>1 DEF LogTyped, Files
<1> QED BY <1>1 DEF LogTyped, Files

(* An attributed outcome reaches both breakers, of its own route. *)
LEMMA WindowOutcome ==
  ASSUME CircuitsTypeOK, LogInv, LogTyped', NEW q \in RouteKey, NEW ok \in BOOLEAN,
         IF ok THEN WindowSuccess(q) ELSE WindowFailure(q, now),
         NEW n \in Nat \ {0}, NEW r, Files(r, n),
         r.src = "outcome", r.key = q, r.ok = ok, r.at = now
  PROVE  WindowKept' /\ WindowBreakerMatchesLog'
<1>1. ASSUME NEW k \in RouteKey
      PROVE  WindowListed(k)' /\ WindowMatches(k)'
  <2>1. WindowListed(k) /\ WindowMatches(k) /\ LogTyped
    BY DEF LogInv, WindowKept, WindowBreakerMatchesLog, WindowMatches
  <2>2. CASE k # q
    <3>1. failures'[k] = failures[k] /\ openedUntil'[k] = openedUntil[k]
      BY <2>2 DEF WindowFailure, WindowSuccess, CircuitsTypeOK, CircuitTypeOK
    <3> QED BY <2>1, <2>2, <3>1, WindowUntouched
  <2>3. CASE k = q /\ ok
    BY <2>3, WindowSuccessMatches
  <2>4. CASE k = q /\ ~ok
    BY <2>1, <2>4, WindowFailureListed, WindowFailureMatches
  <2> QED BY <2>2, <2>3, <2>4
<1> QED BY <1>1 DEF WindowKept, WindowBreakerMatchesLog, WindowMatches

(* Verdicts, request errors and probes do not reach the windowed breaker. *)
LEMMA WindowSpared ==
  ASSUME LogInv, UNCHANGED <<failures, openedUntil>>,
         NEW n \in Nat \ {0}, NEW r, Files(r, n), r.src # "outcome"
  PROVE  WindowKept' /\ WindowBreakerMatchesLog'
<1>1. ASSUME NEW k \in RouteKey
      PROVE  WindowListed(k)' /\ WindowMatches(k)'
  <2>1. WindowListed(k) /\ WindowMatches(k)
    BY DEF LogInv, WindowKept, WindowBreakerMatchesLog, WindowMatches
  <2> QED BY <2>1, WindowUntouched
<1> QED BY <1>1 DEF WindowKept, WindowBreakerMatchesLog, WindowMatches

LEMMA RecordOutcomeLogged ==
  ASSUME CircuitsTypeOK, CircuitInv, LogInv, NEW q \in RouteKey, NEW ok \in BOOLEAN,
         RecordOutcome(q, ok), Report("outcome", q, ok)
  PROVE  LogInv'
<1>1. q \in OutcomeKey /\ MapIsBounded /\ LogTyped /\ now \in Nat
  BY KeyKinds DEF CircuitInv, LogInv, CircuitsTypeOK
<1>2. PICK n \in Nat \ {0}, r \in Reports :
        /\ Files(r, n)
        /\ r = [src |-> "outcome", key |-> q, ok |-> ok, at |-> now,
                drops |-> Evicted(q)]
  BY <1>1, Filed
<1>3. now' = now /\ escalated' = escalated
  BY DEF RecordOutcome
<1>4. LogTyped'
  BY <1>1, <1>2, <1>3, FiledTyped
<1>5. OutcomeBreakerMatchesLog'
  BY <1>1, <1>2, FailureMatches, SuccessMatches DEF RecordOutcome, LogInv
<1>6. OneProbePerEpisode'
  BY <1>2, OneProbeStep DEF LogInv
<1>7. FailsStand'
  BY <1>2, <1>3, FailsStandStep DEF LogInv, Escalated
<1>8. WindowKept' /\ WindowBreakerMatchesLog'
  BY <1>2, <1>4, WindowOutcome DEF RecordOutcome
<1> QED BY <1>4, <1>5, <1>6, <1>7, <1>8 DEF LogInv

LEMMA VerdictLogged ==
  ASSUME CircuitsTypeOK, CircuitInv, LogInv, NEW q \in RouteKey, NEW ok \in BOOLEAN,
         ReportVerifierOutcome(q, ok), Report("verifier", q, ok)
  PROVE  LogInv'
<1>1. q \in OutcomeKey /\ MapIsBounded /\ LogTyped /\ now \in Nat
  BY KeyKinds DEF CircuitInv, LogInv, CircuitsTypeOK
<1>2. PICK n \in Nat \ {0}, r \in Reports :
        /\ Files(r, n)
        /\ r = [src |-> "verifier", key |-> q, ok |-> ok, at |-> now,
                drops |-> Evicted(q)]
  BY <1>1, Filed
<1>3. now' = now /\ UNCHANGED <<failures, openedUntil>>
  BY DEF ReportVerifierOutcome
<1>4. LogTyped'
  BY <1>1, <1>2, <1>3, FiledTyped
<1>5. OutcomeBreakerMatchesLog'
  BY <1>1, <1>2, FailureMatches, SuccessMatches DEF ReportVerifierOutcome, LogInv
<1>6. OneProbePerEpisode'
  BY <1>2, OneProbeStep DEF LogInv
<1>7. FailsStand'
  <2>1. /\ EscalationLimit \in Nat \ {0} /\ escalated \in Seq(RouteKey)
        /\ IsBoundedMap(escalated, EscalationLimit)
    BY RouterAssumption DEF CircuitsTypeOK, CircuitInv, EscalationBounded
  <2>2. ok => Escalated' = Escalated \ {q}
    BY <2>1, DeleteKeys DEF ReportVerifierOutcome, Relaxed, Escalated
  <2>3. ~ok => q \in Escalated' /\ Escalated' \subseteq Escalated \cup {q}
    BY <2>1, InsertKeys DEF ReportVerifierOutcome, WithEscalation, Escalated
  <2> QED BY <1>2, <2>2, <2>3, FailsStandStep DEF LogInv
<1>8. WindowKept' /\ WindowBreakerMatchesLog'
  BY <1>2, <1>3, WindowSpared
<1> QED BY <1>4, <1>5, <1>6, <1>7, <1>8 DEF LogInv

LEMMA RequestErrorLogged ==
  ASSUME CircuitsTypeOK, CircuitInv, LogInv, NEW p \in Provider,
         RequestError(p), Report("error", BucketOf(p), FALSE)
  PROVE  LogInv'
<1> DEFINE q == BucketOf(p)
<1>1. q \in OutcomeKey /\ MapIsBounded /\ LogTyped /\ now \in Nat
  BY KeyKinds DEF CircuitInv, LogInv, CircuitsTypeOK
<1>2. OutcomeFailure(q, now) /\ UNCHANGED <<now, failures, openedUntil, escalated>>
      /\ Report("error", q, FALSE)
  BY DEF RequestError
<1> HIDE DEF q
<1>3. PICK n \in Nat \ {0}, r \in Reports :
        /\ Files(r, n)
        /\ r = [src |-> "error", key |-> q, ok |-> FALSE, at |-> now,
                drops |-> Evicted(q)]
  BY <1>1, <1>2, Filed
<1>4. LogTyped'
  BY <1>1, <1>2, <1>3, FiledTyped
<1>5. OutcomeBreakerMatchesLog'
  BY <1>1, <1>2, <1>3, FailureMatches DEF LogInv
<1>6. OneProbePerEpisode'
  BY <1>3, OneProbeStep DEF LogInv
<1>7. FailsStand'
  BY <1>2, <1>3, FailsStandStep DEF LogInv, Escalated
<1>8. WindowKept' /\ WindowBreakerMatchesLog'
  BY <1>2, <1>3, WindowSpared
<1> QED BY <1>4, <1>5, <1>6, <1>7, <1>8 DEF LogInv

LEMMA ProbeLogged ==
  ASSUME CircuitsTypeOK, CircuitInv, LogInv, NEW q \in RouteKey,
         AcquireProbe(q), Report("probe", q, TRUE)
  PROVE  LogInv'
<1>1. q \in OutcomeKey /\ MapIsBounded /\ LogTyped /\ now \in Nat
  BY KeyKinds DEF CircuitInv, LogInv, CircuitsTypeOK
<1>2. GrantProbe(q, now) /\ UNCHANGED <<now, failures, openedUntil, escalated>>
  BY DEF AcquireProbe
<1>3. PICK n \in Nat \ {0}, r \in Reports :
        /\ Files(r, n)
        /\ r = [src |-> "probe", key |-> q, ok |-> TRUE, at |-> now, drops |-> {}]
  BY <1>1, Filed
<1>4. LogTyped'
  BY <1>1, <1>2, <1>3, FiledTyped
<1>5. OutcomeBreakerMatchesLog'
  BY <1>1, <1>2, <1>3, GrantMatches DEF LogInv
<1>6. OneProbePerEpisode'
  <2>1. ~ProbeOutByLog(q)
    BY <1>1, <1>2 DEF GrantProbe, ProbeFree, LogInv, OutcomeBreakerMatchesLog
  <2> QED BY <1>3, <2>1, OneProbeStep DEF LogInv
<1>7. FailsStand'
  BY <1>2, <1>3, FailsStandStep DEF LogInv, Escalated
<1>8. WindowKept' /\ WindowBreakerMatchesLog'
  BY <1>2, <1>3, WindowSpared
<1> QED BY <1>4, <1>5, <1>6, <1>7, <1>8 DEF LogInv

(* Every reported call is a step of the breakers, and keeps the invariant. *)
LEMMA LogStep ==
  ASSUME CircuitsSound, LogInv, [LogNext]_logVars
  PROVE  CircuitsSound' /\ LogInv'
<1>1. CircuitsTypeOK /\ CircuitInv
  BY DEF CircuitsSound
<1>2. [CircuitsNext]_circuitsVars
  BY DEF LogNext, logVars, CircuitsNext
<1>3. CircuitsSound'
  BY <1>1, <1>2, CircuitsStep DEF CircuitsSound
<1>4. CASE UNCHANGED logVars
  BY <1>3, <1>4, LogUntouched DEF logVars, circuitsVars
<1>5. CASE Tick /\ UNCHANGED log
  <2>1. now \in Nat /\ now' = now + 1
        /\ UNCHANGED <<log, failures, openedUntil, entries, escalated>>
    BY <1>1, <1>5 DEF Tick, CircuitsTypeOK
  <2> QED BY <1>3, <2>1, LogUntouched
<1>6. ASSUME NEW k \in RouteKey, NEW ok \in BOOLEAN,
             RecordOutcome(k, ok), Report("outcome", k, ok)
      PROVE  LogInv'
  BY <1>1, <1>6, RecordOutcomeLogged
<1>7. ASSUME NEW k \in RouteKey, NEW ok \in BOOLEAN,
             ReportVerifierOutcome(k, ok), Report("verifier", k, ok)
      PROVE  LogInv'
  BY <1>1, <1>7, VerdictLogged
<1>8. ASSUME NEW p \in Provider, RequestError(p), Report("error", BucketOf(p), FALSE)
      PROVE  LogInv'
  BY <1>1, <1>8, RequestErrorLogged
<1>9. ASSUME NEW k \in RouteKey, AcquireProbe(k), Report("probe", k, TRUE)
      PROVE  LogInv'
  BY <1>1, <1>9, ProbeLogged
<1> QED BY <1>3, <1>4, <1>5, <1>6, <1>7, <1>8, <1>9 DEF LogNext

LEMMA LogInitially ==
  ASSUME LogInit
  PROVE  CircuitsSound /\ LogInv
<1>1. /\ log = << >> /\ log \in Seq(Reports) /\ DOMAIN log = {} /\ Len(log) = 0
      /\ CircuitsInit /\ CircuitsSound
  <2>1. CircuitsSound
    BY CircuitsInitially DEF LogInit, CircuitsSound
  <2> QED BY <2>1, LenProperties DEF LogInit
<1>2. OutcomeBreakerMatchesLog
  <2>1. ASSUME NEW k \in OutcomeKey
        PROVE  EntryMatches(k)
    <3>1. Streak(k) = {} /\ Cardinality({}) = 0
      BY <1>1, FS_EmptySet DEF Streak
    <3>2. ProbeOutByLog(k) = FALSE
      BY <1>1 DEF ProbeOutByLog
    <3>3. OpenUntilByLog(k) = NotOpened
      BY <3>1, OutcomeAssumption DEF OpenUntilByLog
    <3>4. entries[k] = Fresh
      BY <1>1 DEF CircuitsInit, OutcomeInit
    <3> QED BY <3>1, <3>2, <3>3, <3>4, FreshIsEntry DEF EntryMatches, NotOpened
  <2> QED BY <2>1, OutcomeMatchesParts
<1>3. OneProbePerEpisode /\ LogTyped
  BY <1>1 DEF OneProbePerEpisode, LogTyped
<1>4. FailsStand
  <2>1. Escalated = {}
    BY <1>1 DEF CircuitsInit, Escalated, ToSet
  <2> QED BY <1>1, <2>1 DEF FailsStand, StandsFor
<1>5. WindowKept /\ WindowBreakerMatchesLog
  <2>1. ASSUME NEW k \in RouteKey
        PROVE  WindowListed(k) /\ WindowMatches(k)
    <3>1. WindowStreak(k) = {}
      BY <1>1 DEF WindowStreak, Attributed
    <3>2. failures[k] = {} /\ openedUntil[k] = Unset
      BY <1>1 DEF CircuitsInit, CircuitInit
    <3> QED BY <3>1, <3>2 DEF WindowListed, Kept, WindowMatches, TrippedUntilByLog
  <2> QED BY <2>1 DEF WindowKept, WindowBreakerMatchesLog, WindowMatches
<1> QED BY <1>1, <1>2, <1>3, <1>4, <1>5 DEF LogInv

(* The breakers' own invariant and the one that ties them to the log hold   *)
(* together, whatever outcomes, verdicts, request errors and probes are     *)
(* reported, in whatever order and however many.                            *)
THEOREM LogInvariant == LogSpec => [](CircuitsSound /\ LogInv)
<1>1. LogInit => CircuitsSound /\ LogInv
  BY LogInitially
<1>2. CircuitsSound /\ LogInv /\ [LogNext]_logVars => (CircuitsSound /\ LogInv)'
  BY LogStep
<1> QED BY <1>1, <1>2, PTL DEF LogSpec

(* Every entry of the outcome breaker is what the failures since the key's  *)
(* last clearing report call for: the counter, the cooldown and the probe   *)
(* slot of recordOutcome, reportVerifierOutcome, agent/request-error and    *)
(* acquireProbe never drift apart.                                          *)
THEOREM OutcomeBreakerIsItsLog == LogSpec => []OutcomeBreakerMatchesLog
<1>1. LogInv => OutcomeBreakerMatchesLog
  BY DEF LogInv
<1> QED BY <1>1, LogInvariant, PTL

(* A route's probe slot is granted once per open episode: between two       *)
(* grants the route failed again or was cleared.                            *)
THEOREM ProbesAreSeparated == LogSpec => []OneProbePerEpisode
<1>1. LogInv => OneProbePerEpisode
  BY DEF LogInv
<1> QED BY <1>1, LogInvariant, PTL

(* agent/request raises the effort of a route by one level, only while a    *)
(* verifier FAIL of it is unanswered, and does so for the last FAIL.        *)
THEOREM EffortIsRaisedOnFailOnly == LogSpec => []EscalatedOnFailOnly
<1>1. LogInv => EscalatedOnFailOnly
  BY EffortFollowsFails DEF LogInv
<1> QED BY <1>1, LogInvariant, PTL

(* The windowed breaker opens exactly when a failure completes a full       *)
(* window of them: pruning its list on each failure loses nothing the       *)
(* window still holds.                                                      *)
THEOREM WindowBreakerIsItsLog == LogSpec => []WindowBreakerMatchesLog
<1>1. LogInv => WindowBreakerMatchesLog
  BY DEF LogInv
<1> QED BY <1>1, LogInvariant, PTL

-------------------------------------------------------------------------------
(* Dispatching.                                                             *)

(* What NoDisallowedStream says of one route, and when it says it. *)
Permitted(k) ==
  \/ IsFree(k)
  \/ CostOf[k] = "TRIAL" /\ AllowTrial
  \/ CostOf[k] = "PAID" /\ AllowPaid

Adapted == {"streaming", "direct", "failed", "succeeded"}

Empty == {"idle", "deciding", "done"}

LEMMA GatePermits ==
  ASSUME NEW k \in RouteKey, NEW usable \in BOOLEAN, RouteCostGate(k, usable)
  PROVE  Permitted(k)
<1>1. PolicyAllows(CostOf[k])
  BY DEF RouteCostGate, BuildRouteCostGate
<1> QED BY <1>1 DEF PolicyAllows, Permitted, IsFree

(* A circuit that is not open at an earlier instant is not open now: time    *)
(* alone never blocks a route.                                              *)
LEMMA HealthLasts ==
  ASSUME CircuitsTypeOK, NEW k \in RouteKey, NEW t \in Nat, now \in Nat, t <= now,
         HealthOk(k, t)
  PROVE  Unblocked(k)
<1>1. openedUntil[k] \in Nat
  BY DEF CircuitsTypeOK, CircuitTypeOK
<1>2. \A x \in OutcomeKey : entries[x].openedUntil \in Nat
  BY DEF CircuitsTypeOK, OutcomeTypeOK, Entry
<1>3. k \in OutcomeKey /\ BucketOf(k[1]) \in OutcomeKey
  BY KeyKinds
<1>4. \A x \in OutcomeKey :
        Phase(x, t) # "open" =>
          (entries[x].openedUntil # NotOpened => now >= entries[x].openedUntil)
  BY <1>2 DEF Phase
<1>5. now >= openedUntil[k]
  BY <1>1 DEF HealthOk, HealthState, WindowOpen
<1> QED BY <1>3, <1>4, <1>5 DEF HealthOk, Unblocked

(* What one host's step may do to the hosts: it moves that host alone, with *)
(* a clock already read, and to the adapter only through the gate.          *)
HostMoved(d) ==
  /\ host' \in [Dispatcher -> Host]
  /\ \A x \in Dispatcher \ {d} : host'[x] = host[x]
  /\ host'[d].at \in {0, now, host[d].at}
  /\ host'[d].stage \in Adapted =>
       \/ Permitted(host'[d].key)
       \/ host[d].stage \in Adapted /\ host'[d].key = host[d].key
  /\ host'[d].stage \notin Empty =>
       \/ host'[d].key \in RouteKey
       \/ host[d].stage \notin Empty /\ host'[d].key = host[d].key

LEMMA Departing ==
  ASSUME TypeOK, NEW d \in Dispatcher, NEW s \in Empty,
         host' = [host EXCEPT ![d] = Without(s)]
  PROVE  HostMoved(d)
<1>1. Without(s) \in Host
  BY DEF Without, Host, Stage, Empty
<1>2. Without(s).at = 0 /\ Without(s).stage = s /\ s \notin Adapted
  BY DEF Without, Empty, Adapted
<1> QED BY <1>1, <1>2 DEF TypeOK, HostMoved

LEMMA Going ==
  ASSUME TypeOK, NEW d \in Dispatcher, NEW s \in Stage, Goto(d, s),
         s \in Adapted => Permitted(host[d].key) \/ host[d].stage \in Adapted,
         s \notin Empty => host[d].stage \notin Empty
  PROVE  HostMoved(d)
<1>1. host[d] \in Host
  BY DEF TypeOK
<1>2. /\ host' \in [Dispatcher -> Host]
      /\ \A x \in Dispatcher \ {d} : host'[x] = host[x]
      /\ host'[d].stage = s /\ host'[d].at = host[d].at /\ host'[d].key = host[d].key
  BY <1>1 DEF TypeOK, Goto, Host
<1> QED BY <1>2 DEF HostMoved

LEMMA Routing ==
  ASSUME TypeOK, NEW d \in Dispatcher, NEW k \in RouteKey, NEW plan \in SUBSET RouteKey,
         host' = [host EXCEPT ![d] = Routed(k, plan)]
  PROVE  HostMoved(d)
<1>1. Routed(k, plan) \in Host
  BY DEF Routed, Host, Stage
<1>2. /\ Routed(k, plan).at = 0 /\ Routed(k, plan).stage = "routed"
      /\ Routed(k, plan).key = k
  BY DEF Routed
<1> QED BY <1>1, <1>2 DEF TypeOK, HostMoved, Adapted

LEMMA HostStep ==
  ASSUME TypeOK, NEW d \in Dispatcher, Step(d)
  PROVE  HostMoved(d)
<1>1. host[d] \in Host /\ now \in Nat
  BY DEF TypeOK, CircuitsTypeOK
<1>2. CASE RouteBegin(d)
  BY <1>1, <1>2 DEF RouteBegin, HostMoved, TypeOK, Host, Stage, Adapted, Empty
<1>3. CASE RouteDecide(d)
  <2>1. PICK usable \in SUBSET RouteKey :
          \/ host' = [host EXCEPT ![d] = Without("idle")]
          \/ \E k \in Scored(Eligible(usable, host[d].at)) :
             \E plan \in FallbackPlans(Scored(Eligible(usable, host[d].at)), k) :
               host' = [host EXCEPT ![d] = Routed(k, plan)]
    BY <1>3 DEF RouteDecide
  <2> DEFINE scored == Scored(Eligible(usable, host[d].at))
  <2>2. scored \subseteq RouteKey
    BY DEF Scored, Eligible
  <2>3. ASSUME NEW k \in scored, NEW plan \in FallbackPlans(scored, k)
        PROVE  plan \in SUBSET RouteKey
    BY <2>2 DEF FallbackPlans
  <2> HIDE DEF scored
  <2> QED BY <2>1, <2>2, <2>3, Routing, Departing DEF Empty, scored
<1>4. CASE TakeProbe(d)
  BY <1>4, Going DEF TakeProbe, At, Stage, Adapted, Empty
<1>5. CASE ProbeRefused(d)
  BY <1>5, Departing DEF ProbeRefused, Empty
<1>6. CASE RegisterAttempt(d)
  BY <1>6, Going, Departing DEF RegisterAttempt, MayDispatch, At, Stage, Adapted, Empty
<1>7. CASE AgentRequest(d)
  <2>1. PICK k \in RouteKey, usable \in BOOLEAN :
          host' = [host EXCEPT ![d] =
            IF RouteCostGate(k, usable) THEN [@ EXCEPT !.stage = "requested", !.key = k]
            ELSE Without("done")]
    BY <1>7 DEF AgentRequest
  <2>2. CASE RouteCostGate(k, usable)
    <3>1. host' = [host EXCEPT ![d].stage = "requested", ![d].key = k]
      BY <2>1, <2>2
    <3> QED BY <1>1, <3>1 DEF HostMoved, TypeOK, Host, Stage, Adapted, Empty
  <2>3. CASE ~RouteCostGate(k, usable)
    BY <2>1, <2>3, Departing DEF Empty
  <2> QED BY <2>2, <2>3
<1>8. ASSUME NEW k \in RouteKey, LlmStream(d, k) PROVE HostMoved(d)
  <2>1. PICK usable \in BOOLEAN :
          host' = [host EXCEPT ![d] =
            IF ~RouteCostGate(k, usable) THEN Without("done")
            ELSE IF At(d, "requested") THEN [@ EXCEPT !.stage = "streaming"]
            ELSE [@ EXCEPT !.stage = "direct", !.key = k]]
    BY <1>8 DEF LlmStream
  <2>2. CASE ~RouteCostGate(k, usable)
    BY <2>1, <2>2, Departing DEF Empty
  <2>3. CASE RouteCostGate(k, usable)
    <3>1. Permitted(k)
      BY <2>3, GatePermits
    <3>2. CASE At(d, "requested")
      <4>1. k = host[d].key
        BY <1>8, <3>2 DEF LlmStream, At
      <4>2. Goto(d, "streaming")
        BY <2>1, <2>3, <3>2 DEF Goto
      <4> QED BY <3>1, <3>2, <4>1, <4>2, Going DEF At, Stage, Adapted, Empty
    <3>3. CASE ~At(d, "requested")
      <4>1. host' = [host EXCEPT ![d].stage = "direct", ![d].key = k]
        BY <2>1, <2>3, <3>3
      <4> QED BY <1>1, <3>1, <4>1 DEF HostMoved, TypeOK, Host, Stage, Adapted, Empty
    <3> QED BY <3>2, <3>3
  <2> QED BY <2>2, <2>3
<1>9. CASE DirectStreamEnds(d)
  BY <1>9, Departing DEF DirectStreamEnds, Empty
<1>10. CASE StreamSucceeds(d)
  BY <1>10, Going DEF StreamSucceeds, At, Stage, Adapted, Empty
<1>11. CASE StreamFails(d)
  BY <1>11, Going DEF StreamFails, At, Stage, Adapted, Empty
<1>12. CASE ReportOutcome(d)
  BY <1>12, Departing DEF ReportOutcome, Empty
<1>13. CASE ReportVerdict(d)
  BY <1>13, Departing DEF ReportVerdict, Empty
<1>14. CASE TakeFallback(d)
  <2>1. host[d].plan \in SUBSET RouteKey
    BY <1>1 DEF Host
  <2> QED BY <1>14, <2>1, Routing DEF TakeFallback
<1> QED
  BY <1>2, <1>3, <1>4, <1>5, <1>6, <1>7, <1>8, <1>9, <1>10, <1>11, <1>12, <1>13, <1>14
     DEF Step

(* The ledger over the same variables, with its types. *)
LedgerTypeOK ==
  /\ attempts \in [Task -> Nat] /\ ledgerOrder \in Seq(Task)
  /\ dispatched \in [Task -> Nat] /\ forgotten \in [Task -> Nat]

LEMMA TypeParts ==
  TypeOK <=> CircuitsTypeOK /\ host \in [Dispatcher -> Host] /\ LedgerTypeOK
BY DEF TypeOK, LedgerTypeOK

LEMMA LedgerStutter ==
  ASSUME LedgerTypeOK, LedgerInv, UNCHANGED ledgerVars
  PROVE  LedgerTypeOK' /\ LedgerInv'
BY DEF ledgerVars, LedgerTypeOK, LedgerInv

(* Counting an attempt: an evicted task loses its count and gains a budget, *)
(* and an attempt the ledger lets through is one it counted.                *)
LEMMA RegisterStep ==
  ASSUME TypeOK, LedgerInv, NEW d \in Dispatcher, RegisterAttempt(d)
  PROVE  LedgerTypeOK' /\ LedgerInv'
<1> DEFINE t == TaskOf[d]
<1>1. /\ t \in Task /\ MaxRetries \in Nat \ {0} /\ LedgerLimit \in Nat \ {0}
      /\ attempts \in [Task -> Nat] /\ ledgerOrder \in Seq(Task)
      /\ dispatched \in [Task -> Nat] /\ forgotten \in [Task -> Nat]
  BY DispatchAssumption DEF TypeOK
<1> HIDE DEF t
<1>2. /\ ledgerOrder' \in Seq(Task) /\ IsBoundedMap(ledgerOrder, LedgerLimit)'
      /\ ToSet(ledgerOrder)' = (ToSet(ledgerOrder) \ LedgerEvicted(t)) \cup {t}
  BY <1>1, InsertKeys DEF RegisterAttempt, LedgerInv, LedgerEvicted, t
<1>3. t \notin LedgerEvicted(t)
  <2>1. CASE t \in ToSet(ledgerOrder) \/ Len(ledgerOrder) < LedgerLimit
    BY <2>1 DEF LedgerEvicted, Evicts
  <2>2. CASE t \notin ToSet(ledgerOrder) /\ ~(Len(ledgerOrder) < LedgerLimit)
    <3>1. LedgerEvicted(t) = {ledgerOrder[1]} /\ 1 \in DOMAIN ledgerOrder
      BY <1>1, <2>2, LenProperties, HeadTailProperties DEF LedgerEvicted, Evicts
    <3> QED BY <2>2, <3>1 DEF ToSet
  <2> QED BY <2>1, <2>2
<1>4. \A x \in Task :
        /\ attempts'[x] = IF x = t THEN attempts[t] + 1
                          ELSE IF x \in LedgerEvicted(t) THEN 0 ELSE attempts[x]
        /\ forgotten'[x] = IF x \in LedgerEvicted(t) THEN forgotten[x] + 1
                           ELSE forgotten[x]
  BY DEF RegisterAttempt, t
<1>5. LedgerTypeOK'
  <2>1. attempts' \in [Task -> Nat] /\ forgotten' \in [Task -> Nat]
    BY <1>1 DEF RegisterAttempt, t
  <2>2. dispatched' \in [Task -> Nat]
    <3>1. \/ dispatched' = [dispatched EXCEPT ![t] = dispatched[t] + 1]
          \/ dispatched' = dispatched
      BY DEF RegisterAttempt, t
    <3>2. dispatched[t] + 1 \in Nat
      BY <1>1
    <3> QED BY <1>1, <3>1, <3>2
  <2> QED BY <1>2, <2>1, <2>2 DEF LedgerTypeOK
<1>6. \A x \in Task \ {t} : dispatched'[x] = dispatched[x]
  BY <1>1 DEF RegisterAttempt, t
<1>7. \/ dispatched'[t] = dispatched[t] + 1 /\ attempts[t] + 1 <= MaxRetries
      \/ dispatched'[t] = dispatched[t]
  BY <1>1 DEF RegisterAttempt, AttemptAllowed, t
<1>8. ASSUME NEW x \in Task
      PROVE  /\ dispatched'[x] <= MaxRetries * forgotten'[x] + attempts'[x]
             /\ dispatched'[x] <= MaxRetries * forgotten'[x] + MaxRetries
  <2>1. /\ dispatched[x] <= MaxRetries * forgotten[x] + attempts[x]
        /\ dispatched[x] <= MaxRetries * forgotten[x] + MaxRetries
    BY DEF LedgerInv
  <2>2. CASE x = t
    <3>1. forgotten'[x] = forgotten[x] /\ attempts'[x] = attempts[x] + 1
      BY <1>3, <1>4, <2>2
    <3>2. MaxRetries * forgotten[x] \in Nat
      BY <1>1
    <3> DEFINE base == MaxRetries * forgotten[x]
    <3> HIDE DEF base
    <3>3. /\ dispatched'[x] <= base + (attempts[x] + 1)
          /\ dispatched'[x] <= base + MaxRetries
      BY <1>1, <1>7, <2>1, <2>2, <3>2 DEF base
    <3> QED BY <3>1, <3>3 DEF base
  <2>3. CASE x # t /\ x \in LedgerEvicted(t)
    <3>1. /\ forgotten'[x] = forgotten[x] + 1 /\ attempts'[x] = 0
          /\ dispatched'[x] = dispatched[x]
      BY <1>4, <1>6, <2>3
    <3>2. MaxRetries * (forgotten[x] + 1) = MaxRetries * forgotten[x] + MaxRetries
      BY <1>1
    <3>3. MaxRetries * forgotten[x] \in Nat /\ dispatched[x] \in Nat
      BY <1>1
    <3> DEFINE base == MaxRetries * forgotten[x]
    <3> HIDE DEF base
    <3>4. /\ dispatched[x] <= (base + MaxRetries) + 0
          /\ dispatched[x] <= (base + MaxRetries) + MaxRetries
      BY <1>1, <2>1, <3>3 DEF base
    <3> QED BY <3>1, <3>2, <3>4 DEF base
  <2>4. CASE x # t /\ x \notin LedgerEvicted(t)
    BY <1>4, <1>6, <2>1, <2>4
  <2> QED BY <2>2, <2>3, <2>4
<1>9. \A x \in Task \ ToSet(ledgerOrder)' : attempts'[x] = 0
  BY <1>2, <1>4 DEF LedgerInv
<1> QED BY <1>2, <1>5, <1>8, <1>9 DEF LedgerInv

(* A host's step is one call on the breakers, or leaves them alone. *)
LEMMA StepOnCircuits ==
  ASSUME RouteInHand, NEW d \in Dispatcher, Step(d)
  PROVE  [CircuitsNext]_circuitsVars /\ now' = now
<1>1. host[d].stage \notin {"idle", "deciding", "done"} => host[d].key \in RouteKey
  BY DEF RouteInHand
<1>2. CASE UNCHANGED circuitsVars
  BY <1>2 DEF circuitsVars
<1>3. CASE TakeProbe(d)
  BY <1>1, <1>3 DEF TakeProbe, At, CircuitsNext, AcquireProbe
<1>4. CASE StreamFails(d)
  <2>1. host[d].key[1] \in Provider
    BY <1>1, <1>4 DEF StreamFails, At, RouteKey
  <2> QED BY <1>4, <2>1 DEF StreamFails, CircuitsNext, RequestError
<1>5. CASE ReportOutcome(d)
  <2>1. host[d].key \in RouteKey /\ At(d, "succeeded") \in BOOLEAN
    BY <1>1, <1>5 DEF ReportOutcome, At
  <2>2. RecordOutcome(host[d].key, At(d, "succeeded"))
    BY <1>5 DEF ReportOutcome
  <2>3. CircuitsNext
    BY <2>1, <2>2 DEF CircuitsNext
  <2>4. now' = now
    BY <2>2 DEF RecordOutcome
  <2> QED BY <2>3, <2>4
<1>6. CASE ReportVerdict(d)
  BY <1>1, <1>6 DEF ReportVerdict, At, CircuitsNext, ReportVerifierOutcome
<1> QED
  BY <1>2, <1>3, <1>4, <1>5, <1>6
     DEF Step, RouteBegin, RouteDecide, ProbeRefused, RegisterAttempt, AgentRequest,
         LlmStream, DirectStreamEnds, StreamSucceeds, TakeFallback

(* Only RegisterAttempt touches the ledger. *)
LEMMA StepOnLedger ==
  ASSUME TypeOK, LedgerInv, NEW d \in Dispatcher, Step(d)
  PROVE  LedgerTypeOK' /\ LedgerInv'
<1>1. CASE RegisterAttempt(d)
  BY <1>1, RegisterStep
<1>2. CASE UNCHANGED ledgerVars
  BY <1>2, LedgerStutter, TypeParts
<1> QED
  BY <1>1, <1>2
     DEF Step, RouteBegin, RouteDecide, TakeProbe, ProbeRefused, AgentRequest, LlmStream,
         DirectStreamEnds, StreamSucceeds, StreamFails, ReportOutcome, ReportVerdict,
         TakeFallback

(* What HostMoved preserves. *)
LEMMA HostsStep ==
  ASSUME TypeOK, DispatchInv, NEW d \in Dispatcher, HostMoved(d), now' = now
  PROVE  DecisionsUsePastClocks' /\ NoDisallowedStream' /\ RouteInHand'
<1>1. now \in Nat /\ \A x \in Dispatcher : host[x].at <= now
  BY DEF TypeOK, CircuitsTypeOK, DispatchInv, DecisionsUsePastClocks
<1>2. DecisionsUsePastClocks'
  BY <1>1 DEF HostMoved, DecisionsUsePastClocks
<1>3. \A x \in Dispatcher : host[x].stage \in Adapted => Permitted(host[x].key)
  BY DEF DispatchInv, NoDisallowedStream, Permitted, Adapted
<1>4. \A x \in Dispatcher : host'[x].stage \in Adapted => Permitted(host'[x].key)
  BY <1>3 DEF HostMoved
<1>5. NoDisallowedStream'
  BY <1>4 DEF NoDisallowedStream, Permitted, Adapted, IsFree
<1>6. RouteInHand'
  BY DEF DispatchInv, RouteInHand, HostMoved, Empty
<1> QED BY <1>2, <1>5, <1>6

LEMMA DispatchStep ==
  ASSUME TypeOK, DispatchInv, [Next]_vars
  PROVE  TypeOK' /\ DispatchInv'
<1>1. CASE UNCHANGED vars
  <2>1. UNCHANGED circuitsVars /\ UNCHANGED host /\ UNCHANGED ledgerVars
    BY <1>1 DEF vars
  <2>2. CircuitsTypeOK' /\ CircuitInv'
    BY <2>1, CircuitsStutter DEF TypeOK, DispatchInv
  <2>3. LedgerTypeOK' /\ LedgerInv'
    BY <2>1, LedgerStutter, TypeParts DEF DispatchInv
  <2>4. DecisionsUsePastClocks' /\ NoDisallowedStream' /\ RouteInHand'
    BY <2>1 DEF circuitsVars, DispatchInv, DecisionsUsePastClocks, NoDisallowedStream,
                RouteInHand, IsFree
  <2> QED BY <2>1, <2>2, <2>3, <2>4 DEF TypeOK, LedgerTypeOK, DispatchInv
<1>2. CASE Passage
  <2>1. Tick /\ UNCHANGED host /\ UNCHANGED ledgerVars
    BY <1>2 DEF Passage, ledgerVars
  <2>2. CircuitsTypeOK' /\ CircuitInv'
    BY <2>1, TickStep DEF TypeOK, DispatchInv
  <2>3. LedgerTypeOK' /\ LedgerInv'
    BY <2>1, LedgerStutter, TypeParts DEF DispatchInv
  <2>4. NoDisallowedStream' /\ RouteInHand'
    BY <2>1 DEF DispatchInv, NoDisallowedStream, RouteInHand, IsFree
  <2>5. DecisionsUsePastClocks'
    <3>1. \A x \in Dispatcher : host[x].at \in Nat /\ host[x].at <= now
      BY DEF TypeOK, Host, DispatchInv, DecisionsUsePastClocks
    <3>2. now \in Nat /\ now' = now + 1
      BY <2>1 DEF Tick, TypeOK, CircuitsTypeOK
    <3> QED BY <2>1, <3>1, <3>2 DEF DecisionsUsePastClocks
  <2> QED BY <2>1, <2>2, <2>3, <2>4, <2>5 DEF TypeOK, LedgerTypeOK, DispatchInv
<1>3. ASSUME NEW d \in Dispatcher, Step(d)
      PROVE  TypeOK' /\ DispatchInv'
  <2>1. [CircuitsNext]_circuitsVars /\ now' = now
    BY <1>3, StepOnCircuits DEF DispatchInv
  <2>2. CircuitsTypeOK' /\ CircuitInv'
    BY <2>1, CircuitsStep DEF TypeOK, DispatchInv
  <2>3. LedgerTypeOK' /\ LedgerInv'
    BY <1>3, StepOnLedger DEF DispatchInv
  <2>4. HostMoved(d)
    BY <1>3, HostStep
  <2>5. DecisionsUsePastClocks' /\ NoDisallowedStream' /\ RouteInHand'
    BY <2>1, <2>4, HostsStep
  <2> QED BY <2>2, <2>3, <2>4, <2>5 DEF TypeOK, LedgerTypeOK, DispatchInv, HostMoved
<1> QED BY <1>1, <1>2, <1>3 DEF Next

LEMMA DispatchInitially ==
  ASSUME Init
  PROVE  TypeOK /\ DispatchInv
<1>1. CircuitsTypeOK /\ CircuitInv /\ now = 1
  BY CircuitsInitially DEF Init, CircuitsInit
<1>2. \A d \in Dispatcher : host[d] = Without("idle")
  BY DEF Init
<1>3. Without("idle") \in Host
  BY DEF Without, Host, Stage
<1>4. TypeOK
  BY <1>1, <1>3 DEF Init, TypeOK
<1>5. DecisionsUsePastClocks /\ NoDisallowedStream /\ RouteInHand
  BY <1>1, <1>2 DEF Without, DecisionsUsePastClocks, NoDisallowedStream, RouteInHand
<1>6. LedgerInv
  BY DispatchAssumption DEF Init, LedgerInv, IsBoundedMap, IsInjective
<1> QED BY <1>1, <1>4, <1>5, <1>6 DEF DispatchInv

LEMMA DispatchAlways == Spec => [](TypeOK /\ DispatchInv)
<1>1. Init => TypeOK /\ DispatchInv
  BY DispatchInitially
<1>2. TypeOK /\ DispatchInv /\ [Next]_vars => (TypeOK /\ DispatchInv)'
  BY DispatchStep
<1> QED BY <1>1, <1>2, PTL DEF Spec

(* The breakers, the ledger, the clocks of pending decisions and the gated  *)
(* streams stay consistent whatever the hosts do, in any order, and the     *)
(* state keeps its type.                                                    *)
THEOREM DispatchInvariant == Spec => []DispatchSound
BY DispatchAlways, PTL DEF DispatchSound

(* No adapter is called for a route the cost policy does not allow. *)
THEOREM NoDisallowedStreamEver == Spec => []NoDisallowedStream
<1>1. DispatchInv => NoDisallowedStream
  BY DEF DispatchInv
<1> QED BY <1>1, DispatchAlways, PTL

(* No task gets past the ledger more often than its budgets allow, one      *)
(* budget and one more per eviction, however many hosts work on it.         *)
THEOREM RetriesBounded == Spec => []RetryBound
<1>1. TypeOK /\ DispatchInv => RetryBound
  <2>1. SUFFICES ASSUME TypeOK, LedgerInv, NEW t \in Task
                 PROVE  dispatched[t] <= MaxRetries * (forgotten[t] + 1)
    BY DEF DispatchInv, RetryBound
  <2>2. MaxRetries \in Nat /\ forgotten[t] \in Nat
    BY <2>1, DispatchAssumption DEF TypeOK
  <2>3. MaxRetries * (forgotten[t] + 1) = MaxRetries * forgotten[t] + MaxRetries
    BY <2>2
  <2> QED BY <2>1, <2>3 DEF LedgerInv
<1> QED BY <1>1, DispatchAlways, PTL

(* A decision timed before its awaits selects no route, and plans no        *)
(* fallback, whose circuits are open when it is made.                       *)
THEOREM DecisionsRespectCircuits == Spec => NoDecisionThroughOpenCircuit
<1> DEFINE Respects ==
      \A d \in Dispatcher :
        (At(d, "deciding") /\ host'[d].stage = "routed")
          => \A k \in {host'[d].key} \cup host'[d].plan : Unblocked(k)
<1>1. ASSUME TypeOK, DispatchInv, [Next]_vars PROVE Respects
  <2>1. SUFFICES ASSUME NEW d \in Dispatcher, At(d, "deciding"), host'[d].stage = "routed"
                 PROVE  \A k \in {host'[d].key} \cup host'[d].plan : Unblocked(k)
    OBVIOUS
  <2>2. \A x \in Dispatcher : Step(x) => \A y \in Dispatcher \ {x} : host'[y] = host[y]
    BY <1>1, HostStep DEF HostMoved
  <2>3. Step(d)
    BY <1>1, <2>1, <2>2 DEF Next, vars, Passage, At
  <2>4. RouteDecide(d)
    BY <2>1, <2>3
       DEF Step, At, RouteBegin, TakeProbe, ProbeRefused, RegisterAttempt, MayDispatch,
           AgentRequest, LlmStream, DirectStreamEnds, StreamSucceeds, StreamFails,
           ReportOutcome, ReportVerdict, TakeFallback
  <2>5. host \in [Dispatcher -> Host] /\ CircuitsTypeOK /\ now \in Nat
        /\ host[d].at \in Nat /\ host[d].at <= now
    BY <1>1 DEF TypeOK, CircuitsTypeOK, Host, DispatchInv, DecisionsUsePastClocks
  <2>6. PICK usable \in SUBSET RouteKey :
          \/ host' = [host EXCEPT ![d] = Without("idle")]
          \/ \E k \in Scored(Eligible(usable, host[d].at)) :
             \E plan \in FallbackPlans(Scored(Eligible(usable, host[d].at)), k) :
               host' = [host EXCEPT ![d] = Routed(k, plan)]
    BY <2>4 DEF RouteDecide
  <2> DEFINE scored == Scored(Eligible(usable, host[d].at))
  <2>7. scored \subseteq RouteKey /\ \A k \in scored : HealthOk(k, host[d].at)
    BY DEF Scored, Eligible
  <2>8. \A k \in scored : \A plan \in FallbackPlans(scored, k) : plan \subseteq scored
    BY DEF FallbackPlans
  <2> HIDE DEF scored
  <2>9. PICK k \in scored : \E plan \in FallbackPlans(scored, k) :
          host' = [host EXCEPT ![d] = Routed(k, plan)]
    BY <2>1, <2>5, <2>6 DEF Without, scored
  <2>10. host'[d].key \in scored /\ host'[d].plan \subseteq scored
    BY <2>5, <2>8, <2>9 DEF Routed
  <2> QED BY <2>5, <2>7, <2>10, HealthLasts
<1>2. TypeOK /\ DispatchInv /\ [Next]_vars => [Respects]_vars
  BY <1>1
<1> QED BY <1>2, DispatchAlways, PTL DEF Spec, NoDecisionThroughOpenCircuit
===============================================================================
