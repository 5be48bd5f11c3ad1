------------------------------ MODULE CircuitLog ------------------------------
(***************************************************************************)
(* What the two circuit breakers mean, stated over the log of everything   *)
(* reported to them rather than over the counters they keep.  The log is a *)
(* history variable: it adds nothing to what RouterCircuits does, and the  *)
(* invariants below say that the incremental state is always the one the   *)
(* log calls for.                                                          *)
(***************************************************************************)
EXTENDS RouterCircuits

CONSTANT MaxReports  \* bound on the length of the log

VARIABLE log  \* what was reported, oldest first

logVars == <<circuitsVars, log>>

(* src: "outcome" reaches both breakers, "verifier" and "error" (a request  *)
(* error, filed under its provider's bucket) the outcome breaker alone,     *)
(* "probe" is a granted probe slot.  drops: the keys the report pushed out  *)
(* of the outcome breaker's map.                                            *)
Report(src, k, ok) ==
  /\ Len(log) < MaxReports
  /\ log' = Append(log, [src |-> src, key |-> k, ok |-> ok, at |-> now,
                         drops |-> IF src = "probe" THEN {} ELSE Evicted(k)])

LogInit == CircuitsInit /\ log = << >>

LogNext ==
  \/ Tick /\ UNCHANGED log
  \/ \E k \in RouteKey, ok \in BOOLEAN :
       RecordOutcome(k, ok) /\ Report("outcome", k, ok)
  \/ \E k \in RouteKey, ok \in BOOLEAN :
       ReportVerifierOutcome(k, ok) /\ Report("verifier", k, ok)
  \/ \E p \in Provider : RequestError(p) /\ Report("error", BucketOf(p), FALSE)
  \/ \E k \in RouteKey : AcquireProbe(k) /\ Report("probe", k, TRUE)

LogSpec == LogInit /\ [][LogNext]_logVars

-------------------------------------------------------------------------------
(* The outcome breaker, read off the log.                                   *)

(* Report i makes the outcome breaker forget what it knew of k. *)
Clears(i, k) ==
  \/ k \in log[i].drops
  \/ /\ log[i].src # "probe"
     /\ log[i].ok
     /\ k \in {log[i].key, BucketOf(log[i].key[1])}

Since(i, k) == \A j \in (i + 1) .. Len(log) : ~Clears(j, k)

(* The current failure streak of k. *)
Streak(k) ==
  {i \in DOMAIN log : log[i].key = k /\ ~log[i].ok /\ Since(i, k)}

(* The circuit of k opens with each failure of a streak that has reached    *)
(* the threshold, for one cooldown from that failure.                       *)
OpenUntilByLog(k) ==
  IF Cardinality(Streak(k)) < ConsecutiveFailures THEN NotOpened
  ELSE log[Max(Streak(k))].at + OutcomeCooldownMs

(* The slot is out from the grant until k fails again or is cleared. *)
ProbeOutByLog(k) ==
  \E i \in DOMAIN log :
    /\ log[i].src = "probe" /\ log[i].key = k
    /\ Since(i, k)
    /\ \A j \in (i + 1) .. Len(log) : log[j].key = k => log[j].src = "probe"

(* Whatever order attributed outcomes, verifier verdicts and unattributed   *)
(* request errors arrive in, each entry of the outcome breaker is what the  *)
(* failures since the key's last clearing report call for: the counter, the *)
(* cooldown and the probe slot never drift apart, a bucket's failures never *)
(* move a candidate's counter and a candidate's success always lifts its    *)
(* provider's bucket.                                                       *)
OutcomeBreakerMatchesLog ==
  \A k \in OutcomeKey :
    /\ entries[k].consecutive = Cardinality(Streak(k))
    /\ entries[k].openedUntil = OpenUntilByLog(k)
    /\ entries[k].probeGranted = ProbeOutByLog(k)

(* Two grants of a route's probe slot are always separated by a failure of  *)
(* the route that re-opened its circuit or by a report that cleared it:     *)
(* `once per open episode`.                                                 *)
OneProbePerEpisode ==
  \A i, j \in DOMAIN log :
    (i < j /\ log[i].src = "probe" /\ log[j].src = "probe"
           /\ log[i].key = log[j].key)
      => \E m \in (i + 1) .. (j - 1) :
           \/ log[m].key = log[i].key /\ log[m].src # "probe"
           \/ Clears(m, log[i].key)

(* The verifier has failed k since it last passed it. *)
Unanswered(i, k) ==
  /\ log[i].src = "verifier" /\ log[i].key = k /\ ~log[i].ok
  /\ \A j \in (i + 1) .. Len(log) :
       (log[j].src = "verifier" /\ log[j].key = k) => ~log[j].ok

OneAbove(base, effort) ==
  \E n \in DOMAIN EffortLevels \ {1} : EffortLevels[n - 1] = base /\ EffortLevels[n] = effort

Pacings == EffortPacing([{"FREE_LIMITED"} -> ToSet(EffortLevels)])

(* The effort of a route is raised only while a verifier FAIL of it stands  *)
(* that no later PASS of the same route has answered, whatever other        *)
(* outcomes the route had and whatever the pacing; it is raised by one      *)
(* level, however often it failed; and the last FAIL reported for any route *)
(* is in effect until it is answered.                                       *)
EscalatedOnFailOnly ==
  \A k \in RouteKey :
    LET standing == {i \in DOMAIN log : Unanswered(i, k)}
        last == \E i \in standing : \A j \in (i + 1) .. Len(log) : log[j].src # "verifier" \/ log[j].ok
    IN  \A pacing \in Pacings :
          LET base == BaseEffort(pacing, "FREE_LIMITED")
              effort == EffortFor(pacing, "FREE_LIMITED", k, FALSE)
          IN  /\ effort # base => standing # {} /\ pacing.escalateOnVerifierFail /\ OneAbove(base, effort)
              /\ (last /\ pacing.escalateOnVerifierFail /\ base \notin {AdapterDefault, "max"})
                   => effort # base

-------------------------------------------------------------------------------
(* The windowed breaker, read off the log.                                  *)

Attributed(k) == {i \in DOMAIN log : log[i].src = "outcome" /\ log[i].key = k}

WindowStreak(k) ==
  {i \in Attributed(k) :
     ~log[i].ok /\ \A j \in Attributed(k) : j > i => ~log[j].ok}

(* Failure i trips the breaker when it and the failures of the WindowMs     *)
(* before it make up the threshold.                                         *)
Trips(i, k) ==
  Cardinality({j \in WindowStreak(k) :
                 j <= i /\ log[i].at - log[j].at <= WindowMs})
    >= FailureThreshold

TrippedUntilByLog(k) ==
  LET trips == {i \in WindowStreak(k) : Trips(i, k)}
  IN  IF trips = {} THEN Unset ELSE log[Max(trips)].at + CooldownMs

(* The windowed breaker opens exactly when a failure completes a full       *)
(* window of them, and a success alone closes it before the cooldown: the   *)
(* lists pruned on each failure lose nothing that the window still holds,   *)
(* and verifier verdicts and request errors do not reach it.                *)
WindowBreakerMatchesLog ==
  \A k \in RouteKey : openedUntil[k] = TrippedUntilByLog(k)
===============================================================================
