------------------------- MODULE OutcomeCircuitBreaker -------------------------
(***************************************************************************)
(* The outcome-driven circuit breaker of supreme-router (class             *)
(* OutcomeCircuitBreaker of supreme-router/engine.ts): consecutive         *)
(* failures open the circuit of a key, the cooldown makes it half-open,    *)
(* one probe slot is granted per open episode, a success closes it.        *)
(*                                                                         *)
(* The entries live in an insertion-ordered Map bounded by MaxEntries: a   *)
(* new key evicts the oldest one.  A key the map does not hold answers     *)
(* like a fresh entry, so entries is total and `order` says which keys the *)
(* map holds.  The label of the last failure only decorates snapshots and  *)
(* is left out.                                                            *)
(***************************************************************************)
EXTENDS RouteKeys, BoundedMap

CONSTANTS
  ConsecutiveFailures,  \* outcomeCircuit.consecutiveFailures
  OutcomeCooldownMs,    \* outcomeCircuit.cooldownMs
  MaxEntries            \* bound on the entries kept

ASSUME OutcomeAssumption ==
  /\ ConsecutiveFailures \in Nat \ {0}
  /\ OutcomeCooldownMs \in Nat
  /\ MaxEntries \in Nat \ {0}

VARIABLES
  entries,  \* entries[k]: consecutive failures, openedUntil and the probe slot
  order     \* the keys of the map, oldest first

outcomeVars == <<entries, order>>

(* The instant 0 stands for `openedUntil: null`. *)
NotOpened == 0

Entry == [consecutive : Nat, openedUntil : Nat, probeGranted : BOOLEAN]

Fresh == [consecutive |-> 0, openedUntil |-> NotOpened, probeGranted |-> FALSE]

OutcomeTypeOK ==
  /\ entries \in [OutcomeKey -> Entry]
  /\ order \in Seq(OutcomeKey)

OutcomeInit ==
  /\ entries = [k \in OutcomeKey |-> Fresh]
  /\ order = << >>

(* entry(key): the map with k in it, and what making room for k pushes out. *)
OrderWith(k) == Insert(order, k, MaxEntries)

Evicted(k) == Evicts(order, k, MaxEntries)

(* Mutant: a failed probe keeps its slot. *)
FailedKeepingProbe(e, t) ==
  [consecutive  |-> e.consecutive + 1,
   openedUntil  |-> IF e.consecutive + 1 >= ConsecutiveFailures
                    THEN t + OutcomeCooldownMs ELSE e.openedUntil,
   probeGranted |-> e.probeGranted]

Failed(e, t) ==
  [consecutive  |-> e.consecutive + 1,
   openedUntil  |-> IF e.consecutive + 1 >= ConsecutiveFailures
                    THEN t + OutcomeCooldownMs ELSE e.openedUntil,
   probeGranted |-> FALSE]

OutcomeFailure(k, t) ==
  /\ order' = OrderWith(k)
  /\ entries' = [x \in OutcomeKey |->
       IF x = k THEN Failed(entries[k], t)
       ELSE IF x \in Evicted(k) THEN Fresh
       ELSE entries[x]]

(* Mutant: no cross-clear. *)
ClearedAlone(k) == {k}

(* A success on any key of a provider also clears the provider's bucket. *)
ClearedBy(k) == {k, BucketOf(k[1])}

OutcomeSuccess(k) ==
  /\ order' = OrderWith(k)
  /\ entries' = [x \in OutcomeKey |->
       IF x \in ClearedBy(k) \cup Evicted(k) THEN Fresh ELSE entries[x]]

Phase(k, t) ==
  IF entries[k].openedUntil = NotOpened THEN "closed"
  ELSE IF t < entries[k].openedUntil THEN "open"
  ELSE "half_open"

(* Mutant: the slot is granted again while it is out. *)
ProbeAlwaysFree(k, t) == Phase(k, t) = "half_open"

(* acquireProbe grants the slot once; a refused call changes nothing. *)
ProbeFree(k, t) == Phase(k, t) = "half_open" /\ ~entries[k].probeGranted

GrantProbe(k, t) ==
  /\ ProbeFree(k, t)
  /\ entries' = [entries EXCEPT ![k].probeGranted = TRUE]
  /\ UNCHANGED order
===============================================================================
