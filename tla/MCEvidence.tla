------------------------------- MODULE MCEvidence -------------------------------
(* The benchmark store and the decisions made on it.  Routes r1 and r2 are  *)
(* alike but for their provider, r3 is a limited one of r2's provider.      *)
(* A behaviour starts with a store that knows nothing, or with the file of  *)
(* three finished runs, of r1, r1 and r2.  In the scene "decisions" the     *)
(* second may be running, and so does a fourth, of r1 too: with it r1 has   *)
(* one more run than the tracker keeps.  The other scenes start no fourth.  *)
(*                                                                         *)
(* The audit trail and the memory notes keep to themselves; each has a     *)
(* scene of its own, in which the others rest.                             *)
EXTENDS OutcomeRouting, NoteLedger, AuditTrail

CONSTANT Scenes     \* the scenes of the run

VARIABLE scene

CONSTANTS a, b, c, d, r1, r2, r3, p1, p2, code, Code, chat, low, HIGH

\* Calls on a store that knows runs.
LaterCalls == IF scene = "decisions" THEN 1 ELSE 2

MCRoute == {r1, r2, r3}
MCRouteOf == [id \in RunId |-> IF id = c THEN r2 ELSE r1]
MCClassOf == [id \in RunId |-> IF id = b THEN Code ELSE code]
MCNormal == [x \in {code, Code, chat, low, HIGH} |->
               IF x \in {code, Code} THEN "CODE" ELSE IF x = chat THEN "CHAT"
               ELSE IF x = low THEN "LOW" ELSE "HIGH"]
MCConfigured == [k \in MCRoute |->
  [mode |-> IF k = r3 THEN "service" ELSE "config-owned", credential |-> TRUE,
   order |-> IF k = r1 THEN 1 ELSE IF k = r2 THEN 2 ELSE 3,
   provider |-> IF k = r1 THEN p1 ELSE p2, domain |-> IF k = r1 THEN p1 ELSE p2,
   cost |-> IF k = r3 THEN "FREE_LIMITED" ELSE "FREE_CONFIRMED", quota |-> 500,
   context |-> IF k = r3 THEN 10 ELSE 0, capable |-> k # r3]]

SeededRun(id, at, success, claim) ==
  [kind |-> "run", id |-> id, at |-> IF success = Null THEN Null ELSE at, success |-> success,
   failure |-> IF success = FALSE THEN "TIMEOUT" ELSE Null,
   verdict |-> IF claim = TRUE THEN "PASS" ELSE Null,
   quality |-> IF claim = Null THEN Null ELSE MaxQuality, backed |-> claim]

Seeded(success, claim) ==
  <<SeededRun(a, 1, success[a], claim), SeededRun(b, 2, success[b], Null),
    SeededRun(c, 3, success[c], Null)>>
    \o IF scene = "decisions" THEN <<SeededRun(d, Null, Null, Null)>> ELSE << >>

SeededInit ==
  \E success \in [{a, b, c} -> BOOLEAN \cup {Null}] : \E claim \in BOOLEAN \cup {Null} :
    /\ success[a] # Null /\ success[c] # Null
    /\ success[b] # Null \/ scene = "decisions"
    /\ stored = Seeded(success, claim)
    /\ runs = [id \in RunId |-> ReplayedRun(stored, id)]
    /\ scores = {} /\ lines = << >> /\ torn = FALSE
    /\ used = {a, b, c, d} /\ clock = 3 /\ calls = MaxCalls - LaterCalls
    /\ unsaved = {} /\ unscored = {} /\ overtaken = {}

Healthy == [model |-> "yes", window |-> 0, credential |-> "yes",
            health |-> "HEALTHY", reliability |-> 500]

Seen(health) == [Healthy EXCEPT !.health = health]

Lists == {MCRoute, {r1, r3}}

Hosts ==
  {[k \in MCRoute |-> IF k = r1 THEN x ELSE IF k = r2 THEN y ELSE z] :
     x \in {Healthy, Seen("DEGRADED"), Seen("CIRCUIT_OPEN"), [Healthy EXCEPT !.model = "fails"]},
     y \in {Healthy, Seen("DEGRADED")},
     z \in {Healthy, Seen("OUTCOME_CIRCUIT_OPEN"), [Healthy EXCEPT !.window = 30],
            [Healthy EXCEPT !.credential = "fails"]}}

Asks(class, labels, risk, needs) ==
  [taskClass |-> class, labels |-> labels, risk |-> risk, needs |-> needs, tokens |-> 20]

Inputs == {Asks(Code, {}, Absent, FALSE), Asks(code, {chat}, HIGH, TRUE), Asks(code, {chat}, low, FALSE),
           Asks(chat, {}, Absent, FALSE), Asks(Absent, {}, low, FALSE), Asks(Absent, {chat}, low, FALSE)}

Configs == [costFirst : BOOLEAN, maxFanout : {1, 2}, fastPath : {TRUE}]

(* Every request is decided on the store as it was found.  One kind of      *)
(* request may also come later, and wait while the store goes on.           *)
Watched == [costFirst |-> FALSE, maxFanout |-> 2, fastPath |-> TRUE]
WatchedInputs == {Asks(Code, {}, Absent, FALSE), Asks(chat, {}, Absent, FALSE)}

AsFound == calls = MaxCalls - LaterCalls /\ lines = << >> /\ clock = 3

MayWait ==
  asked # NotAsked =>
    /\ asked[1].config = Watched /\ asked[1].input \in WatchedInputs /\ asked[1].listed = MCRoute

MCDecide ==
  \/ MayWait /\ Store
  \/ AsFound /\ Asking(Lists, Inputs, Configs)
  \/ Asking({MCRoute}, WatchedInputs, {Watched})
  \/ AsFound /\ Deciding(Hosts)
  \/ MayWait /\ Deciding({[k \in MCRoute |-> Healthy]})

-------------------------------------------------------------------------------
(* Notes: an urgent one and a later one, a doubtful one, one with a secret, *)
(* one of a priority out of range, and two without a priority, or without a *)
(* confidence.                                                              *)

NoteOf(id, words, priority, confidence, at) ==
  [id |-> id, words |-> words, priority |-> priority, confidence |-> confidence,
   createdAt |-> at]

MCNote == {NoteOf(1, {"x"}, 60, 80, 1), NoteOf(2, {"x"}, 40, 80, 3),
           NoteOf(3, {"x", "y"}, 90, 30, 3), NoteOf(4, {"x", "secret"}, 70, 90, 4),
           NoteOf(5, {"y"}, 120, 90, 5), NoteOf(6, {"x"}, NotANumber, 80, 2),
           NoteOf(7, {"y"}, 80, NotANumber, 4)}

Item(from, id, words, tokens, priority) ==
  [id |-> <<from, id>>, class |-> "PROJECT_CONTEXT", words |-> words,
   tokens |-> tokens, priority |-> priority]

MCKnowledge == <<Item("project", 1, {"y"}, 3, 40), Item("project", 2, {"secret"}, 1, 90)>>
MCItemsOf == [p \in {p1, p2} |->
  IF p = p1 THEN <<Item("long", 1, {"x"}, 2, 60), Item("long", 2, {"y", "secret"}, 1, 100)>>
  ELSE <<Item("long", 3, {"y"}, 2, 30)>>]
MCTokensOf == [words \in SUBSET {"x", "y", "secret"} |-> 2 * Cardinality(words)]
MCTask == {{"x"}, {"z"}, {}}
MCBudget == {2, 4, 7}

-------------------------------------------------------------------------------

Occurrences == {"free claim"}
Widths == {"fits", "wide", "long"}

MCSpecInit ==
  /\ scene \in Scenes
  /\ asked = NotAsked /\ decision = NoDecision
  /\ CASE scene = "runs" -> BenchInit \/ SeededInit
       [] scene = "decisions" -> SeededInit
       [] OTHER -> BenchInit
  /\ LedgerInit
  /\ TrailInit

ThreeRuns == d \in used' => d \in used

MCNext ==
  /\ UNCHANGED scene
  /\ \/ scene \in {"runs", "new store"} /\ Store /\ ThreeRuns /\ UNCHANGED <<notes, trail>>
     \/ scene = "decisions" /\ MCDecide /\ UNCHANGED <<notes, trail>>
     \/ scene = "notes" /\ LedgerNext /\ UNCHANGED <<evidence, trail>>
     \/ scene = "trail" /\ TrailNext(Occurrences, Widths) /\ UNCHANGED <<evidence, notes>>

MCSpec == MCSpecInit /\ [][MCNext]_<<scene, evidence, notes, trail>>
===============================================================================
