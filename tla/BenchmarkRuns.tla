----------------------------- MODULE BenchmarkRuns -----------------------------
(***************************************************************************)
(* supreme-benchmark's store: tasks, runs and scores in memory, and an     *)
(* append-only file of the records that made them.  A call changes memory  *)
(* at once, chains its line, and is answered when the line has settled; a  *)
(* line that cannot be written is swallowed.  recordScore() goes on after  *)
(* its line: it writes the score into the run object it found before, and  *)
(* does not persist the run again.  A new process replays the file: the    *)
(* last readable line of a run wins, scores are only collected.            *)
(*                                                                         *)
(* The service gives every run a fresh id, so a run is started once.  Task *)
(* ids, categories and the fields nothing here reads are left out; the     *)
(* route and the class of a run are functions of its id.  A quality is an  *)
(* integer 0..MaxQuality or NaN, which passes recordScore()'s range check. *)
(* An append that stops half-way leaves the file in a torn line.           *)
(***************************************************************************)
EXTENDS Integers, Sequences, FiniteSets

CONSTANTS
  RunId,           \* ids the service may generate
  RouteOf,         \* the provider and model of each run
  ClassOf,         \* the task category of each run
  MaxQuality,      \* the quality written as 1
  NaN,             \* a quality that is not a number
  Null,            \* a field that is absent
  RequireEvidence, \* requireEvidenceForScores
  MaxCalls         \* bound on the service calls of a behaviour

ASSUME BenchmarkAssumption ==
  /\ MaxQuality \in Nat \ {0} /\ MaxCalls \in Nat
  /\ RequireEvidence \in BOOLEAN
  /\ NaN \notin Int /\ Null \notin Int \cup BOOLEAN \cup RunId

FailureClass == {"WRONG_ANSWER", "TIMEOUT"}
Verdict == {"PASS", "FAIL"}
Quality == (0..MaxQuality) \cup {NaN}

VARIABLES
  runs,      \* id -> the run object, Null before it is started
  scores,    \* the score records; nothing reads their order
  lines,     \* chained lines: what to write, and what its call does after
  stored,    \* the file's complete lines, a torn one joined to its successor
  torn,      \* whether the file ends in a torn line
  used,      \* ids the service has given out
  clock,     \* finishing times
  calls,     \* service calls so far
  unsaved,   \* history: runs whose last line is not readable in the file
  unscored,  \* history: runs whose last claim's line is not readable there
  overtaken  \* history: runs scored by a call that a finish overtook

inMemory == <<runs, scores>>
disk == <<lines, stored, torn>>
bench == <<inMemory, disk, used, clock, calls, unsaved, unscored, overtaken>>

Run == [kind : {"run"}, id : RunId, at : Nat \cup {Null},
        success : BOOLEAN \cup {Null},
        failure : FailureClass \cup {"unlisted", Null},
        verdict : Verdict \cup {Null},
        quality : Quality \cup {Null},
        backed : BOOLEAN \cup {Null}]

Score == [kind : {"score"}, id : RunId, quality : Quality,
          backed : BOOLEAN \cup {Null}]

ASSUME RunAssumption == Null \notin Run

Corrupt == [kind |-> "corrupt"]

(* validateBenchmarkRecord, for the records the service can write: a NaN is *)
(* written as null, and finishRun() takes any failure class.                *)
Valid(r) ==
  /\ r.kind \in {"run", "score"}
  /\ r.quality # NaN
  /\ r.kind = "run" => r.failure # "unlisted"

-------------------------------------------------------------------------------
(* Replay.                                                                  *)

RunLines(written, id) ==
  {i \in DOMAIN written :
     Valid(written[i]) /\ written[i].kind = "run" /\ written[i].id = id}

(* Mutant: the first line of a run wins. *)
ReplayedRunFirst(written, id) ==
  LET of == RunLines(written, id)
  IN  IF of = {} THEN Null ELSE written[CHOOSE i \in of : \A j \in of : i <= j]

(* indexRecord: the last readable line of a run replaces the earlier ones. *)
ReplayedRun(written, id) ==
  LET of == RunLines(written, id)
  IN  IF of = {} THEN Null ELSE written[CHOOSE i \in of : \A j \in of : j <= i]

ReplayedScores(written) ==
  {written[i] : i \in {j \in DOMAIN written :
                         Valid(written[j]) /\ written[j].kind = "score"}}

CorruptLines == Cardinality({i \in DOMAIN stored : ~Valid(stored[i])})

BenchInit ==
  /\ runs = [id \in RunId |-> Null] /\ scores = {}
  /\ lines = << >> /\ stored = << >> /\ torn = FALSE
  /\ used = {} /\ clock = 0 /\ calls = 0
  /\ unsaved = {} /\ unscored = {} /\ overtaken = {}

(* The process dies with lines chained, the first of them perhaps half      *)
(* written, and the next process loads the file (init).  A file that cannot *)
(* be read counts as an empty one.                                          *)
NewProcess(tornHead, readable) ==
  /\ tornHead => lines # << >>
  /\ lines' = << >>
  /\ torn' = (torn \/ tornHead)
  /\ LET written == IF readable THEN stored ELSE << >>
     IN  /\ runs' = [id \in RunId |-> ReplayedRun(written, id)]
         /\ scores' = ReplayedScores(written)
  /\ unsaved' = {} /\ unscored' = {} /\ overtaken' = {}
  /\ UNCHANGED <<stored, used, clock, calls>>

-------------------------------------------------------------------------------
(* The service's calls.  What a call does after its line settled is kept    *)
(* with the line: the evidence a score was judged by when it came.          *)

Nothing == [id |-> Null, quality |-> Null, backed |-> Null, late |-> FALSE]

Persist(record, after) == lines' = Append(lines, [line |-> record, after |-> after])

Counted == calls < MaxCalls /\ calls' = calls + 1

StartRun(id) ==
  LET run == [kind |-> "run", id |-> id, at |-> Null, success |-> Null,
              failure |-> Null, verdict |-> Null, quality |-> Null, backed |-> Null]
  IN  /\ Counted
      /\ id \notin used /\ used' = used \cup {id}
      /\ runs' = [runs EXCEPT ![id] = run]
      /\ Persist(run, Nothing)
      /\ UNCHANGED <<scores, stored, torn, clock, unsaved, unscored, overtaken>>

IsVerifierPassEvidence(verdict) == verdict = "PASS"

(* Mutant: a claim keeps the flag it was made with. *)
FinishedUnchecked(run, success, failure, verdict) ==
  [run EXCEPT !.at = clock + 1, !.success = success, !.failure = failure,
              !.verdict = verdict]

(* finishRun: what the outcome carries is assigned, an absent field too,    *)
(* and the evidence behind an earlier claim is judged again.                *)
Finished(run, success, failure, verdict) ==
  [run EXCEPT !.at = clock + 1, !.success = success, !.failure = failure,
              !.verdict = verdict,
              !.backed = IF RequireEvidence /\ run.quality # Null
                         THEN IsVerifierPassEvidence(verdict) ELSE @]

Overtake(id) ==
  [i \in DOMAIN lines |->
     IF lines[i].after.id = id THEN [lines[i] EXCEPT !.after.late = TRUE] ELSE lines[i]]

FinishRun(id, success, failure, verdict) ==
  LET run == Finished(runs[id], success, failure, verdict) IN
  /\ Counted
  /\ runs[id] # Null
  /\ clock' = clock + 1
  /\ runs' = [runs EXCEPT ![id] = run]
  /\ lines' = Append(Overtake(id), [line |-> run, after |-> Nothing])
  /\ overtaken' = overtaken \ {id}
  /\ UNCHANGED <<scores, stored, torn, used, unsaved, unscored>>

(* recordScore, up to its await.  A score of an unknown run is kept too. *)
RecordScore(id, quality) ==
  LET backed == IF ~RequireEvidence THEN Null
                ELSE runs[id] # Null /\ IsVerifierPassEvidence(runs[id].verdict)
      score == [kind |-> "score", id |-> id, quality |-> quality, backed |-> backed]
  IN  /\ Counted
      /\ scores' = scores \cup {score}
      /\ Persist(score, IF runs[id] = Null THEN Nothing
                        ELSE [id |-> id, quality |-> quality,
                              backed |-> backed, late |-> FALSE])
      /\ UNCHANGED <<runs, stored, torn, used, clock, unsaved, unscored, overtaken>>

-------------------------------------------------------------------------------
(* The append chain.                                                        *)

(* The rest of recordScore(): the score goes into the run it found. *)
Continue(after) ==
  /\ runs' = IF after.id = Null THEN runs
             ELSE [runs EXCEPT ![after.id].quality = after.quality,
                               ![after.id].backed =
                                 IF after.backed = Null THEN @ ELSE after.backed]
  /\ overtaken' = IF after.id = Null THEN overtaken
                  ELSE IF after.late THEN overtaken \cup {after.id}
                  ELSE overtaken \ {after.id}

Settle(written, tornAfter) ==
  LET head == Head(lines)
      run == IF head.line.kind = "run" THEN {head.line.id} ELSE {}
      scored == IF head.after.id = Null THEN {} ELSE {head.after.id}
      readable == written /\ ~torn /\ Valid(head.line)
  IN  /\ lines # << >>
      /\ lines' = Tail(lines)
      /\ stored' = IF ~written THEN stored
                 ELSE Append(stored, IF torn THEN Corrupt ELSE head.line)
      /\ torn' = tornAfter
      /\ unsaved' = IF readable THEN unsaved \ run ELSE unsaved \cup run
      /\ unscored' = IF readable THEN unscored \ scored ELSE unscored \cup scored
      /\ Continue(head.after)
      /\ UNCHANGED <<scores, used, clock, calls>>

LineLands == Settle(TRUE, FALSE)

(* mkdir() or appendFile() rejects, before writing or half-way. *)
LineFails == \E halfway \in BOOLEAN : Settle(FALSE, torn \/ halfway)

-------------------------------------------------------------------------------
(* What the store tells, of the runs it has in memory.                      *)

Known == {id \in RunId : runs[id] # Null}

QueryHistory(known) ==
  {known[id] : id \in {x \in RunId : known[x] # Null /\ known[x].at # Null}}

(* aggregateRuns: per route, over the runs that say whether they succeeded. *)
(* The average quality is the sum and the count of the claims that are      *)
(* numbers; where fewer of them are than claims, the average is NaN.        *)
AggregateRuns(known, route) ==
  LET bucket == {id \in RunId : known[id] # Null /\ RouteOf[id] = route /\ known[id].success # Null}
      claims == {id \in bucket : known[id].quality # Null}
      numbers == {id \in claims : known[id].quality # NaN}
      units == {p \in numbers \X (1..MaxQuality) : p[2] <= known[p[1]].quality}
  IN  [samples |-> Cardinality(bucket),
       successes |-> Cardinality({id \in bucket : known[id].success = TRUE}),
       quality |-> <<Cardinality(units), Cardinality(numbers)>>,
       failures |-> [f \in FailureClass |->
                       Cardinality({id \in bucket : known[id].success = FALSE
                                                      /\ known[id].failure = f})],
       scored |-> Cardinality(claims),
       backed |-> Cardinality({id \in claims : known[id].backed = TRUE})]

(* classSampleRows: the newest finished runs, newest first.  Finishing      *)
(* times differ here, so the order is total.                                *)
ClassSampleRows(known, limit) ==
  LET rows == {r \in QueryHistory(known) : r.success # Null}
      Nth[i \in 1..Cardinality(rows)] ==
        CHOOSE r \in rows : Cardinality({x \in rows : x.at > r.at}) = i - 1
  IN  SubSeq(Nth, 1, IF Cardinality(rows) < limit THEN Cardinality(rows) ELSE limit)

-------------------------------------------------------------------------------

Outcome(id) ==
  \E verdict \in Verdict \cup {Null} :
    \/ FinishRun(id, TRUE, Null, verdict)
    \/ \E failure \in {"WRONG_ANSWER", "unlisted"} : FinishRun(id, FALSE, failure, verdict)

(* What a process does while it lives. *)
Serving ==
  \/ \E id \in RunId :
       \/ StartRun(id)
       \/ Outcome(id)
       \/ \E quality \in {0, MaxQuality, NaN} : RecordScore(id, quality)
  \/ LineLands
  \/ LineFails

Restarted == \E tornHead, readable \in BOOLEAN : NewProcess(tornHead, readable)

BenchNext == Serving \/ Restarted

BenchSpec == BenchInit /\ [][BenchNext]_bench

-------------------------------------------------------------------------------
(* Properties.                                                              *)

BenchTypeOK ==
  /\ runs \in [RunId -> Run \cup {Null}]
  /\ scores \subseteq Score
  /\ torn \in BOOLEAN /\ used \subseteq RunId
  /\ clock \in Nat /\ calls \in 0..MaxCalls

(* What settled readably is in the file.  Once the chain is empty, a new    *)
(* process reads back the outcome memory shows of a run, unless the run's   *)
(* last line was lost; and it reads back the claim memory shows, with the   *)
(* run or as a score of it, unless the line of the claim was lost.  Lost is *)
(* a line that could not be appended, was joined to a torn one, or says NaN *)
(* or a failure class that replay refuses.  What is forgotten without any   *)
(* loss is that a claim kept as a score is the run's, and whether it was    *)
(* backed.                                                                  *)
ReplayKeepsMemory ==
  lines = << >> =>
    \A id \in Known \ unsaved :
      LET old == runs[id]
          new == ReplayedRun(stored, id)
      IN  /\ new # Null
          /\ [new EXCEPT !.quality = Null, !.backed = Null]
               = [old EXCEPT !.quality = Null, !.backed = Null]
          /\ \/ new.quality = old.quality
             \/ id \in unscored
             \/ \E s \in ReplayedScores(stored) : s.id = id /\ s.quality = old.quality


(* A claim is marked as backed by evidence exactly when the run's verdict   *)
(* is a PASS, unless the finish that brought the verdict overtook the call  *)
(* that made the claim.                                                     *)
EvidenceIsCurrent ==
  RequireEvidence =>
    \A id \in Known \ overtaken :
      runs[id].quality # Null
        => runs[id].backed = IsVerifierPassEvidence(runs[id].verdict)
===============================================================================
