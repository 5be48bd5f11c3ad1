------------------------------ MODULE StoresProofs ------------------------------
(***************************************************************************)
(* The stores of the plugins, and what is decided on them: the benchmark   *)
(* store, the audit trail, the notes of a prompt, the choice of a route.   *)
(*                                                                         *)
(* The benchmark store keeps what it was told, and marks as verified what  *)
(* a verifier passed, for any runs, calls, failing and torn appends, and    *)
(* restarts.  Neither property is inductive: both speak of the moment when *)
(* nothing is left to do.  BenchInv follows every run from its object in   *)
(* memory to the last of its chained lines, and from there to the last of  *)
(* its readable lines in the file; and every claim from its chained score  *)
(* to the rest of recordScore() that will write it into the run.           *)
(*                                                                         *)
(* The audit trail is in order: the records on their way are behind all    *)
(* that were appended, and the two files are the end of those.             *)
(*                                                                         *)
(* The notes and the choice of a route are selections by rank.  A sort     *)
(* leaves no two neighbours against its comparison; where that is          *)
(* transitive, which is where every number is one, the first is behind     *)
(* nobody (Neighbours).  A prompt takes items in their order as long as    *)
(* they fit.  A decision takes the candidate whose score is the highest;   *)
(* its record is a list of finished runs, which have finishing times of    *)
(* their own (TimesInv).                                                   *)
(***************************************************************************)
EXTENDS OutcomeRouting, NoteLedger, AuditTrail, FiniteSetTheorems, WellFoundedInduction,
        SequenceTheorems, TLAPS

(* What a chained line holds, and what its call does after. *)
After == [id : RunId \cup {Null}, quality : Quality \cup {Null},
          backed : BOOLEAN \cup {Null}, late : BOOLEAN]

Chained == [line : Run \cup Score, after : After]

BenchTypes ==
  /\ BenchTypeOK
  /\ lines \in Seq(Chained)
  /\ stored \in Seq(Run \cup Score \cup {Corrupt})
  /\ unsaved \subseteq RunId /\ unscored \subseteq RunId /\ overtaken \subseteq RunId

(* The chained lines of a run, and the last of a set of positions. *)
Pending(id) == {i \in DOMAIN lines : lines[i].line.kind = "run" /\ lines[i].line.id = id}

IsLast(i, S) == i \in S /\ \A j \in S : j <= i

SameOutcome(r, s) ==
  /\ r.kind = s.kind /\ r.id = s.id /\ r.at = s.at /\ r.success = s.success
  /\ r.failure = s.failure /\ r.verdict = s.verdict

(* The file has a claim as a score line that replay reads. *)
Claimed(id, quality) ==
  \E s \in ReplayedScores(stored) : s.id = id /\ s.quality = quality

(* A line shows a run: its outcome, and its claim, unless a score line of   *)
(* the file has it or its score line was lost.                              *)
Shows(r, id) ==
  /\ SameOutcome(r, runs[id])
  /\ \/ r.quality = runs[id].quality
     \/ id \in unscored
     \/ Claimed(id, runs[id].quality)

(* Ids are given out before they are used; a run is filed under its id. *)
IdsInv ==
  /\ \A id \in RunId : runs[id] # Null => id \in used /\ runs[id].id = id
  /\ \A i \in DOMAIN lines : lines[i].line.kind = "run" => lines[i].line.id \in used
  /\ \A i \in DOMAIN stored : stored[i].kind = "run" => stored[i].id \in used

(* A run's own line has nothing to do after; a score's rest writes, into    *)
(* the run it is about, the claim its line makes.                           *)
RestInv ==
  \A i \in DOMAIN lines :
    LET after == lines[i].after IN
    after.id # Null =>
      /\ lines[i].line.kind = "score"
      /\ lines[i].line.id = after.id /\ lines[i].line.quality = after.quality
      /\ runs[after.id] # Null

(* The last chained line of a run shows it; without one, and with its last  *)
(* line readable in the file, that line does.                               *)
ShownInv ==
  \A id \in Known :
    /\ \A i \in DOMAIN lines : IsLast(i, Pending(id)) => Shows(lines[i].line, id)
    /\ (Pending(id) = {} /\ id \notin unsaved) =>
         /\ RunLines(stored, id) # {}
         /\ \A i \in DOMAIN stored : IsLast(i, RunLines(stored, id)) => Shows(stored[i], id)

Judged(r) == r.quality # Null => r.backed = IsVerifierPassEvidence(r.verdict)

(* Every line of a run is judged by the verdict it carries, in memory too   *)
(* unless a finish overtook the claim; a claim on its way that nothing has  *)
(* overtaken was judged by the verdict the run has now.                     *)
JudgedInv ==
  RequireEvidence =>
    /\ \A id \in Known \ overtaken : Judged(runs[id])
    /\ \A i \in DOMAIN lines :
         /\ lines[i].line.kind = "run" => Judged(lines[i].line)
         /\ (lines[i].after.id # Null /\ ~lines[i].after.late) =>
              lines[i].after.backed = IsVerifierPassEvidence(runs[lines[i].after.id].verdict)
    /\ \A i \in DOMAIN stored : stored[i].kind = "run" => Judged(stored[i])

BenchInv == BenchTypes /\ IdsInv /\ RestInv /\ ShownInv /\ JudgedInv

-------------------------------------------------------------------------------
(* Records.                                                                 *)

LEMMA RecordKinds ==
  /\ \A r \in Run : r.kind = "run" /\ r.id \in RunId /\ r # Null
  /\ \A r \in Score : r.kind = "score" /\ r.id \in RunId
  /\ Corrupt.kind = "corrupt" /\ ~Valid(Corrupt)
BY RunAssumption DEF Run, Score, Corrupt, Valid

(* What finishRun() makes of a run. *)
LEMMA FinishedRun ==
  ASSUME BenchTypes, NEW run \in Run, NEW success \in BOOLEAN,
         NEW failure \in FailureClass \cup {"unlisted", Null},
         NEW verdict \in Verdict \cup {Null}
  PROVE  LET made == Finished(run, success, failure, verdict) IN
         /\ made \in Run /\ made.id = run.id /\ made.verdict = verdict
         /\ RequireEvidence => Judged(made)
<1>1. clock + 1 \in Nat
  BY DEF BenchTypes, BenchTypeOK
<1>2. RequireEvidence \in BOOLEAN /\ IsVerifierPassEvidence(verdict) \in BOOLEAN
  BY BenchmarkAssumption DEF IsVerifierPassEvidence
<1> DEFINE made == Finished(run, success, failure, verdict)
<1>3. /\ made.kind = run.kind /\ made.id = run.id /\ made.at = clock + 1
      /\ made.success = success /\ made.failure = failure /\ made.verdict = verdict
      /\ made.quality = run.quality
      /\ made.backed = IF RequireEvidence /\ run.quality # Null
                        THEN IsVerifierPassEvidence(verdict) ELSE run.backed
  BY DEF Finished, Run
<1>4. made \in Run
  <2> DEFINE flag == IF RequireEvidence /\ run.quality # Null
                     THEN IsVerifierPassEvidence(verdict) ELSE run.backed
  <2>1. flag \in BOOLEAN \cup {Null}
    BY <1>2 DEF Run
  <2>2. made = [run EXCEPT !.at = clock + 1, !.success = success, !.failure = failure,
                           !.verdict = verdict, !.backed = flag]
    BY DEF Finished
  <2> HIDE DEF flag, made
  <2> QED BY <1>1, <2>1, <2>2 DEF Run
<1>5. RequireEvidence => Judged(made)
  <2> HIDE DEF made
  <2> QED BY <1>2, <1>3 DEF Judged
<1> QED BY <1>3, <1>4, <1>5

-------------------------------------------------------------------------------
(* Positions.                                                               *)

LEMMA LastExists ==
  ASSUME NEW n \in Nat, NEW S \in SUBSET (1..n), S # {}
  PROVE  \E i \in S : IsLast(i, S)
<1> DEFINE FromEnd == {n - i : i \in S}
           R == OpToRel(<, Nat)
<1>1. FromEnd \subseteq Nat /\ FromEnd # {}
  <2>1. \A i \in S : i \in 1..n /\ n - i \in Nat
    OBVIOUS
  <2> QED BY <2>1
<1>2. IsWellFoundedOn(R, Nat)
  BY NatLessThanWellFounded
<1>3. \A k, m \in Nat : m <= k \/ <<k, m>> \in R
  BY DEF OpToRel
<1> HIDE DEF FromEnd, R
<1>4. PICK m \in FromEnd : \A k \in FromEnd : ~(<<k, m>> \in R)
  BY <1>1, <1>2, WFMin
<1>5. \A k \in FromEnd : m <= k
  BY <1>1, <1>3, <1>4
<1>6. PICK i \in S : m = n - i
  BY DEF FromEnd
<1>7. ASSUME NEW j \in S PROVE j <= i
  <2>1. n - j \in FromEnd
    BY DEF FromEnd
  <2> QED BY <1>5, <1>6, <2>1
<1> QED BY <1>7 DEF IsLast

(* The replay of a run is its last readable line. *)
LEMMA Replays ==
  ASSUME BenchTypes, NEW id \in RunId
  PROVE  /\ RunLines(stored, id) = {} => ReplayedRun(stored, id) = Null
         /\ RunLines(stored, id) # {} =>
              \E i \in DOMAIN stored :
                /\ IsLast(i, RunLines(stored, id))
                /\ ReplayedRun(stored, id) = stored[i]
                /\ stored[i] \in Run /\ stored[i].id = id
<1> DEFINE of == RunLines(stored, id)
           last == CHOOSE i \in of : \A j \in of : j <= i
<1>1. ReplayedRun(stored, id) = IF of = {} THEN Null ELSE stored[last]
  BY DEF ReplayedRun
<1>2. CASE of # {}
  <2>1. DOMAIN stored = 1..Len(stored) /\ Len(stored) \in Nat
        /\ \A i \in DOMAIN stored : stored[i] \in Run \cup Score \cup {Corrupt}
    BY LenProperties, ElementOfSeq DEF BenchTypes
  <2>2. of \subseteq DOMAIN stored
    BY DEF RunLines
  <2>3. \E i \in of : IsLast(i, of)
    BY <1>2, <2>1, <2>2, LastExists
  <2>4. IsLast(last, of)
    BY <2>3 DEF IsLast
  <2>5. last \in DOMAIN stored /\ stored[last].kind = "run" /\ stored[last].id = id
    BY <2>4 DEF IsLast, RunLines
  <2>6. stored[last] \in Run
    BY <2>1, <2>5, RecordKinds
  <2> HIDE DEF last
  <2> QED BY <1>1, <1>2, <2>4, <2>5, <2>6
<1>3. CASE of = {}
  BY <1>1, <1>3
<1> QED BY <1>2, <1>3

(* One more line in the file. *)
LEMMA OneMoreLine ==
  ASSUME BenchTypes, NEW r \in Run \cup Score \cup {Corrupt}, NEW id \in RunId
  PROVE  LET more == Append(stored, r) IN
         /\ more \in Seq(Run \cup Score \cup {Corrupt})
         /\ DOMAIN more = DOMAIN stored \cup {Len(stored) + 1}
         /\ Len(stored) \in Nat /\ DOMAIN stored = 1..Len(stored)
         /\ \A i \in DOMAIN stored : more[i] = stored[i]
         /\ more[Len(stored) + 1] = r
         /\ RunLines(more, id) =
              IF Valid(r) /\ r.kind = "run" /\ r.id = id
              THEN RunLines(stored, id) \cup {Len(stored) + 1} ELSE RunLines(stored, id)
<1>0. PICK more : more = Append(stored, r)
  OBVIOUS
<1>1. stored \in Seq(Run \cup Score \cup {Corrupt})
  BY DEF BenchTypes
<1>2. /\ more \in Seq(Run \cup Score \cup {Corrupt})
      /\ Len(more) = Len(stored) + 1
      /\ \A i \in 1..Len(stored) : more[i] = stored[i]
      /\ more[Len(stored) + 1] = r
  BY <1>0, <1>1, AppendProperties
<1>3. /\ DOMAIN stored = 1..Len(stored) /\ DOMAIN more = 1..(Len(stored) + 1)
      /\ Len(stored) \in Nat
  BY <1>1, <1>2, LenProperties
<1>4. DOMAIN more = DOMAIN stored \cup {Len(stored) + 1}
  BY <1>3
<1>5. RunLines(more, id) =
        IF Valid(r) /\ r.kind = "run" /\ r.id = id
        THEN RunLines(stored, id) \cup {Len(stored) + 1} ELSE RunLines(stored, id)
  BY <1>2, <1>3, <1>4 DEF RunLines
<1> QED BY <1>0, <1>2, <1>3, <1>4, <1>5

-------------------------------------------------------------------------------
(* Calls.  A call chains one line; a finish also marks the claims it        *)
(* overtakes.                                                               *)

Chaining(ls, x) ==
  /\ ls \in Seq(Chained) /\ Len(ls) = Len(lines)
  /\ \A i \in DOMAIN lines :
       /\ ls[i].line = lines[i].line /\ ls[i].after.id = lines[i].after.id
       /\ ls[i].after.quality = lines[i].after.quality
       /\ ls[i].after.backed = lines[i].after.backed
  /\ x \in Chained
  /\ lines' = Append(ls, x)
  /\ stored' = stored /\ unsaved' = unsaved /\ unscored' = unscored
  /\ used \subseteq used'

LEMMA Chain ==
  ASSUME BenchTypes, NEW ls, NEW x, Chaining(ls, x)
  PROVE  /\ lines' \in Seq(Chained)
         /\ Len(lines) \in Nat /\ DOMAIN lines = 1..Len(lines)
         /\ DOMAIN lines' = DOMAIN lines \cup {Len(lines) + 1}
         /\ \A i \in DOMAIN lines : lines'[i] = ls[i]
         /\ lines'[Len(lines) + 1] = x
         /\ \A i \in DOMAIN lines : lines[i] \in Chained /\ ls[i] \in Chained
<1>1. /\ lines \in Seq(Chained) /\ ls \in Seq(Chained) /\ x \in Chained
      /\ Len(ls) = Len(lines) /\ lines' = Append(ls, x)
  BY DEF BenchTypes, Chaining
<1>2. /\ lines' \in Seq(Chained) /\ Len(lines') = Len(ls) + 1
      /\ \A i \in 1..Len(ls) : lines'[i] = ls[i]
      /\ lines'[Len(ls) + 1] = x
  BY <1>1, AppendProperties
<1>3. /\ DOMAIN lines = 1..Len(lines) /\ Len(lines) \in Nat
      /\ DOMAIN lines' = 1..(Len(lines) + 1) /\ DOMAIN ls = DOMAIN lines
  BY <1>1, <1>2, LenProperties
<1>4. \A i \in DOMAIN lines : lines[i] \in Chained /\ ls[i] \in Chained
  BY <1>1, <1>3, ElementOfSeq
<1>5. DOMAIN lines' = DOMAIN lines \cup {Len(lines) + 1}
  BY <1>3
<1> QED BY <1>1, <1>2, <1>3, <1>4, <1>5

LEMMA PendingMore ==
  ASSUME BenchTypes, NEW ls, NEW x, Chaining(ls, x), NEW id \in RunId
  PROVE  Pending(id)' = IF x.line.kind = "run" /\ x.line.id = id
                        THEN Pending(id) \cup {Len(lines) + 1} ELSE Pending(id)
<1>1. \A i \in DOMAIN lines : lines'[i].line = lines[i].line
  BY Chain DEF Chaining
<1>2. /\ DOMAIN lines' = DOMAIN lines \cup {Len(lines) + 1}
      /\ lines'[Len(lines) + 1] = x
  BY Chain
<1> QED BY <1>1, <1>2 DEF Pending

LEMMA ChainIds ==
  ASSUME BenchTypes, IdsInv, NEW ls, NEW x, Chaining(ls, x),
         \A id \in RunId : runs'[id] # Null => id \in used' /\ runs'[id].id = id,
         x.line.kind = "run" => x.line.id \in used'
  PROVE  IdsInv'
<1>1. \A i \in DOMAIN lines : lines'[i].line = lines[i].line
  BY Chain DEF Chaining
<1>2. /\ DOMAIN lines' = DOMAIN lines \cup {Len(lines) + 1}
      /\ lines'[Len(lines) + 1] = x
  BY Chain
<1>3. used \subseteq used' /\ stored' = stored
  BY DEF Chaining
<1> QED BY <1>1, <1>2, <1>3 DEF IdsInv

LEMMA ChainRest ==
  ASSUME BenchTypes, RestInv, NEW ls, NEW x, Chaining(ls, x),
         \A id \in RunId : runs[id] # Null => runs'[id] # Null,
         x.after.id # Null =>
           /\ x.line.kind = "score" /\ runs'[x.after.id] # Null
           /\ x.line.id = x.after.id /\ x.line.quality = x.after.quality
  PROVE  RestInv'
<1> SUFFICES ASSUME NEW i \in DOMAIN lines', lines'[i].after.id # Null
             PROVE  /\ lines'[i].line.kind = "score"
                    /\ runs'[lines'[i].after.id] # Null
                    /\ lines'[i].line.id = lines'[i].after.id
                    /\ lines'[i].line.quality = lines'[i].after.quality
  BY DEF RestInv
<1>1. CASE i = Len(lines) + 1
  BY <1>1, Chain
<1>2. CASE i # Len(lines) + 1
  <2>1. i \in DOMAIN lines /\ lines'[i] = ls[i] /\ lines[i] \in Chained
    BY <1>2, Chain
  <2>2. /\ lines'[i].line = lines[i].line /\ lines'[i].after.id = lines[i].after.id
        /\ lines'[i].after.quality = lines[i].after.quality
    BY <2>1 DEF Chaining
  <2>3. lines[i].after.id \in RunId
    BY <2>1, <2>2 DEF Chained, After
  <2> QED BY <2>1, <2>2, <2>3 DEF RestInv
<1> QED BY <1>1, <1>2

LEMMA ChainShown ==
  ASSUME BenchTypes, ShownInv, NEW ls, NEW x, Chaining(ls, x),
         \A id \in RunId :
           IF x.line.kind = "run" /\ x.line.id = id THEN Shows(x.line, id)'
           ELSE runs'[id] = runs[id]
  PROVE  ShownInv'
<1> SUFFICES ASSUME NEW id \in RunId, runs'[id] # Null
             PROVE  /\ \A i \in DOMAIN lines' :
                         IsLast(i, Pending(id)') => Shows(lines[i].line, id)'
                    /\ (Pending(id)' = {} /\ id \notin unsaved') =>
                         /\ RunLines(stored', id) # {}
                         /\ \A i \in DOMAIN stored' :
                              IsLast(i, RunLines(stored', id)) => Shows(stored[i], id)'
  BY DEF ShownInv, Known
<1>1. /\ Len(lines) \in Nat /\ DOMAIN lines = 1..Len(lines)
      /\ DOMAIN lines' = DOMAIN lines \cup {Len(lines) + 1}
      /\ lines'[Len(lines) + 1] = x
      /\ \A i \in DOMAIN lines : lines'[i].line = lines[i].line
  BY Chain DEF Chaining
<1>2. CASE x.line.kind = "run" /\ x.line.id = id
  <2>1. Pending(id)' = Pending(id) \cup {Len(lines) + 1} /\ Shows(x.line, id)'
    BY <1>2, PendingMore
  <2>2. Pending(id) \subseteq DOMAIN lines
    BY DEF Pending
  <2>3. ASSUME NEW i \in DOMAIN lines', IsLast(i, Pending(id)')
        PROVE  Shows(lines[i].line, id)'
    <3>1. i = Len(lines) + 1
      <4>1. i \in Pending(id)' /\ \A j \in Pending(id)' : j <= i
        BY <2>3 DEF IsLast
      <4>2. i \in DOMAIN lines \cup {Len(lines) + 1} /\ Len(lines) + 1 <= i
        BY <2>1, <2>2, <4>1
      <4> QED BY <1>1, <4>2
    <3>2. lines'[i].line = x.line
      BY <1>1, <3>1
    <3> QED BY <2>1, <3>2 DEF Shows
  <2> QED BY <2>1, <2>3
<1>3. CASE ~(x.line.kind = "run" /\ x.line.id = id)
  <2>1. /\ Pending(id)' = Pending(id) /\ runs'[id] = runs[id] /\ id \in Known
        /\ stored' = stored /\ unsaved' = unsaved /\ unscored' = unscored
    BY <1>3, PendingMore DEF Chaining, Known
  <2>2. \A r : Shows(r, id) => Shows(r, id)'
    BY <2>1 DEF Shows, Claimed
  <2>3. Pending(id) \subseteq DOMAIN lines
    BY DEF Pending
  <2>4. ASSUME NEW i \in DOMAIN lines', IsLast(i, Pending(id)')
        PROVE  Shows(lines[i].line, id)'
    <3>1. i \in DOMAIN lines /\ IsLast(i, Pending(id))
      BY <2>1, <2>3, <2>4 DEF IsLast
    <3>2. Shows(lines[i].line, id) /\ lines'[i].line = lines[i].line
      BY <1>1, <2>1, <3>1 DEF ShownInv
    <3> QED BY <2>1, <3>2 DEF Shows, Claimed
  <2>5. ASSUME NEW i \in DOMAIN stored', IsLast(i, RunLines(stored', id)),
               Pending(id)' = {}, id \notin unsaved'
        PROVE  Shows(stored[i], id)'
    <3>1. Shows(stored[i], id)
      BY <2>1, <2>5 DEF ShownInv
    <3> QED BY <2>1, <3>1 DEF Shows, Claimed
  <2> QED BY <2>1, <2>4, <2>5 DEF ShownInv
<1> QED BY <1>2, <1>3

LEMMA StartStep ==
  ASSUME BenchInv, NEW id \in RunId, StartRun(id)
  PROVE  BenchInv'
<1> DEFINE run == [kind |-> "run", id |-> id, at |-> Null, success |-> Null,
                   failure |-> Null, verdict |-> Null, quality |-> Null, backed |-> Null]
           x == [line |-> run, after |-> Nothing]
<1>1. run \in Run /\ run.quality = Null
  BY DEF Run
<1>2. Nothing \in After /\ Nothing.id = Null
  BY DEF Nothing, After
<1>3. x \in Chained /\ x.line = run /\ x.after = Nothing
  BY <1>1, <1>2 DEF Chained
<1>4. /\ id \notin used /\ used' = used \cup {id}
      /\ runs' = [runs EXCEPT ![id] = run] /\ lines' = Append(lines, x)
      /\ UNCHANGED <<scores, stored, torn, clock, unsaved, unscored, overtaken>>
      /\ calls' = calls + 1 /\ calls < MaxCalls
  BY DEF StartRun, Counted, Persist
<1> HIDE DEF run, x
<1>5. /\ lines \in Seq(Chained) /\ runs \in [RunId -> Run \cup {Null}] /\ BenchTypes
      /\ DOMAIN lines = 1..Len(lines)
  BY LenProperties DEF BenchInv, BenchTypes, BenchTypeOK
<1>6. Chaining(lines, x)
  BY <1>3, <1>4, <1>5 DEF Chaining
<1>7. runs' \in [RunId -> Run \cup {Null}] /\ runs'[id] = run
      /\ \A o \in RunId \ {id} : runs'[o] = runs[o]
  BY <1>1, <1>4, <1>5
<1>8. BenchTypes'
  <2>1. calls' \in 0..MaxCalls
    BY <1>4, <1>5, BenchmarkAssumption DEF BenchTypes, BenchTypeOK
  <2>2. lines' \in Seq(Chained)
    BY <1>5, <1>6, Chain
  <2> QED BY <1>4, <1>5, <1>7, <2>1, <2>2 DEF BenchTypes, BenchTypeOK
<1>9. IdsInv'
  <2>1. run.id = id
    BY DEF run
  <2>2. \A o \in RunId : runs'[o] # Null => o \in used' /\ runs'[o].id = o
    BY <1>4, <1>7, <2>1 DEF BenchInv, IdsInv
  <2> QED BY <1>3, <1>4, <1>5, <1>6, <2>1, <2>2, ChainIds DEF BenchInv
<1>10. RestInv'
  <2>1. \A o \in RunId : runs[o] # Null => runs'[o] # Null
    BY <1>1, <1>7, RecordKinds
  <2> QED BY <1>2, <1>3, <1>5, <1>6, <2>1, ChainRest DEF BenchInv
<1>11. ShownInv'
  <2>1. run.id = id /\ run.kind = "run"
    BY DEF run
  <2>2. Shows(run, id)'
    BY <1>7 DEF Shows, SameOutcome
  <2> QED BY <1>3, <1>5, <1>6, <1>7, <2>1, <2>2, ChainShown DEF BenchInv
<1>12. JudgedInv'
  <2> SUFFICES ASSUME RequireEvidence PROVE JudgedInv'
    BY DEF JudgedInv
  <2>1. runs[id] = Null
    BY <1>4 DEF BenchInv, IdsInv
  <2>2. Judged(run)
    BY <1>1 DEF Judged
  <2>3. \A o \in Known' \ overtaken' : Judged(runs'[o])
    BY <1>4, <1>7, <2>2 DEF BenchInv, JudgedInv, Known
  <2>4. ASSUME NEW i \in DOMAIN lines'
        PROVE  /\ lines'[i].line.kind = "run" => Judged(lines'[i].line)
               /\ (lines'[i].after.id # Null /\ ~lines'[i].after.late) =>
                    lines'[i].after.backed
                      = IsVerifierPassEvidence(runs'[lines'[i].after.id].verdict)
    <3>1. CASE i = Len(lines) + 1
      BY <1>2, <1>3, <1>5, <1>6, <2>2, <3>1, Chain
    <3>2. CASE i # Len(lines) + 1
      <4>1. i \in DOMAIN lines /\ lines'[i] = lines[i] /\ lines[i] \in Chained
        BY <1>5, <1>6, <3>2, Chain
      <4>2. lines[i].after.id # Null => runs'[lines[i].after.id] = runs[lines[i].after.id]
        <5>1. lines[i].after.id \in RunId \cup {Null}
          BY <4>1 DEF Chained, After
        <5>2. lines[i].after.id # Null => lines[i].after.id # id
          BY <2>1, <4>1 DEF BenchInv, RestInv
        <5> QED BY <1>7, <5>1, <5>2
      <4> QED BY <4>1, <4>2 DEF BenchInv, JudgedInv
    <3> QED BY <3>1, <3>2
  <2> QED BY <1>4, <2>3, <2>4 DEF BenchInv, JudgedInv, Judged
<1> QED BY <1>8, <1>9, <1>10, <1>11, <1>12 DEF BenchInv

LEMMA RecordStep ==
  ASSUME BenchInv, NEW id \in RunId, NEW quality \in Quality, RecordScore(id, quality)
  PROVE  BenchInv'
<1>0. PICK backed, after :
        /\ backed = IF ~RequireEvidence THEN Null
                    ELSE runs[id] # Null /\ IsVerifierPassEvidence(runs[id].verdict)
        /\ after = IF runs[id] = Null THEN Nothing
                   ELSE [id |-> id, quality |-> quality, backed |-> backed, late |-> FALSE]
  OBVIOUS
<1> DEFINE score == [kind |-> "score", id |-> id, quality |-> quality, backed |-> backed]
           x == [line |-> score, after |-> after]
<1>1. backed \in BOOLEAN \cup {Null}
  BY <1>0 DEF IsVerifierPassEvidence
<1>2. score \in Score /\ score.id = id /\ score.quality = quality /\ score.kind = "score"
  BY <1>1 DEF Score
<1>3. Nothing \in After /\ Nothing.id = Null
  BY DEF Nothing, After
<1>4. after \in After /\ after.id \in {Null, id} /\ (after.id # Null =>
        /\ runs[id] # Null /\ after.id = id /\ after.quality = quality
        /\ after.backed = backed /\ ~after.late)
  <2>1. [id |-> id, quality |-> quality, backed |-> backed, late |-> FALSE] \in After
    BY <1>1 DEF After
  <2> QED BY <1>0, <1>3, <2>1
<1>5. x \in Chained /\ x.line = score /\ x.after = after
  BY <1>2, <1>4 DEF Chained
<1>6. /\ scores' = scores \cup {score} /\ lines' = Append(lines, x)
      /\ UNCHANGED <<runs, stored, torn, used, clock, unsaved, unscored, overtaken>>
      /\ calls' = calls + 1 /\ calls < MaxCalls
  BY <1>0 DEF RecordScore, Counted, Persist
<1>7. RequireEvidence => (runs[id] # Null => backed = IsVerifierPassEvidence(runs[id].verdict))
  BY <1>0 DEF IsVerifierPassEvidence
<1> HIDE DEF score, x
<1>8. /\ lines \in Seq(Chained) /\ runs \in [RunId -> Run \cup {Null}] /\ BenchTypes
      /\ DOMAIN lines = 1..Len(lines)
  BY LenProperties DEF BenchInv, BenchTypes, BenchTypeOK
<1>9. Chaining(lines, x)
  BY <1>5, <1>6, <1>8 DEF Chaining
<1>10. BenchTypes'
  <2>1. calls' \in 0..MaxCalls
    BY <1>6, <1>8, BenchmarkAssumption DEF BenchTypes, BenchTypeOK
  <2>2. lines' \in Seq(Chained)
    BY <1>8, <1>9, Chain
  <2> QED BY <1>2, <1>6, <1>8, <2>1, <2>2 DEF BenchTypes, BenchTypeOK
<1>11. IdsInv'
  <2>1. \A o \in RunId : runs'[o] # Null => o \in used' /\ runs'[o].id = o
    BY <1>6 DEF BenchInv, IdsInv
  <2> QED BY <1>2, <1>5, <1>8, <1>9, <2>1, ChainIds DEF BenchInv
<1>12. RestInv'
  <2>1. after.id # Null => score.id = after.id /\ score.quality = after.quality
    BY <1>2, <1>4
  <2>2. after.id # Null => runs'[after.id] # Null
    BY <1>4, <1>6
  <2> QED BY <1>2, <1>5, <1>6, <1>8, <1>9, <2>1, <2>2, ChainRest DEF BenchInv
<1>13. ShownInv'
  BY <1>2, <1>5, <1>6, <1>8, <1>9, ChainShown DEF BenchInv
<1>14. JudgedInv'
  <2> SUFFICES ASSUME RequireEvidence PROVE JudgedInv'
    BY DEF JudgedInv
  <2>1. ASSUME NEW i \in DOMAIN lines'
        PROVE  /\ lines'[i].line.kind = "run" => Judged(lines'[i].line)
               /\ (lines'[i].after.id # Null /\ ~lines'[i].after.late) =>
                    lines'[i].after.backed
                      = IsVerifierPassEvidence(runs'[lines'[i].after.id].verdict)
    <3>1. CASE i = Len(lines) + 1
      <4>1. lines'[i] = x
        BY <1>8, <1>9, <3>1, Chain
      <4> QED BY <1>2, <1>4, <1>5, <1>6, <1>7, <4>1
    <3>2. CASE i # Len(lines) + 1
      <4>1. i \in DOMAIN lines /\ lines'[i] = lines[i]
        BY <1>8, <1>9, <3>2, Chain
      <4> QED BY <1>6, <4>1 DEF BenchInv, JudgedInv
    <3> QED BY <3>1, <3>2
  <2>2. \A o \in Known' \ overtaken' : Judged(runs'[o])
    BY <1>6 DEF BenchInv, JudgedInv, Known
  <2> QED BY <1>6, <2>1, <2>2 DEF BenchInv, JudgedInv, Judged
<1> QED BY <1>10, <1>11, <1>12, <1>13, <1>14 DEF BenchInv

(* Marking the claims a finish overtakes changes nothing else of the chain. *)
LEMMA Overtaking ==
  ASSUME BenchTypes, NEW id \in RunId
  PROVE  /\ Overtake(id) \in Seq(Chained) /\ Len(Overtake(id)) = Len(lines)
         /\ \A i \in DOMAIN lines :
              /\ Overtake(id)[i].line = lines[i].line
              /\ Overtake(id)[i].after.id = lines[i].after.id
              /\ Overtake(id)[i].after.quality = lines[i].after.quality
              /\ Overtake(id)[i].after.backed = lines[i].after.backed
              /\ lines[i].after.id # id => Overtake(id)[i] = lines[i]
              /\ lines[i].after.id = id => Overtake(id)[i].after.late
<1>1. /\ DOMAIN lines = 1..Len(lines) /\ Len(lines) \in Nat
      /\ \A i \in DOMAIN lines : lines[i] \in Chained
  BY LenProperties, ElementOfSeq DEF BenchTypes
<1>2. /\ DOMAIN Overtake(id) = DOMAIN lines
      /\ \A i \in DOMAIN lines :
           Overtake(id)[i] = IF lines[i].after.id = id
                             THEN [lines[i] EXCEPT !.after.late = TRUE] ELSE lines[i]
  BY DEF Overtake
<1>3. ASSUME NEW y \in Chained
      PROVE  LET z == [y EXCEPT !.after.late = TRUE] IN
             /\ z \in Chained /\ z.line = y.line /\ z.after.id = y.after.id
             /\ z.after.quality = y.after.quality /\ z.after.backed = y.after.backed
             /\ z.after.late
  BY DEF Chained, After
<1>4. \A i \in 1..Len(lines) : Overtake(id)[i] \in Chained
  BY <1>1, <1>2, <1>3
<1>5. Overtake(id) = [i \in 1..Len(lines) |-> Overtake(id)[i]]
  BY <1>1 DEF Overtake
<1>6. Overtake(id) \in Seq(Chained)
  BY <1>1, <1>4, <1>5, IsASeq
<1>7. Len(Overtake(id)) = Len(lines)
  BY <1>1, <1>2, <1>6, LenProperties
<1> QED BY <1>1, <1>2, <1>3, <1>6, <1>7

LEMMA FinishStep ==
  ASSUME BenchInv, NEW id \in RunId, NEW success \in BOOLEAN,
         NEW failure \in FailureClass \cup {"unlisted", Null},
         NEW verdict \in Verdict \cup {Null}, FinishRun(id, success, failure, verdict)
  PROVE  BenchInv'
<1>0. PICK run : run = Finished(runs[id], success, failure, verdict)
  OBVIOUS
<1> DEFINE x == [line |-> run, after |-> Nothing]
           ls == Overtake(id)
<1>1. /\ runs[id] # Null /\ clock' = clock + 1
      /\ runs' = [runs EXCEPT ![id] = run] /\ lines' = Append(ls, x)
      /\ overtaken' = overtaken \ {id}
      /\ UNCHANGED <<scores, stored, torn, used, unsaved, unscored>>
      /\ calls' = calls + 1 /\ calls < MaxCalls
  BY <1>0 DEF FinishRun, Counted
<1>2. /\ lines \in Seq(Chained) /\ runs \in [RunId -> Run \cup {Null}] /\ BenchTypes
      /\ DOMAIN lines = 1..Len(lines) /\ runs[id] \in Run /\ runs[id].id = id
      /\ id \in used
  BY <1>1, LenProperties DEF BenchInv, BenchTypes, BenchTypeOK, IdsInv
<1>3. /\ run \in Run /\ run.id = id /\ run.verdict = verdict /\ run.kind = "run"
      /\ RequireEvidence => Judged(run)
  BY <1>0, <1>2, FinishedRun, RecordKinds
<1>4. Nothing \in After /\ Nothing.id = Null
  BY DEF Nothing, After
<1>5. x \in Chained /\ x.line = run /\ x.after = Nothing
  BY <1>3, <1>4 DEF Chained
<1>6. /\ ls \in Seq(Chained) /\ Len(ls) = Len(lines)
      /\ \A i \in DOMAIN lines :
           /\ ls[i].line = lines[i].line /\ ls[i].after.id = lines[i].after.id
           /\ ls[i].after.quality = lines[i].after.quality
           /\ ls[i].after.backed = lines[i].after.backed
           /\ lines[i].after.id # id => ls[i] = lines[i]
           /\ lines[i].after.id = id => ls[i].after.late
  BY <1>2, Overtaking
<1> HIDE DEF x, ls
<1>7. Chaining(ls, x)
  BY <1>1, <1>5, <1>6 DEF Chaining
<1>8. runs' \in [RunId -> Run \cup {Null}] /\ runs'[id] = run
      /\ \A o \in RunId \ {id} : runs'[o] = runs[o]
  BY <1>1, <1>2, <1>3
<1>9. BenchTypes'
  <2>1. calls' \in 0..MaxCalls /\ clock' \in Nat
    BY <1>1, <1>2, BenchmarkAssumption DEF BenchTypes, BenchTypeOK
  <2>2. lines' \in Seq(Chained)
    BY <1>2, <1>7, Chain
  <2> QED BY <1>1, <1>2, <1>8, <2>1, <2>2 DEF BenchTypes, BenchTypeOK
<1>10. IdsInv'
  <2>1. \A o \in RunId : runs'[o] # Null => o \in used' /\ runs'[o].id = o
    BY <1>1, <1>2, <1>3, <1>8 DEF BenchInv, IdsInv
  <2> QED BY <1>1, <1>2, <1>3, <1>5, <1>7, <2>1, ChainIds DEF BenchInv
<1>11. RestInv'
  <2>1. \A o \in RunId : runs[o] # Null => runs'[o] # Null
    BY <1>3, <1>8, RecordKinds
  <2> QED BY <1>2, <1>4, <1>5, <1>7, <2>1, ChainRest DEF BenchInv
<1>12. ShownInv'
  <2>1. Shows(run, id)'
    BY <1>8 DEF Shows, SameOutcome
  <2> QED BY <1>2, <1>3, <1>5, <1>7, <1>8, <2>1, ChainShown DEF BenchInv
<1>13. JudgedInv'
  <2> SUFFICES ASSUME RequireEvidence PROVE JudgedInv'
    BY DEF JudgedInv
  <2>1. \A o \in Known' \ overtaken' : Judged(runs'[o])
    BY <1>1, <1>3, <1>8 DEF BenchInv, JudgedInv, Known
  <2>2. ASSUME NEW i \in DOMAIN lines'
        PROVE  /\ lines'[i].line.kind = "run" => Judged(lines'[i].line)
               /\ (lines'[i].after.id # Null /\ ~lines'[i].after.late) =>
                    lines'[i].after.backed
                      = IsVerifierPassEvidence(runs'[lines'[i].after.id].verdict)
    <3>1. CASE i = Len(lines) + 1
      BY <1>2, <1>3, <1>4, <1>5, <1>7, <3>1, Chain
    <3>2. CASE i # Len(lines) + 1
      <4>1. i \in DOMAIN lines /\ lines'[i] = ls[i] /\ lines[i] \in Chained
        BY <1>2, <1>7, <3>2, Chain
      <4>2. lines'[i].line.kind = "run" => Judged(lines'[i].line)
        BY <1>6, <4>1 DEF BenchInv, JudgedInv
      <4>3. ASSUME lines'[i].after.id # Null, ~lines'[i].after.late
            PROVE  lines'[i].after.backed
                     = IsVerifierPassEvidence(runs'[lines'[i].after.id].verdict)
        <5>1. lines[i].after.id # id /\ ls[i] = lines[i]
          BY <1>6, <4>1, <4>3
        <5>2. lines[i].after.id \in RunId \ {id}
          BY <4>1, <4>3, <5>1 DEF Chained, After
        <5> QED BY <1>8, <4>1, <4>3, <5>1, <5>2 DEF BenchInv, JudgedInv
      <4> QED BY <4>2, <4>3
    <3> QED BY <3>1, <3>2
  <2> QED BY <1>1, <2>1, <2>2 DEF BenchInv, JudgedInv, Judged
<1> QED BY <1>9, <1>10, <1>11, <1>12, <1>13 DEF BenchInv

-------------------------------------------------------------------------------
(* The chain and the file.                                                *)

(* The chain without its first line. *)
LEMMA Unchained ==
  ASSUME BenchTypes, lines # << >>, lines' = Tail(lines)
  PROVE  /\ lines' \in Seq(Chained) /\ 1 \in DOMAIN lines /\ Head(lines) = lines[1]
         /\ lines[1] \in Chained
         /\ \A i \in DOMAIN lines' : i + 1 \in DOMAIN lines /\ lines'[i] = lines[i + 1]
         /\ \A i \in DOMAIN lines : i # 1 => i - 1 \in DOMAIN lines'
         /\ DOMAIN lines' \subseteq Nat /\ DOMAIN lines \subseteq Nat
<1>1. /\ lines \in Seq(Chained) /\ lines' \in Seq(Chained) /\ Len(lines') = Len(lines) - 1
      /\ Head(lines) = lines[1] /\ \A i \in 1..Len(lines') : lines'[i] = lines[i + 1]
  BY HeadTailProperties DEF BenchTypes
<1>2. /\ DOMAIN lines = 1..Len(lines) /\ DOMAIN lines' = 1..Len(lines')
      /\ Len(lines) \in Nat /\ Len(lines) # 0
  BY <1>1, LenProperties, EmptySeq
<1>3. 1 \in DOMAIN lines
  BY <1>2
<1> QED BY <1>1, <1>2, <1>3, ElementOfSeq

(* What Continue() does to a run: its outcome stays, and its claim is one   *)
(* of the scores.                                                          *)
LEMMA ContinueRuns ==
  ASSUME BenchInv, lines # << >>, Continue(lines[1].after)
  PROVE  LET after == lines[1].after IN
         /\ runs' \in [RunId -> Run \cup {Null}] /\ overtaken' \subseteq RunId
         /\ \A id \in RunId : id # after.id => runs'[id] = runs[id]
                                           /\ (id \in overtaken' <=> id \in overtaken)
         /\ \A id \in RunId : id = after.id =>
              /\ runs[id] # Null /\ runs'[id] # Null /\ runs'[id].id = runs[id].id
              /\ SameOutcome(runs[id], runs'[id])
              /\ runs'[id].quality = after.quality
              /\ after.backed # Null => runs'[id].backed = after.backed
              /\ id \notin overtaken' => ~after.late
<1> DEFINE after == lines[1].after
<1>1. 1 \in DOMAIN lines /\ lines[1] \in Chained
  <2>1. lines \in Seq(Chained) /\ Len(lines) \in Nat /\ DOMAIN lines = 1..Len(lines)
    BY LenProperties DEF BenchInv, BenchTypes
  <2>2. Len(lines) # 0
    BY <2>1, EmptySeq
  <2>3. 1 \in DOMAIN lines
    BY <2>1, <2>2
  <2> QED BY <2>1, <2>3, ElementOfSeq
<1>2. after \in After /\ after.id \in RunId \cup {Null}
      /\ after.quality \in Quality \cup {Null} /\ after.backed \in BOOLEAN \cup {Null}
      /\ after.late \in BOOLEAN
  BY <1>1 DEF Chained, After
<1>3. runs \in [RunId -> Run \cup {Null}] /\ overtaken \subseteq RunId
  BY DEF BenchInv, BenchTypes, BenchTypeOK
<1>4. after.id # Null => runs[after.id] # Null
  BY <1>1 DEF BenchInv, RestInv
<1>5. Null \notin RunId
  BY BenchmarkAssumption
<1>6. /\ runs' = IF after.id = Null THEN runs
                 ELSE [runs EXCEPT ![after.id].quality = after.quality,
                                   ![after.id].backed =
                                     IF after.backed = Null THEN @ ELSE after.backed]
      /\ overtaken' = IF after.id = Null THEN overtaken
                      ELSE IF after.late THEN overtaken \cup {after.id}
                      ELSE overtaken \ {after.id}
  BY DEF Continue
<1> HIDE DEF after
<1>7. CASE after.id = Null
  BY <1>3, <1>5, <1>6, <1>7 DEF after
<1>8. CASE after.id # Null
  <2> DEFINE run == runs[after.id]
             flag == IF after.backed = Null THEN run.backed ELSE after.backed
             made == [run EXCEPT !.quality = after.quality, !.backed = flag]
  <2>1. run \in Run /\ after.id \in RunId
    BY <1>2, <1>3, <1>4, <1>8
  <2>2. flag \in BOOLEAN \cup {Null}
    BY <1>2, <2>1 DEF Run
  <2>3. runs' = [runs EXCEPT ![after.id] = made]
    BY <1>3, <1>6, <1>8, <2>1 DEF Run
  <2> HIDE DEF flag
  <2>4. /\ made \in Run /\ made.id = run.id /\ SameOutcome(run, made)
        /\ made.quality = after.quality /\ made.backed = flag
    BY <1>2, <2>1, <2>2 DEF Run, SameOutcome
  <2>5. after.backed # Null => flag = after.backed
    BY DEF flag
  <2> HIDE DEF run, made
  <2>6. runs' \in [RunId -> Run \cup {Null}] /\ runs'[after.id] = made
        /\ \A id \in RunId : id # after.id => runs'[id] = runs[id]
    BY <1>3, <2>1, <2>3, <2>4
  <2>7. /\ overtaken' \subseteq RunId
        /\ \A id \in RunId : id # after.id => (id \in overtaken' <=> id \in overtaken)
        /\ after.id \notin overtaken' => ~after.late
    BY <1>3, <1>6, <1>8, <2>1
  <2>8. made # Null
    BY <2>4, RecordKinds
  <2> QED BY <1>4, <1>8, <2>1, <2>4, <2>5, <2>6, <2>7, <2>8 DEF after, run
<1> QED BY <1>7, <1>8

LEMMA SettleStep ==
  ASSUME BenchInv, NEW written \in BOOLEAN, NEW tornAfter \in BOOLEAN,
         Settle(written, tornAfter)
  PROVE  BenchInv'
<1>0. PICK head, added, readable, scored :
        /\ head = lines[1]
        /\ scored = IF head.after.id = Null THEN {} ELSE {head.after.id}
        /\ added = IF torn THEN Corrupt ELSE head.line
        /\ readable = (written /\ ~torn /\ Valid(head.line))
  OBVIOUS
<1>1. lines # << >> /\ lines' = Tail(lines) /\ BenchTypes
  BY DEF Settle, BenchInv
<1>2. /\ lines' \in Seq(Chained) /\ 1 \in DOMAIN lines /\ Head(lines) = head
      /\ head \in Chained
      /\ \A i \in DOMAIN lines' : i + 1 \in DOMAIN lines /\ lines'[i] = lines[i + 1]
      /\ \A i \in DOMAIN lines : i # 1 => i - 1 \in DOMAIN lines'
      /\ DOMAIN lines' \subseteq Nat /\ DOMAIN lines \subseteq Nat
  BY <1>0, <1>1, Unchained
<1>3. /\ stored' = IF ~written THEN stored ELSE Append(stored, added)
      /\ torn' = tornAfter
      /\ unsaved' = IF readable
                    THEN unsaved \ (IF head.line.kind = "run" THEN {head.line.id} ELSE {})
                    ELSE unsaved \cup (IF head.line.kind = "run" THEN {head.line.id} ELSE {})
      /\ unscored' = IF readable THEN unscored \ scored ELSE unscored \cup scored
      /\ Continue(head.after)
      /\ UNCHANGED <<scores, used, clock, calls>>
  BY <1>0, <1>2 DEF Settle
<1>4. /\ runs' \in [RunId -> Run \cup {Null}] /\ overtaken' \subseteq RunId
      /\ \A id \in RunId : id # head.after.id => runs'[id] = runs[id]
                                            /\ (id \in overtaken' <=> id \in overtaken)
      /\ \A id \in RunId : id = head.after.id =>
           /\ runs[id] # Null /\ runs'[id] # Null /\ runs'[id].id = runs[id].id
           /\ SameOutcome(runs[id], runs'[id])
           /\ runs'[id].quality = head.after.quality
           /\ head.after.backed # Null => runs'[id].backed = head.after.backed
           /\ id \notin overtaken' => ~head.after.late
  BY <1>0, <1>1, <1>3, ContinueRuns
<1>5. head.line \in Run \cup Score /\ added \in Run \cup Score \cup {Corrupt}
  BY <1>0, <1>2 DEF Chained
<1>6. /\ stored' \in Seq(Run \cup Score \cup {Corrupt})
      /\ \A i \in DOMAIN stored' :
           \/ i \in DOMAIN stored /\ stored'[i] = stored[i]
           \/ written /\ stored'[i] = added /\ i = Len(stored) + 1
      /\ \A i \in DOMAIN stored : i \in DOMAIN stored' /\ stored'[i] = stored[i]
      /\ written => \E i \in DOMAIN stored' : stored'[i] = added
      /\ \A id \in RunId :
           RunLines(stored', id) =
             IF written /\ Valid(added) /\ added.kind = "run" /\ added.id = id
             THEN RunLines(stored, id) \cup {Len(stored) + 1} ELSE RunLines(stored, id)
      /\ Len(stored) \in Nat /\ DOMAIN stored = 1..Len(stored)
  <2>1. Len(stored) \in Nat /\ DOMAIN stored = 1..Len(stored)
        /\ stored \in Seq(Run \cup Score \cup {Corrupt})
    BY <1>1, LenProperties DEF BenchTypes
  <2>2. CASE ~written
    BY <1>3, <2>1, <2>2
  <2>3. CASE written
    <3>1. stored' = Append(stored, added)
      BY <1>3, <2>3
    <3>2. /\ stored' \in Seq(Run \cup Score \cup {Corrupt})
          /\ Len(stored') = Len(stored) + 1
          /\ \A i \in 1..Len(stored) : stored'[i] = stored[i]
          /\ stored'[Len(stored) + 1] = added
      BY <1>5, <2>1, <3>1, AppendProperties
    <3>3. DOMAIN stored' = 1..(Len(stored) + 1)
      BY <2>1, <3>2, LenProperties
    <3>4. \A id \in RunId :
            RunLines(stored', id) =
              IF Valid(added) /\ added.kind = "run" /\ added.id = id
              THEN RunLines(stored, id) \cup {Len(stored) + 1} ELSE RunLines(stored, id)
      <4> SUFFICES ASSUME NEW id \in RunId
                   PROVE  RunLines(stored', id) =
                            IF Valid(added) /\ added.kind = "run" /\ added.id = id
                            THEN RunLines(stored, id) \cup {Len(stored) + 1}
                            ELSE RunLines(stored, id)
        OBVIOUS
      <4> QED BY <1>1, <1>5, <3>1, OneMoreLine
    <3>5. ASSUME NEW i \in DOMAIN stored'
          PROVE  \/ i \in DOMAIN stored /\ stored'[i] = stored[i]
                 \/ written /\ stored'[i] = added /\ i = Len(stored) + 1
      <4>1. i \in 1..Len(stored) \/ i = Len(stored) + 1
        BY <2>1, <3>3
      <4> QED BY <2>1, <2>3, <3>2, <4>1
    <3>6. \A i \in DOMAIN stored : i \in DOMAIN stored' /\ stored'[i] = stored[i]
      BY <2>1, <3>2, <3>3
    <3>7. \A id \in RunId :
            RunLines(stored', id) =
              IF written /\ Valid(added) /\ added.kind = "run" /\ added.id = id
              THEN RunLines(stored, id) \cup {Len(stored) + 1} ELSE RunLines(stored, id)
      BY <2>3, <3>4
    <3>8. Len(stored) + 1 \in DOMAIN stored'
      BY <2>1, <3>3
    <3> QED BY <2>1, <3>2, <3>5, <3>6, <3>7, <3>8
  <2> QED BY <2>2, <2>3
<1>7. BenchTypes'
  <2>1. head.line.kind = "run" => head.line.id \in RunId
    BY <1>5, RecordKinds
  <2>2. unsaved' \subseteq RunId
    BY <1>1, <1>3, <2>1 DEF BenchTypes
  <2>3. scored \subseteq RunId
    BY <1>0, <1>2 DEF Chained, After
  <2>4. unscored' \subseteq RunId
    BY <1>1, <1>3, <2>3 DEF BenchTypes
  <2> QED BY <1>1, <1>2, <1>3, <1>4, <1>6, <2>2, <2>4 DEF BenchTypes, BenchTypeOK
<1>8. IdsInv'
  <2>1. ASSUME NEW id \in RunId, runs'[id] # Null
        PROVE  id \in used' /\ runs'[id].id = id
    BY <1>3, <1>4, <2>1 DEF BenchInv, IdsInv
  <2>2. ASSUME NEW i \in DOMAIN stored', stored'[i].kind = "run"
        PROVE  stored'[i].id \in used'
    <3>1. CASE i \in DOMAIN stored /\ stored'[i] = stored[i]
      BY <1>3, <2>2, <3>1 DEF BenchInv, IdsInv
    <3>2. CASE stored'[i] = added
      <4>1. added = head.line
        BY <1>0, <2>2, <3>2, RecordKinds
      <4> QED BY <1>0, <1>2, <1>3, <2>2, <3>2, <4>1 DEF BenchInv, IdsInv
    <3> QED BY <1>6, <3>1, <3>2
  <2>3. \A i \in DOMAIN lines' : lines'[i].line.kind = "run" => lines'[i].line.id \in used'
    BY <1>2, <1>3 DEF BenchInv, IdsInv
  <2> QED BY <2>1, <2>2, <2>3 DEF IdsInv
<1>9. RestInv'
  <2> SUFFICES ASSUME NEW i \in DOMAIN lines', lines'[i].after.id # Null
               PROVE  /\ lines'[i].line.kind = "score"
                      /\ runs'[lines'[i].after.id] # Null
                      /\ lines'[i].line.id = lines'[i].after.id
                      /\ lines'[i].line.quality = lines'[i].after.quality
    BY DEF RestInv
  <2>1. i + 1 \in DOMAIN lines /\ lines'[i] = lines[i + 1] /\ lines'[i] \in Chained
    BY <1>2, LenProperties, ElementOfSeq
  <2>2. lines'[i].after.id \in RunId
    BY <2>1 DEF Chained, After
  <2>3. /\ lines'[i].line.kind = "score" /\ runs[lines'[i].after.id] # Null
        /\ lines'[i].line.id = lines'[i].after.id
        /\ lines'[i].line.quality = lines'[i].after.quality
    BY <2>1 DEF BenchInv, RestInv
  <2>4. runs'[lines'[i].after.id] # Null
    BY <1>4, <2>2, <2>3
  <2> QED BY <2>3, <2>4
<1>10. ShownInv'
  <2> SUFFICES ASSUME NEW id \in RunId, runs'[id] # Null
               PROVE  /\ \A i \in DOMAIN lines' :
                           IsLast(i, Pending(id)') => Shows(lines[i].line, id)'
                      /\ (Pending(id)' = {} /\ id \notin unsaved') =>
                           /\ RunLines(stored', id) # {}
                           /\ \A i \in DOMAIN stored' :
                                IsLast(i, RunLines(stored', id)) => Shows(stored[i], id)'
    BY DEF ShownInv, Known
  <2>1. runs[id] # Null /\ id \in Known
    BY <1>4 DEF Known
  <2>2. ASSUME NEW r, NEW so, Shows(r, id), so = r PROVE Shows(so, id)'
    <3>1. CASE id # head.after.id
      <4>1. runs'[id] = runs[id]
        BY <1>4, <3>1
      <4>2. id \in unscored => id \in unscored'
        BY <1>0, <1>3, <3>1
      <4>3. Claimed(id, runs[id].quality) => Claimed(id, runs[id].quality)'
        <5>1. ReplayedScores(stored) \subseteq ReplayedScores(stored')
          BY <1>6 DEF ReplayedScores
        <5> QED BY <4>1, <5>1 DEF Claimed
      <4> QED BY <2>2, <4>1, <4>2, <4>3 DEF Shows
    <3>2. CASE id = head.after.id
      <4>1. /\ head.line.kind = "score" /\ head.line.id = id
            /\ head.line.quality = head.after.quality /\ id # Null
        BY <1>0, <1>2, <3>2, BenchmarkAssumption DEF BenchInv, RestInv
      <4>2. SameOutcome(so, runs'[id]) /\ runs'[id].quality = head.after.quality
        BY <1>4, <2>2, <3>2 DEF Shows, SameOutcome
      <4>3. CASE readable
        <5>1. written /\ added = head.line /\ Valid(head.line)
          BY <1>0, <4>3
        <5>2. \E i \in DOMAIN stored' : stored'[i] = head.line
          BY <1>6, <5>1
        <5>3. head.line \in ReplayedScores(stored')
          BY <4>1, <5>1, <5>2 DEF ReplayedScores
        <5>4. Claimed(id, runs[id].quality)'
          BY <4>1, <4>2, <5>3 DEF Claimed
        <5> QED BY <4>2, <5>4 DEF Shows
      <4>4. CASE ~readable
        <5>1. id \in unscored'
          BY <1>0, <1>3, <3>2, <4>1, <4>4
        <5> QED BY <4>2, <5>1 DEF Shows
      <4> QED BY <4>3, <4>4
    <3> QED BY <3>1, <3>2
  <2>3. /\ \A i \in Pending(id)' : i + 1 \in Pending(id) /\ i \in DOMAIN lines'
        /\ \A i \in Pending(id) : i # 1 => i - 1 \in Pending(id)'
        /\ Pending(id) \subseteq Nat
    <3>1. \A i \in DOMAIN lines : i # 1 => lines'[i - 1] = lines[i]
      BY <1>2
    <3> QED BY <1>2, <3>1 DEF Pending
  <2>4. ASSUME NEW i \in DOMAIN lines', IsLast(i, Pending(id)')
        PROVE  Shows(lines[i].line, id)'
    <3>1. i + 1 \in DOMAIN lines /\ lines'[i] = lines[i + 1] /\ i \in Nat
      BY <1>2
    <3>2. IsLast(i + 1, Pending(id))
      <4>1. i + 1 \in Pending(id)
        BY <2>3, <2>4 DEF IsLast
      <4>2. ASSUME NEW j \in Pending(id) PROVE j <= i + 1
        <5>1. CASE j = 1
          BY <3>1, <5>1
        <5>2. CASE j # 1
          <6>1. j - 1 <= i /\ j \in Nat
            BY <2>3, <2>4, <5>2 DEF IsLast
          <6> QED BY <3>1, <6>1
        <5> QED BY <5>1, <5>2
      <4> QED BY <4>1, <4>2 DEF IsLast
    <3>3. Shows(lines[i + 1].line, id)
      BY <2>1, <3>1, <3>2 DEF BenchInv, ShownInv
    <3>4. PICK r : r = lines[i + 1].line
      OBVIOUS
    <3>5. lines'[i].line = r
      BY <3>1, <3>4
    <3>6. Shows(r, id)'
      BY <2>2, <3>3, <3>4
    <3> QED BY <3>5, <3>6 DEF Shows
  <2>5. ASSUME Pending(id)' = {}, id \notin unsaved'
        PROVE  /\ RunLines(stored', id) # {}
               /\ \A i \in DOMAIN stored' :
                    IsLast(i, RunLines(stored', id)) => Shows(stored[i], id)'
    <3>1. CASE head.line.kind = "run" /\ head.line.id = id
      <4>1. readable /\ written /\ added = head.line /\ Valid(added)
        BY <1>0, <1>3, <2>5, <3>1
      <4>2. RunLines(stored', id) = RunLines(stored, id) \cup {Len(stored) + 1}
        BY <1>6, <3>1, <4>1
      <4>3. RunLines(stored, id) \subseteq DOMAIN stored
        BY DEF RunLines
      <4>4. IsLast(1, Pending(id))
        <5>1. 1 \in Pending(id)
          BY <1>0, <1>2, <3>1 DEF Pending
        <5>2. \A j \in Pending(id) : j = 1
          BY <2>3, <2>5
        <5> QED BY <5>1, <5>2 DEF IsLast
      <4>5. Shows(head.line, id)
        BY <1>0, <1>2, <2>1, <4>4 DEF BenchInv, ShownInv
      <4>6. ASSUME NEW i \in DOMAIN stored', IsLast(i, RunLines(stored', id))
            PROVE  Shows(stored[i], id)'
        <5>1. Len(stored) + 1 <= i
          BY <4>2, <4>6 DEF IsLast
        <5>2. ~(i \in DOMAIN stored)
          BY <1>6, <5>1
        <5>3. stored'[i] = head.line
          BY <1>6, <4>1, <5>2
        <5>4. Shows(head.line, id)'
          BY <2>2, <4>5
        <5> QED BY <5>3, <5>4 DEF Shows
      <4> QED BY <4>2, <4>6
    <3>2. CASE ~(head.line.kind = "run" /\ head.line.id = id)
      <4>1. Pending(id) = {}
        <5>1. 1 \notin Pending(id)
          BY <1>0, <3>2 DEF Pending
        <5> QED BY <2>3, <2>5, <5>1
      <4>2. id \notin unsaved
        BY <1>3, <2>5, <3>2
      <4>3. RunLines(stored', id) = RunLines(stored, id)
        <5>1. ~(Valid(added) /\ added.kind = "run" /\ added.id = id)
          BY <1>0, <3>2, RecordKinds
        <5> QED BY <1>6, <5>1
      <4>4. RunLines(stored, id) # {} /\ RunLines(stored, id) \subseteq DOMAIN stored
        BY <2>1, <4>1, <4>2 DEF BenchInv, ShownInv, RunLines
      <4>5. ASSUME NEW i \in DOMAIN stored', IsLast(i, RunLines(stored', id))
            PROVE  Shows(stored[i], id)'
        <5>1. i \in DOMAIN stored /\ stored'[i] = stored[i]
          BY <1>6, <4>3, <4>4, <4>5 DEF IsLast
        <5>2. Shows(stored[i], id)
          BY <2>1, <4>1, <4>2, <4>3, <4>5, <5>1 DEF BenchInv, ShownInv
        <5>3. PICK r : r = stored[i]
          OBVIOUS
        <5>4. Shows(r, id)'
          BY <2>2, <5>2, <5>3
        <5>5. stored'[i] = r
          BY <5>1, <5>3
        <5> QED BY <5>4, <5>5 DEF Shows
      <4> QED BY <4>3, <4>4, <4>5
    <3> QED BY <3>1, <3>2
  <2> QED BY <2>4, <2>5
<1>11. JudgedInv'
  <2> SUFFICES ASSUME RequireEvidence PROVE JudgedInv'
    BY DEF JudgedInv
  <2>1. ASSUME NEW id \in RunId, runs'[id] # Null, id \notin overtaken'
        PROVE  Judged(runs'[id])
    <3>1. CASE id # head.after.id
      BY <1>4, <2>1, <3>1 DEF BenchInv, JudgedInv, Known
    <3>2. CASE id = head.after.id
      <4>1. head.after.id # Null /\ ~head.after.late
        BY <1>4, <2>1, <3>2, BenchmarkAssumption
      <4>2. head.after.backed = IsVerifierPassEvidence(runs[id].verdict)
        BY <1>0, <1>2, <3>2, <4>1 DEF BenchInv, JudgedInv
      <4>3. IsVerifierPassEvidence(runs[id].verdict) \in BOOLEAN
        BY DEF IsVerifierPassEvidence
      <4>4. head.after.backed # Null
        BY <4>2, <4>3, BenchmarkAssumption
      <4>5. runs'[id].backed = head.after.backed /\ runs'[id].verdict = runs[id].verdict
        BY <1>4, <3>2, <4>4 DEF SameOutcome
      <4> QED BY <4>2, <4>5 DEF Judged
    <3> QED BY <3>1, <3>2
  <2>2. ASSUME NEW i \in DOMAIN lines'
        PROVE  /\ lines'[i].line.kind = "run" => Judged(lines'[i].line)
               /\ (lines'[i].after.id # Null /\ ~lines'[i].after.late) =>
                    lines'[i].after.backed
                      = IsVerifierPassEvidence(runs'[lines'[i].after.id].verdict)
    <3>1. i + 1 \in DOMAIN lines /\ lines'[i] = lines[i + 1] /\ lines'[i] \in Chained
      BY <1>2, LenProperties, ElementOfSeq
    <3>2. lines'[i].after.id # Null =>
            runs'[lines'[i].after.id].verdict = runs[lines'[i].after.id].verdict
      <4>1. lines'[i].after.id \in RunId \cup {Null}
        BY <3>1 DEF Chained, After
      <4> QED BY <1>4, <4>1 DEF SameOutcome
    <3> QED BY <3>1, <3>2 DEF BenchInv, JudgedInv
  <2>3. ASSUME NEW i \in DOMAIN stored', stored'[i].kind = "run"
        PROVE  Judged(stored'[i])
    <3>1. CASE i \in DOMAIN stored /\ stored'[i] = stored[i]
      BY <2>3, <3>1 DEF BenchInv, JudgedInv
    <3>2. CASE stored'[i] = added
      <4>1. added = head.line
        BY <1>0, <2>3, <3>2, RecordKinds
      <4> QED BY <1>0, <1>2, <2>3, <3>2, <4>1 DEF BenchInv, JudgedInv
    <3> QED BY <1>6, <3>1, <3>2
  <2> QED BY <2>1, <2>2, <2>3 DEF JudgedInv, Known, Judged
<1> QED BY <1>7, <1>8, <1>9, <1>10, <1>11 DEF BenchInv

LEMMA RestartStep ==
  ASSUME BenchInv, NEW tornHead \in BOOLEAN, NEW readable \in BOOLEAN,
         NewProcess(tornHead, readable)
  PROVE  BenchInv'
<1>0. PICK written : written = IF readable THEN stored ELSE << >>
  OBVIOUS
<1>1. /\ lines' = << >> /\ torn' = (torn \/ tornHead)
      /\ runs' = [id \in RunId |-> ReplayedRun(written, id)]
      /\ scores' = ReplayedScores(written)
      /\ unsaved' = {} /\ unscored' = {} /\ overtaken' = {}
      /\ UNCHANGED <<stored, used, clock, calls>>
  BY <1>0 DEF NewProcess
<1>2. BenchTypes /\ DOMAIN lines' = {}
  BY <1>1 DEF BenchInv
<1>3. \A i \in DOMAIN stored : stored[i] \in Run \cup Score \cup {Corrupt}
  BY <1>2, ElementOfSeq, LenProperties DEF BenchTypes
(* A run is what its last readable line says, or unknown. *)
<1>4. ASSUME NEW id \in RunId
      PROVE  \/ runs'[id] = Null
             \/ /\ RunLines(stored, id) # {}
                /\ \E i \in DOMAIN stored :
                     /\ IsLast(i, RunLines(stored, id))
                     /\ runs'[id] = stored[i]
                     /\ stored[i] \in Run /\ stored[i].id = id
  <2>1. runs'[id] = ReplayedRun(written, id)
    BY <1>1
  <2>2. CASE readable
    BY <1>0, <1>2, <2>1, <2>2, Replays
  <2>3. CASE ~readable
    <3>1. RunLines(<< >>, id) = {}
      BY DEF RunLines
    <3> QED BY <1>0, <2>1, <2>3, <3>1 DEF ReplayedRun
  <2> QED BY <2>2, <2>3
<1>5. BenchTypes'
  <2>1. runs' \in [RunId -> Run \cup {Null}]
    <3>1. \A id \in RunId : runs'[id] \in Run \cup {Null}
      BY <1>4
    <3> QED BY <1>1, <3>1
  <2>2. scores' \subseteq Score
    <3>1. CASE readable
      BY <1>0, <1>1, <1>3, <3>1, RecordKinds DEF ReplayedScores
    <3>2. CASE ~readable
      BY <1>0, <1>1, <3>2 DEF ReplayedScores
    <3> QED BY <3>1, <3>2
  <2> QED BY <1>1, <1>2, <2>1, <2>2 DEF BenchTypes, BenchTypeOK
<1>6. IdsInv'
  <2>1. ASSUME NEW id \in RunId, runs'[id] # Null
        PROVE  id \in used' /\ runs'[id].id = id
    <3>1. PICK i \in DOMAIN stored : runs'[id] = stored[i] /\ stored[i] \in Run
                                    /\ stored[i].id = id
      BY <1>4, <2>1
    <3>2. stored[i].kind = "run"
      BY <3>1, RecordKinds
    <3> QED BY <1>1, <3>1, <3>2 DEF BenchInv, IdsInv
  <2> QED BY <1>1, <1>2, <2>1 DEF BenchInv, IdsInv
<1>7. RestInv'
  BY <1>2 DEF RestInv
<1>8. ShownInv'
  <2> SUFFICES ASSUME NEW id \in RunId, runs'[id] # Null
               PROVE  /\ RunLines(stored', id) # {}
                      /\ \A i \in DOMAIN stored' :
                           IsLast(i, RunLines(stored', id)) => Shows(stored[i], id)'
    BY <1>2 DEF ShownInv, Known
  <2>1. PICK i \in DOMAIN stored : IsLast(i, RunLines(stored, id)) /\ runs'[id] = stored[i]
    BY <1>4
  <2>2. RunLines(stored', id) # {} /\ stored' = stored
    BY <1>1, <1>4
  <2>3. ASSUME NEW j \in DOMAIN stored', IsLast(j, RunLines(stored', id))
        PROVE  Shows(stored[j], id)'
    <3>1. i \in Nat /\ j \in Nat
      BY <1>1, <1>2, <2>1, LenProperties DEF BenchTypes
    <3>2. j = i
      BY <2>1, <2>2, <2>3, <3>1 DEF IsLast
    <3> QED BY <2>1, <2>2, <3>2 DEF Shows, SameOutcome
  <2> QED BY <2>2, <2>3
<1>9. JudgedInv'
  <2>1. ASSUME RequireEvidence, NEW id \in RunId, runs'[id] # Null
        PROVE  Judged(runs'[id])
    <3>1. PICK i \in DOMAIN stored : runs'[id] = stored[i] /\ stored[i] \in Run
      BY <1>4, <2>1
    <3>2. stored[i].kind = "run"
      BY <3>1, RecordKinds
    <3> QED BY <2>1, <3>1, <3>2 DEF BenchInv, JudgedInv
  <2> QED BY <1>1, <1>2, <2>1 DEF BenchInv, JudgedInv, Judged, Known
<1> QED BY <1>5, <1>6, <1>7, <1>8, <1>9 DEF BenchInv

-------------------------------------------------------------------------------

LEMMA BenchStep == BenchInv /\ [BenchNext]_bench => BenchInv'
<1> SUFFICES ASSUME BenchInv, [BenchNext]_bench PROVE BenchInv'
  OBVIOUS
<1>1. ASSUME NEW id \in RunId, StartRun(id) PROVE BenchInv'
  BY <1>1, StartStep
<1>2. ASSUME NEW id \in RunId, Outcome(id) PROVE BenchInv'
  <2>1. PICK verdict \in Verdict \cup {Null} :
          \/ FinishRun(id, TRUE, Null, verdict)
          \/ \E failure \in {"WRONG_ANSWER", "unlisted"} :
               FinishRun(id, FALSE, failure, verdict)
    BY <1>2 DEF Outcome
  <2>2. CASE FinishRun(id, TRUE, Null, verdict)
    BY <2>2, FinishStep
  <2>3. ASSUME NEW failure \in {"WRONG_ANSWER", "unlisted"},
               FinishRun(id, FALSE, failure, verdict)
        PROVE  BenchInv'
    <3>1. failure \in FailureClass \cup {"unlisted", Null}
      BY DEF FailureClass
    <3> QED BY <2>3, <3>1, FinishStep
  <2> QED BY <2>1, <2>2, <2>3
<1>3. ASSUME NEW id \in RunId, NEW quality \in {0, MaxQuality, NaN},
             RecordScore(id, quality)
      PROVE  BenchInv'
  <2>1. quality \in Quality
    BY BenchmarkAssumption DEF Quality
  <2> QED BY <1>3, <2>1, RecordStep
<1>4. CASE LineLands
  BY <1>4, SettleStep DEF LineLands
<1>5. CASE LineFails
  <2>1. PICK halfway \in BOOLEAN : Settle(FALSE, torn \/ halfway)
    BY <1>5 DEF LineFails
  <2>2. PICK after : after = (torn \/ halfway)
    OBVIOUS
  <2>3. after \in BOOLEAN /\ Settle(FALSE, after)
    BY <2>1, <2>2
  <2> QED BY <2>3, SettleStep
<1>6. ASSUME NEW tornHead \in BOOLEAN, NEW readable \in BOOLEAN,
             NewProcess(tornHead, readable)
      PROVE  BenchInv'
  BY <1>6, RestartStep
<1>7. CASE UNCHANGED bench
  <2>1. /\ UNCHANGED <<runs, scores, lines, stored, torn, used, clock, calls>>
        /\ UNCHANGED <<unsaved, unscored, overtaken>>
    BY <1>7 DEF bench, inMemory, disk
  <2>2. BenchTypes' /\ IdsInv' /\ RestInv' /\ JudgedInv'
    BY <2>1 DEF BenchInv, BenchTypes, BenchTypeOK, IdsInv, RestInv, JudgedInv, Judged, Known
  <2>3. ShownInv'
    BY <2>1 DEF BenchInv, ShownInv, Known, Pending, Shows, Claimed
  <2> QED BY <2>2, <2>3 DEF BenchInv
<1> QED BY <1>1, <1>2, <1>3, <1>4, <1>5, <1>6, <1>7 DEF BenchNext, Serving, Restarted

LEMMA BenchInitially == BenchInit => BenchInv
<1> SUFFICES ASSUME BenchInit PROVE BenchInv
  OBVIOUS
<1>1. /\ runs = [id \in RunId |-> Null] /\ scores = {} /\ torn = FALSE
      /\ lines = << >> /\ stored = << >> /\ DOMAIN lines = {} /\ DOMAIN stored = {}
      /\ used = {} /\ clock = 0 /\ calls = 0
      /\ unsaved = {} /\ unscored = {} /\ overtaken = {}
  BY DEF BenchInit
<1>2. Known = {}
  BY <1>1 DEF Known
<1>3. BenchTypes
  <2>1. calls \in 0..MaxCalls /\ clock \in Nat
    BY <1>1, BenchmarkAssumption
  <2>2. runs \in [RunId -> Run \cup {Null}]
    BY <1>1
  <2>3. << >> \in Seq(Chained) /\ << >> \in Seq(Run \cup Score \cup {Corrupt})
    BY EmptySeq
  <2> QED BY <1>1, <2>1, <2>2, <2>3 DEF BenchTypes, BenchTypeOK
<1>4. IdsInv /\ RestInv /\ ShownInv /\ JudgedInv
  BY <1>1, <1>2 DEF IdsInv, RestInv, ShownInv, JudgedInv
<1> QED BY <1>3, <1>4 DEF BenchInv

(* The store is consistent in every state: chained lines, file and memory   *)
(* tell of the same runs, and every claim is on its way or where it belongs. *)
THEOREM BenchInvariant == BenchSpec => []BenchInv
BY BenchInitially, BenchStep, PTL DEF BenchSpec

LEMMA ShownIsReplayed == BenchInv => ReplayKeepsMemory
<1> SUFFICES ASSUME BenchInv, lines = << >>, NEW id \in Known \ unsaved
             PROVE  LET old == runs[id]
                        new == ReplayedRun(stored, id)
                    IN  /\ new # Null
                        /\ [new EXCEPT !.quality = Null, !.backed = Null]
                             = [old EXCEPT !.quality = Null, !.backed = Null]
                        /\ \/ new.quality = old.quality
                           \/ id \in unscored
                           \/ \E s \in ReplayedScores(stored) :
                                s.id = id /\ s.quality = old.quality
  BY DEF ReplayKeepsMemory
<1>1. Pending(id) = {} /\ id \in RunId /\ runs[id] # Null /\ BenchTypes
  BY DEF Pending, Known, BenchInv
<1>2. RunLines(stored, id) # {}
  BY <1>1 DEF BenchInv, ShownInv
<1>3. PICK i \in DOMAIN stored : /\ IsLast(i, RunLines(stored, id))
                                /\ ReplayedRun(stored, id) = stored[i]
                                /\ stored[i] \in Run
  BY <1>1, <1>2, Replays
<1>4. Shows(stored[i], id) /\ runs[id] \in Run /\ stored[i] # Null
  BY <1>1, <1>3, RecordKinds DEF BenchInv, ShownInv, BenchTypes, BenchTypeOK
<1>5. \A r, s \in Run : SameOutcome(r, s) =>
        [r EXCEPT !.quality = Null, !.backed = Null]
          = [s EXCEPT !.quality = Null, !.backed = Null]
  BY DEF Run, SameOutcome
<1> QED BY <1>3, <1>4, <1>5 DEF Shows, Claimed

(* A restart forgets no outcome that settled readably, and no claim that    *)
(* did: the file has it, with the run or as a score of it.                  *)
THEOREM RestartKeepsRuns == BenchSpec => []ReplayKeepsMemory
BY BenchInvariant, ShownIsReplayed, PTL

(* A claim is marked as backed exactly when the run's verdict is a PASS,    *)
(* unless a finish overtook the call that made it.                          *)
THEOREM ClaimsAreJudged == BenchSpec => []EvidenceIsCurrent
<1>1. BenchInv => EvidenceIsCurrent
  BY DEF BenchInv, JudgedInv, EvidenceIsCurrent, Judged
<1> QED BY <1>1, BenchInvariant, PTL

-------------------------------------------------------------------------------
(* A line of the trail: a record, or what cannot be read. *)
Records ==
  [life : Nat, seq : Nat, event : {Recorded[o][1] : o \in DOMAIN Recorded},
   fields : SUBSET RecordFields, width : Width]
Lines == {Torn} \cup Records

TrailTypes ==
  /\ life \in Nat /\ seq \in Nat
  /\ chain \in Seq(Records)
  /\ active \in Seq(Lines) /\ fileSize \in Nat
  /\ rotated \in Seq(Lines)
  /\ appended \in Seq(Lines)
  /\ stats \in [written : Nat, dropped : Nat, rotations : Nat]

(* The records of this process are numbered as they were emitted, those on  *)
(* their way after those appended.                                          *)
OrderInv ==
  /\ \A i \in DOMAIN chain : chain[i].life = life /\ chain[i].seq <= seq
  /\ \A i, j \in DOMAIN chain : i < j => chain[i].seq < chain[j].seq
  /\ \A i \in DOMAIN appended : appended[i] # Torn =>
       /\ appended[i].life < life \/ (appended[i].life = life /\ appended[i].seq <= seq)
       /\ \A j \in DOMAIN chain : Before(appended[i], chain[j])
  /\ \A i, j \in DOMAIN appended :
       appended[i] # Torn /\ appended[j] # Torn /\ i < j => Before(appended[i], appended[j])

CountInv == stats.written + stats.dropped + Len(chain) = seq

(* IsSuffix, line by line. *)
Ends(s, t) ==
  /\ Len(s) <= Len(t)
  /\ \A i \in 1 .. Len(s) : s[i] = t[Len(t) - Len(s) + i]
FilesInv == Ends(rotated \o active, appended)

BoundInv == overgrown \/ (fileSize <= MaxFileBytes + 1 /\ (sized => fileSize < MaxFileBytes))

TrailInv ==
  TrailTypes /\ OrderInv /\ CountInv /\ FilesInv /\ BoundInv

----
LEMMA EndsIsSuffix ==
  ASSUME NEW L, NEW s \in Seq(L), NEW t \in Seq(L)
  PROVE  Ends(s, t) <=> IsSuffix(s, t)
<1> DEFINE k == Len(t) - Len(s)
<1>1. Len(s) \in Nat /\ Len(t) \in Nat /\ DOMAIN s = 1 .. Len(s)
  OBVIOUS
<1>2. ASSUME Len(s) <= Len(t)
      PROVE  /\ SubSeq(t, k + 1, Len(t)) \in Seq(L)
             /\ Len(SubSeq(t, k + 1, Len(t))) = Len(s)
             /\ \A i \in 1 .. Len(s) : SubSeq(t, k + 1, Len(t))[i] = t[k + i]
  BY <1>1, <1>2
<1>3. ASSUME Len(s) <= Len(t), \A i \in 1 .. Len(s) : s[i] = t[k + i]
      PROVE  s = SubSeq(t, k + 1, Len(t))
  <2> DEFINE u == SubSeq(t, k + 1, Len(t))
  <2>1. u \in Seq(L) /\ Len(u) = Len(s) /\ \A i \in 1 .. Len(s) : s[i] = u[i]
    BY <1>2, <1>3
  <2> HIDE DEF u
  <2>2. s = u
    BY <2>1, SeqEqual
  <2> QED BY <2>2 DEF u
<1> QED BY <1>1, <1>2, <1>3 DEF Ends, IsSuffix

(* A line more at the end of both. *)
LEMMA EndsAppend ==
  ASSUME NEW L, NEW s \in Seq(L), NEW t \in Seq(L), NEW x \in L, Ends(s, t)
  PROVE  Ends(Append(s, x), Append(t, x))
<1>1. /\ Len(Append(s, x)) = Len(s) + 1 /\ Len(Append(t, x)) = Len(t) + 1
      /\ Len(s) \in Nat /\ Len(t) \in Nat
  OBVIOUS
<1>2. ASSUME NEW i \in 1 .. Len(s) + 1
      PROVE  Append(s, x)[i] = Append(t, x)[Len(t) + 1 - (Len(s) + 1) + i]
  <2>1. CASE i = Len(s) + 1
    BY <1>1, <2>1
  <2>2. CASE i # Len(s) + 1
    BY <1>1, <2>2 DEF Ends
  <2> QED BY <2>1, <2>2
<1> QED BY <1>1, <1>2 DEF Ends

(* The last part of what ends a sequence ends it too. *)
LEMMA EndsLast ==
  ASSUME NEW L, NEW r \in Seq(L), NEW s \in Seq(L), NEW t \in Seq(L), Ends(r \o s, t)
  PROVE  Ends(s, t)
<1>1. /\ Len(r \o s) = Len(r) + Len(s) /\ Len(r) \in Nat /\ Len(s) \in Nat /\ Len(t) \in Nat
      /\ \A i \in 1 .. Len(s) : (r \o s)[Len(r) + i] = s[i]
  OBVIOUS
<1>2. ASSUME NEW i \in 1 .. Len(s)
      PROVE  s[i] = t[Len(t) - Len(s) + i]
  <2>1. Len(r) + i \in 1 .. Len(r \o s) /\ Len(t) - Len(r \o s) + (Len(r) + i) = Len(t) - Len(s) + i
    BY <1>1
  <2>2. (r \o s)[Len(r) + i] = t[Len(t) - Len(r \o s) + (Len(r) + i)]
    BY <2>1 DEF Ends
  <2> QED BY <1>1, <2>1, <2>2
<1>3. Len(s) <= Len(t)
  BY <1>1 DEF Ends
<1> QED BY <1>2, <1>3 DEF Ends

LEMMA RecordFacts ==
  ASSUME NEW r \in Records
  PROVE  r # Torn /\ r.life \in Nat /\ r.seq \in Nat
<1>1. "life" \in DOMAIN r
  BY DEF Records
<1>2. "life" \notin DOMAIN Torn
  BY DEF Torn
<1> QED BY <1>1, <1>2 DEF Records

(* Each counter counts alone. *)
LEMMA StatsCount ==
  ASSUME NEW s \in [written : Nat, dropped : Nat, rotations : Nat]
  PROVE  /\ s.written \in Nat /\ s.dropped \in Nat
         /\ LET t == [s EXCEPT !.written = @ + 1]
            IN  t \in [written : Nat, dropped : Nat, rotations : Nat]
                /\ t.written = s.written + 1 /\ t.dropped = s.dropped
         /\ LET t == [s EXCEPT !.dropped = @ + 1]
            IN  t \in [written : Nat, dropped : Nat, rotations : Nat]
                /\ t.written = s.written /\ t.dropped = s.dropped + 1
         /\ LET t == [s EXCEPT !.rotations = @ + 1]
            IN  t \in [written : Nat, dropped : Nat, rotations : Nat]
                /\ t.written = s.written /\ t.dropped = s.dropped
OBVIOUS

----
LEMMA TrailInitially ==
  ASSUME TrailInit
  PROVE  TrailInv
<1>1. TrailTypes
  BY DEF TrailInit, TrailTypes
<1>4. CountInv /\ OrderInv
  BY DEF TrailInit, CountInv, OrderInv
<1>2. FilesInv
  BY DEF TrailInit, FilesInv, Ends
<1>3. BoundInv
  BY TrailAssumption DEF TrailInit, BoundInv
<1> QED BY <1>1, <1>2, <1>3, <1>4 DEF TrailInv

LEMMA EmitKeeps ==
  ASSUME TrailInv,
         NEW o \in DOMAIN Recorded, NEW w \in Width, Emit(o, w)
  PROVE  TrailInv'
<1> DEFINE r == BuildRecord(seq + 1, Recorded[o][1], Recorded[o][2], w)
<1>1. /\ TrailTypes /\ OrderInv /\ CountInv /\ FilesInv /\ BoundInv
      /\ seq' = seq + 1
      /\ UNCHANGED <<life, sized, active, fileSize, cut, rotated, disposed, appended, overgrown>>
      /\ Write(r)
  BY DEF Emit, TrailInv
<1>2. r \in Records /\ r.life = life /\ r.seq = seq + 1
  BY <1>1 DEF BuildRecord, Records, TrailTypes
<1> HIDE DEF r
<1>3. \/ chain' = chain /\ stats' = [stats EXCEPT !.dropped = @ + 1]
      \/ chain' = Append(chain, r) /\ stats' = stats
  BY <1>1 DEF Write
<1>4. TrailTypes' /\ CountInv'
  <2>1. CASE chain' = chain /\ stats' = [stats EXCEPT !.dropped = @ + 1]
    <3>1. /\ stats' \in [written : Nat, dropped : Nat, rotations : Nat]
          /\ stats.written \in Nat /\ stats.dropped \in Nat
          /\ stats'.written = stats.written /\ stats'.dropped = stats.dropped + 1
      BY <1>1, <2>1, StatsCount DEF TrailTypes
    <3>2. TrailTypes'
      BY <1>1, <2>1, <3>1 DEF TrailTypes
    <3> QED BY <1>1, <2>1, <3>1, <3>2 DEF TrailTypes, CountInv
  <2>2. CASE chain' = Append(chain, r) /\ stats' = stats
    <3>1. chain' \in Seq(Records) /\ Len(chain') = Len(chain) + 1 /\ Len(chain) \in Nat
      BY <1>1, <1>2, <2>2 DEF TrailTypes
    <3>2. TrailTypes'
      BY <1>1, <2>2, <3>1 DEF TrailTypes
    <3>3. stats.written \in Nat /\ stats.dropped \in Nat /\ seq \in Nat
      BY <1>1 DEF TrailTypes
    <3> QED BY <1>1, <2>2, <3>1, <3>2, <3>3 DEF CountInv
  <2> QED BY <1>3, <2>1, <2>2
<1>5. FilesInv' /\ BoundInv'
  <2>1. FilesInv'
    BY <1>1 DEF FilesInv, Ends
  <2>2. BoundInv'
    BY <1>1, Zenon DEF BoundInv
  <2> QED BY <2>1, <2>2
<1>6. OrderInv'
  <2>1. CASE chain' = chain
    <3>1. \A i \in DOMAIN chain : chain[i].seq \in Nat
      <4>1. \A i \in DOMAIN chain : chain[i] \in Records
        BY <1>1 DEF TrailTypes
      <4> QED BY <4>1, RecordFacts
    <3>2. \A i \in DOMAIN appended : appended[i] # Torn => appended[i].seq \in Nat
      <4>1. \A i \in DOMAIN appended : appended[i] # Torn => appended[i] \in Records
        BY <1>1 DEF TrailTypes, Lines
      <4> QED BY <4>1, RecordFacts
    <3>3. seq \in Nat
      BY <1>1 DEF TrailTypes
    <3> QED BY <1>1, <2>1, <3>1, <3>2, <3>3 DEF OrderInv, Before
  <2>2. CASE chain' = Append(chain, r)
    <3>1. /\ Len(chain) \in Nat /\ DOMAIN chain = 1 .. Len(chain)
          /\ DOMAIN chain' = 1 .. Len(chain) + 1
          /\ \A i \in DOMAIN chain : chain'[i] = chain[i]
          /\ chain'[Len(chain) + 1] = r
      BY <1>1, <1>2, <2>2 DEF TrailTypes
    <3>2. \A i \in DOMAIN chain' : i \in DOMAIN chain \/ i = Len(chain) + 1
      BY <3>1
    <3>3. ASSUME NEW i \in DOMAIN chain'
          PROVE  chain'[i].life = life' /\ chain'[i].seq <= seq'
      <4>1. CASE i \in DOMAIN chain
        <5>1. chain[i] \in Records
          BY <1>1, <4>1 DEF TrailTypes
        <5>2. chain[i].seq \in Nat /\ seq \in Nat
          BY <1>1, <5>1, RecordFacts DEF TrailTypes
        <5> QED BY <1>1, <3>1, <4>1, <5>2 DEF OrderInv
      <4>2. CASE i = Len(chain) + 1
        BY <1>1, <1>2, <3>1, <4>2 DEF TrailTypes
      <4> QED BY <3>2, <4>1, <4>2
    <3>4. ASSUME NEW i \in DOMAIN chain', NEW j \in DOMAIN chain', i < j
          PROVE  chain'[i].seq < chain'[j].seq
      <4>1. i \in DOMAIN chain
        BY <3>1, <3>4
      <4>2. chain[i].seq \in Nat /\ seq \in Nat
        <5>1. chain[i] \in Records
          BY <1>1, <4>1 DEF TrailTypes
        <5> QED BY <1>1, <5>1, RecordFacts DEF TrailTypes
      <4>3. CASE j \in DOMAIN chain
        BY <1>1, <3>1, <3>4, <4>1, <4>3 DEF OrderInv
      <4>4. CASE j = Len(chain) + 1
        BY <1>1, <1>2, <3>1, <4>1, <4>2, <4>4 DEF OrderInv
      <4> QED BY <3>2, <4>3, <4>4
    <3>5. ASSUME NEW i \in DOMAIN appended', appended'[i] # Torn
          PROVE  /\ appended'[i].life < life' \/ (appended'[i].life = life' /\ appended'[i].seq <= seq')
                 /\ \A j \in DOMAIN chain' : Before(appended'[i], chain'[j])
      <4>1. appended[i] \in Records
        BY <1>1, <3>5 DEF TrailTypes, Lines
      <4>2. appended[i].life \in Nat /\ appended[i].seq \in Nat /\ seq \in Nat
        BY <1>1, <4>1, RecordFacts DEF TrailTypes
      <4>3. appended[i].life < life \/ (appended[i].life = life /\ appended[i].seq <= seq)
        BY <1>1, <3>5 DEF OrderInv
      <4>4. Before(appended[i], r)
        BY <1>2, <4>2, <4>3 DEF Before
      <4>5. \A j \in DOMAIN chain : Before(appended[i], chain[j])
        BY <1>1, <3>5 DEF OrderInv
      <4>6. \A j \in DOMAIN chain' : Before(appended'[i], chain'[j])
        BY <1>1, <3>1, <3>2, <4>4, <4>5 DEF Before
      <4> QED BY <1>1, <4>2, <4>3, <4>6
    <3>6. \A i, j \in DOMAIN appended' :
            appended'[i] # Torn /\ appended'[j] # Torn /\ i < j => Before(appended'[i], appended'[j])
      BY <1>1 DEF OrderInv, Before
    <3> QED BY <3>3, <3>4, <3>5, <3>6 DEF OrderInv, Before
  <2> QED BY <1>3, <2>1, <2>2
<1> QED BY <1>4, <1>5, <1>6 DEF TrailInv

LEMMA RotateKeeps ==
  ASSUME TrailInv, NEW renamed \in BOOLEAN, Rotate(renamed)
  PROVE  TrailInv'
<1>1. /\ TrailTypes /\ OrderInv /\ CountInv /\ FilesInv /\ BoundInv
      /\ stats' = [stats EXCEPT !.rotations = @ + 1] /\ sized' = TRUE
      /\ UNCHANGED <<life, seq, chain, disposed>>
  BY DEF Rotate, TrailInv
<1>2. CountInv' /\ stats' \in [written : Nat, dropped : Nat, rotations : Nat]
  BY <1>1, StatsCount DEF CountInv, TrailTypes
<1>3. CASE ~renamed
  <2>1. UNCHANGED <<active, fileSize, cut, rotated, appended>>
    BY <1>3 DEF Rotate
  <2>2. TrailTypes'
    BY <1>1, <1>2, <2>1 DEF TrailTypes
  <2>3. OrderInv' /\ FilesInv'
    BY <1>1, <2>1 DEF OrderInv, FilesInv, Ends, Before
  <2>4. overgrown'
    BY <1>3, Zenon DEF Rotate
  <2> QED BY <1>2, <2>2, <2>3, <2>4 DEF TrailInv, BoundInv
<1>4. CASE renamed
  <2>1. active' = << >> /\ fileSize' = 0 /\ rotated' = Contents
        /\ appended' = IF cut THEN Append(appended, Torn) ELSE appended
    BY <1>4 DEF Rotate
  <2>2. active \in Seq(Lines) /\ rotated \in Seq(Lines) /\ appended \in Seq(Lines) /\ Torn \in Lines
    BY <1>1 DEF TrailTypes, Lines
  <2>3. Ends(active, appended)
    BY <1>1, <2>2, EndsLast DEF FilesInv
  <2>4. Contents \in Seq(Lines) /\ appended' \in Seq(Lines) /\ Ends(Contents, appended')
    BY <2>1, <2>2, <2>3, EndsAppend DEF Contents
  <2>5. rotated' \o active' = Contents
    BY <2>1, <2>4
  <2>6. FilesInv'
    BY <2>4, <2>5 DEF FilesInv, Ends
  <2>7. TrailTypes'
    BY <1>1, <1>2, <2>1, <2>4 DEF TrailTypes
  <2>8. BoundInv'
    BY <2>1, TrailAssumption DEF BoundInv
  <2>9. \A i \in DOMAIN appended' :
          appended'[i] # Torn => i \in DOMAIN appended /\ appended'[i] = appended[i]
    BY <2>1, <2>2
  <2>10. OrderInv'
    BY <1>1, <2>9 DEF OrderInv, Before
  <2> QED BY <1>2, <2>6, <2>7, <2>8, <2>10 DEF TrailInv
<1> QED BY <1>3, <1>4

LEMMA SizeUnknownKeeps ==
  ASSUME TrailInv, SizeUnknown
  PROVE  TrailInv'
<1>1. /\ TrailTypes /\ OrderInv /\ CountInv /\ FilesInv
      /\ UNCHANGED <<life, seq, chain, active, fileSize, cut, rotated, stats, disposed, appended>>
  BY DEF SizeUnknown, TrailInv
<1>2. TrailTypes' /\ CountInv'
  BY <1>1 DEF TrailTypes, CountInv
<1>3. OrderInv' /\ FilesInv'
  BY <1>1 DEF OrderInv, FilesInv, Ends, Before
<1>4. BoundInv'
  BY Zenon DEF SizeUnknown, BoundInv
<1> QED BY <1>2, <1>3, <1>4 DEF TrailInv

(* What is written of a line, once the size was found to suffice. *)
LEMMA RoomForALine ==
  ASSUME TrailInv, sized \/ ~Full, NEW record, fileSize' \in fileSize .. fileSize + Bytes(record)
  PROVE  fileSize' \in Nat /\ (overgrown \/ fileSize' <= MaxFileBytes + 1)
<1> DEFINE most == Bytes(record)
<1>1. fileSize \in Nat /\ MaxFileBytes \in Nat /\ BoundInv
  BY TrailAssumption DEF TrailInv, TrailTypes
<1>2. most \in {1, 2}
  BY DEF Bytes
<1>3. overgrown \/ fileSize < MaxFileBytes
  <2>1. CASE sized
    BY <2>1, <1>1 DEF BoundInv
  <2>2. CASE ~Full
    BY <2>2, <1>1 DEF Full
  <2> QED BY <2>1, <2>2
<1>4. fileSize' \in fileSize .. fileSize + most
  OBVIOUS
<1> HIDE DEF most
<1> QED BY <1>1, <1>2, <1>3, <1>4

LEMMA PartKept ==
  ASSUME TrailInv, NEW halfway \in BOOLEAN, LeavesPart(halfway)
  PROVE  fileSize' \in Nat /\ (overgrown \/ fileSize' <= MaxFileBytes + 1)
<1>1. fileSize \in Nat /\ MaxFileBytes \in Nat /\ BoundInv
  BY TrailAssumption DEF TrailInv, TrailTypes
<1>2. CASE halfway
  <2>1. (sized \/ ~Full) /\ fileSize' \in fileSize .. fileSize + Bytes(Head(chain))
    BY <1>2 DEF LeavesPart
  <2> QED BY <2>1, RoomForALine
<1>3. CASE ~halfway
  <2>1. fileSize' = fileSize
    BY <1>1, <1>3 DEF LeavesPart
  <2>2. overgrown \/ fileSize <= MaxFileBytes + 1
    BY <1>1, Zenon DEF BoundInv
  <2> QED BY <1>1, <2>1, <2>2
<1> QED BY <1>2, <1>3

LEMMA AppendKeeps ==
  ASSUME TrailInv, AppendLine
  PROVE  TrailInv'
<1> DEFINE l == LineOf(Head(chain))
<1>1. /\ TrailTypes /\ OrderInv /\ CountInv /\ FilesInv /\ BoundInv
      /\ chain # << >> /\ (sized \/ ~Full)
      /\ active' = Append(active, l) /\ appended' = Append(appended, l)
      /\ fileSize' = fileSize + Bytes(Head(chain))
      /\ chain' = Tail(chain) /\ sized' = FALSE
      /\ stats' = [stats EXCEPT !.written = @ + 1]
      /\ UNCHANGED <<life, seq, rotated, disposed, overgrown>>
  BY DEF AppendLine, TrailInv
<1>2. /\ Head(chain) \in Records /\ Head(chain) = chain[1]
      /\ l \in Lines /\ l \in {Torn, chain[1]}
      /\ Tail(chain) \in Seq(Records) /\ Len(chain) \in Nat \ {0} /\ Len(Tail(chain)) = Len(chain) - 1
      /\ \A i \in DOMAIN Tail(chain) : i + 1 \in DOMAIN chain /\ Tail(chain)[i] = chain[i + 1]
      /\ 1 \in DOMAIN chain /\ \A i \in DOMAIN Tail(chain) : i \in Int /\ 1 < i + 1
  BY <1>1 DEF LineOf, Lines, TrailTypes
<1> HIDE DEF l
<1>7. fileSize' \in Nat /\ (overgrown \/ fileSize' <= MaxFileBytes + 1)
  <2>1. fileSize \in Nat
    BY <1>1 DEF TrailTypes
  <2>2. fileSize' \in fileSize .. fileSize + Bytes(Head(chain))
    BY <1>1, <2>1 DEF Bytes
  <2> QED BY <1>1, <2>2, RoomForALine
<1>3. TrailTypes' /\ CountInv'
  <2>1. /\ stats' \in [written : Nat, dropped : Nat, rotations : Nat]
        /\ stats'.written = stats.written + 1 /\ stats'.dropped = stats.dropped
        /\ stats.written \in Nat /\ stats.dropped \in Nat
    BY <1>1, StatsCount DEF TrailTypes
  <2>2. active' \in Seq(Lines) /\ appended' \in Seq(Lines)
    BY <1>1, <1>2 DEF TrailTypes
  <2> QED BY <1>1, <1>2, <1>7, <2>1, <2>2 DEF TrailTypes, CountInv
<1>4. BoundInv'
  <2>1. ~sized' /\ overgrown' = overgrown
    BY <1>1
  <2> QED BY <1>7, <2>1, Zenon DEF BoundInv
<1>5. FilesInv'
  <2>1. (rotated \o active) \in Seq(Lines) /\ rotated \o Append(active, l) = Append(rotated \o active, l)
    BY <1>1, <1>2 DEF TrailTypes
  <2>2. Ends(Append(rotated \o active, l), Append(appended, l))
    BY <1>1, <1>2, <2>1, EndsAppend DEF FilesInv, TrailTypes
  <2>3. (rotated \o active)' = Append(rotated \o active, l)
    BY <1>1, <2>1
  <2> QED BY <1>1, <2>2, <2>3 DEF FilesInv
<1>6. OrderInv'
  <2>1. /\ DOMAIN appended' = 1 .. Len(appended) + 1 /\ DOMAIN appended = 1 .. Len(appended)
        /\ Len(appended) \in Nat /\ appended'[Len(appended) + 1] = l
        /\ \A i \in DOMAIN appended : appended'[i] = appended[i]
    BY <1>1, <1>2 DEF TrailTypes
  <2>2. \A i \in DOMAIN appended' : i \in DOMAIN appended \/ i = Len(appended) + 1
    BY <2>1
  <2>3. ASSUME NEW j \in DOMAIN chain'
        PROVE  /\ chain'[j].life = life' /\ chain'[j].seq <= seq'
               /\ Before(chain[1], chain'[j])
               /\ \E k \in DOMAIN chain : chain'[j] = chain[k]
    <3>1. j + 1 \in DOMAIN chain /\ chain'[j] = chain[j + 1] /\ 1 \in DOMAIN chain /\ 1 < j + 1
      BY <1>1, <1>2, <2>3
    <3>2. chain[1].life = life /\ chain[j + 1].life = life /\ chain[1].seq < chain[j + 1].seq /\ chain[j + 1].seq <= seq
      BY <1>1, <3>1 DEF OrderInv
    <3> QED BY <1>1, <3>1, <3>2 DEF Before
  <2>4. ASSUME NEW i \in DOMAIN chain', NEW j \in DOMAIN chain', i < j
        PROVE  chain'[i].seq < chain'[j].seq
    <3>1. i + 1 \in DOMAIN chain /\ j + 1 \in DOMAIN chain /\ i + 1 < j + 1
          /\ chain'[i] = chain[i + 1] /\ chain'[j] = chain[j + 1]
      BY <1>1, <1>2, <2>4
    <3> QED BY <1>1, <3>1 DEF OrderInv
  <2>5. ASSUME NEW i \in DOMAIN appended', appended'[i] # Torn
        PROVE  /\ appended'[i].life < life' \/ (appended'[i].life = life' /\ appended'[i].seq <= seq')
               /\ \A j \in DOMAIN chain' : Before(appended'[i], chain'[j])
    <3>1. CASE i \in DOMAIN appended
      <4>1. appended'[i] = appended[i]
        BY <2>1, <3>1
      <4>2. /\ appended[i].life < life \/ (appended[i].life = life /\ appended[i].seq <= seq)
            /\ \A k \in DOMAIN chain : Before(appended[i], chain[k])
        BY <1>1, <2>5, <3>1, <4>1 DEF OrderInv
      <4>3. \A j \in DOMAIN chain' : Before(appended[i], chain'[j])
        BY <2>3, <4>2
      <4> QED BY <1>1, <4>1, <4>2, <4>3
    <3>2. CASE i = Len(appended) + 1
      <4>1. appended'[i] = chain[1]
        BY <1>2, <2>1, <2>5, <3>2
      <4>2. chain[1].life = life /\ chain[1].seq <= seq
        BY <1>1, <1>2 DEF OrderInv
      <4> QED BY <1>1, <2>3, <4>1, <4>2
    <3> QED BY <2>2, <3>1, <3>2
  <2>6. ASSUME NEW i \in DOMAIN appended', NEW j \in DOMAIN appended',
               appended'[i] # Torn, appended'[j] # Torn, i < j
        PROVE  Before(appended'[i], appended'[j])
    <3>1. i \in DOMAIN appended /\ appended'[i] = appended[i]
      BY <2>1, <2>6
    <3>2. CASE j \in DOMAIN appended
      BY <1>1, <2>1, <2>6, <3>1, <3>2 DEF OrderInv
    <3>3. CASE j = Len(appended) + 1
      <4>1. appended'[j] = chain[1]
        BY <1>2, <2>1, <2>6, <3>3
      <4> QED BY <1>1, <1>2, <2>6, <3>1, <4>1 DEF OrderInv
    <3> QED BY <2>2, <3>2, <3>3
  <2> QED BY <2>3, <2>4, <2>5, <2>6 DEF OrderInv, Before
<1> QED BY <1>3, <1>4, <1>5, <1>6 DEF TrailInv

LEMMA DropKeeps ==
  ASSUME TrailInv, NEW halfway \in BOOLEAN, DropLine(halfway)
  PROVE  TrailInv'
<1>1. /\ TrailTypes /\ OrderInv /\ CountInv /\ FilesInv /\ BoundInv
      /\ chain # << >> /\ chain' = Tail(chain) /\ sized' = FALSE
      /\ stats' = [stats EXCEPT !.dropped = @ + 1]
      /\ UNCHANGED <<life, seq, active, rotated, disposed, appended, overgrown>>
  BY DEF DropLine, TrailInv
<1>6. fileSize' \in Nat /\ (overgrown \/ fileSize' <= MaxFileBytes + 1)
  BY PartKept DEF DropLine
<1>2. /\ Tail(chain) \in Seq(Records) /\ Len(chain) \in Nat \ {0} /\ Len(Tail(chain)) = Len(chain) - 1
      /\ \A i \in DOMAIN Tail(chain) : i \in Int /\ i + 1 \in DOMAIN chain /\ Tail(chain)[i] = chain[i + 1]
  BY <1>1 DEF TrailTypes
<1>3. TrailTypes' /\ CountInv'
  <2>1. /\ stats' \in [written : Nat, dropped : Nat, rotations : Nat]
        /\ stats'.written = stats.written /\ stats'.dropped = stats.dropped + 1
        /\ stats.written \in Nat /\ stats.dropped \in Nat
    BY <1>1, StatsCount DEF TrailTypes
  <2> QED BY <1>1, <1>2, <1>6, <2>1 DEF TrailTypes, CountInv
<1>4. FilesInv' /\ BoundInv'
  <2>1. FilesInv'
    BY <1>1 DEF FilesInv, Ends
  <2>2. ~sized' /\ overgrown' = overgrown
    BY <1>1
  <2>4. BoundInv'
    BY <1>6, <2>2, Zenon DEF BoundInv
  <2> QED BY <2>1, <2>4
<1>5. OrderInv'
  <2>1. ASSUME NEW i \in DOMAIN chain', NEW j \in DOMAIN chain', i < j
        PROVE  chain'[i].seq < chain'[j].seq
    <3>1. i + 1 \in DOMAIN chain /\ j + 1 \in DOMAIN chain /\ i + 1 < j + 1
          /\ chain'[i] = chain[i + 1] /\ chain'[j] = chain[j + 1]
      BY <1>1, <1>2, <2>1
    <3> QED BY <1>1, <3>1 DEF OrderInv
  <2>2. \A j \in DOMAIN chain' : \E k \in DOMAIN chain : chain'[j] = chain[k]
    BY <1>1, <1>2
  <2>3. /\ \A i \in DOMAIN chain' : chain'[i].life = life' /\ chain'[i].seq <= seq'
        /\ \A i \in DOMAIN appended : appended[i] # Torn =>
              \A j \in DOMAIN chain' : Before(appended[i], chain'[j])
    BY <1>1, <2>2 DEF OrderInv
  <2> QED BY <1>1, <2>1, <2>3 DEF OrderInv, Before
<1> QED BY <1>3, <1>4, <1>5 DEF TrailInv

LEMMA RebootKeeps ==
  ASSUME TrailInv, NEW halfway \in BOOLEAN, Reboot(halfway)
  PROVE  TrailInv'
<1>1. /\ TrailTypes /\ OrderInv /\ FilesInv /\ BoundInv
      /\ life' = life + 1 /\ seq' = 0 /\ chain' = << >> /\ sized' = FALSE
      /\ stats' = [written |-> 0, dropped |-> 0, rotations |-> 0]
      /\ UNCHANGED <<active, rotated, appended, overgrown>>
  BY DEF Reboot, TrailInv
<1>6. fileSize' \in Nat /\ (overgrown \/ fileSize' <= MaxFileBytes + 1)
  BY PartKept DEF Reboot
<1>2. TrailTypes' /\ CountInv'
  BY <1>1, <1>6 DEF TrailTypes, CountInv
<1>3. FilesInv'
  BY <1>1 DEF FilesInv, Ends
<1>4. BoundInv'
  <2>1. ~sized' /\ overgrown' = overgrown
    BY <1>1
  <2> QED BY <1>6, <2>1, Zenon DEF BoundInv
<1>5. OrderInv'
  <2>1. ASSUME NEW i \in DOMAIN appended, appended[i] # Torn
        PROVE  appended[i].life < life'
    <3>1. appended[i] \in Records
      BY <1>1, <2>1 DEF TrailTypes, Lines
    <3>2. appended[i].life \in Nat /\ life \in Nat
      BY <1>1, <3>1, RecordFacts DEF TrailTypes
    <3>3. appended[i].life < life \/ appended[i].life = life
      BY <1>1, <2>1 DEF OrderInv
    <3> QED BY <1>1, <3>2, <3>3
  <2> QED BY <1>1, <2>1 DEF OrderInv, Before
<1> QED BY <1>2, <1>3, <1>4, <1>5 DEF TrailInv

LEMMA TrailRests ==
  ASSUME TrailInv,
         UNCHANGED <<life, seq, chain, sized, active, fileSize, cut, rotated, stats, appended, overgrown>>
  PROVE  TrailInv'
<1>1. TrailTypes' /\ CountInv'
  BY DEF TrailInv, TrailTypes, CountInv
<1>2. OrderInv' /\ FilesInv'
  BY DEF TrailInv, OrderInv, FilesInv, Ends, Before
<1>3. BoundInv'
  BY Zenon DEF TrailInv, BoundInv
<1> QED BY <1>1, <1>2, <1>3 DEF TrailInv

LEMMA TrailStep ==
  ASSUME NEW occurrences \in SUBSET DOMAIN Recorded, NEW widths \in SUBSET Width,
         TrailInv, [TrailNext(occurrences, widths)]_trail
  PROVE  TrailInv'
<1>1. CASE UNCHANGED trail
  BY <1>1, TrailRests DEF trail
<1>2. CASE TrailNext(occurrences, widths)
  <2>1. ASSUME NEW o \in occurrences, NEW w \in widths, Emit(o, w)
        PROVE  TrailInv'
    BY <2>1, EmitKeeps
  <2>2. CASE Dispose
    BY <2>2, TrailRests DEF Dispose
  <2> QED BY <1>2, <2>1, <2>2, RotateKeeps, SizeUnknownKeeps, AppendKeeps, DropKeeps, RebootKeeps DEF TrailNext
<1> QED BY <1>1, <1>2

----
(* What recent() shows comes from the end of what was appended, and what is *)
(* newer than a record is appended behind it.                               *)
LEMMA NewestAreRecent ==
  ASSUME TrailInv, NEW count \in 1 .. MaxEmits, NEW record \in Recent(count)
  PROVE  /\ \E i \in DOMAIN appended : appended[i] # Torn /\ appended[i] = record
         /\ \A i \in DOMAIN appended :
              appended[i] # Torn /\ Before(record, appended[i]) => appended[i] \in Recent(count)
<1> DEFINE gap == Len(appended) - Len(active)
           n == Len(Contents)
<1>1. /\ active \in Seq(Lines) /\ appended \in Seq(Lines) /\ Torn \in Lines /\ rotated \in Seq(Lines)
      /\ FilesInv /\ OrderInv /\ MaxEmits \in Nat
  BY TrailAssumption DEF TrailInv, TrailTypes, Lines
<1>2. /\ Len(active) \in Nat /\ Len(appended) \in Nat /\ DOMAIN appended = 1 .. Len(appended)
      /\ gap \in Nat /\ \A i \in 1 .. Len(active) : active[i] = appended[gap + i]
  <2>1. Ends(active, appended)
    BY <1>1, EndsLast DEF FilesInv
  <2> QED BY <1>1, <2>1 DEF Ends
<1>3. /\ n \in Nat /\ n >= Len(active) /\ DOMAIN Contents = 1 .. n
      /\ \A k \in 1 .. n : IF k <= Len(active) THEN Contents[k] = active[k] ELSE Contents[k] = Torn
  BY <1>1, <1>2 DEF Contents
<1>4. PICK k \in 1 .. n : k > n - count /\ Contents[k] # Torn /\ record = Contents[k]
  BY <1>3 DEF Recent
<1>5. k \in 1 .. Len(active) /\ gap + k \in DOMAIN appended /\ appended[gap + k] = record
  BY <1>2, <1>3, <1>4
<1>6. ASSUME NEW i \in DOMAIN appended, appended[i] # Torn, Before(record, appended[i])
      PROVE  appended[i] \in Recent(count)
  <2>1. record \in Records /\ appended[i] \in Records
    BY <1>1, <1>4, <1>5, <1>6 DEF Lines
  <2>2. /\ record.life \in Nat /\ record.seq \in Nat
        /\ appended[i].life \in Nat /\ appended[i].seq \in Nat
    BY <2>1, RecordFacts
  <2>3. ~Before(appended[i], record) /\ i # gap + k
    BY <1>5, <1>6, <2>2 DEF Before
  <2>4. ~(i < gap + k)
    BY <1>1, <1>4, <1>5, <1>6, <2>3 DEF OrderInv
  <2>5. /\ i \in Nat /\ i <= Len(appended) /\ i # gap + k /\ ~(i < gap + k)
        /\ gap \in Nat /\ k \in 1 .. Len(active) /\ Len(appended) = gap + Len(active)
    BY <1>2, <1>5, <2>3, <2>4
  <2> DEFINE p == i - gap
  <2> HIDE DEF n, gap
  <2>6. p \in 1 .. Len(active) /\ p > k /\ gap + p = i
    <3>1. k \in Int /\ Len(active) \in Int /\ 1 <= k
      BY <1>2, <2>5
    <3>2. p > k /\ gap + p = i /\ p \in Int /\ p <= Len(active)
      BY <2>5, <3>1
    <3> QED BY <3>1, <3>2
  <2> HIDE DEF p
  <2>7. appended[i] = active[p]
    BY <1>2, <2>6
  <2>8. p \in 1 .. n /\ p > n - count /\ Contents[p] = appended[i]
    BY <1>2, <1>3, <1>4, <2>6, <2>7
  <2> QED BY <1>3, <1>6, <2>8 DEF Recent, n
<1> QED BY <1>4, <1>5, <1>6

(* The audit trail is in the order of the events, accounts for each of      *)
(* them, and is bounded but for the characters of its last line, however    *)
(* many processes write it and whatever events the host reports.            *)
THEOREM TrailIsInOrder ==
  ASSUME NEW occurrences \in SUBSET DOMAIN Recorded, NEW widths \in SUBSET Width
  PROVE  TrailSpec(occurrences, widths) => []TrailKeepsOrder
<1>1. TrailInit => TrailInv
  BY TrailInitially
<1>2. TrailInv /\ [TrailNext(occurrences, widths)]_trail => TrailInv'
  BY TrailStep
<1>3. TrailInv => TrailKeepsOrder
  <2> SUFFICES ASSUME TrailInv PROVE TrailKeepsOrder
    OBVIOUS
  <2>1. IsSuffix(rotated \o active, appended)
    <3>1. (rotated \o active) \in Seq(Lines) /\ appended \in Seq(Lines)
      BY DEF TrailInv, TrailTypes
    <3> QED BY <3>1, EndsIsSuffix DEF TrailInv, FilesInv
  <2>2. overgrown \/ fileSize <= MaxFileBytes + 1
    BY Zenon DEF TrailInv, BoundInv
  <2>3. stats.written + stats.dropped + Len(chain) = seq
    BY DEF TrailInv, CountInv
  <2>4. \A i, j \in {k \in DOMAIN appended : appended[k] # Torn} : i < j => Before(appended[i], appended[j])
    BY DEF TrailInv, OrderInv
  <2>5. ASSUME NEW count \in 1 .. MaxEmits, NEW record \in Recent(count)
        PROVE  LET readable == {i \in DOMAIN appended : appended[i] # Torn}
               IN  /\ \E i \in readable : appended[i] = record
                   /\ \A i \in readable : Before(record, appended[i]) => appended[i] \in Recent(count)
    BY <2>5, NewestAreRecent
  <2> QED BY <2>1, <2>2, <2>3, <2>4, <2>5, Zenon DEF TrailKeepsOrder
<1> QED BY <1>1, <1>2, <1>3, PTL DEF TrailSpec

-------------------------------------------------------------------------------
(* Recursion and order.                                                     *)

(* Every set of natural numbers has a least one, unless it is empty. *)
LEMMA Least ==
  ASSUME NEW S \in SUBSET Nat, S # {}
  PROVE  \E n \in S : \A m \in S : n <= m
<1> DEFINE R == OpToRel(<, Nat)
<1>1. IsWellFoundedOn(R, Nat)
  BY NatLessThanWellFounded
<1>2. \A k, m \in Nat : m <= k \/ <<k, m>> \in R
  BY DEF OpToRel
<1> HIDE DEF R
<1>3. PICK n \in S : \A k \in S : ~(<<k, n>> \in R)
  BY <1>1, WFMin
<1> QED BY <1>2, <1>3

(* What a number passes on to the next holds of all, as a set of numbers. *)
LEMMA UpTo ==
  ASSUME NEW N \in Nat, NEW Good, 0 \in Good,
         \A n \in 1..N : n - 1 \in Good => n \in Good
  PROVE  \A n \in 0..N : n \in Good
<1> DEFINE Bad == {n \in 0..N : n \notin Good}
<1> SUFFICES ASSUME Bad # {} PROVE FALSE
  OBVIOUS
<1>1. PICK n \in Bad : \A m \in Bad : n <= m
  <2>1. Bad \in SUBSET Nat
    OBVIOUS
  <2> HIDE DEF Bad
  <2> QED BY <2>1, Least
<1>2. n # 0 /\ n \in 1..N /\ n - 1 \in 0..N
  BY <1>1
<1>3. n - 1 \in Good
  BY <1>1, <1>2
<1> QED BY <1>1, <1>2, <1>3

(* A function found by going from start along the numbers up to N. *)
GoesAlong(f, N, start, step) == f[0] = start /\ \A n \in 1..N : f[n] = step[<<n, f[n-1]>>]

(* There is one: a recursion along the numbers defines a function. *)
LEMMA RecursionExists ==
  ASSUME NEW N \in Nat, NEW S, NEW start \in S, NEW step \in [(1..N) \X S -> S]
  PROVE  \E f \in [0..N -> S] : GoesAlong(f, N, start, step)
<1> DEFINE Solves(f, m) == f[0] = start /\ \A n \in 1..m : f[n] = step[<<n, f[n-1]>>]
           Good == {m \in 0..N : \E f \in [0..m -> S] : Solves(f, m)}
<1>1. 0 \in Good
  <2> DEFINE f == [k \in 0..0 |-> start]
  <2>1. f \in [0..0 -> S] /\ Solves(f, 0)
    OBVIOUS
  <2> HIDE DEF f
  <2>2. \E h \in [0..0 -> S] : Solves(h, 0)
    BY <2>1
  <2> QED BY <2>2
<1>2. ASSUME NEW m \in 1..N, m - 1 \in Good PROVE m \in Good
  <2>1. PICK f \in [0..(m-1) -> S] : Solves(f, m - 1)
    BY <1>2
  <2> DEFINE g == [k \in 0..m |-> IF k = m THEN step[<<m, f[m-1]>>] ELSE f[k]]
  <2>2. f[m-1] \in S /\ step[<<m, f[m-1]>>] \in S
    BY <2>1
  <2>3. g \in [0..m -> S]
    BY <2>1, <2>2
  <2>4. (\A k \in 0..(m-1) : g[k] = f[k]) /\ g[m] = step[<<m, f[m-1]>>]
    OBVIOUS
  <2> HIDE DEF g
  <2>5. g[0] = start
    BY <2>1, <2>4
  <2>6. ASSUME NEW n \in 1..m PROVE g[n] = step[<<n, g[n-1]>>]
    <3>1. n - 1 \in 0..(m-1) /\ g[n-1] = f[n-1]
      BY <2>4
    <3>2. CASE n = m
      BY <3>1, <3>2, <2>4
    <3>3. CASE n # m
      <4>1. n \in 1..(m-1) /\ n \in 0..(m-1)
        BY <3>3
      <4>2. f[n] = step[<<n, f[n-1]>>]
        BY <2>1, <4>1
      <4> QED BY <3>1, <4>1, <4>2, <2>4
    <3> QED BY <3>2, <3>3
  <2>7. \E h \in [0..m -> S] : Solves(h, m)
    BY <2>3, <2>5, <2>6
  <2> QED BY <2>7
<1> HIDE DEF Good
<1>3. N \in Good
  BY <1>1, <1>2, UpTo
<1> QED BY <1>3 DEF Good, GoesAlong

(* Where neighbours are in a transitive relation, all are. *)
LEMMA Neighbours ==
  ASSUME NEW N \in Nat, NEW S, NEW order \in [1..N -> S], NEW R,
         \A n \in 1..N : n > 1 => <<order[n-1], order[n]>> \in R,
         \A x, y, z \in S : <<x, y>> \in R /\ <<y, z>> \in R => <<x, z>> \in R
  PROVE  \A i, j \in 1..N : i < j => <<order[i], order[j]>> \in R
<1> SUFFICES ASSUME NEW i \in 1..N, NEW j \in 1..N, i < j
             PROVE  <<order[i], order[j]>> \in R
  OBVIOUS
<1> DEFINE Good == {n \in 0..N : n > i => <<order[i], order[n]>> \in R}
<1>1. 0 \in Good
  OBVIOUS
<1>2. ASSUME NEW n \in 1..N, n - 1 \in Good PROVE n \in Good
  <2>1. n \in 0..N
    OBVIOUS
  <2>2. CASE n > i
    <3>1. n > 1 /\ n - 1 \in 1..N /\ (n - 1 = i \/ n - 1 > i)
      BY <2>2
    <3>2. <<order[n-1], order[n]>> \in R
      BY <3>1
    <3>3. n - 1 > i => <<order[i], order[n-1]>> \in R
      BY <1>2
    <3>4. order[i] \in S /\ order[n-1] \in S /\ order[n] \in S
      BY <3>1
    <3>5. <<order[i], order[n]>> \in R
      BY <3>1, <3>2, <3>3, <3>4
    <3> QED BY <2>1, <3>5
  <2> QED BY <2>1, <2>2
<1> HIDE DEF Good
<1>3. j \in Good
  <2>1. j \in 0..N
    OBVIOUS
  <2> QED BY <1>1, <1>2, <2>1, UpTo
<1> QED BY <1>3 DEF Good

(* The members of a finite set, one after the other. *)
InOrder(places, before) ==
  [n \in 1..Cardinality(places) |->
     CHOOSE i \in places : Cardinality({j \in places : <<j, i>> \in before}) = n - 1]

(* InOrder lists a finite set in a strict total order of it. *)
LEMMA InOrderLists ==
  ASSUME NEW S, IsFiniteSet(S), NEW R,
         \A x \in S : <<x, x>> \notin R,
         \A x, y, z \in S : <<x, y>> \in R /\ <<y, z>> \in R => <<x, z>> \in R,
         \A x, y \in S : x = y \/ <<x, y>> \in R \/ <<y, x>> \in R
  PROVE  /\ Cardinality(S) \in Nat
         /\ InOrder(S, R) \in [1..Cardinality(S) -> S]
         /\ \A x \in S : \E n \in 1..Cardinality(S) : InOrder(S, R)[n] = x
         /\ \A i, j \in 1..Cardinality(S) :
              i < j <=> <<InOrder(S, R)[i], InOrder(S, R)[j]>> \in R
<1> DEFINE Preceding(x) == {y \in S : <<y, x>> \in R}
           place == [x \in S |-> Cardinality(Preceding(x))]
           size == Cardinality(S)
           list == InOrder(S, R)
<1>1. size \in Nat
  BY FS_CardinalityType
<1>2. \A x \in S : place[x] \in 0..(size-1) /\ IsFiniteSet(Preceding(x))
  <2> TAKE x \in S
  <2>1. Preceding(x) \in SUBSET (S \ {x})
    OBVIOUS
  <2>2. IsFiniteSet(S \ {x}) /\ Cardinality(S \ {x}) = size - 1
    BY FS_RemoveElement
  <2>3. IsFiniteSet(Preceding(x)) /\ Cardinality(Preceding(x)) <= size - 1
    <3> DEFINE few == Preceding(x)
               rest == S \ {x}
    <3>1. few \in SUBSET rest /\ IsFiniteSet(rest) /\ Cardinality(rest) = size - 1
      BY <2>1, <2>2
    <3> HIDE DEF few, rest
    <3>2. IsFiniteSet(few) /\ Cardinality(few) <= size - 1
      BY <3>1, FS_Subset
    <3> QED BY <3>2 DEF few
  <2>4. Cardinality(Preceding(x)) \in Nat
    BY <2>3, FS_CardinalityType
  <2> QED BY <1>1, <2>3, <2>4
<1>3. \A x, y \in S : <<x, y>> \in R => place[x] < place[y]
  <2> SUFFICES ASSUME NEW x \in S, NEW y \in S, <<x, y>> \in R PROVE place[x] < place[y]
    OBVIOUS
  <2>1. x \in Preceding(y) /\ IsFiniteSet(Preceding(y)) /\ IsFiniteSet(Preceding(x))
    BY <1>2
  <2>2. IsFiniteSet(Preceding(y) \ {x}) /\ Cardinality(Preceding(y) \ {x}) = Cardinality(Preceding(y)) - 1
    BY <2>1, FS_RemoveElement
  <2>3. Preceding(x) \in SUBSET (Preceding(y) \ {x})
    OBVIOUS
  <2>4. Cardinality(Preceding(x)) <= Cardinality(Preceding(y) \ {x})
    <3> DEFINE few == Preceding(x)
               rest == Preceding(y) \ {x}
    <3>1. few \in SUBSET rest /\ IsFiniteSet(rest)
      BY <2>2, <2>3
    <3> HIDE DEF few, rest
    <3>2. Cardinality(few) <= Cardinality(rest)
      BY <3>1, FS_Subset
    <3> QED BY <3>2 DEF few, rest
  <2>5. Cardinality(Preceding(x)) \in Nat /\ Cardinality(Preceding(y)) \in Nat
    BY <2>1, FS_CardinalityType
  <2> QED BY <2>2, <2>4, <2>5
<1>4. \A x, y \in S : place[x] = place[y] => x = y
  <2> SUFFICES ASSUME NEW x \in S, NEW y \in S, x # y PROVE place[x] # place[y]
    OBVIOUS
  <2>1. place[x] \in Int /\ place[y] \in Int
    <3> HIDE DEF place, size
    <3>1. place[x] \in 0..(size-1) /\ place[y] \in 0..(size-1)
      BY <1>2
    <3> QED BY <1>1, <3>1
  <2>2. place[x] < place[y] \/ place[y] < place[x]
    BY <1>3
  <2> HIDE DEF place
  <2> QED BY <2>1, <2>2
<1> HIDE DEF place
<1>5. place \in Injection(S, 0..(size-1))
  <2>1. place \in [S -> 0..(size-1)]
    BY <1>2 DEF place
  <2>2. \A a, b \in S : place[a] = place[b] => a = b
    BY <1>4
  <2> HIDE DEF size
  <2> QED BY <2>1, <2>2 DEF Injection, IsInjective
<1>6. \A n \in 0..(size-1) : \E x \in S : place[x] = n
  <2>1. IsFiniteSet(0..(size-1)) /\ Cardinality(0..(size-1)) = size
    <3>1. 0 \in Int /\ size - 1 \in Int
      BY <1>1
    <3>2. IsFiniteSet(0..(size-1)) /\ Cardinality(0..(size-1)) = IF 0 > size - 1 THEN 0 ELSE (size - 1) - 0 + 1
      BY <3>1, FS_Interval
    <3> HIDE DEF size
    <3> QED BY <3>2, <1>1
  <2>2. place \in Surjection(S, 0..(size-1))
    BY <1>5, <2>1, FS_Injection
  <2> QED BY <2>2 DEF Surjection
<1>7. \A n \in 1..size : list[n] \in S /\ place[list[n]] = n - 1
  <2> TAKE n \in 1..size
  <2>1. list[n] = CHOOSE x \in S : Cardinality(Preceding(x)) = n - 1
    BY DEF InOrder
  <2>2. \E x \in S : Cardinality(Preceding(x)) = n - 1
    <3>1. n - 1 \in 0..(size-1)
      BY <1>1
    <3>2. PICK x \in S : place[x] = n - 1
      BY <1>6, <3>1
    <3> QED BY <3>2 DEF place
  <2>3. list[n] \in S /\ Cardinality(Preceding(list[n])) = n - 1
    BY <2>1, <2>2
  <2> QED BY <2>3 DEF place
<1>8. list \in [1..size -> S]
  <2> DEFINE item(n) == CHOOSE x \in S : Cardinality({y \in S : <<y, x>> \in R}) = n - 1
  <2>1. list = [n \in 1..size |-> item(n)]
    BY DEF InOrder
  <2> HIDE DEF item, list, size
  <2>2. \A n \in 1..size : item(n) \in S
    BY <2>1, <1>7
  <2> QED BY <2>1, <2>2
<1>9. ASSUME NEW x \in S PROVE \E n \in 1..size : list[n] = x
  <2> HIDE DEF size, list
  <2>0. place[x] \in 0..(size-1)
    BY <1>2
  <2>1. place[x] + 1 \in 1..size /\ place[x] \in Int
    BY <1>1, <2>0
  <2>2. list[place[x] + 1] \in S /\ place[list[place[x] + 1]] = place[x]
    BY <1>7, <2>1
  <2>3. list[place[x] + 1] = x
    BY <1>4, <2>2
  <2> QED BY <2>1, <2>3
<1>10. ASSUME NEW i \in 1..size, NEW j \in 1..size
       PROVE  i < j <=> <<list[i], list[j]>> \in R
  <2>1. /\ list[i] \in S /\ place[list[i]] = i - 1
        /\ list[j] \in S /\ place[list[j]] = j - 1
    BY <1>7
  <2>2. i \in Int /\ j \in Int
    BY <1>1
  <2>3. CASE i < j
    <3>1. ~(<<list[j], list[i]>> \in R)
      <4>1. <<list[j], list[i]>> \in R => j - 1 < i - 1
        BY <2>1, <1>3
      <4> QED BY <4>1, <2>2, <2>3
    <3>2. list[i] # list[j]
      BY <2>1, <2>2, <2>3
    <3> QED BY <3>1, <3>2, <2>1, <2>3
  <2>4. CASE <<list[i], list[j]>> \in R
    <3>1. i - 1 < j - 1
      BY <2>1, <2>4, <1>3
    <3> QED BY <3>1, <2>2, <2>4
  <2> QED BY <2>3, <2>4
<1> QED BY <1>1, <1>8, <1>9, <1>10

-------------------------------------------------------------------------------
(* Notes.                                                                   *)

Kept == {note \in Note : WellFormed(note)}

LedgerInv ==
  /\ memory \in Seq(Kept) /\ queue \in Seq(Kept) /\ file \in Seq(Kept)
  /\ longTerm \in Provider \cup {Noop}

LEMMA KeptNote ==
  ASSUME NEW note \in Kept
  PROVE  /\ note \in Note /\ IsFiniteSet(note.words)
         /\ note.priority \in Int \cup {NotANumber}
         /\ note.id \in Int /\ note.createdAt \in Int
         /\ TokensOf[note.words] \in Nat
BY ItemAssumption DEF Kept, WellFormed, Admitted

LEMMA RetainedSeq ==
  ASSUME NEW S, NEW s \in Seq(S)
  PROVE  Retained(s) \in Seq(S)
<1>1. MaxEntries \in Nat \ {0} /\ Len(s) \in Nat
  BY LogAssumption, LenProperties
<1>2. CASE Len(s) <= MaxEntries
  BY <1>2 DEF Retained
<1>3. CASE ~(Len(s) <= MaxEntries)
  <2>1. /\ Len(s) - MaxEntries + 1 \in 1..(Len(s) + 1) /\ Len(s) \in Int
    BY <1>1, <1>3
  <2>2. \A i \in (Len(s) - MaxEntries + 1)..Len(s) : s[i] \in S
    <3> TAKE i \in (Len(s) - MaxEntries + 1)..Len(s)
    <3>1. i \in 1..Len(s)
      BY <1>1, <1>3
    <3> QED BY <3>1, ElementOfSeq
  <2>3. SubSeq(s, Len(s) - MaxEntries + 1, Len(s)) \in Seq(S)
    BY <1>1, <2>1, <2>2, SubSeqProperties
  <2> QED BY <2>3, <1>3 DEF Retained
<1> QED BY <1>2, <1>3

LEMMA LedgerStep == LedgerInv /\ [LedgerNext]_notes => LedgerInv'
<1> SUFFICES ASSUME LedgerInv, [LedgerNext]_notes PROVE LedgerInv'
  OBVIOUS
<1> USE DEF LedgerInv
<1>1. ASSUME NEW note \in Note, AppendNote(note) PROVE LedgerInv'
  <2>1. longTerm' = longTerm
    BY <1>1 DEF AppendNote
  <2>2. CASE WellFormed(note)
    <3>1. note \in Kept /\ memory' = Retained(Append(memory, note))
          /\ queue' = Append(queue, note) /\ file' = file
      BY <1>1, <2>2 DEF AppendNote, Push, Kept
    <3>2. Append(memory, note) \in Seq(Kept) /\ Append(queue, note) \in Seq(Kept)
      BY <3>1, AppendProperties
    <3> QED BY <2>1, <3>1, <3>2, RetainedSeq
  <2>3. CASE ~WellFormed(note)
    BY <1>1, <2>1, <2>3 DEF AppendNote, log
  <2> QED BY <2>2, <2>3
<1>2. CASE NoteLands
  <2>1. /\ queue # << >> /\ queue' = Tail(queue) /\ memory' = memory /\ longTerm' = longTerm
        /\ file' = file \/ file' = Append(file, Head(queue))
    <3>1. CASE Reloads(Head(queue))
      BY <1>2, <3>1 DEF NoteLands, Lands
    <3>2. CASE ~Reloads(Head(queue))
      BY <1>2, <3>2 DEF NoteLands
    <3> QED BY <3>1, <3>2
  <2>2. Tail(queue) \in Seq(Kept) /\ Head(queue) \in Kept
    BY <2>1, HeadTailProperties
  <2>3. Append(file, Head(queue)) \in Seq(Kept)
    BY <2>2, AppendProperties
  <2> QED BY <2>1, <2>2, <2>3
<1>3. CASE NoteFails
  <2>1. /\ queue # << >> /\ queue' = Tail(queue) /\ memory' = memory /\ longTerm' = longTerm
        /\ file' = file
    BY <1>3 DEF NoteFails, Fails
  <2>2. Tail(queue) \in Seq(Kept)
    BY <2>1, HeadTailProperties
  <2> QED BY <2>1, <2>2
<1>4. CASE Reload
  <2>1. /\ queue' = << >> /\ longTerm' = Noop /\ file' = file
        /\ memory' = Retained(file) \/ memory' = << >>
    BY <1>4 DEF Reload, Restart
  <2> QED BY <2>1, RetainedSeq, EmptySeq
<1>5. ASSUME NEW provider \in Provider, RegisterLongTerm(provider) PROVE LedgerInv'
  BY <1>5 DEF RegisterLongTerm, log
<1>6. CASE DisposeLongTerm
  BY <1>6 DEF DisposeLongTerm, log
<1>7. CASE UNCHANGED notes
  BY <1>7 DEF notes, log
<1> QED BY <1>1, <1>2, <1>3, <1>4, <1>5, <1>6, <1>7 DEF LedgerNext

LEMMA LedgerInitially == LedgerInit => LedgerInv
BY EmptySeq DEF LedgerInit, LogInit, LedgerInv

THEOREM LedgerHoldsNotes == LedgerSpec => []LedgerInv
BY LedgerInitially, LedgerStep, PTL DEF LedgerSpec

-------------------------------------------------------------------------------
(* Among notes that all have a priority the order is a strict one. *)
LEMMA NoteOrderIsStrict ==
  ASSUME NEW list \in Seq(Kept), NEW task, NEW places \in SUBSET DOMAIN list,
         \A i \in places : list[i].priority # NotANumber
  PROVE  LET R == NoteOrder(list, task) IN
         /\ \A i \in places : <<i, i>> \notin R
         /\ \A i, j, k \in places : <<i, j>> \in R /\ <<j, k>> \in R => <<i, k>> \in R
<1> DEFINE R == NoteOrder(list, task)
           relevance(i) == LedgerRelevance(list[i], task)
           priority(i) == list[i].priority
           created(i) == list[i].createdAt
           id(i) == list[i].id
           Sooner(i, j) ==
             \/ RelevanceRanking /\ relevance(i) > relevance(j)
             \/ /\ RelevanceRanking => relevance(i) = relevance(j)
                /\ \/ priority(i) > priority(j)
                   \/ priority(i) = priority(j) /\ created(i) > created(j)
                   \/ priority(i) = priority(j) /\ created(i) = created(j) /\ id(i) < id(j)
<1>1. \A i \in places : /\ relevance(i) \in Int /\ priority(i) \in Int
                             /\ created(i) \in Int /\ id(i) \in Int /\ i \in Int
  <2> TAKE i \in places
  <2>1. i \in 1..Len(list) /\ list[i] \in Kept /\ Len(list) \in Nat
    <3>1. i \in 1..Len(list) /\ Len(list) \in Nat
      BY LenProperties
    <3> QED BY <3>1, ElementOfSeq
  <2>2. IsFiniteSet(list[i].words) /\ list[i].priority \in Int
        /\ list[i].id \in Int /\ list[i].createdAt \in Int
    BY <2>1, KeptNote
  <2>3. IsFiniteSet(list[i].words \cap task)
    BY <2>2, FS_Intersection
  <2>4. relevance(i) \in Int
    BY <2>3, FS_CardinalityType DEF LedgerRelevance
  <2> QED BY <2>1, <2>2, <2>4
<1>2. \A i, j \in places : NoteAhead(list[i], list[j], task) <=> Sooner(i, j)
  <2> SUFFICES ASSUME NEW i \in places, NEW j \in places
               PROVE  NoteAhead(list[i], list[j], task) <=> Sooner(i, j)
    OBVIOUS
  <2>1. relevance(i) \in Int /\ relevance(j) \in Int /\ RelevanceRanking \in BOOLEAN
    BY <1>1, LedgerAssumption
  <2>2. priority(i) # NotANumber /\ priority(j) # NotANumber
    OBVIOUS
  <2>3. Level(list[i], list[j]) <=> priority(i) = priority(j)
    BY <2>2 DEF Level
  <2>4. NoteAhead(list[i], list[j], task) <=>
          IF RelevanceRanking /\ relevance(i) # relevance(j) THEN relevance(i) > relevance(j)
          ELSE \/ priority(i) # priority(j) /\ priority(i) > priority(j)
               \/ priority(i) = priority(j) /\ created(i) > created(j)
               \/ priority(i) = priority(j) /\ created(i) = created(j) /\ id(i) < id(j)
    BY <2>3 DEF NoteAhead, MoreUrgent
  <2>5. priority(i) \in Int /\ priority(j) \in Int
    BY <1>1
  <2> HIDE DEF relevance, priority, created, id
  <2> QED BY <2>1, <2>4, <2>5
<1>3. \A i, j \in places :
        <<i, j>> \in R <=> Sooner(i, j) \/ (~Sooner(j, i) /\ i < j)
  BY <1>2 DEF NoteOrder
<1> HIDE DEF relevance, priority, created, id, R
<1>4. \A i \in places : <<i, i>> \notin R
  BY <1>1, <1>3
<1>5. ASSUME NEW i \in places, NEW j \in places, NEW k \in places,
             <<i, j>> \in R, <<j, k>> \in R
      PROVE  <<i, k>> \in R
  <2>1. /\ relevance(i) \in Int /\ priority(i) \in Int /\ created(i) \in Int /\ id(i) \in Int /\ i \in Int
        /\ relevance(j) \in Int /\ priority(j) \in Int /\ created(j) \in Int /\ id(j) \in Int /\ j \in Int
        /\ relevance(k) \in Int /\ priority(k) \in Int /\ created(k) \in Int /\ id(k) \in Int /\ k \in Int
    BY <1>1
  <2>2. /\ Sooner(i, j) \/ (~Sooner(j, i) /\ i < j)
        /\ Sooner(j, k) \/ (~Sooner(k, j) /\ j < k)
    BY <1>3, <1>5
  <2>3. Sooner(i, k) \/ (~Sooner(k, i) /\ i < k)
    <3>1. CASE RelevanceRanking
      BY <2>1, <2>2, <3>1
    <3>2. CASE ~RelevanceRanking
      BY <2>1, <2>2, <3>2
    <3> QED BY <3>1, <3>2
  <2> QED BY <2>3, <1>3
<1> QED BY <1>4, <1>5 DEF R

(* A function on 1..n is a sequence of length n. *)
LEMMA ListOf ==
  ASSUME NEW n \in Nat, NEW S, NEW f \in [1..n -> S]
  PROVE  f \in Seq(S) /\ Len(f) = n
OBVIOUS

(* The notes selected are the first confident ones in some order of them,   *)
(* in which no two neighbours are against the order of relevance.           *)
IsSelection(chosen, list, task, order, confident, count) ==
  /\ count \in Nat /\ order \in [1..count -> confident]
  /\ \A x \in confident : \E n \in 1..count : order[n] = x
  /\ \A n \in 1..count : n > 1 => <<order[n-1], order[n]>> \in NoteOrder(list, task)
  /\ chosen \in Seq(Kept)
  /\ Len(chosen) = IF count < MaxInjected THEN count ELSE MaxInjected
  /\ \A i \in 1..Len(chosen) : i \in 1..count /\ order[i] \in confident /\ chosen[i] = list[order[i]]

ConfidentIn(list) == {i \in DOMAIN list : Confident(list[i])}

LEMMA NotesSelected ==
  ASSUME NEW list \in Seq(Kept), NEW task, NEW chosen \in SelectLedgerNotes(list, task)
  PROVE  \E order : IsSelection(chosen, list, task, order, ConfidentIn(list),
                                Cardinality(ConfidentIn(list)))
<1> DEFINE confident == ConfidentIn(list)
           R == NoteOrder(list, task)
           count == Cardinality(confident)
           size == IF count < MaxInjected THEN count ELSE MaxInjected
<1>1. PICK order \in Sortings(confident, R) : chosen = Capped([n \in DOMAIN order |-> list[order[n]]])
  BY DEF SelectLedgerNotes, ConfidentIn
<1> DEFINE best == [n \in DOMAIN order |-> list[order[n]]]
<1>2. IsFiniteSet(confident) /\ confident \in SUBSET DOMAIN list
  <2>1. IsFiniteSet(DOMAIN list)
    BY LenProperties, FS_Interval
  <2>2. confident \in SUBSET DOMAIN list
    BY DEF ConfidentIn
  <2> HIDE DEF confident
  <2> QED BY <2>1, <2>2, FS_Subset
<1>3. /\ count \in Nat /\ order \in [1..count -> confident]
      /\ \A x \in confident : \E n \in 1..count : order[n] = x
      /\ \A n \in 1..count : n > 1 => <<order[n-1], order[n]>> \in R
  <2> HIDE DEF R, confident
  <2>1. order \in [1..count -> confident]
    BY <1>1 DEF Sortings
  <2>2. DOMAIN order = 1..count
    BY <2>1
  <2> QED BY <1>1, <1>2, <2>1, <2>2, FS_CardinalityType DEF Sortings
<1>4. MaxInjected \in Nat \ {0}
  BY LedgerAssumption
<1>5. best \in Seq(Kept) /\ Len(best) = count /\ \A n \in 1..count : best[n] = list[order[n]]
  <2>1. DOMAIN order = 1..count
    BY <1>3
  <2>2. \A n \in 1..count : list[order[n]] \in Kept
    <3> TAKE n \in 1..count
    <3>1. order[n] \in 1..Len(list)
      <4>1. order[n] \in confident
        BY <1>3
      <4> QED BY <4>1, <1>2, LenProperties
    <3> QED BY <3>1, ElementOfSeq
  <2> HIDE DEF confident, count
  <2>3. best \in [1..count -> Kept]
    BY <2>1, <2>2
  <2> QED BY <2>1, <2>3, <1>3, ListOf
<1>6. chosen = SubSeq(best, 1, size)
  BY <1>1, <1>5 DEF Capped
<1> HIDE DEF confident, best, count
<1>7. size \in Nat /\ size <= count
  BY <1>3, <1>4
<1>8. /\ SubSeq(best, 1, size) \in Seq(Kept) /\ Len(SubSeq(best, 1, size)) = size
      /\ \A i \in 1..size : SubSeq(best, 1, size)[i] = best[i]
  <2>0. size \in Int /\ 1 \in Int /\ \A i \in 1..size : i \in 1..count
    BY <1>7, <1>3
  <2> HIDE DEF size
  <2>1. \A i \in 1..size : best[i] \in Kept
    BY <2>0, <1>5, ElementOfSeq
  <2>2. /\ SubSeq(best, 1, size) \in Seq(Kept)
        /\ Len(SubSeq(best, 1, size)) = IF 1 <= size THEN size - 1 + 1 ELSE 0
        /\ \A i \in 1..(size - 1 + 1) : SubSeq(best, 1, size)[i] = best[1 + i - 1]
    BY <2>0, <2>1, SubSeqProperties
  <2> QED BY <2>2, <1>7
<1>9. \A i \in 1..size : i \in 1..count /\ order[i] \in confident /\ chosen[i] = list[order[i]]
  BY <1>3, <1>5, <1>6, <1>7, <1>8
<1>10. chosen \in Seq(Kept) /\ Len(chosen) = size
  BY <1>6, <1>8
<1>11. IsSelection(chosen, list, task, order, confident, count)
  BY <1>3, <1>9, <1>10 DEF IsSelection, R
<1> QED BY <1>11 DEF confident, count

(* What sequences of items are made of: a list of items is a list of what has *)
(* a size and a priority, NaN or not.                                         *)
LEMMA IsAnItemList ==
  ASSUME NEW S, NEW list \in Seq(S),
         \A i \in 1..Len(list) : list[i].tokens \in Nat /\ list[i].priority \in Int \cup {NotANumber}
  PROVE  IsItemList(list)
<1>1. list \in [1..Len(list) -> S] /\ DOMAIN list = 1..Len(list) /\ Len(list) \in Nat
  BY LenProperties
<1> DEFINE T == {list[i] : i \in DOMAIN list}
<1>2. list \in [1..Len(list) -> T]
  BY <1>1
<1> HIDE DEF T
<1>3. list \in Seq(T)
  BY <1>1, <1>2, ListOf
<1> QED BY <1>1, <1>3 DEF IsItemList, T

LEMMA ItemsJoined ==
  ASSUME NEW a, NEW b, IsItemList(a), IsItemList(b)
  PROVE  IsItemList(a \o b)
<1> DEFINE S == {a[i] : i \in DOMAIN a} \cup {b[i] : i \in DOMAIN b}
<1>1. a \in Seq(S) /\ b \in Seq(S)
  <2>1. /\ a \in Seq({a[i] : i \in DOMAIN a}) /\ b \in Seq({b[i] : i \in DOMAIN b})
    BY DEF IsItemList
  <2>2. /\ Len(a) \in Nat /\ a \in [1..Len(a) -> {a[i] : i \in DOMAIN a}]
        /\ Len(b) \in Nat /\ b \in [1..Len(b) -> {b[i] : i \in DOMAIN b}]
    BY <2>1, LenProperties
  <2>3. a \in [1..Len(a) -> S] /\ b \in [1..Len(b) -> S]
    BY <2>2
  <2> HIDE DEF S
  <2> QED BY <2>2, <2>3, ListOf
<1> HIDE DEF S
<1>2. /\ a \o b \in Seq(S) /\ Len(a \o b) = Len(a) + Len(b) /\ Len(a) \in Nat /\ Len(b) \in Nat
      /\ DOMAIN a = 1..Len(a) /\ DOMAIN b = 1..Len(b)
      /\ \A i \in 1 .. Len(a) + Len(b) : (a \o b)[i] = IF i <= Len(a) THEN a[i] ELSE b[i - Len(a)]
  BY <1>1, ConcatProperties, LenProperties
<1>3. \A i \in 1..Len(a \o b) : (a \o b)[i].tokens \in Nat /\ (a \o b)[i].priority \in Int \cup {NotANumber}
  <2> TAKE i \in 1..Len(a \o b)
  <2>1. CASE i <= Len(a)
    <3>1. i \in DOMAIN a /\ (a \o b)[i] = a[i]
      BY <1>2, <2>1
    <3> QED BY <3>1 DEF IsItemList
  <2>2. CASE ~(i <= Len(a))
    <3>1. i - Len(a) \in DOMAIN b /\ (a \o b)[i] = b[i - Len(a)]
      BY <1>2, <2>2
    <3> QED BY <3>1 DEF IsItemList
  <2> QED BY <2>1, <2>2
<1> QED BY <1>2, <1>3, IsAnItemList

(* What is selected from has a size and a priority. *)
LEMMA ItemsListed ==
  ASSUME LedgerInv, NEW chosen \in Seq(Kept)
  PROVE  IsItemList(Items(chosen))
<1> DEFINE mine == [i \in DOMAIN chosen |-> LedgerItem(chosen[i])]
<1>2. Len(chosen) \in Nat /\ DOMAIN chosen = 1..Len(chosen)
  BY LenProperties
<1>3. \A i \in 1..Len(chosen) : /\ LedgerItem(chosen[i]).tokens \in Nat
                                /\ LedgerItem(chosen[i]).priority \in Int \cup {NotANumber}
  <2> TAKE i \in 1..Len(chosen)
  <2>1. chosen[i] \in Kept
    BY ElementOfSeq
  <2> QED BY <2>1, KeptNote DEF LedgerItem
<1>4. IsItemList(mine)
  <2> DEFINE S == {LedgerItem(chosen[i]) : i \in DOMAIN chosen}
  <2>1. mine \in [1..Len(chosen) -> S] /\ \A i \in 1..Len(chosen) : mine[i] = LedgerItem(chosen[i])
    BY <1>2
  <2> HIDE DEF S, mine
  <2>2. mine \in Seq(S) /\ Len(mine) = Len(chosen)
    BY <1>2, <2>1, ListOf
  <2> QED BY <2>1, <2>2, <1>3, IsAnItemList
<1> HIDE DEF mine
<1>5. IsItemList(LongTermItems)
  <2>1. CASE longTerm = Noop
    <3>1. LongTermItems = << >>
      BY <2>1 DEF LongTermItems
    <3> DEFINE none == << >>
               range == {none[i] : i \in DOMAIN none}
    <3>2. DOMAIN none = {}
      OBVIOUS
    <3>3. none \in Seq(range)
      BY EmptySeq
    <3>4. IsItemList(none)
      BY <3>2, <3>3 DEF IsItemList
    <3> QED BY <3>1, <3>4
  <2>2. CASE longTerm # Noop
    <3>1. longTerm \in Provider /\ LongTermItems = ItemsOf[longTerm]
      BY <2>2 DEF LedgerInv, LongTermItems
    <3> QED BY <3>1, ItemAssumption
  <2> QED BY <2>1, <2>2
<1>6. IsItemList(Knowledge)
  BY ItemAssumption
<1>7. IsItemList(Knowledge \o mine)
  BY <1>4, <1>6, ItemsJoined
<1>8. IsItemList((Knowledge \o mine) \o LongTermItems)
  BY <1>5, <1>7, ItemsJoined
<1>9. Items(chosen) = (Knowledge \o mine) \o LongTermItems
  BY DEF Items, mine
<1> QED BY <1>8, <1>9

(* The size of a list, added up one item after the other. *)
LEMMA AddingUnrolled ==
  ASSUME NEW S, NEW list \in Seq(S), \A i \in 1..Len(list) : list[i].tokens \in Nat
  PROVE  /\ Adding(list) \in [0..Len(list) -> Nat]
         /\ Adding(list)[0] = 0
         /\ \A n \in 1..Len(list) : Adding(list)[n] = Adding(list)[n-1] + list[n].tokens
<1> DEFINE N == Len(list)
           Solves(sum) == sum = [n \in 0..N |-> IF n = 0 THEN 0 ELSE sum[n-1] + list[n].tokens]
           step == [p \in (1..N) \X Nat |-> p[2] + list[p[1]].tokens]
<1>1. N \in Nat
  BY LenProperties
<1>2. step \in [(1..N) \X Nat -> Nat]
  BY <1>1
<1>3. \A n \in 1..N, m \in Nat : step[<<n, m>>] = m + list[n].tokens
  OBVIOUS
<1> HIDE DEF step, N
<1>4. PICK f \in [0..N -> Nat] : f[0] = 0 /\ \A n \in 1..N : f[n] = step[<<n, f[n-1]>>]
  <2>1. \E f \in [0..N -> Nat] : GoesAlong(f, N, 0, step)
    BY <1>1, <1>2, RecursionExists
  <2> QED BY <2>1 DEF GoesAlong
<1>5. Solves(f)
  <2>1. \A n \in 0..N : f[n] = IF n = 0 THEN 0 ELSE f[n-1] + list[n].tokens
    <3> TAKE n \in 0..N
    <3>1. CASE n = 0
      BY <3>1, <1>4
    <3>2. CASE n # 0
      <4>1. n \in 1..N /\ n - 1 \in 0..N
        BY <1>1, <3>2
      <4>2. f[n-1] \in Nat
        BY <1>4, <4>1
      <4> QED BY <1>3, <1>4, <3>2, <4>1, <4>2
    <3> QED BY <3>1, <3>2
  <2> QED BY <2>1, <1>4
<1>6. Adding(list) = CHOOSE sum : Solves(sum)
  BY DEF Adding, N
<1>7. Solves(Adding(list))
  BY <1>5, <1>6
<1> DEFINE g == Adding(list)
<1>8. g = [n \in 0..N |-> IF n = 0 THEN 0 ELSE g[n-1] + list[n].tokens]
  BY <1>7
<1> HIDE DEF g
<1>9. g[0] = 0 /\ \A n \in 1..N : g[n] = g[n-1] + list[n].tokens
  BY <1>1, <1>8
<1>10. \A n \in 0..N : g[n] \in Nat
  <2> DEFINE Good == {n \in 0..N : g[n] \in Nat}
  <2>1. 0 \in Good
    BY <1>1, <1>9
  <2>2. \A n \in 1..N : n - 1 \in Good => n \in Good
    <3> SUFFICES ASSUME NEW n \in 1..N, n - 1 \in Good PROVE g[n] \in Nat
      BY <1>1
    <3>1. list[n].tokens \in Nat
      BY DEF N
    <3> QED BY <3>1, <1>9
  <2> HIDE DEF Good
  <2>3. \A n \in 0..N : n \in Good
    BY <1>1, <2>1, <2>2, UpTo
  <2> QED BY <2>3 DEF Good
<1>11. g \in [0..N -> Nat]
  <2>1. DOMAIN g = 0..N /\ g = [n \in DOMAIN g |-> g[n]]
    BY <1>8
  <2> QED BY <2>1, <1>10
<1> QED BY <1>9, <1>11 DEF g, N

(* One more item adds its size. *)
LEMMA AddingAppend ==
  ASSUME NEW S, NEW list \in Seq(S), NEW m \in S,
         \A x \in S : x.tokens \in Nat
  PROVE  /\ Adding(list)[Len(list)] \in Nat
         /\ Len(Append(list, m)) = Len(list) + 1
         /\ Adding(Append(list, m))[Len(Append(list, m))] = Adding(list)[Len(list)] + m.tokens
<1> DEFINE more == Append(list, m)
           N == Len(list)
           g == Adding(list)
           h == Adding(more)
<1>1. /\ more \in Seq(S) /\ Len(more) = N + 1 /\ N \in Nat
      /\ \A i \in 1..N : more[i] = list[i]
      /\ more[N+1] = m
  BY AppendProperties, LenProperties
<1>2. /\ \A i \in 1..N : list[i].tokens \in Nat
      /\ \A i \in 1..Len(more) : more[i].tokens \in Nat
  <2>1. \A i \in 1..N : list[i] \in S
    BY ElementOfSeq
  <2>2. \A i \in 1..Len(more) : more[i] \in S
    BY <1>1, ElementOfSeq
  <2> HIDE DEF more
  <2> QED BY <2>1, <2>2
<1>3. g \in [0..N -> Nat] /\ g[0] = 0 /\ \A n \in 1..N : g[n] = g[n-1] + list[n].tokens
  BY <1>2, AddingUnrolled
<1>4. /\ h \in [0..Len(more) -> Nat] /\ h[0] = 0
      /\ \A n \in 1..Len(more) : h[n] = h[n-1] + more[n].tokens
  <2> HIDE DEF more
  <2> QED BY <1>1, <1>2, AddingUnrolled
<1> HIDE DEF g, h, more, N
<1>5. \A n \in 0..N : h[n] = g[n]
  <2> DEFINE Good == {n \in 0..N : h[n] = g[n]}
  <2>1. 0 \in Good
    BY <1>1, <1>3, <1>4
  <2>2. \A n \in 1..N : n - 1 \in Good => n \in Good
    <3> SUFFICES ASSUME NEW n \in 1..N, n - 1 \in Good PROVE n \in Good
      OBVIOUS
    <3>1. n \in 1..Len(more) /\ more[n] = list[n] /\ n \in 0..N
      BY <1>1
    <3>2. h[n] = h[n-1] + more[n].tokens /\ g[n] = g[n-1] + list[n].tokens /\ h[n-1] = g[n-1]
      BY <3>1, <1>3, <1>4
    <3> QED BY <3>1, <3>2
  <2> HIDE DEF Good
  <2>3. \A n \in 0..N : n \in Good
    BY <1>1, <2>1, <2>2, UpTo
  <2> QED BY <2>3 DEF Good
<1>6. N \in 0..N /\ N + 1 \in 1..Len(more) /\ N + 1 - 1 = N
  BY <1>1
<1>7. h[N+1] = h[N] + m.tokens /\ h[N] = g[N] /\ g[N] \in Nat
  BY <1>1, <1>3, <1>4, <1>5, <1>6
<1>8. g[N] \in Nat /\ Len(more) = N + 1 /\ h[Len(more)] = g[N] + m.tokens
  BY <1>1, <1>7
<1> QED BY <1>8 DEF g, h, more, N

(* Filling goes through the items one after the other. *)
FillsUp(fill, items, order, budget) ==
  /\ fill[0] = [used |-> 0, list |-> << >>]
  /\ \A n \in 1..Len(order) :
       fill[n] = IF fill[n-1].used + items[order[n]].tokens <= budget
                 THEN [used |-> fill[n-1].used + items[order[n]].tokens,
                       list |-> Append(fill[n-1].list, items[order[n]])]
                 ELSE fill[n-1]

LEMMA FillingUnrolled ==
  ASSUME NEW S, \A m \in S : m.tokens \in Nat, NEW items,
         NEW order, NEW N \in Nat, Len(order) = N, \A n \in 1..N : items[order[n]] \in S, NEW budget \in Nat
  PROVE  FillsUp(Filling(items, order, budget), items, order, budget)
<1> DEFINE Filled == [used : Nat, list : Seq(S)]
           next(n, so) == IF so.used + items[order[n]].tokens <= budget
                          THEN [used |-> so.used + items[order[n]].tokens,
                                list |-> Append(so.list, items[order[n]])]
                          ELSE so
           none == [used |-> 0, list |-> << >>]
           Solves(fill) == fill = [n \in 0..N |-> IF n = 0 THEN none ELSE next(n, fill[n-1])]
           step == [p \in (1..N) \X Filled |-> next(p[1], p[2])]
<1>1. \A n \in 1..N : \A so \in Filled : next(n, so) \in Filled
  <2> TAKE n \in 1..N
  <2> TAKE so \in Filled
  <2>1. items[order[n]] \in S /\ items[order[n]].tokens \in Nat /\ so.list \in Seq(S) /\ so.used \in Nat
    OBVIOUS
  <2>2. Append(so.list, items[order[n]]) \in Seq(S)
    BY <2>1, AppendProperties
  <2> QED BY <2>1, <2>2
<1>2. none \in Filled
  BY EmptySeq
<1> HIDE DEF next, none, Filled
<1>3. /\ step \in [(1..N) \X Filled -> Filled]
      /\ \A n \in 1..N : \A so \in Filled : step[<<n, so>>] = next(n, so)
  BY <1>1
<1> HIDE DEF step
<1>4. PICK f \in [0..N -> Filled] : f[0] = none /\ \A n \in 1..N : f[n] = step[<<n, f[n-1]>>]
  <2>1. \E f \in [0..N -> Filled] : GoesAlong(f, N, none, step)
    BY <1>2, <1>3, RecursionExists
  <2> QED BY <2>1 DEF GoesAlong
<1>5. Solves(f)
  <2>1. \A n \in 0..N : f[n] = IF n = 0 THEN none ELSE next(n, f[n-1])
    <3> TAKE n \in 0..N
    <3>1. CASE n = 0
      BY <3>1, <1>4
    <3>2. CASE n # 0
      <4>1. n \in 1..N /\ n - 1 \in 0..N
        BY <3>2
      <4>2. f[n-1] \in Filled
        BY <1>4, <4>1
      <4>3. f[n] = step[<<n, f[n-1]>>]
        BY <1>4, <4>1
      <4> QED BY <1>3, <3>2, <4>1, <4>2, <4>3
    <3> QED BY <3>1, <3>2
  <2> QED BY <2>1, <1>4
<1>6. Filling(items, order, budget) = CHOOSE fill : Solves(fill)
  BY DEF Filling, next, none
<1>7. Solves(Filling(items, order, budget))
  BY <1>5, <1>6
<1> DEFINE g == Filling(items, order, budget)
<1>8. g = [n \in 0..N |-> IF n = 0 THEN none ELSE next(n, g[n-1])]
  BY <1>7
<1> HIDE DEF g
<1>9. g[0] = none /\ \A n \in 1..N : g[n] = next(n, g[n-1])
  BY <1>8
<1> QED BY <1>9 DEF g, none, next, FillsUp

(* Filling stays within the budget, takes from the items in order only, and *)
(* an item it has passed by does not fit any more.                          *)
FillsRight(so, n, items, order, budget, S) ==
  /\ so.used \in Nat /\ so.used <= budget
  /\ so.list \in Seq(S)
  /\ Adding(so.list)[Len(so.list)] = so.used
  /\ \A i \in DOMAIN so.list : \E k \in 1..n : so.list[i] = items[order[k]]
  /\ \A k \in 1..n : items[order[k]] \in {so.list[i] : i \in DOMAIN so.list}
                       \/ so.used + items[order[k]].tokens > budget

LEMMA FillingKeeps ==
  ASSUME NEW S, \A m \in S : m.tokens \in Nat, NEW items, NEW order,
         NEW N \in Nat, Len(order) = N, \A n \in 1..N : items[order[n]] \in S, NEW budget \in Nat
  PROVE  \A n \in 0..N : FillsRight(Filling(items, order, budget)[n], n, items, order, budget, S)
<1> DEFINE fill == Filling(items, order, budget)
           item(n) == items[order[n]]
           Right(so, n) ==
             /\ so.used \in Nat /\ so.used <= budget
             /\ so.list \in Seq(S)
             /\ Adding(so.list)[Len(so.list)] = so.used
             /\ \A i \in DOMAIN so.list : \E k \in 1..n : so.list[i] = item(k)
             /\ \A k \in 1..n : item(k) \in {so.list[i] : i \in DOMAIN so.list}
                                  \/ so.used + item(k).tokens > budget
           Good == {n \in 0..N : Right(fill[n], n)}
<1>1. /\ fill[0] = [used |-> 0, list |-> << >>]
      /\ \A n \in 1..N :
           fill[n] = IF fill[n-1].used + item(n).tokens <= budget
                     THEN [used |-> fill[n-1].used + item(n).tokens,
                           list |-> Append(fill[n-1].list, item(n))]
                     ELSE fill[n-1]
  <2>1. FillsUp(fill, items, order, budget)
    BY FillingUnrolled
  <2> QED BY <2>1 DEF FillsUp
<1>2. \A n \in 1..N : item(n) \in S /\ item(n).tokens \in Nat
  OBVIOUS
<1> HIDE DEF fill, item
<1>3. 0 \in Good
  <2> DEFINE none == << >>
  <2>1. fill[0].used = 0 /\ fill[0].list = none
    BY <1>1
  <2>2. none \in Seq(S) /\ Len(none) = 0 /\ DOMAIN none = {}
    BY EmptySeq
  <2>3. Adding(none)[Len(none)] = 0
    <3>1. \A i \in 1..Len(none) : none[i].tokens \in Nat
      BY <2>2
    <3> HIDE DEF none
    <3> QED BY <3>1, <2>2, AddingUnrolled
  <2>4. /\ \A i \in DOMAIN none : \E k \in 1..0 : none[i] = item(k)
        /\ \A k \in 1..0 : item(k) \in {none[i] : i \in DOMAIN none} \/ 0 + item(k).tokens > budget
    BY <2>2
  <2> HIDE DEF none
  <2>5. Right(fill[0], 0)
    BY <2>1, <2>2, <2>3, <2>4
  <2> QED BY <2>5
<1>4. ASSUME NEW n \in 1..N, n - 1 \in Good PROVE n \in Good
  <2> DEFINE old == fill[n-1]
             m == item(n)
  <2>1. Right(old, n - 1) /\ n \in 0..N /\ n \in Nat
    BY <1>4
  <2>2. m \in S /\ m.tokens \in Nat
    BY <1>2
  <2>3. CASE old.used + m.tokens <= budget
    <3> DEFINE list == Append(old.list, m)
    <3>1. fill[n].used = old.used + m.tokens /\ fill[n].list = list
      <4>1. fill[n] = [used |-> old.used + m.tokens, list |-> list]
        BY <1>1, <2>3
      <4> HIDE DEF list, m, old
      <4> QED BY <4>1
    <3>2. /\ list \in Seq(S) /\ Len(list) = Len(old.list) + 1 /\ Len(old.list) \in Nat
          /\ \A i \in 1..Len(old.list) : list[i] = old.list[i]
          /\ list[Len(old.list)+1] = m
          /\ DOMAIN list = 1..Len(list) /\ DOMAIN old.list = 1..Len(old.list)
      <4>1. old.list \in Seq(S)
        BY <2>1
      <4> HIDE DEF old, m
      <4>2. /\ list \in Seq(S) /\ Len(list) = Len(old.list) + 1
            /\ \A i \in 1..Len(old.list) : list[i] = old.list[i]
            /\ list[Len(old.list)+1] = m
        BY <4>1, <2>2, AppendProperties
      <4> HIDE DEF list
      <4> QED BY <4>1, <4>2, LenProperties
    <3>3. Adding(list)[Len(list)] = Adding(old.list)[Len(old.list)] + m.tokens
      <4> HIDE DEF old, m
      <4> QED BY <2>1, <2>2, AddingAppend
    <3> HIDE DEF list, old, m
    <3>4. fill[n].used \in Nat /\ fill[n].used <= budget
      BY <2>1, <2>2, <2>3, <3>1
    <3>5. \A i \in DOMAIN list : \E k \in 1..n : list[i] = item(k)
      <4> TAKE i \in DOMAIN list
      <4>1. CASE i = Len(old.list) + 1
        <5>1. list[i] = item(n) /\ n \in 1..n
          BY <4>1, <3>2, <2>1 DEF m
        <5> QED BY <5>1
      <4>2. CASE i # Len(old.list) + 1
        <5>1. i \in DOMAIN old.list /\ list[i] = old.list[i]
          BY <4>2, <3>2
        <5>2. PICK k \in 1..(n-1) : old.list[i] = item(k)
          BY <5>1, <2>1
        <5>3. k \in 1..n
          BY <2>1
        <5> QED BY <5>1, <5>2, <5>3
      <4> QED BY <4>1, <4>2
    <3>6. \A k \in 1..n : item(k) \in {list[i] : i \in DOMAIN list}
                            \/ fill[n].used + item(k).tokens > budget
      <4> TAKE k \in 1..n
      <4>1. CASE k = n
        <5>1. Len(old.list) + 1 \in DOMAIN list /\ list[Len(old.list)+1] = item(k)
          BY <4>1, <3>2 DEF m
        <5> QED BY <5>1
      <4>2. CASE k # n
        <5>1. k \in 1..(n-1) /\ k \in 1..N
          BY <4>2, <2>1
        <5>2. CASE item(k) \in {old.list[i] : i \in DOMAIN old.list}
          <6>1. PICK i \in DOMAIN old.list : item(k) = old.list[i]
            BY <5>2
          <6>2. i \in DOMAIN list /\ list[i] = item(k)
            BY <6>1, <3>2
          <6> QED BY <6>2
        <5>3. CASE old.used + item(k).tokens > budget
          <6>1. item(k).tokens \in Nat /\ old.used \in Nat
            BY <5>1, <1>2, <2>1
          <6> QED BY <6>1, <5>3, <3>1, <2>2
        <5> QED BY <5>1, <5>2, <5>3, <2>1
      <4> QED BY <4>1, <4>2
    <3>7. Adding(list)[Len(list)] = fill[n].used
      BY <3>1, <3>3, <2>1
    <3> QED BY <3>1, <3>2, <3>4, <3>5, <3>6, <3>7, <2>1
  <2>4. CASE ~(old.used + m.tokens <= budget)
    <3>1. fill[n] = old
      BY <1>1, <2>4
    <3> HIDE DEF old
    <3>2. \A i \in DOMAIN old.list : \E k \in 1..n : old.list[i] = item(k)
      <4>1. \A k \in 1..(n-1) : k \in 1..n
        BY <2>1
      <4> QED BY <4>1, <2>1
    <3>3. \A k \in 1..n : item(k) \in {old.list[i] : i \in DOMAIN old.list}
                            \/ old.used + item(k).tokens > budget
      <4> TAKE k \in 1..n
      <4>1. CASE k = n
        BY <4>1, <2>1, <2>2, <2>4
      <4>2. CASE k # n
        <5>1. k \in 1..(n-1)
          BY <4>2, <2>1
        <5> QED BY <5>1, <2>1
      <4> QED BY <4>1, <4>2
    <3> QED BY <3>1, <3>2, <3>3, <2>1
  <2> QED BY <2>3, <2>4
<1> HIDE DEF Good
<1>5. \A n \in 0..N : n \in Good
  BY <1>3, <1>4, UpTo
<1> QED BY <1>5 DEF Good, fill, item, FillsRight

(* What memory is selected from a list of items: none of the excluded ones, *)
(* within the budget, and of the others all that still fit.                 *)
LEMMA MemorySelected ==
  ASSUME NEW items, IsItemList(items), NEW budget \in Nat,
         NEW selection \in SelectMemory(items, budget)
  PROVE  LET shown == selection.list
             listed == {shown[i] : i \in DOMAIN shown}
         IN  /\ \A m \in listed : \E i \in Eligible(items, budget) : m = items[i]
             /\ Fits(shown, budget)
             /\ \A i \in Eligible(items, budget) :
                  items[i] \in listed \/ ~Fits(Append(shown, items[i]), budget)
<1> DEFINE places == Eligible(items, budget)
           R == MemoryOrder(items)
           N == Cardinality(places)
           S == {items[i] : i \in DOMAIN items}
<1>12. PICK order \in Sortings(places, R) : selection = Filling(items, order, budget)[Len(order)]
  BY DEF SelectMemory
<1> DEFINE so == Filling(items, order, budget)[N]
<1>1. IsFiniteSet(places) /\ places \in SUBSET DOMAIN items
  <2>1. IsFiniteSet(DOMAIN items)
    BY LenProperties, FS_Interval DEF IsItemList
  <2>2. places \in SUBSET DOMAIN items
    BY DEF Eligible
  <2> HIDE DEF places
  <2> QED BY <2>1, <2>2, FS_Subset
<1> HIDE DEF places, R
<1>3. /\ N \in Nat /\ order \in [1..N -> places]
      /\ \A i \in places : \E n \in 1..N : order[n] = i
  <2>1. order \in [1..N -> places]
    BY <1>12 DEF Sortings
  <2>2. DOMAIN order = 1..N
    BY <2>1
  <2> QED BY <1>1, <1>12, <2>1, <2>2, FS_CardinalityType DEF Sortings
<1> HIDE DEF N
<1>4. Len(order) = N
  BY <1>3, ListOf
<1>5. \A m \in S : m.tokens \in Nat
  BY DEF IsItemList
<1>6. \A n \in 1..N : items[order[n]] \in S
  BY <1>1, <1>3
<1> HIDE DEF S
<1>7. /\ so.used \in Nat /\ so.used <= budget
      /\ so.list \in Seq(S)
      /\ Adding(so.list)[Len(so.list)] = so.used
      /\ \A i \in DOMAIN so.list : \E k \in 1..N : so.list[i] = items[order[k]]
      /\ \A k \in 1..N : items[order[k]] \in {so.list[i] : i \in DOMAIN so.list}
                           \/ so.used + items[order[k]].tokens > budget
  <2>1. N \in 0..N
    BY <1>3
  <2>2. FillsRight(so, N, items, order, budget, S)
    BY <2>1, <1>3, <1>4, <1>5, <1>6, FillingKeeps
  <2> HIDE DEF so
  <2> QED BY <2>2 DEF FillsRight
<1>8. selection = so
  BY <1>4, <1>12
<1> HIDE DEF so
<1>9. Fits(so.list, budget)
  BY <1>7 DEF Fits
<1>10. ASSUME NEW i \in DOMAIN so.list PROVE \E j \in places : so.list[i] = items[j]
  BY <1>3, <1>7
<1>11. ASSUME NEW i \in places
       PROVE  items[i] \in {so.list[j] : j \in DOMAIN so.list}
                \/ ~Fits(Append(so.list, items[i]), budget)
  <2>1. PICK k \in 1..N : order[k] = i
    BY <1>3
  <2>2. CASE so.used + items[i].tokens > budget
    <3>1. items[i] \in S /\ items[i].tokens \in Nat
      BY <2>1, <1>5, <1>6
    <3>2. Adding(Append(so.list, items[i]))[Len(Append(so.list, items[i]))] = so.used + items[i].tokens
      <4> DEFINE list == so.list
                 m == items[i]
      <4>1. list \in Seq(S) /\ m \in S /\ Adding(list)[Len(list)] = so.used
        BY <1>7, <3>1
      <4> HIDE DEF list, m
      <4>2. Adding(Append(list, m))[Len(Append(list, m))] = Adding(list)[Len(list)] + m.tokens
        BY <4>1, <1>5, AddingAppend
      <4> QED BY <4>1, <4>2 DEF list, m
    <3> QED BY <3>1, <3>2, <2>2, <1>7 DEF Fits
  <2> QED BY <2>1, <2>2, <1>7
<1> QED BY <1>8, <1>9, <1>10, <1>11 DEF places

(* The notes and items of a prompt are admissible whenever memory holds only *)
(* notes.                                                                    *)
IsPrompt(items, selection, budget) ==
  LET shown == selection.list
      listed == {shown[i] : i \in DOMAIN shown}
  IN  /\ \A m \in listed : ~IsSecretBearing(m.words)
      /\ Fits(shown, budget)
      /\ \A i \in DOMAIN items :
           items[i] \in listed
             \/ items[i].id \in Excluded(items, budget)
             \/ ~Fits(Append(shown, items[i]), budget)

LEMMA NotesAreAdmissible == LedgerInv => PromptsAreAdmissible
<1> SUFFICES ASSUME LedgerInv, NEW task \in Task \ {{}},
                    NEW chosen \in SelectLedgerNotes(memory, task)
             PROVE
               LET confident == ConfidentIn(memory)
               IN  /\ \A i \in DOMAIN chosen :
                        Confident(chosen[i]) /\ chosen[i] \in {memory[j] : j \in DOMAIN memory}
                   /\ Len(chosen) >= MaxInjected \/ Len(chosen) = Cardinality(confident)
                   /\ (\A j \in confident : memory[j].priority # NotANumber) =>
                        \A j \in confident : \A i \in DOMAIN chosen :
                          memory[j] \in {chosen[k] : k \in DOMAIN chosen}
                            \/ ~NoteAhead(memory[j], chosen[i], task)
                   /\ \A budget \in Budget : \A selection \in Select(task, chosen, budget) :
                        IsPrompt(Items(chosen), selection, budget)
  BY Zenon DEF PromptsAreAdmissible, ConfidentIn, IsPrompt
<1> DEFINE confident == ConfidentIn(memory)
           R == NoteOrder(memory, task)
           count == Cardinality(confident)
<1>0. memory \in Seq(Kept)
  BY DEF LedgerInv
<1>3. PICK order : IsSelection(chosen, memory, task, order, confident, count)
  BY <1>0, NotesSelected
<1> HIDE DEF R, count, confident
<1>1. /\ count \in Nat /\ order \in [1..count -> confident]
      /\ \A x \in confident : \E n \in 1..count : order[n] = x
      /\ \A n \in 1..count : n > 1 => <<order[n-1], order[n]>> \in R
      /\ chosen \in Seq(Kept)
      /\ Len(chosen) = IF count < MaxInjected THEN count ELSE MaxInjected
      /\ \A i \in 1..Len(chosen) : i \in 1..count /\ order[i] \in confident /\ chosen[i] = memory[order[i]]
  BY <1>3 DEF IsSelection, R
<1>2. DOMAIN chosen = 1..Len(chosen) /\ Len(chosen) \in Nat /\ MaxInjected \in Nat
  BY <1>1, LenProperties, LedgerAssumption
<1>4. ASSUME NEW i \in DOMAIN chosen
      PROVE  Confident(chosen[i]) /\ chosen[i] \in {memory[j] : j \in DOMAIN memory}
  BY <1>1, <1>2 DEF confident, ConfidentIn
<1>5. Len(chosen) >= MaxInjected \/ Len(chosen) = count
  BY <1>1, <1>2
<1>6. ASSUME \A j \in confident : memory[j].priority # NotANumber,
             NEW j \in confident, NEW i \in DOMAIN chosen
      PROVE  memory[j] \in {chosen[k] : k \in DOMAIN chosen}
               \/ ~NoteAhead(memory[j], chosen[i], task)
  <2>1. PICK n \in 1..count : order[n] = j
    BY <1>1
  <2>2. i \in 1..count /\ order[i] \in confident /\ chosen[i] = memory[order[i]]
    BY <1>1, <1>2
  <2>3. CASE n <= Len(chosen)
    <3>1. n \in DOMAIN chosen /\ chosen[n] = memory[j]
      BY <1>1, <1>2, <2>1, <2>3
    <3> QED BY <3>1
  <2>4. CASE ~(n <= Len(chosen)) /\ NoteAhead(memory[j], chosen[i], task)
    <3>0. confident \in SUBSET DOMAIN memory
      BY DEF confident, ConfidentIn
    <3>1. <<order[n], order[i]>> \in R
      BY <2>1, <2>2, <2>4, <3>0 DEF NoteOrder, R
    <3>2. /\ \A x \in confident : <<x, x>> \notin R
          /\ \A x, y, z \in confident : <<x, y>> \in R /\ <<y, z>> \in R => <<x, z>> \in R
      <4>1. \A x \in confident : memory[x].priority # NotANumber
        BY <1>6
      <4>2. LET S == NoteOrder(memory, task) IN
            /\ \A x \in confident : <<x, x>> \notin S
            /\ \A x, y, z \in confident : <<x, y>> \in S /\ <<y, z>> \in S => <<x, z>> \in S
        BY <1>0, <3>0, <4>1, NoteOrderIsStrict
      <4> QED BY <4>2 DEF R
    <3>3. \A k, l \in 1..count : k < l => <<order[k], order[l]>> \in R
      <4>1. /\ count \in Nat /\ order \in [1..count -> confident]
            /\ \A m \in 1..count : m > 1 => <<order[m-1], order[m]>> \in R
            /\ \A x, y, z \in confident : <<x, y>> \in R /\ <<y, z>> \in R => <<x, z>> \in R
        BY <1>1, <3>2
      <4> QED BY <4>1, Neighbours
    <3>4. i < n
      BY <1>1, <1>2, <2>2, <2>4
    <3> QED BY <1>1, <2>2, <3>1, <3>2, <3>3, <3>4
  <2> QED BY <2>3, <2>4
<1>7. ASSUME NEW budget \in Budget, NEW selection \in Select(task, chosen, budget)
      PROVE  IsPrompt(Items(chosen), selection, budget)
  <2> DEFINE items == Items(chosen)
  <2>1. budget \in Nat /\ IsItemList(items)
    BY <1>1, ItemsListed, LedgerAssumption
  <2>2. selection \in SelectMemory(items, budget)
    BY DEF Select
  <2> HIDE DEF items
  <2> DEFINE shown == selection.list
             listed == {shown[i] : i \in DOMAIN shown}
  <2>3. /\ \A m \in listed : \E i \in Eligible(items, budget) : m = items[i]
        /\ Fits(shown, budget)
        /\ \A i \in Eligible(items, budget) :
             items[i] \in listed \/ ~Fits(Append(shown, items[i]), budget)
    BY <2>1, <2>2, MemorySelected
  <2> HIDE DEF shown
  <2>4. \A i \in Eligible(items, budget) : ~IsSecretBearing(items[i].words)
    BY DEF Eligible, Excluded
  <2>5. \A i \in DOMAIN items : i \in Eligible(items, budget) \/ items[i].id \in Excluded(items, budget)
    BY DEF Eligible
  <2>6. \A m \in listed : ~IsSecretBearing(m.words)
    BY <2>3, <2>4
  <2>7. IsPrompt(items, selection, budget)
    BY <2>3, <2>5, <2>6 DEF shown, IsPrompt
  <2> QED BY <2>7 DEF items
<1> QED BY <1>4, <1>5, <1>6, <1>7 DEF confident, count

(* What select() puts into a prompt is admissible, whatever was appended,  *)
(* lost and reloaded, whichever provider is registered.                    *)
THEOREM PromptsStayAdmissible == LedgerSpec => []PromptsAreAdmissible
BY LedgerHoldsNotes, NotesAreAdmissible, PTL

-------------------------------------------------------------------------------
(* Numbers.                                                                 *)

LEMMA Dividing ==
  /\ \A a \in Int, b \in Nat \ {0} : a \div b \in Int
  /\ \A a \in Nat, b \in Nat \ {0} : a \div b \in Nat
OBVIOUS

(* A power of two is a positive number. *)
LEMMA PowersOfTwo == Power \in [0..HalfLives -> Nat \ {0}]
<1> DEFINE Positive == Nat \ {0}
           Solves(p) == p = [n \in 0..HalfLives |-> IF n = 0 THEN 1 ELSE 2 * p[n-1]]
           step == [x \in (1..HalfLives) \X Positive |-> 2 * x[2]]
<1>1. HalfLives \in Nat
  BY RoutingAssumption
<1>2. 1 \in Positive /\ step \in [(1..HalfLives) \X Positive -> Positive]
  OBVIOUS
<1>3. \A n \in 1..HalfLives, m \in Positive : step[<<n, m>>] = 2 * m
  OBVIOUS
<1> HIDE DEF step, Positive
<1>4. PICK f \in [0..HalfLives -> Positive] : GoesAlong(f, HalfLives, 1, step)
  BY <1>1, <1>2, RecursionExists
<1>5. Solves(f)
  <2>1. \A n \in 0..HalfLives : f[n] = IF n = 0 THEN 1 ELSE 2 * f[n-1]
    <3> TAKE n \in 0..HalfLives
    <3>1. CASE n = 0
      BY <3>1, <1>4 DEF GoesAlong
    <3>2. CASE n # 0
      <4>1. n \in 1..HalfLives /\ n - 1 \in 0..HalfLives
        BY <1>1, <3>2
      <4>2. f[n] = step[<<n, f[n-1]>>] /\ f[n-1] \in Positive
        BY <1>4, <4>1 DEF GoesAlong
      <4> QED BY <1>3, <3>2, <4>1, <4>2
    <3> QED BY <3>1, <3>2
  <2> QED BY <2>1, <1>4
<1>6. Power = CHOOSE p : Solves(p)
  BY DEF Power
<1>7. Solves(Power)
  BY <1>5, <1>6
<1>8. Power[0] = 1 /\ \A n \in 1..HalfLives : Power[n] = 2 * Power[n-1]
  <2> HIDE DEF Solves
  <2>1. PICK p : p = Power
    OBVIOUS
  <2>2. p = [n \in 0..HalfLives |-> IF n = 0 THEN 1 ELSE 2 * p[n-1]]
    BY <1>7, <2>1 DEF Solves
  <2>3. p[0] = 1 /\ \A n \in 1..HalfLives : p[n] = 2 * p[n-1]
    BY <1>1, <2>2
  <2> QED BY <2>1, <2>3
<1>9. \A n \in 0..HalfLives : Power[n] \in Positive
  <2> DEFINE Good == {n \in 0..HalfLives : Power[n] \in Positive}
  <2>1. 0 \in Good
    BY <1>1, <1>2, <1>8
  <2>2. \A n \in 1..HalfLives : n - 1 \in Good => n \in Good
    <3> SUFFICES ASSUME NEW n \in 1..HalfLives, n - 1 \in Good PROVE n \in Good
      OBVIOUS
    <3>1. Power[n] = 2 * Power[n-1] /\ Power[n-1] \in Positive /\ n \in 0..HalfLives
      BY <1>1, <1>8
    <3> QED BY <3>1 DEF Positive
  <2> HIDE DEF Good
  <2>3. \A n \in 0..HalfLives : n \in Good
    BY <1>1, <2>1, <2>2, UpTo
  <2> QED BY <2>3 DEF Good
<1>10. DOMAIN Power = 0..HalfLives /\ Power = [n \in DOMAIN Power |-> Power[n]]
  BY <1>7
<1> QED BY <1>9, <1>10 DEF Positive

LEMMA WeightsAreNumbers ==
  /\ Unit \in Nat \ {0}
  /\ \A at \in Nat, now \in Nat : FreshnessWeight(at, now) \in Nat
<1>1. HalfLives \in Nat
  BY RoutingAssumption
<1>2. Unit \in Nat \ {0}
  BY <1>1, PowersOfTwo DEF Unit
<1>3. ASSUME NEW at \in Nat, NEW now \in Nat PROVE FreshnessWeight(at, now) \in Nat
  <2> DEFINE age == IF now > at THEN now - at ELSE 0
  <2>1. age \in Nat
    OBVIOUS
  <2>2. FreshnessWeight(at, now) = IF age > HalfLives THEN 0 ELSE Power[HalfLives - age]
    BY DEF FreshnessWeight
  <2> HIDE DEF age
  <2>3. ~(age > HalfLives) => HalfLives - age \in 0..HalfLives
    BY <1>1, <2>1
  <2> QED BY <2>1, <2>2, <2>3, PowersOfTwo
<1> QED BY <1>2, <1>3

(* The largest digit that does not go beyond a number. *)
LEMMA GreatestDigit ==
  ASSUME NEW S, 0 \in S, NEW top \in Nat
  PROVE  \E d \in 0..top : d \in S /\ (d = top \/ d + 1 \notin S)
<1> SUFFICES ASSUME \A d \in 0..top : d \in S => d # top /\ d + 1 \in S PROVE FALSE
  OBVIOUS
<1> DEFINE Good == {n \in 0..top : n \in S}
<1>1. 0 \in Good
  OBVIOUS
<1>2. \A n \in 1..top : n - 1 \in Good => n \in Good
  <2> SUFFICES ASSUME NEW n \in 1..top, n - 1 \in Good PROVE n \in Good
    OBVIOUS
  <2>1. n - 1 \in 0..top /\ n - 1 \in S /\ (n - 1) + 1 = n
    OBVIOUS
  <2> QED BY <2>1
<1> HIDE DEF Good
<1>3. \A n \in 0..top : n \in Good
  BY <1>1, <1>2, UpTo
<1>4. top \in 0..top
  OBVIOUS
<1> QED BY <1>3, <1>4 DEF Good

LEMMA RootIsNumber ==
  ASSUME NEW n \in Int
  PROVE  SquareRoot(n) \in Nat
<1> DEFINE square == [r \in Nat |-> r * r]
           at(p, d) == /\ d = 0 \/ square[p[2] + d * p[3]] <= p[1]
                       /\ d = 63 \/ square[p[2] + (d + 1) * p[3]] > p[1]
           digit == [p \in Int \X Nat \X Nat |-> CHOOSE d \in 0..63 : at(p, d)]
           both == [p \in Int \X Nat |-> p[2] + digit[<<p[1], p[2], 1>>]]
           root == [x \in Int |-> both[<<x, 64 * digit[<<x, 0, 64>>]>>]]
<1>1. \A r \in Nat : square[r] \in Nat
  OBVIOUS
<1> HIDE DEF square
<1>2. ASSUME NEW x \in Int, NEW high \in Nat, NEW unit \in Nat
      PROVE  digit[<<x, high, unit>>] \in 0..63
  <2> DEFINE S == {d \in 0..63 : d = 0 \/ square[high + d * unit] <= x}
             p == <<x, high, unit>>
  <2>1. 0 \in S
    OBVIOUS
  <2> HIDE DEF S
  <2>2. PICK d \in 0..63 : d \in S /\ (d = 63 \/ d + 1 \notin S)
    BY <2>1, GreatestDigit
  <2>3. /\ d = 0 \/ square[high + d * unit] <= x
        /\ d = 63 \/ square[high + (d + 1) * unit] > x
    <3>1. CASE d = 63
      BY <2>2, <3>1 DEF S
    <3>2. CASE d # 63
      <4>1. d + 1 \in 0..63 /\ d + 1 # 0
        BY <3>2
      <4>2. ~(square[high + (d + 1) * unit] <= x)
        BY <2>2, <3>2, <4>1 DEF S
      <4>3. high + (d + 1) * unit \in Nat
        OBVIOUS
      <4>4. square[high + (d + 1) * unit] > x
        BY <1>1, <4>2, <4>3
      <4> QED BY <2>2, <4>4 DEF S
    <3> QED BY <3>1, <3>2
  <2>4. at(p, d) /\ p \in Int \X Nat \X Nat
    BY <2>3
  <2> HIDE DEF at, p
  <2>5. digit[p] = CHOOSE k \in 0..63 : at(p, k)
    BY <2>4
  <2>6. digit[p] \in 0..63
    BY <2>4, <2>5
  <2> QED BY <2>6 DEF p
<1> HIDE DEF digit
<1> DEFINE first == 64 * digit[<<n, 0, 64>>]
<1>3. digit[<<n, 0, 64>>] \in 0..63
  BY <1>2
<1>4. first \in Nat
  BY <1>3
<1> HIDE DEF first
<1>5. digit[<<n, first, 1>>] \in 0..63
  BY <1>2, <1>4
<1>6. both[<<n, first>>] = first + digit[<<n, first, 1>>]
  BY <1>4
<1>7. root[n] = both[<<n, first>>]
  BY DEF first
<1> HIDE DEF root, both
<1>8. root[n] \in Nat
  BY <1>4, <1>5, <1>6, <1>7
<1>9. SquareRoot(n) = root[n]
  BY DEF SquareRoot, root, both, digit, square
<1> QED BY <1>8, <1>9

LEMMA BoundIsNumber ==
  ASSUME NEW won \in Nat, NEW all \in Nat \ {0}
  PROVE  WilsonLowerBound(won, all) \in Nat
<1> DEFINE under == 1000 * won * ((1000 * (all - won)) \div Unit)
           centre == (1000 * won) \div Unit + 1921
           spread == SquareRoot(under \div all + 960400)
           size == (1000 * all) \div Unit + 3842
           bound == (1000 * (centre - (196 * spread) \div 100)) \div size
<1>1. Unit \in Nat \ {0}
  BY WeightsAreNumbers
<1>2. (1000 * (all - won)) \div Unit \in Int /\ 1000 * won \in Int
  BY <1>1, Dividing
<1>3. under \in Int
  BY <1>2
<1>4. centre \in Int
  BY <1>1, Dividing
<1>5. size \in Nat \ {0}
  <2>1. (1000 * all) \div Unit \in Nat
    <3>1. 1000 * all \in Nat
      OBVIOUS
    <3> QED BY <3>1, <1>1, Dividing
  <2> QED BY <2>1
<1> HIDE DEF under
<1>6. spread \in Nat
  <2>1. under \div all + 960400 \in Int
    BY <1>3, Dividing
  <2> QED BY <2>1, RootIsNumber
<1> HIDE DEF spread, centre, size
<1>7. bound \in Int
  <2>1. 1000 * (centre - (196 * spread) \div 100) \in Int
    BY <1>4, <1>6
  <2> QED BY <2>1, <1>5, Dividing
<1>8. WilsonLowerBound(won, all) = IF bound < 0 THEN 0 ELSE bound
  BY DEF WilsonLowerBound, spread, centre, size, under
<1> HIDE DEF bound
<1> QED BY <1>7, <1>8

(* The weight of some of a record's samples. *)
LEMMA WeightIsNumber ==
  ASSUME NEW list \in Seq(Sample), NEW places, NEW now \in Nat
  PROVE  WeightOf(list, places, now) \in Nat
<1> DEFINE N == Len(list)
           weight(i) == IF i \in places THEN FreshnessWeight(list[i].at, now) ELSE 0
           Solves(sum) == sum = [i \in 0..N |-> IF i = 0 THEN 0 ELSE sum[i-1] + weight(i)]
           step == [p \in (1..N) \X Nat |-> p[2] + weight(p[1])]
<1>1. N \in Nat
  BY LenProperties
<1>2. \A i \in 1..N : weight(i) \in Nat
  <2> TAKE i \in 1..N
  <2>1. list[i] \in Sample
    BY ElementOfSeq
  <2>2. list[i].at \in Nat
    BY <2>1 DEF Sample
  <2> QED BY <2>2, WeightsAreNumbers
<1> HIDE DEF weight, N
<1>3. step \in [(1..N) \X Nat -> Nat]
  BY <1>2
<1>4. \A n \in 1..N, m \in Nat : step[<<n, m>>] = m + weight(n)
  OBVIOUS
<1> HIDE DEF step
<1>5. PICK f \in [0..N -> Nat] : GoesAlong(f, N, 0, step)
  BY <1>1, <1>3, RecursionExists
<1>6. Solves(f)
  <2>1. \A n \in 0..N : f[n] = IF n = 0 THEN 0 ELSE f[n-1] + weight(n)
    <3> TAKE n \in 0..N
    <3>1. CASE n = 0
      BY <3>1, <1>5 DEF GoesAlong
    <3>2. CASE n # 0
      <4>1. n \in 1..N /\ n - 1 \in 0..N
        BY <1>1, <3>2
      <4>2. f[n] = step[<<n, f[n-1]>>] /\ f[n-1] \in Nat
        BY <1>5, <4>1 DEF GoesAlong
      <4> QED BY <1>4, <3>2, <4>1, <4>2
    <3> QED BY <3>1, <3>2
  <2> QED BY <2>1, <1>5
<1> DEFINE g == Weighing(list, places, now)
<1>7. g = CHOOSE sum : Solves(sum)
  BY DEF Weighing, weight, N
<1> HIDE DEF g
<1>8. g = [i \in 0..N |-> IF i = 0 THEN 0 ELSE g[i-1] + weight(i)]
  BY <1>6, <1>7
<1>9. g[0] = 0 /\ \A n \in 1..N : g[n] = g[n-1] + weight(n)
  BY <1>1, <1>8
<1>10. g[N] \in Nat
  <2> DEFINE Good == {n \in 0..N : g[n] \in Nat}
  <2>1. 0 \in Good
    BY <1>1, <1>9
  <2>2. \A n \in 1..N : n - 1 \in Good => n \in Good
    <3> SUFFICES ASSUME NEW n \in 1..N, n - 1 \in Good PROVE g[n] \in Nat
      BY <1>1
    <3> QED BY <1>2, <1>9
  <2> HIDE DEF Good
  <2>3. \A n \in 0..N : n \in Good
    BY <1>1, <2>1, <2>2, UpTo
  <2>4. N \in 0..N
    BY <1>1
  <2> QED BY <2>3, <2>4 DEF Good
<1> QED BY <1>10 DEF WeightOf, g, N

LEMMA ScoreIsNumber ==
  ASSUME NEW list \in Seq(Sample), NEW now \in Nat
  PROVE  ClassScore(list, now) \in Nat
<1> DEFINE bound == [p \in Int \X Int |-> IF p[2] = 0 THEN 500 ELSE WilsonLowerBound(p[1], p[2])]
           wonOf(samples) == WeightOf(samples, {i \in DOMAIN samples : samples[i].success}, now)
           allOf(samples) == WeightOf(samples, DOMAIN samples, now)
           score == [samples \in Seq(Sample) |-> bound[<<wonOf(samples), allOf(samples)>>]]
<1>1. ClassScore(list, now) = score[list]
  BY DEF ClassScore
<1>2. wonOf(list) \in Nat /\ allOf(list) \in Nat
  BY WeightIsNumber
<1> HIDE DEF wonOf, allOf
<1>3. score[list] = bound[<<wonOf(list), allOf(list)>>]
  BY DEF score
<1> HIDE DEF score
<1>4. bound[<<wonOf(list), allOf(list)>>] =
        IF allOf(list) = 0 THEN 500 ELSE WilsonLowerBound(wonOf(list), allOf(list))
  BY <1>2
<1> HIDE DEF bound
<1>5. CASE allOf(list) = 0
  BY <1>1, <1>3, <1>4, <1>5
<1>6. CASE allOf(list) # 0
  <2>1. WilsonLowerBound(wonOf(list), allOf(list)) \in Nat
    BY <1>2, <1>6, BoundIsNumber
  <2> QED BY <1>1, <1>3, <1>4, <1>6, <2>1
<1> QED BY <1>5, <1>6

-------------------------------------------------------------------------------
(* Finishing times.                                                         *)

(* What memory, the chain and the file tell of runs, and when they finished. *)
Told ==
  {runs[id] : id \in Known} \cup {lines[i].line : i \in DOMAIN lines}
    \cup {stored[i] : i \in DOMAIN stored}

FinishedTold == {r \in Told : r.kind = "run" /\ r.at # Null}

(* A finishing time belongs to one run. *)
TimesInv ==
  /\ \A r \in FinishedTold : r.at \in Nat /\ r.at <= clock
  /\ \A r, s \in FinishedTold : r.at = s.at => r.id = s.id

LEMMA TimesKept ==
  ASSUME TimesInv, clock' = clock,
         \A r \in FinishedTold' : \E q \in FinishedTold : q.at = r.at /\ q.id = r.id
  PROVE  TimesInv'
BY DEF TimesInv

LEMMA TimesGrow ==
  ASSUME TimesInv, clock \in Nat, clock' = clock + 1, NEW id,
         \A r \in FinishedTold' : \/ \E q \in FinishedTold : q.at = r.at /\ q.id = r.id
                                  \/ r.at = clock + 1 /\ r.id = id
  PROVE  TimesInv'
<1>1. \A r \in FinishedTold' : r.at \in Nat /\ r.at <= clock + 1
                                /\ (r.at = clock + 1 => r.id = id)
  BY DEF TimesInv
<1>2. ASSUME NEW r \in FinishedTold', NEW s \in FinishedTold', r.at = s.at PROVE r.id = s.id
  <2>1. CASE r.at = clock + 1
    BY <1>1, <1>2, <2>1
  <2>2. CASE r.at # clock + 1
    BY <1>2, <2>2 DEF TimesInv
  <2> QED BY <2>1, <2>2
<1> QED BY <1>1, <1>2 DEF TimesInv

(* A chained line is the only news. *)
LEMMA ChainTold ==
  ASSUME BenchTypes, NEW ls, NEW x, Chaining(ls, x), NEW r \in Told'
  PROVE  \/ r = x.line \/ r \in Told \/ \E id \in Known' : r = runs'[id] /\ (id \in Known => runs'[id] # runs[id])
<1>1. /\ DOMAIN lines' = DOMAIN lines \cup {Len(lines) + 1}
      /\ \A i \in DOMAIN lines : lines'[i].line = lines[i].line
      /\ lines'[Len(lines) + 1] = x /\ stored' = stored
  BY Chain DEF Chaining
<1>2. CASE r \in {runs'[id] : id \in Known'}
  BY <1>2 DEF Told
<1>3. CASE r \in {lines'[i].line : i \in DOMAIN lines'}
  BY <1>1, <1>3 DEF Told
<1>4. CASE r \in {stored'[i] : i \in DOMAIN stored'}
  BY <1>1, <1>4 DEF Told
<1> QED BY <1>2, <1>3, <1>4 DEF Told

LEMMA StartTimes ==
  ASSUME BenchInv, TimesInv, NEW id \in RunId, StartRun(id)
  PROVE  TimesInv'
<1> DEFINE run == [kind |-> "run", id |-> id, at |-> Null, success |-> Null,
                   failure |-> Null, verdict |-> Null, quality |-> Null, backed |-> Null]
           x == [line |-> run, after |-> Nothing]
<1>1. run.at = Null /\ run \in Run
  BY DEF Run
<1>2. x \in Chained /\ x.line = run
  <2>1. Nothing \in After
    BY DEF Nothing, After
  <2> QED BY <1>1, <2>1 DEF Chained
<1>3. /\ runs' = [runs EXCEPT ![id] = run] /\ lines' = Append(lines, x)
      /\ clock' = clock /\ stored' = stored /\ used' = used \cup {id}
      /\ unsaved' = unsaved /\ unscored' = unscored
  BY DEF StartRun, Persist
<1> HIDE DEF run, x
<1>4. BenchTypes /\ lines \in Seq(Chained) /\ runs \in [RunId -> Run \cup {Null}]
  BY DEF BenchInv, BenchTypes, BenchTypeOK
<1>5. Chaining(lines, x)
  BY <1>2, <1>3, <1>4 DEF Chaining
<1>6. \A o \in RunId : runs'[o] = run \/ runs'[o] = runs[o]
  BY <1>3, <1>4
<1>7. \A r \in Told' : r = run \/ r \in Told
  <2> TAKE r \in Told'
  <2>1. CASE \E o \in Known' : r = runs'[o] /\ (o \in Known => runs'[o] # runs[o])
    BY <1>6, <2>1 DEF Known
  <2> QED BY <1>2, <1>4, <1>5, <2>1, ChainTold
<1>8. \A r \in FinishedTold' : r \in FinishedTold
  BY <1>1, <1>7 DEF FinishedTold
<1> QED BY <1>3, <1>8, TimesKept

LEMMA FinishTimes ==
  ASSUME BenchInv, TimesInv, NEW id \in RunId, NEW success \in BOOLEAN,
         NEW failure \in FailureClass \cup {"unlisted", Null},
         NEW verdict \in Verdict \cup {Null}, FinishRun(id, success, failure, verdict)
  PROVE  TimesInv'
<1>0. PICK run : run = Finished(runs[id], success, failure, verdict)
  OBVIOUS
<1> DEFINE x == [line |-> run, after |-> Nothing]
           ls == Overtake(id)
<1>1. /\ runs[id] # Null /\ clock' = clock + 1 /\ stored' = stored /\ used' = used
      /\ unsaved' = unsaved /\ unscored' = unscored
      /\ runs' = [runs EXCEPT ![id] = run] /\ lines' = Append(ls, x)
  BY <1>0 DEF FinishRun
<1>2. /\ lines \in Seq(Chained) /\ runs \in [RunId -> Run \cup {Null}] /\ BenchTypes
      /\ runs[id] \in Run /\ runs[id].id = id /\ clock \in Nat
  BY <1>1 DEF BenchInv, BenchTypes, BenchTypeOK, IdsInv
<1>3. run \in Run /\ run.id = id
  BY <1>0, <1>2, FinishedRun
<1>4. run.at = clock + 1
  <2>1. runs[id] \in Run
    BY <1>2
  <2> QED BY <1>0, <2>1 DEF Finished, Run
<1>5. x \in Chained /\ x.line = run
  <2>1. Nothing \in After
    BY DEF Nothing, After
  <2> QED BY <1>3, <2>1 DEF Chained
<1>6. /\ ls \in Seq(Chained) /\ Len(ls) = Len(lines)
      /\ \A i \in DOMAIN lines :
           /\ ls[i].line = lines[i].line /\ ls[i].after.id = lines[i].after.id
           /\ ls[i].after.quality = lines[i].after.quality
           /\ ls[i].after.backed = lines[i].after.backed
  BY <1>2, Overtaking
<1> HIDE DEF x, ls
<1>7. Chaining(ls, x)
  BY <1>1, <1>5, <1>6 DEF Chaining
<1>8. \A o \in RunId : runs'[o] = run \/ runs'[o] = runs[o]
  BY <1>1, <1>2
<1>9. \A r \in Told' : r = run \/ r \in Told
  <2> TAKE r \in Told'
  <2>1. CASE \E o \in Known' : r = runs'[o] /\ (o \in Known => runs'[o] # runs[o])
    BY <1>8, <2>1 DEF Known
  <2> QED BY <1>2, <1>5, <1>7, <2>1, ChainTold
<1>10. \A r \in FinishedTold' : r = run \/ r \in FinishedTold
  BY <1>9 DEF FinishedTold
<1> QED BY <1>1, <1>2, <1>3, <1>4, <1>10, TimesGrow

LEMMA RecordTimes ==
  ASSUME BenchInv, TimesInv, NEW id \in RunId, NEW quality \in Quality, RecordScore(id, quality)
  PROVE  TimesInv'
<1>1. PICK x : /\ x \in Chained /\ x.line.kind = "score" /\ lines' = Append(lines, x)
               /\ UNCHANGED <<runs, stored, clock, used, unsaved, unscored>>
  <2> DEFINE backed == IF ~RequireEvidence THEN Null
                       ELSE runs[id] # Null /\ IsVerifierPassEvidence(runs[id].verdict)
             score == [kind |-> "score", id |-> id, quality |-> quality, backed |-> backed]
             after == IF runs[id] = Null THEN Nothing
                      ELSE [id |-> id, quality |-> quality, backed |-> backed, late |-> FALSE]
             x == [line |-> score, after |-> after]
  <2>1. lines' = Append(lines, x) /\ UNCHANGED <<runs, stored, clock, used, unsaved, unscored>>
    BY DEF RecordScore, Persist
  <2>2. backed \in BOOLEAN \cup {Null}
    BY DEF IsVerifierPassEvidence
  <2> HIDE DEF backed
  <2>3. score \in Score /\ score.kind = "score"
    BY <2>2 DEF Score
  <2>4. after \in After
    BY <2>2 DEF After, Nothing
  <2> HIDE DEF score, after
  <2>5. x \in Chained /\ x.line = score
    BY <2>3, <2>4 DEF Chained
  <2> QED BY <2>1, <2>3, <2>5
<1>2. BenchTypes /\ lines \in Seq(Chained)
  BY DEF BenchInv, BenchTypes
<1>3. Chaining(lines, x)
  BY <1>1, <1>2 DEF Chaining
<1>4. \A r \in Told' : r = x.line \/ r \in Told
  <2> TAKE r \in Told'
  <2> QED BY <1>1, <1>2, <1>3, ChainTold DEF Known
<1>5. \A r \in FinishedTold' : r \in FinishedTold
  BY <1>1, <1>4 DEF FinishedTold
<1> QED BY <1>1, <1>5, TimesKept

LEMMA SettleTimes ==
  ASSUME BenchInv, TimesInv, NEW written \in BOOLEAN, NEW tornAfter \in BOOLEAN,
         Settle(written, tornAfter)
  PROVE  TimesInv'
<1>0. PICK head, added :
        head = lines[1] /\ added = IF torn THEN Corrupt ELSE head.line
  OBVIOUS
<1>1. lines # << >> /\ lines' = Tail(lines) /\ BenchTypes
  BY DEF Settle, BenchInv
<1>2. /\ 1 \in DOMAIN lines /\ Head(lines) = head /\ head \in Chained
      /\ \A i \in DOMAIN lines' : i + 1 \in DOMAIN lines /\ lines'[i] = lines[i + 1]
  BY <1>0, <1>1, Unchained
<1>3. /\ stored' = IF ~written THEN stored ELSE Append(stored, added)
      /\ Continue(lines[1].after) /\ clock' = clock /\ used' = used
  BY <1>0, <1>2 DEF Settle
<1>4. /\ \A id \in RunId : id # head.after.id => runs'[id] = runs[id]
      /\ \A id \in RunId : id = head.after.id =>
           /\ runs[id] # Null /\ runs'[id] # Null
           /\ SameOutcome(runs[id], runs'[id])
  BY <1>0, <1>1, <1>3, ContinueRuns
<1>5. \A r \in Told : r.kind = "run" /\ r.at # Null => r \in FinishedTold
  BY DEF FinishedTold
<1>6. ASSUME NEW i \in DOMAIN stored' PROVE stored'[i] \in Told \/ stored'[i].kind = "corrupt"
  <2>1. CASE ~written
    BY <1>3, <2>1 DEF Told
  <2>2. CASE written
    <3>1. stored \in Seq(Run \cup Score \cup {Corrupt}) /\ added \in Run \cup Score \cup {Corrupt}
      BY <1>0, <1>1, <1>2 DEF BenchTypes, Chained
    <3>2. /\ Len(stored) \in Nat /\ DOMAIN stored = 1..Len(stored)
          /\ \A j \in 1..Len(stored) : Append(stored, added)[j] = stored[j]
          /\ Append(stored, added)[Len(stored) + 1] = added
          /\ DOMAIN Append(stored, added) = 1..(Len(stored) + 1)
      BY <3>1, AppendProperties, LenProperties
    <3>3. (i \in DOMAIN stored /\ stored'[i] = stored[i]) \/ stored'[i] = added
      BY <1>3, <2>2, <3>2
    <3>4. added \in Told \/ added.kind = "corrupt"
      BY <1>0, <1>2, RecordKinds DEF Told
    <3> QED BY <3>3, <3>4 DEF Told
  <2> QED BY <2>1, <2>2
<1>7. ASSUME NEW r \in FinishedTold' PROVE \E q \in FinishedTold : q.at = r.at /\ q.id = r.id
  <2>1. CASE r \in {runs'[id] : id \in Known'}
    <3>1. PICK id \in RunId : runs'[id] # Null /\ r = runs'[id]
      BY <2>1 DEF Known
    <3>2. runs[id] # Null /\ runs[id].kind = r.kind /\ runs[id].at = r.at /\ runs[id].id = r.id
      BY <1>4, <3>1 DEF SameOutcome
    <3>3. runs[id] \in Told
      BY <3>2 DEF Told, Known
    <3> QED BY <1>5, <3>2, <3>3 DEF FinishedTold
  <2>2. CASE r \in {lines'[i].line : i \in DOMAIN lines'}
    <3>1. r \in Told
      BY <1>2, <2>2 DEF Told
    <3> QED BY <1>5, <3>1 DEF FinishedTold
  <2>3. CASE r \in {stored'[i] : i \in DOMAIN stored'}
    BY <1>5, <1>6, <2>3 DEF FinishedTold
  <2> QED BY <2>1, <2>2, <2>3 DEF FinishedTold, Told
<1> QED BY <1>3, <1>7, TimesKept

LEMMA RestartTimes ==
  ASSUME BenchInv, TimesInv, NEW tornHead \in BOOLEAN, NEW readable \in BOOLEAN,
         NewProcess(tornHead, readable)
  PROVE  TimesInv'
<1>0. PICK written : written = IF readable THEN stored ELSE << >>
  OBVIOUS
<1>1. /\ lines' = << >> /\ runs' = [id \in RunId |-> ReplayedRun(written, id)]
      /\ UNCHANGED <<stored, used, clock>>
  BY <1>0 DEF NewProcess
<1>2. BenchTypes /\ DOMAIN lines' = {}
  BY <1>1 DEF BenchInv
<1>3. ASSUME NEW id \in RunId
      PROVE  runs'[id] = Null \/ \E i \in DOMAIN stored : runs'[id] = stored[i]
  <2>1. runs'[id] = ReplayedRun(written, id)
    BY <1>1
  <2>2. CASE readable
    BY <1>0, <1>2, <2>1, <2>2, Replays
  <2>3. CASE ~readable
    <3>1. RunLines(<< >>, id) = {}
      BY DEF RunLines
    <3> QED BY <1>0, <2>1, <2>3, <3>1 DEF ReplayedRun
  <2> QED BY <2>2, <2>3
<1>4. \A r \in Told' : r \in Told
  BY <1>1, <1>2, <1>3 DEF Told, Known
<1>5. \A r \in FinishedTold' : r \in FinishedTold
  BY <1>4 DEF FinishedTold
<1> QED BY <1>1, <1>5, TimesKept

(* The ids given out are finitely many. *)
LEMMA TimesStep ==
  ASSUME BenchInv, TimesInv, IsFiniteSet(used), BenchNext
  PROVE  TimesInv' /\ IsFiniteSet(used')
<1>1. ASSUME NEW id \in RunId, StartRun(id) PROVE TimesInv' /\ IsFiniteSet(used')
  <2>1. used' = used \cup {id}
    BY <1>1 DEF StartRun
  <2> QED BY <1>1, <2>1, StartTimes, FS_AddElement
<1>2. ASSUME NEW id \in RunId, Outcome(id) PROVE TimesInv' /\ IsFiniteSet(used')
  <2>1. PICK verdict \in Verdict \cup {Null} :
          \/ FinishRun(id, TRUE, Null, verdict)
          \/ \E failure \in {"WRONG_ANSWER", "unlisted"} :
               FinishRun(id, FALSE, failure, verdict)
    BY <1>2 DEF Outcome
  <2>2. used' = used
    BY <2>1 DEF FinishRun
  <2>3. {"WRONG_ANSWER", "unlisted"} \subseteq FailureClass \cup {"unlisted", Null}
    BY DEF FailureClass
  <2> QED BY <2>1, <2>2, <2>3, FinishTimes
<1>3. ASSUME NEW id \in RunId, NEW quality \in {0, MaxQuality, NaN}, RecordScore(id, quality)
      PROVE  TimesInv' /\ IsFiniteSet(used')
  <2>1. quality \in Quality
    BY BenchmarkAssumption DEF Quality
  <2>2. used' = used
    BY <1>3 DEF RecordScore
  <2> QED BY <1>3, <2>1, <2>2, RecordTimes
<1>4. CASE LineLands
  <2>1. used' = used
    BY <1>4 DEF LineLands, Settle
  <2> QED BY <1>4, <2>1, SettleTimes DEF LineLands
<1>5. CASE LineFails
  <2>1. PICK halfway \in BOOLEAN : Settle(FALSE, torn \/ halfway)
    BY <1>5 DEF LineFails
  <2>2. PICK after : after = (torn \/ halfway)
    OBVIOUS
  <2>3. after \in BOOLEAN /\ Settle(FALSE, after)
    BY <2>1, <2>2
  <2>4. used' = used
    BY <2>3 DEF Settle
  <2> QED BY <2>3, <2>4, SettleTimes
<1>6. ASSUME NEW tornHead \in BOOLEAN, NEW readable \in BOOLEAN, NewProcess(tornHead, readable)
      PROVE  TimesInv' /\ IsFiniteSet(used')
  <2>1. used' = used
    BY <1>6 DEF NewProcess
  <2> QED BY <1>6, <2>1, RestartTimes
<1> QED BY <1>1, <1>2, <1>3, <1>4, <1>5, <1>6 DEF BenchNext, Serving, Restarted

LEMMA TimesInitially == BenchInit => TimesInv /\ IsFiniteSet(used)
<1> SUFFICES ASSUME BenchInit PROVE TimesInv /\ IsFiniteSet(used)
  OBVIOUS
<1>1. /\ \A id \in RunId : runs[id] = Null
      /\ DOMAIN lines = {} /\ DOMAIN stored = {} /\ used = {}
  BY DEF BenchInit
<1>2. Told = {}
  BY <1>1 DEF Told, Known
<1> QED BY <1>1, <1>2, FS_EmptySet DEF TimesInv, FinishedTold

-------------------------------------------------------------------------------
(* What the store tells.                                                    *)

LEMMA ImageIsFinite ==
  ASSUME NEW S, IsFiniteSet(S), NEW f
  PROVE  IsFiniteSet({f[x] : x \in S})
<1> DEFINE T == {f[x] : x \in S}
           g == [x \in S |-> f[x]]
<1>1. g \in Surjection(S, T)
  BY DEF Surjection
<1> HIDE DEF g, T
<1>2. IsFiniteSet(T)
  BY <1>1, FS_Surjection
<1> QED BY <1>2 DEF T

LEMMA KnownFinitely ==
  ASSUME BenchInv, IsFiniteSet(used)
  PROVE  IsFiniteSet({id \in RunId : runs[id] # Null})
<1>1. {id \in RunId : runs[id] # Null} \in SUBSET used
  BY DEF BenchInv, IdsInv
<1> QED BY <1>1, FS_Subset

LEMMA AggregateIsNumbers ==
  ASSUME BenchInv, IsFiniteSet(used), NEW k
  PROVE  LET p == AggregateRuns(runs, k) IN
         /\ p.samples \in Nat /\ p.quality[1] \in Nat /\ p.quality[2] \in Nat
         /\ p.scored \in Nat /\ p.quality[2] <= p.scored
<1> DEFINE bucket == {id \in RunId : runs[id] # Null /\ RouteOf[id] = k /\ runs[id].success # Null}
           claims == {id \in bucket : runs[id].quality # Null}
           numbers == {id \in claims : runs[id].quality # NaN}
           units == {p \in numbers \X (1..MaxQuality) : p[2] <= runs[p[1]].quality}
<1>1. IsFiniteSet(bucket)
  <2>1. bucket \in SUBSET {id \in RunId : runs[id] # Null}
    OBVIOUS
  <2> HIDE DEF bucket
  <2> QED BY <2>1, KnownFinitely, FS_Subset
<1> HIDE DEF bucket
<1>2. IsFiniteSet(claims)
  <2>1. claims \in SUBSET bucket
    OBVIOUS
  <2> HIDE DEF claims
  <2> QED BY <2>1, <1>1, FS_Subset
<1>3. IsFiniteSet(numbers) /\ Cardinality(numbers) <= Cardinality(claims)
  <2>1. numbers \in SUBSET claims
    OBVIOUS
  <2> HIDE DEF claims, numbers
  <2> QED BY <2>1, <1>2, FS_Subset
<1> HIDE DEF claims, numbers
<1>4. IsFiniteSet(units)
  <2>1. IsFiniteSet(1..MaxQuality)
    BY FS_Interval, BenchmarkAssumption
  <2> DEFINE all == numbers \X (1..MaxQuality)
  <2>2. IsFiniteSet(all)
    <3> DEFINE range == 1..MaxQuality
    <3>1. IsFiniteSet(range)
      BY <2>1
    <3> HIDE DEF range
    <3>2. IsFiniteSet(numbers \X range)
      BY <3>1, <1>3, FS_Product
    <3> QED BY <3>2 DEF range
  <2>3. units \in SUBSET all
    OBVIOUS
  <2> HIDE DEF units, all
  <2> QED BY <2>2, <2>3, FS_Subset
<1> HIDE DEF units
<1>5. /\ Cardinality(bucket) \in Nat /\ Cardinality(claims) \in Nat
      /\ Cardinality(numbers) \in Nat /\ Cardinality(units) \in Nat
  BY <1>1, <1>2, <1>4, <1>3, FS_CardinalityType
<1>6. /\ AggregateRuns(runs, k).samples = Cardinality(bucket)
      /\ AggregateRuns(runs, k).quality = <<Cardinality(units), Cardinality(numbers)>>
      /\ AggregateRuns(runs, k).scored = Cardinality(claims)
  BY DEF AggregateRuns, units, numbers, claims, bucket
<1> QED BY <1>5, <1>6, <1>3

(* A finished run that says whether it succeeded. *)
Row == {r \in Run : r.success \in BOOLEAN /\ r.at \in Nat}

LEMMA RowsAreRuns ==
  ASSUME BenchInv, TimesInv, IsFiniteSet(used)
  PROVE  ClassSampleRows(runs, SampleLimit) \in Seq(Row)
<1> DEFINE rows == {r \in QueryHistory(runs) : r.success # Null}
           R == {p \in rows \X rows : p[1].at > p[2].at}
           N == Cardinality(rows)
           nth == [i \in 1..N |-> CHOOSE r \in rows : Cardinality({x \in rows : x.at > r.at}) = i - 1]
           size == IF N < SampleLimit THEN N ELSE SampleLimit
<1>1. \A r \in rows : /\ r \in Row /\ r.at \in Int
                      /\ \E id \in RunId : runs[id] # Null /\ r = runs[id] /\ runs[id].id = id
                      /\ r \in FinishedTold
  <2> SUFFICES ASSUME NEW id \in RunId, runs[id] # Null, runs[id].at # Null, runs[id].success # Null
               PROVE  /\ runs[id] \in Row /\ runs[id].at \in Int
                      /\ runs[id].id = id /\ runs[id] \in FinishedTold
    BY DEF QueryHistory
  <2>1. runs[id] \in Run /\ runs[id].id = id
    BY DEF BenchInv, BenchTypes, BenchTypeOK, IdsInv
  <2>2. runs[id] \in Row /\ runs[id].at \in Int
    BY <2>1 DEF Row, Run
  <2>3. runs[id] \in FinishedTold
    BY <2>1, RecordKinds DEF FinishedTold, Told, Known
  <2> QED BY <2>1, <2>2, <2>3
<1>2. IsFiniteSet(rows)
  <2> DEFINE known == {id \in RunId : runs[id] # Null}
             all == {runs[id] : id \in known}
  <2>1. IsFiniteSet(known)
    BY KnownFinitely
  <2> HIDE DEF known
  <2>2. IsFiniteSet(all)
    BY <2>1, ImageIsFinite
  <2>3. rows \in SUBSET all
    BY DEF QueryHistory, known
  <2> HIDE DEF rows, all
  <2> QED BY <2>2, <2>3, FS_Subset
<1>3. \A r, s \in rows : r = s \/ r.at # s.at
  <2> SUFFICES ASSUME NEW r \in rows, NEW s \in rows, r.at = s.at PROVE r = s
    OBVIOUS
  <2>1. r.id = s.id
    BY <1>1 DEF TimesInv
  <2> QED BY <1>1, <2>1
<1> HIDE DEF rows
<1>4. \A x, y \in rows : <<x, y>> \in R <=> x.at > y.at
  OBVIOUS
<1>5. /\ \A x \in rows : <<x, x>> \notin R
      /\ \A x, y, z \in rows : <<x, y>> \in R /\ <<y, z>> \in R => <<x, z>> \in R
      /\ \A x, y \in rows : x = y \/ <<x, y>> \in R \/ <<y, x>> \in R
  <2>1. \A x \in rows : <<x, x>> \notin R
    BY <1>1, <1>4
  <2>2. ASSUME NEW x \in rows, NEW y \in rows, NEW z \in rows, <<x, y>> \in R, <<y, z>> \in R
        PROVE  <<x, z>> \in R
    <3>1. x.at \in Int /\ y.at \in Int /\ z.at \in Int
      BY <1>1
    <3>2. x.at > y.at /\ y.at > z.at
      BY <2>2, <1>4
    <3>3. x.at > z.at
      BY <3>1, <3>2
    <3> QED BY <3>3, <1>4
  <2>3. ASSUME NEW x \in rows, NEW y \in rows, x # y
        PROVE  <<x, y>> \in R \/ <<y, x>> \in R
    <3>1. x.at \in Int /\ y.at \in Int /\ x.at # y.at
      BY <1>1, <1>3, <2>3
    <3>2. x.at > y.at \/ y.at > x.at
      BY <3>1
    <3> QED BY <3>2, <1>4
  <2> QED BY <2>1, <2>2, <2>3
<1> HIDE DEF R
<1>6. N \in Nat /\ InOrder(rows, R) \in [1..N -> rows]
  BY <1>2, <1>5, InOrderLists
<1>7. nth = InOrder(rows, R)
  <2> DEFINE newest(i) == CHOOSE r \in rows : Cardinality({x \in rows : x.at > r.at}) = i - 1
             first(i) == CHOOSE r \in rows : Cardinality({x \in rows : <<x, r>> \in R}) = i - 1
  <2>1. nth = [i \in 1..N |-> newest(i)] /\ InOrder(rows, R) = [i \in 1..N |-> first(i)]
    BY DEF InOrder
  <2>2. ASSUME NEW i \in 1..N PROVE newest(i) = first(i)
    <3>1. ASSUME NEW r \in rows PROVE {x \in rows : x.at > r.at} = {x \in rows : <<x, r>> \in R}
      BY <1>4
    <3> QED BY <3>1
  <2> HIDE DEF newest, first, nth, N
  <2> QED BY <2>1, <2>2
<1> HIDE DEF nth, N
<1>8. nth \in Seq(rows) /\ Len(nth) = N
  BY <1>6, <1>7, ListOf
<1>9. size \in Nat /\ size <= N
  BY <1>6, RoutingAssumption
<1>10. ClassSampleRows(runs, SampleLimit) = SubSeq(nth, 1, size)
  BY DEF ClassSampleRows, nth, N, rows
<1>11. SubSeq(nth, 1, size) \in Seq(Row)
  <2>0. size \in Int /\ 1 \in Int /\ \A i \in 1..size : i \in 1..N
    BY <1>9, <1>6
  <2> HIDE DEF size
  <2>1. \A i \in 1..size : nth[i] \in rows
    BY <2>0, <1>8, ElementOfSeq
  <2>2. \A i \in 1..size : nth[i] \in Row
    BY <2>1, <1>1
  <2> QED BY <2>0, <2>2, SubSeqProperties
<1> QED BY <1>10, <1>11

LEMMA ObservedIsRecord ==
  ASSUME NEW list \in Seq(Sample), NEW sample \in Sample
  PROVE  Observed(list, sample) \in Seq(Sample)
<1> DEFINE more == Append(list, sample)
<1>1. more \in Seq(Sample) /\ more # << >>
  BY AppendProperties
<1> HIDE DEF more
<1>2. Tail(more) \in Seq(Sample)
  BY <1>1, HeadTailProperties
<1> QED BY <1>1, <1>2 DEF Observed, more

(* What the tracker is fed is a record of samples. *)
LEMMA TrackedIsRecord ==
  ASSUME BenchInv, TimesInv, IsFiniteSet(used), NEW k, NEW class
  PROVE  Tracked(runs, k, class) \in Seq(Sample)
<1> DEFINE rows == ClassSampleRows(runs, SampleLimit)
           N == Len(rows)
           S == Seq(Sample)
           next(i, list) ==
             IF RouteOf[rows[i].id] = k /\ Normal[ClassOf[rows[i].id]] = Normal[class]
             THEN Observed(list, [success |-> rows[i].success, at |-> rows[i].at])
             ELSE list
           Solves(f) == f = [i \in 0..N |-> IF i = 0 THEN << >> ELSE next(i, f[i-1])]
           step == [p \in (1..N) \X S |-> next(p[1], p[2])]
<1>1. rows \in Seq(Row)
  BY RowsAreRuns
<1> HIDE DEF rows
<1>2. N \in Nat /\ \A i \in 1..N : [success |-> rows[i].success, at |-> rows[i].at] \in Sample
  <2>1. N \in Nat /\ \A i \in 1..N : rows[i] \in Row
    BY <1>1, LenProperties, ElementOfSeq
  <2> QED BY <2>1 DEF Row, Sample
<1>3. \A i \in 1..N : \A list \in S : next(i, list) \in S
  BY <1>2, ObservedIsRecord
<1>4. << >> \in S
  BY EmptySeq
<1> HIDE DEF next, S, N
<1>5. /\ step \in [(1..N) \X S -> S]
      /\ \A n \in 1..N : \A list \in S : step[<<n, list>>] = next(n, list)
  BY <1>3
<1> HIDE DEF step
<1>6. PICK f \in [0..N -> S] : GoesAlong(f, N, << >>, step)
  BY <1>2, <1>4, <1>5, RecursionExists
<1>7. Solves(f)
  <2>1. \A n \in 0..N : f[n] = IF n = 0 THEN << >> ELSE next(n, f[n-1])
    <3> TAKE n \in 0..N
    <3>1. CASE n = 0
      BY <3>1, <1>6 DEF GoesAlong
    <3>2. CASE n # 0
      <4>1. n \in 1..N /\ n - 1 \in 0..N
        BY <1>2, <3>2
      <4>2. f[n] = step[<<n, f[n-1]>>] /\ f[n-1] \in S
        BY <1>6, <4>1 DEF GoesAlong
      <4> QED BY <1>5, <3>2, <4>1, <4>2
    <3> QED BY <3>1, <3>2
  <2> QED BY <2>1, <1>6
<1> DEFINE g == CHOOSE h : Solves(h)
<1>8. Tracked(runs, k, class) = g[N]
  BY DEF Tracked, next, N, rows
<1> HIDE DEF g
<1>9. g = [n \in 0..N |-> IF n = 0 THEN << >> ELSE next(n, g[n-1])]
  BY <1>7 DEF g
<1>10. g[0] = << >> /\ \A n \in 1..N : g[n] = next(n, g[n-1])
  BY <1>2, <1>9
<1>11. g[N] \in S
  <2> DEFINE Good == {n \in 0..N : g[n] \in S}
  <2>1. 0 \in Good
    BY <1>2, <1>4, <1>10
  <2>2. \A n \in 1..N : n - 1 \in Good => n \in Good
    <3> SUFFICES ASSUME NEW n \in 1..N, n - 1 \in Good PROVE g[n] \in S
      BY <1>2
    <3> QED BY <1>3, <1>10
  <2> HIDE DEF Good
  <2>3. \A n \in 0..N : n \in Good
    BY <1>2, <2>1, <2>2, UpTo
  <2>4. N \in 0..N
    BY <1>2
  <2> QED BY <2>3, <2>4 DEF Good
<1> QED BY <1>8, <1>11 DEF S

-------------------------------------------------------------------------------
(* The choice of a route.                                                   *)

(* Finitely many candidates with names and places of their own. *)
IsCandidates(C) ==
  /\ IsFiniteSet(C)
  /\ \A c \in C : c.order \in Nat /\ c.quota \in Nat /\ c.reliability \in Nat
  /\ \A a, b \in C : a.order = b.order \/ a.key = b.key => a = b

(* What the benchmark store tells of a route, in numbers. *)
IsRecord(p) == p.quality[1] \in Nat /\ p.quality[2] \in Nat /\ p.scored \in Nat

IsRequest(request) ==
  /\ request.now \in Nat /\ request.config.maxFanout \in Nat
  /\ \A k \in Route : IsRecord(request.perf[k])

IsSituation(s) ==
  /\ IsCandidates(s.candidates) /\ s.now \in Nat /\ s.maxFanout \in Nat
  /\ \A c \in s.candidates :
       /\ c.key \in Route
       /\ s.perf[c.key].quality[1] \in Nat /\ s.perf[c.key].quality[2] \in Nat
       /\ s.perf[c.key].scored \in Nat

LEMMA CandidatesAreApart ==
  ASSUME NEW listed, NEW host \in HostAnswers
  PROVE  IsCandidates({Candidate(k, listed, host) : k \in Route})
<1> DEFINE C == {Candidate(k, listed, host) : k \in Route}
           f == [k \in Route |-> Candidate(k, listed, host)]
<1>1. \A k \in Route : /\ Candidate(k, listed, host).key = k
                       /\ Candidate(k, listed, host).order = Configured[k].order
                       /\ Candidate(k, listed, host).quota = Configured[k].quota
                       /\ Candidate(k, listed, host).reliability = host[k].reliability
  BY DEF Candidate
<1>2. \A k \in Route : /\ Configured[k].order \in Nat /\ Configured[k].quota \in Nat
                       /\ host[k].reliability \in Nat
  <2> TAKE k \in Route
  <2>1. Configured[k].order \in Nat /\ Configured[k].quota \in 0..1000
    BY RoutingAssumption
  <2>2. host[k] \in [model : Answer, window : Nat, credential : Answer,
                     health : Health, reliability : 0..1000]
    BY DEF HostAnswers
  <2>3. host[k].reliability \in 0..1000
    BY <2>2
  <2>4. 0..1000 \subseteq Nat
    OBVIOUS
  <2>5. Configured[k].quota \in Nat /\ host[k].reliability \in Nat
    BY <2>1, <2>3, <2>4
  <2> QED BY <2>1, <2>5
<1>3. IsFiniteSet(C)
  <2>1. C = {f[k] : k \in Route}
    OBVIOUS
  <2>2. IsFiniteSet(Route)
    BY RoutingAssumption
  <2> HIDE DEF C, f
  <2>3. IsFiniteSet({f[k] : k \in Route})
    BY <2>2, ImageIsFinite
  <2> QED BY <2>1, <2>3
<1>4. \A k, l \in Route : Configured[k].order = Configured[l].order => k = l
  BY RoutingAssumption
<1> QED BY <1>1, <1>2, <1>3, <1>4 DEF IsCandidates

LEMMA RankIsNumber ==
  ASSUME NEW cost
  PROVE  CostClassRank(cost) \in Nat
<1>1. Len(CostClassOrder) = 5 /\ DOMAIN CostClassOrder = 1..5
  BY DEF CostClassOrder
<1>2. CASE \E i \in DOMAIN CostClassOrder : CostClassOrder[i] = cost
  <2>1. CostClassRank(cost) \in DOMAIN CostClassOrder
    BY <1>2 DEF CostClassRank
  <2> QED BY <1>1, <2>1
<1>3. CASE ~(\E i \in DOMAIN CostClassOrder : CostClassOrder[i] = cost)
  <2>1. CostClassRank(cost) = Len(CostClassOrder) + 1
    BY <1>3 DEF CostClassRank
  <2> QED BY <1>1, <2>1
<1> QED BY <1>2, <1>3

(* Of the eligible candidates some are in the cheapest class. *)
LEMMA SomeAreCheapest ==
  ASSUME NEW eligible, eligible # {}, NEW costFirst
  PROVE  ScoringSet(eligible, costFirst) # {}
<1> DEFINE ranks == {CostClassRank(c.cost) : c \in eligible}
<1>1. ranks \in SUBSET Nat /\ ranks # {}
  BY RankIsNumber
<1> HIDE DEF ranks
<1>2. PICK n \in ranks : \A m \in ranks : n <= m
  BY <1>1, Least
<1>3. PICK c \in eligible : n = CostClassRank(c.cost)
  BY DEF ranks
<1>4. \A x \in eligible : CostClassRank(c.cost) <= CostClassRank(x.cost)
  BY <1>2, <1>3 DEF ranks
<1> QED BY <1>4 DEF ScoringSet

(* What a score has besides the quality. *)
RestOf(c, scoring, eligible) ==
  20 * HealthScore(c.health) + 15 * c.quota + 10 * c.reliability + 15000
    + 5 * DiversityOf(c, scoring, eligible)

LEMMA ScoreOfQuality ==
  ASSUME NEW eligible, IsFiniteSet(eligible), NEW scoring \in SUBSET eligible, NEW c \in scoring,
         c.quota \in Nat, c.reliability \in Nat, NEW quality \in Int, NEW unbacked \in BOOLEAN
  PROVE  /\ RestOf(c, scoring, eligible) \in Nat
         /\ ScoreOf(c, quality, scoring, eligible, unbacked)
              = (IF unbacked THEN UnscoredWeight ELSE 100)
                  * (30 * quality + RestOf(c, scoring, eligible))
         /\ ScoreOf(c, quality, scoring, eligible, unbacked) \in Int
<1> DEFINE same == {x \in scoring : x.domain = c.domain}
           n == Cardinality(same)
           N == Cardinality(eligible)
           diversity == DiversityOf(c, scoring, eligible)
           health == HealthScore(c.health)
<1>1. n \in Nat /\ N \in Nat \ {0} /\ n <= N
  <2>1. same \in SUBSET eligible
    OBVIOUS
  <2> HIDE DEF same
  <2>2. IsFiniteSet(same) /\ Cardinality(same) <= Cardinality(eligible)
    BY <2>1, FS_Subset
  <2>3. Cardinality(same) \in Nat /\ Cardinality(eligible) \in Nat
    BY <2>2, FS_CardinalityType
  <2>4. Cardinality(eligible) # 0
    BY FS_EmptySet
  <2> QED BY <2>2, <2>3, <2>4
<1>2. diversity = 1000 - (1000 * n) \div N
  BY DEF DiversityOf
<1> HIDE DEF n, N, diversity
<1>3. diversity \in Nat
  <2>1. (1000 * n) \div N \in Int /\ (1000 * n) \div N <= 1000
    <3>1. 1000 * n \in Nat
      BY <1>1
    <3>2. (1000 * n) \div N \in Int
      BY <1>1, <3>1, Dividing
    <3>3. (1000 * n) \div N <= 1000
      BY <1>1
    <3> QED BY <3>2, <3>3
  <2> QED BY <1>2, <2>1
<1>4. health \in Nat
  BY DEF HealthScore
<1> HIDE DEF health
<1>5. RestOf(c, scoring, eligible) = 20 * health + 15 * c.quota + 10 * c.reliability + 15000 + 5 * diversity
  BY DEF RestOf, health, diversity
<1> DEFINE weight == IF unbacked THEN UnscoredWeight ELSE 100
           sum == 30 * quality + 20 * health + 15 * c.quota + 10 * c.reliability
                    + 10 * 500 + 10 * 1000 + 5 * diversity
<1>6. ScoreOf(c, quality, scoring, eligible, unbacked) = weight * sum
  BY DEF ScoreOf, Weights, health, diversity
<1>7. sum = 30 * quality + RestOf(c, scoring, eligible) /\ RestOf(c, scoring, eligible) \in Nat
  BY <1>3, <1>4, <1>5
<1>8. weight \in Int
  BY RoutingAssumption
<1> HIDE DEF sum
<1>9. weight * sum = weight * (30 * quality + RestOf(c, scoring, eligible))
  BY <1>7
<1> HIDE DEF weight
<1>10. sum \in Int
  BY <1>7
<1>11. weight * sum \in Int
  BY <1>8, <1>10
<1> QED BY <1>6, <1>7, <1>9, <1>11 DEF weight

(* A ranking lists some candidates, each once. *)
LEMMA RankedApart ==
  ASSUME NEW set, IsFiniteSet(set), NEW score, NEW scoreless,
         NEW ranked \in Rankings(set, score, scoreless)
  PROVE  LET N == Cardinality(set) IN
         /\ N \in Nat /\ ranked \in [1..N -> set]
         /\ \A c \in set : \E n \in 1..N : ranked[n] = c
         /\ \A i, j \in 1..N : ranked[i] = ranked[j] => i = j
         /\ \A n \in 1..N : n > 1 => Precedes(ranked[n-1], ranked[n], score, scoreless)
<1> DEFINE N == Cardinality(set)
<1>1. N \in Nat
  BY FS_CardinalityType
<1>2. ranked \in [1..N -> set] /\ DOMAIN ranked = 1..N
  BY DEF Rankings
<1>3. /\ \A c \in set : \E n \in DOMAIN ranked : ranked[n] = c
      /\ \A i, j \in DOMAIN ranked : ranked[i] = ranked[j] => i = j
      /\ \A n \in DOMAIN ranked : n > 1 => Precedes(ranked[n-1], ranked[n], score, scoreless)
  BY DEF Rankings
<1> HIDE DEF N
<1>4. /\ \A c \in set : \E n \in 1..N : ranked[n] = c
      /\ \A i, j \in 1..N : ranked[i] = ranked[j] => i = j
      /\ \A n \in 1..N : n > 1 => Precedes(ranked[n-1], ranked[n], score, scoreless)
  BY <1>2, <1>3
<1> QED BY <1>1, <1>2, <1>4 DEF N

(* Where every candidate has a score, nobody is ahead of the first. *)
LEMMA FirstIsAhead ==
  ASSUME NEW scoring, IsFiniteSet(scoring), scoring # {}, NEW score,
         \A c \in scoring : score[c] \in Int /\ c.order \in Nat,
         NEW ranked \in Rankings(scoring, score, {})
  PROVE  \A c \in scoring : ~Ahead(c, ranked[1], score)
<1> DEFINE N == Cardinality(scoring)
           R == {p \in scoring \X scoring : Ahead(p[1], p[2], score)}
<1>1. /\ N \in Nat /\ ranked \in [1..N -> scoring]
      /\ \A c \in scoring : \E n \in 1..N : ranked[n] = c
      /\ \A n \in 1..N : n > 1 => Precedes(ranked[n-1], ranked[n], score, {})
  BY RankedApart
<1>2. \A x, y \in scoring : <<x, y>> \in R <=> Ahead(x, y, score)
  OBVIOUS
<1> HIDE DEF N, R
<1>3. \A n \in 1..N : n > 1 => <<ranked[n-1], ranked[n]>> \in R
  <2> SUFFICES ASSUME NEW n \in 1..N, n > 1 PROVE <<ranked[n-1], ranked[n]>> \in R
    OBVIOUS
  <2>1. n - 1 \in 1..N
    BY <1>1
  <2>2. ranked[n-1] \in scoring /\ ranked[n] \in scoring
    BY <1>1, <2>1
  <2>3. Ahead(ranked[n-1], ranked[n], score)
    BY <1>1 DEF Precedes
  <2> QED BY <1>2, <2>2, <2>3
<1>4. ASSUME NEW x \in scoring, NEW y \in scoring, NEW z \in scoring,
             <<x, y>> \in R, <<y, z>> \in R
      PROVE  <<x, z>> \in R
  <2>1. score[x] \in Int /\ score[y] \in Int /\ score[z] \in Int
        /\ x.order \in Nat /\ y.order \in Nat /\ z.order \in Nat
    OBVIOUS
  <2>2. Ahead(x, y, score) /\ Ahead(y, z, score)
    BY <1>2, <1>4
  <2>3. Ahead(x, z, score)
    BY <2>1, <2>2 DEF Ahead
  <2> QED BY <1>2, <2>3
<1>5. \A x, y, z \in scoring : <<x, y>> \in R /\ <<y, z>> \in R => <<x, z>> \in R
  BY <1>4
<1>6. \A i, j \in 1..N : i < j => <<ranked[i], ranked[j]>> \in R
  BY <1>1, <1>3, <1>5, Neighbours
<1> SUFFICES ASSUME NEW c \in scoring PROVE ~Ahead(c, ranked[1], score)
  OBVIOUS
<1>7. PICK n \in 1..N : ranked[n] = c
  BY <1>1
<1>8. 1 \in 1..N /\ ranked[1] \in scoring
  BY <1>1, <1>7
<1>9. score[c] \in Int /\ c.order \in Nat /\ score[ranked[1]] \in Int /\ ranked[1].order \in Nat
  BY <1>8
<1>10. CASE n = 1
  BY <1>7, <1>9, <1>10 DEF Ahead
<1>11. CASE n # 1
  <2>1. 1 < n
    BY <1>1, <1>11
  <2>2. <<ranked[1], ranked[n]>> \in R
    BY <1>6, <1>8, <2>1
  <2>3. Ahead(ranked[1], c, score)
    BY <1>2, <1>7, <1>8, <2>2
  <2> QED BY <1>9, <2>3 DEF Ahead
<1> QED BY <1>10, <1>11

LEMMA QualityIsNumber ==
  ASSUME NEW perf, perf.quality[1] \in Nat, perf.quality[2] \in Nat,
         NEW list \in Seq(Sample), NEW now \in Nat, NEW minSamples
  PROVE  QualityOf(perf, list, now, minSamples) \in Int
<1>1. CASE list # << >>
  BY <1>1, ScoreIsNumber DEF QualityOf
<1>2. CASE list = << >> /\ perf.samples >= minSamples /\ perf.quality[2] > 0
  <2>1. 1000 * perf.quality[1] \in Int /\ perf.quality[2] \in Nat \ {0}
    BY <1>2
  <2>2. (1000 * perf.quality[1]) \div perf.quality[2] \in Int
    BY <2>1, Dividing
  <2>3. QualityOf(perf, list, now, minSamples) = (1000 * perf.quality[1]) \div perf.quality[2]
    BY <1>2 DEF QualityOf
  <2> QED BY <2>2, <2>3
<1>3. CASE list = << >> /\ ~(perf.samples >= minSamples /\ perf.quality[2] > 0)
  <2>1. QualityOf(perf, list, now, minSamples) = 500
    BY <1>3 DEF QualityOf
  <2> QED BY <2>1
<1> QED BY <1>1, <1>2, <1>3

(* A plan of at most maxFanout routes, all different, of other providers    *)
(* than the chosen one's.                                                   *)
IsPlan(plan, S, primary, maxFanout) ==
  /\ Len(plan) <= maxFanout
  /\ \A i \in DOMAIN plan :
       /\ plan[i] \in S /\ plan[i].provider # primary.provider
       /\ \A j \in DOMAIN plan : plan[i] = plan[j] => i = j

(* planCrossProviderFallbacks answers one. *)
LEMMA PlanKeeps ==
  ASSUME NEW N \in Nat, NEW S, NEW ranked \in [1..N -> S],
         \A i, j \in 1..N : ranked[i] = ranked[j] => i = j,
         NEW primary, NEW claim, NEW now, NEW maxFanout \in Nat
  PROVE  IsPlan(FallbackPlan(ranked, primary, claim, now, maxFanout), S, primary, maxFanout)
<1> DEFINE Fit(i) == Qualifies(ranked[i], primary, claim, now)
           Q == {i \in 1..N : Fit(i)}
           size == Cardinality(Q)
           R == {p \in Q \X Q : p[1] < p[2]}
           place == [n \in 1..size |-> CHOOSE i \in Q : Cardinality({j \in Q : j < i}) = n - 1]
           few == IF size < maxFanout THEN size ELSE maxFanout
           plan == FallbackPlan(ranked, primary, claim, now, maxFanout)
<1>1. Q \in SUBSET (1..N) /\ IsFiniteSet(Q)
  <2>1. Q \in SUBSET (1..N)
    OBVIOUS
  <2>2. IsFiniteSet(1..N)
    BY FS_Interval
  <2> HIDE DEF Q
  <2> QED BY <2>1, <2>2, FS_Subset
<1>2. \A i \in Q : ranked[i].provider # primary.provider
  BY DEF Qualifies
<1>3. plan = [n \in 1..few |-> ranked[CHOOSE i \in Q : Cardinality({j \in Q : j < i}) = n - 1]]
  <2>1. DOMAIN ranked = 1..N
    OBVIOUS
  <2> QED BY <2>1 DEF FallbackPlan
<1> HIDE DEF Q, plan
<1>4. \A x, y \in Q : <<x, y>> \in R <=> x < y
  OBVIOUS
<1>5. \A x \in Q : x \in Int
  BY <1>1
<1> HIDE DEF R
<1>6. /\ \A x \in Q : <<x, x>> \notin R
      /\ \A x, y, z \in Q : <<x, y>> \in R /\ <<y, z>> \in R => <<x, z>> \in R
      /\ \A x, y \in Q : x = y \/ <<x, y>> \in R \/ <<y, x>> \in R
  BY <1>4, <1>5
<1>7. /\ size \in Nat /\ InOrder(Q, R) \in [1..size -> Q]
      /\ \A i, j \in 1..size : i < j <=> <<InOrder(Q, R)[i], InOrder(Q, R)[j]>> \in R
  BY <1>1, <1>6, InOrderLists
<1>8. place = InOrder(Q, R)
  <2> DEFINE nth(n) == CHOOSE i \in Q : Cardinality({j \in Q : j < i}) = n - 1
             first(n) == CHOOSE i \in Q : Cardinality({j \in Q : <<j, i>> \in R}) = n - 1
  <2>1. place = [n \in 1..size |-> nth(n)] /\ InOrder(Q, R) = [n \in 1..size |-> first(n)]
    BY DEF InOrder
  <2>2. ASSUME NEW n \in 1..size PROVE nth(n) = first(n)
    <3>1. ASSUME NEW i \in Q PROVE {j \in Q : j < i} = {j \in Q : <<j, i>> \in R}
      BY <1>4
    <3> QED BY <3>1
  <2> HIDE DEF nth, first, place, size
  <2> QED BY <2>1, <2>2
<1>9. \A n \in 1..size : place[n] = CHOOSE i \in Q : Cardinality({j \in Q : j < i}) = n - 1
  OBVIOUS
<1> HIDE DEF place, size
<1>10. \A n \in 1..size : place[n] \in Q
  BY <1>7, <1>8
<1>11. \A i, j \in 1..size : place[i] = place[j] => i = j
  <2>1. \A i, j \in 1..size : i < j <=> place[i] < place[j]
    BY <1>4, <1>7, <1>8, <1>10
  <2> SUFFICES ASSUME NEW i \in 1..size, NEW j \in 1..size, place[i] = place[j] PROVE i = j
    OBVIOUS
  <2>2. place[i] \in Int /\ i \in Int /\ j \in Int
    BY <1>5, <1>7, <1>10
  <2>3. ~(i < j) /\ ~(j < i)
    BY <2>1, <2>2
  <2> QED BY <2>2, <2>3
<1>12. few \in Nat /\ few <= maxFanout /\ \A n \in 1..few : n \in 1..size
  BY <1>7
<1> HIDE DEF few
<1>13. DOMAIN plan = 1..few /\ \A n \in 1..few : plan[n] = ranked[place[n]]
  BY <1>3, <1>9, <1>12
<1>14. \A n \in 1..few : place[n] \in Q /\ place[n] \in 1..N /\ plan[n] \in S
  BY <1>1, <1>10, <1>12, <1>13
<1>15. Len(plan) = few
  <2>1. plan = [n \in 1..few |-> plan[n]]
    BY <1>3
  <2>2. plan \in [1..few -> S]
    BY <2>1, <1>14
  <2> QED BY <2>2, <1>12, ListOf
<1>16. \A i, j \in 1..few : plan[i] = plan[j] => i = j
  BY <1>11, <1>12, <1>13, <1>14
<1> QED BY <1>2, <1>12, <1>13, <1>14, <1>15, <1>16 DEF plan, IsPlan

(* Of two scores with the same rest, the weight of an unbacked record can   *)
(* only lower one: the better quality is not behind.                        *)
LEMMA BetterQualityIsAhead ==
  ASSUME NEW q \in Int, NEW best \in Nat, NEW rest \in Nat, NEW w \in 0..100,
         ~(100 * (30 * q + rest) > w * (30 * best + rest))
  PROVE  q <= best
<1>1. w * (30 * best + rest) <= 100 * (30 * best + rest)
  <2>1. PICK y \in Nat : y = 30 * best + rest
    OBVIOUS
  <2>2. w * y <= 100 * y
    OBVIOUS
  <2> QED BY <2>1, <2>2
<1>2. w * (30 * best + rest) \in Int
  OBVIOUS
<1> QED BY <1>1, <1>2

(* What selectRoute() may answer when some candidate passes the gates: one  *)
(* of the cheapest, a plan, and, where every candidate has a score, no      *)
(* better backed record.                                                    *)
LEMMA SelectionIsJustified ==
  ASSUME NEW s, IsSituation(s), NEW tracked,
         \A c \in s.candidates : tracked[c.key] \in Seq(Sample),
         EligibleOf(s.candidates, s.input, s.minQuota) # {},
         NEW chosen \in SelectRoute(s, tracked)
  PROVE  LET eligible == EligibleOf(s.candidates, s.input, s.minQuota)
             scoring == ScoringSet(eligible, s.costFirst)
         IN  \E top \in scoring :
               /\ chosen.key = top.key
               /\ IsPlan(chosen.plan, scoring, top, s.maxFanout)
               /\ chosen.fastPath => chosen.plan = << >>
               /\ (\A c \in scoring : ~IsScoreless(s.perf[c.key], tracked[c.key], s.minSamples)) =>
                  \A c \in scoring :
                    (/\ RestOf(c, scoring, eligible) = RestOf(top, scoring, eligible)
                     /\ ~(s.perf[c.key].backed < s.perf[c.key].scored)
                     /\ tracked[c.key] # << >> /\ tracked[top.key] # << >>)
                      => ClassScore(tracked[c.key], s.now) <= ClassScore(tracked[top.key], s.now)
<1> DEFINE eligible == EligibleOf(s.candidates, s.input, s.minQuota)
           scoring == ScoringSet(eligible, s.costFirst)
           qualityOf(c) == QualityOf(s.perf[c.key], tracked[c.key], s.now, s.minSamples)
           quality == [c \in scoring |-> qualityOf(c)]
           unbacked(c) == s.perf[c.key].backed < s.perf[c.key].scored
           score == [c \in scoring |-> ScoreOf(c, quality[c], scoring, eligible, unbacked(c))]
           scoreless == {c \in scoring :
                           IsScoreless(s.perf[c.key], tracked[c.key], s.minSamples)}
           simple == IsSimpleTask(s.input, s.fastPath)
           planOf(top, others) ==
             IF simple THEN << >>
             ELSE FallbackPlan(others, top, s.claim, s.now, s.maxFanout)
           weight(c) == IF unbacked(c) THEN UnscoredWeight ELSE 100
           rest(c) == RestOf(c, scoring, eligible)
<1> DEFINE answer(top, others) ==
             [key |-> top.key, plan |-> planOf(top, others),
              costFirst |-> scoring # eligible, fastPath |-> simple,
              degraded |-> \E c \in scoring :
                             \/ c.health = "DEGRADED"
                             \/ tracked[c.key] = << >> /\ s.perf[c.key].samples < s.minSamples]
           others(ranked) == Rankings(scoring \ {ranked[1]}, score, scoreless)
           answers(ranked) == {answer(ranked[1], tail) : tail \in others(ranked)}
<1>0. chosen \in UNION {answers(ranked) : ranked \in Rankings(scoring, score, scoreless)}
  BY DEF SelectRoute
<1>1. PICK ranked \in Rankings(scoring, score, scoreless) : chosen \in answers(ranked)
  <2> HIDE DEF answers
  <2> QED BY <1>0
<1>2. eligible \in SUBSET s.candidates /\ scoring \in SUBSET eligible
  BY DEF EligibleOf, ScoringSet
<1>3. scoring # {}
  BY SomeAreCheapest
<1> HIDE DEF eligible, scoring
<1>4. IsFiniteSet(eligible) /\ IsFiniteSet(scoring)
  <2>1. IsFiniteSet(s.candidates)
    BY DEF IsSituation, IsCandidates
  <2>2. IsFiniteSet(eligible)
    BY <1>2, <2>1, FS_Subset
  <2> QED BY <1>2, <2>2, FS_Subset
<1>5. \A c \in scoring : /\ c.order \in Nat /\ c.quota \in Nat /\ c.reliability \in Nat
                         /\ qualityOf(c) \in Int /\ quality[c] = qualityOf(c)
                         /\ unbacked(c) \in BOOLEAN
  <2> TAKE c \in scoring
  <2>1. c \in s.candidates /\ s.now \in Nat
    BY <1>2 DEF IsSituation
  <2>2. c.order \in Nat /\ c.quota \in Nat /\ c.reliability \in Nat
    BY <2>1 DEF IsSituation, IsCandidates
  <2>3. qualityOf(c) \in Int
    <3>1. /\ s.perf[c.key].quality[1] \in Nat /\ s.perf[c.key].quality[2] \in Nat
          /\ tracked[c.key] \in Seq(Sample)
      BY <2>1 DEF IsSituation
    <3> QED BY <2>1, <3>1, QualityIsNumber
  <2> HIDE DEF qualityOf
  <2> QED BY <2>2, <2>3
<1> HIDE DEF qualityOf
<1>6. \A c \in scoring : /\ rest(c) \in Nat /\ score[c] \in Int
                         /\ score[c] = weight(c) * (30 * qualityOf(c) + rest(c))
  <2> TAKE c \in scoring
  <2>1. PICK q \in Int : q = qualityOf(c)
    BY <1>5
  <2>2. PICK u \in BOOLEAN : u = unbacked(c)
    BY <1>5
  <2>3. score[c] = ScoreOf(c, q, scoring, eligible, u)
    BY <1>5, <2>1, <2>2
  <2> HIDE DEF score, unbacked
  <2>4. /\ RestOf(c, scoring, eligible) \in Nat
        /\ ScoreOf(c, q, scoring, eligible, u)
             = (IF u THEN UnscoredWeight ELSE 100) * (30 * q + RestOf(c, scoring, eligible))
        /\ ScoreOf(c, q, scoring, eligible, u) \in Int
    BY <1>2, <1>4, <1>5, ScoreOfQuality
  <2> QED BY <2>1, <2>2, <2>3, <2>4
<1> HIDE DEF score, rest, scoreless, simple
<1> DEFINE top == ranked[1]
<1>7. top \in scoring
  <2> DEFINE N == Cardinality(scoring)
  <2>1. N \in Nat /\ ranked \in [1..N -> scoring] /\ \A c \in scoring : \E n \in 1..N : ranked[n] = c
    BY <1>1, <1>4, RankedApart
  <2> HIDE DEF N
  <2>2. PICK c \in scoring, n \in 1..N : ranked[n] = c
    BY <1>3, <2>1
  <2>3. 1 \in 1..N
    BY <2>1, <2>2
  <2> QED BY <2>1, <2>3
<1>8. PICK fallbacks \in Rankings(scoring \ {top}, score, scoreless) :
        /\ chosen.key = top.key /\ chosen.plan = planOf(top, fallbacks)
        /\ chosen.fastPath = simple
  <2>1. PICK fallbacks \in others(ranked) : chosen = answer(ranked[1], fallbacks)
    <3> HIDE DEF answer, others
    <3> QED BY <1>1
  <2> HIDE DEF planOf
  <2>2. /\ chosen.key = top.key /\ chosen.plan = planOf(top, fallbacks)
        /\ chosen.fastPath = simple
    BY <2>1
  <2>3. fallbacks \in Rankings(scoring \ {top}, score, scoreless)
    <3> HIDE DEF answer
    <3> QED BY <2>1
  <2> HIDE DEF others, answer
  <2> QED BY <2>2, <2>3
<1> HIDE DEF top
<1>9. IsPlan(chosen.plan, scoring, top, s.maxFanout)
  <2>0. s.maxFanout \in Nat
    BY DEF IsSituation
  <2>1. CASE simple
    <3>1. chosen.plan = << >> /\ Len(<< >>) = 0 /\ DOMAIN << >> = {}
      BY <1>8, <2>1
    <3> QED BY <2>0, <3>1 DEF IsPlan
  <2>2. CASE ~simple
    <3> DEFINE rivals == scoring \ {top}
               N == Cardinality(rivals)
               plan == FallbackPlan(fallbacks, top, s.claim, s.now, s.maxFanout)
    <3>1. chosen.plan = plan
      BY <1>8, <2>2
    <3>2. IsFiniteSet(rivals)
      BY <1>4, FS_Subset
    <3>3. fallbacks \in Rankings(rivals, score, scoreless)
      BY <1>8
    <3> HIDE DEF rivals
    <3>4. /\ N \in Nat /\ fallbacks \in [1..N -> rivals]
          /\ \A i, j \in 1..N : fallbacks[i] = fallbacks[j] => i = j
      BY <3>2, <3>3, RankedApart
    <3> HIDE DEF N, plan
    <3>5. IsPlan(plan, rivals, top, s.maxFanout)
      BY <2>0, <3>4, PlanKeeps DEF plan
    <3> QED BY <3>1, <3>5 DEF IsPlan, rivals
  <2> QED BY <2>1, <2>2
<1>10. chosen.fastPath => chosen.plan = << >>
  BY <1>8
<1>11. ASSUME \A c \in scoring : ~IsScoreless(s.perf[c.key], tracked[c.key], s.minSamples)
       PROVE  \A c \in scoring : ~Ahead(c, top, score)
  <2>1. scoreless = {}
    BY <1>11 DEF scoreless
  <2>2. \A c \in scoring : score[c] \in Int /\ c.order \in Nat
    BY <1>5, <1>6
  <2>3. ranked \in Rankings(scoring, score, {})
    BY <1>1, <2>1
  <2> QED BY <1>3, <1>4, <2>2, <2>3, FirstIsAhead DEF top
<1>12. ASSUME NEW c \in scoring, ~Ahead(c, top, score), rest(c) = rest(top), ~unbacked(c),
              tracked[c.key] # << >>, tracked[top.key] # << >>
       PROVE  ClassScore(tracked[c.key], s.now) <= ClassScore(tracked[top.key], s.now)
  <2>1. /\ qualityOf(c) = ClassScore(tracked[c.key], s.now)
        /\ qualityOf(top) = ClassScore(tracked[top.key], s.now)
    BY <1>12 DEF qualityOf, QualityOf
  <2>2. qualityOf(top) \in Nat /\ qualityOf(c) \in Int
    <3>1. tracked[top.key] \in Seq(Sample) /\ s.now \in Nat
      BY <1>2, <1>7 DEF IsSituation
    <3> QED BY <2>1, <3>1, <1>5, ScoreIsNumber
  <2>3. ~(score[c] > score[top])
    BY <1>12 DEF Ahead
  <2>4. PICK w \in 0..100 : w = weight(top)
    BY RoutingAssumption
  <2>5. weight(c) = 100
    BY <1>12
  <2> HIDE DEF weight, unbacked
  <2>6. ~(100 * (30 * qualityOf(c) + rest(top)) > w * (30 * qualityOf(top) + rest(top)))
    BY <1>6, <1>7, <1>12, <2>3, <2>4, <2>5
  <2>7. qualityOf(c) <= qualityOf(top)
    BY <1>6, <1>7, <2>2, <2>6, BetterQualityIsAhead
  <2> QED BY <2>1, <2>7
<1>13. (\A c \in scoring : ~IsScoreless(s.perf[c.key], tracked[c.key], s.minSamples)) =>
       \A c \in scoring :
         (rest(c) = rest(top) /\ ~unbacked(c) /\ tracked[c.key] # << >> /\ tracked[top.key] # << >>)
           => ClassScore(tracked[c.key], s.now) <= ClassScore(tracked[top.key], s.now)
  BY <1>11, <1>12
<1> QED BY <1>7, <1>8, <1>9, <1>10, <1>13 DEF rest, unbacked, scoring, eligible

-------------------------------------------------------------------------------
(* Decisions.                                                               *)

Config == [costFirst : BOOLEAN, maxFanout : Nat, fastPath : BOOLEAN]

(* What the call read is kept while the host answers; a decision is one of  *)
(* those the store allows when it is made.                                  *)
RoutingInv ==
  /\ BenchInv /\ TimesInv /\ IsFiniteSet(used)
  /\ asked = NotAsked \/ IsRequest(asked[1])
  /\ decision = NoDecision
       \/ (IsSituation(decision[1]) /\ decision[2] \in Selections(runs, decision[1]))

LEMMA RequestIsMade ==
  ASSUME BenchInv, IsFiniteSet(used), NEW listed, NEW input, NEW config \in Config
  PROVE  IsRequest(Request(listed, input, config))
<1> DEFINE request == Request(listed, input, config)
<1>1. request.config = config /\ request.now = clock
      /\ \A k \in Route : request.perf[k] = AggregateRuns(runs, k)
  BY DEF Request
<1>2. clock \in Nat
  BY DEF BenchInv, BenchTypes, BenchTypeOK
<1>3. ASSUME NEW k \in Route PROVE IsRecord(request.perf[k])
  <2>1. IsRecord(AggregateRuns(runs, k))
    BY AggregateIsNumbers DEF IsRecord
  <2> QED BY <1>1, <2>1
<1> HIDE DEF request
<1>4. config.maxFanout \in Nat
  BY DEF Config
<1> QED BY <1>1, <1>2, <1>3, <1>4 DEF IsRequest, request

LEMMA SituationIsMade ==
  ASSUME NEW request, IsRequest(request), NEW host \in HostAnswers
  PROVE  IsSituation(Situation(request, host))
<1> DEFINE s == Situation(request, host)
<1>1. /\ s.candidates = {Candidate(k, request.listed, host) : k \in Route}
      /\ s.now = request.now /\ s.perf = request.perf /\ s.maxFanout = request.config.maxFanout
  BY DEF Situation
<1> HIDE DEF s
<1>2. IsCandidates(s.candidates)
  BY <1>1, CandidatesAreApart
<1>3. \A c \in s.candidates : c.key \in Route
  BY <1>1 DEF Candidate
<1>4. \A c \in s.candidates : IsRecord(s.perf[c.key])
  BY <1>1, <1>3 DEF IsRequest
<1> QED BY <1>1, <1>2, <1>3, <1>4 DEF IsSituation, IsRequest, IsRecord, s

LEMMA DecisionHolds ==
  ASSUME BenchInv, TimesInv, IsFiniteSet(used), decision # NoDecision,
         IsSituation(decision[1]), decision[2] \in Selections(runs, decision[1])
  PROVE  DecisionsAreJustified
<1> DEFINE s == decision[1]
           chosen == decision[2]
           tracked == [k \in Route |-> IF s.input.taskClass = Absent THEN << >>
                                       ELSE Tracked(runs, k, s.input.taskClass)]
           eligible == {c \in s.candidates :
                          \A gate \in HardGates : PassesGate(gate, c, s.input, s.minQuota)}
           scoring == {c \in eligible : \A x \in eligible :
                         s.costFirst => CostClassRank(c.cost) <= CostClassRank(x.cost)}
           of(k) == CHOOSE c \in eligible : c.key = k
           record(c) == Tracked(runs, c.key, s.input.taskClass)
           backed(c) == s.perf[c.key].backed = s.perf[c.key].scored
           Scored(c) == record(c) # << >> \/ s.perf[c.key].quality[2] = s.perf[c.key].scored
           Alike(a, b) ==
             /\ a.cost = b.cost /\ a.health = b.health /\ a.quota = b.quota
             /\ a.reliability = b.reliability
             /\ Cardinality({x \in scoring : x.domain = a.domain})
                  = Cardinality({x \in scoring : x.domain = b.domain})
<1>1. IsSituation(s) /\ chosen \in SelectRoute(s, tracked)
  BY DEF Selections
<1> HIDE DEF s, chosen
<1>2. \A c \in s.candidates : c.key \in Route
  BY <1>1 DEF IsSituation
<1>3. \A k \in Route : tracked[k] \in Seq(Sample)
  <2> SUFFICES ASSUME NEW k \in Route PROVE tracked[k] \in Seq(Sample)
    OBVIOUS
  <2>1. << >> \in Seq(Sample) /\ Tracked(runs, k, s.input.taskClass) \in Seq(Sample)
    BY TrackedIsRecord, EmptySeq
  <2> QED BY <2>1
<1>4. s.input.taskClass # Absent => \A k \in Route : tracked[k] = Tracked(runs, k, s.input.taskClass)
  OBVIOUS
<1> HIDE DEF tracked
<1>5. /\ EligibleOf(s.candidates, s.input, s.minQuota) = eligible
      /\ ScoringSet(eligible, s.costFirst) = scoring
  BY DEF EligibleOf, ScoringSet
<1>6. eligible \in SUBSET s.candidates /\ scoring \in SUBSET eligible
  OBVIOUS
<1> HIDE DEF eligible, scoring
<1>7. CASE eligible = {}
  <2>1. SelectRoute(s, tracked) = {Blocked}
    BY <1>5, <1>7 DEF SelectRoute
  <2>2. chosen = Blocked
    BY <1>1, <2>1
  <2> QED BY <1>7, <2>2 DEF DecisionsAreJustified, eligible, chosen, s
<1>8. CASE eligible # {}
  <2>1. PICK top \in scoring :
          /\ chosen.key = top.key
          /\ IsPlan(chosen.plan, scoring, top, s.maxFanout)
          /\ chosen.fastPath => chosen.plan = << >>
          /\ (\A c \in scoring : ~IsScoreless(s.perf[c.key], tracked[c.key], s.minSamples)) =>
             \A c \in scoring :
               (/\ RestOf(c, scoring, eligible) = RestOf(top, scoring, eligible)
                /\ ~(s.perf[c.key].backed < s.perf[c.key].scored)
                /\ tracked[c.key] # << >> /\ tracked[top.key] # << >>)
                 => ClassScore(tracked[c.key], s.now) <= ClassScore(tracked[top.key], s.now)
    <3>1. \A c \in s.candidates : tracked[c.key] \in Seq(Sample)
      BY <1>2, <1>3
    <3> QED BY <1>1, <1>5, <1>8, <3>1, SelectionIsJustified
  <2>2. of(chosen.key) = top
    <3>1. top \in eligible /\ top.key = chosen.key
      BY <1>6, <2>1
    <3>2. \A a, b \in eligible : a.key = b.key => a = b
      BY <1>1, <1>6 DEF IsSituation, IsCandidates
    <3> QED BY <3>1, <3>2
  <2>3. ASSUME s.input.taskClass # Absent, \A c \in scoring : Scored(c)
        PROVE  \A c \in scoring : ~IsScoreless(s.perf[c.key], tracked[c.key], s.minSamples)
    <3> SUFFICES ASSUME NEW c \in scoring
                 PROVE  ~IsScoreless(s.perf[c.key], tracked[c.key], s.minSamples)
      OBVIOUS
    <3>1. c \in s.candidates /\ c.key \in Route
      BY <1>2, <1>6
    <3>2. s.perf[c.key].scored \in Nat
      BY <1>1, <3>1 DEF IsSituation
    <3>3. tracked[c.key] = record(c)
      BY <1>4, <2>3, <3>1
    <3>4. CASE record(c) # << >>
      BY <3>3, <3>4 DEF IsScoreless
    <3>5. CASE s.perf[c.key].quality[2] = s.perf[c.key].scored
      <4>1. ~(s.perf[c.key].quality[2] < s.perf[c.key].scored)
        BY <3>2, <3>5
      <4> QED BY <4>1 DEF IsScoreless
    <3> QED BY <2>3, <3>4, <3>5
  <2>4. ASSUME s.input.taskClass # Absent, \A c \in scoring : Scored(c),
               NEW c \in scoring, Alike(c, top), backed(c),
               record(c) # << >>, record(top) # << >>
        PROVE  ClassScore(record(c), s.now) <= ClassScore(record(top), s.now)
    <3>1. c.key \in Route /\ top.key \in Route /\ c \in s.candidates
      BY <1>2, <1>6
    <3>2. tracked[c.key] = record(c) /\ tracked[top.key] = record(top)
      BY <1>4, <2>4, <3>1
    <3>3. ~(s.perf[c.key].backed < s.perf[c.key].scored)
      <4>1. s.perf[c.key].scored \in Nat
        BY <1>1, <3>1 DEF IsSituation
      <4> QED BY <2>4, <4>1
    <3>4. RestOf(c, scoring, eligible) = RestOf(top, scoring, eligible)
      BY <2>4 DEF RestOf, DiversityOf
    <3>5. \A x \in scoring : ~IsScoreless(s.perf[x.key], tracked[x.key], s.minSamples)
      BY <2>3, <2>4
    <3> HIDE DEF record
    <3> QED BY <2>1, <2>4, <3>2, <3>3, <3>4, <3>5
  <2>5. Len(chosen.plan) <= s.maxFanout
        /\ \A i \in DOMAIN chosen.plan :
             /\ chosen.plan[i] \in scoring
             /\ chosen.plan[i].provider # of(chosen.key).provider
             /\ \A j \in DOMAIN chosen.plan : chosen.plan[i] = chosen.plan[j] => i = j
    BY <2>1, <2>2 DEF IsPlan
  <2>6. (s.input.taskClass # Absent /\ \A c \in scoring : Scored(c)) =>
          \A c \in scoring :
            (/\ Alike(c, of(chosen.key)) /\ backed(c)
             /\ record(c) # << >> /\ record(of(chosen.key)) # << >>)
              => ClassScore(record(c), s.now) <= ClassScore(record(of(chosen.key)), s.now)
    <3> HIDE DEF of, Alike, backed, record, Scored
    <3> QED BY <2>2, <2>4
  <2>7. \E c \in scoring : c.key = chosen.key
    BY <2>1
  <2> QED BY <1>8, <2>1, <2>5, <2>6, <2>7 DEF DecisionsAreJustified, eligible, scoring, chosen, s
<1> QED BY <1>7, <1>8

LEMMA RoutingStep ==
  ASSUME NEW lists, NEW hosts \in SUBSET HostAnswers, NEW inputs, NEW configs \in SUBSET Config
  PROVE  RoutingInv /\ [RoutingNext(lists, hosts, inputs, configs)]_evidence => RoutingInv'
<1> SUFFICES ASSUME RoutingInv, [RoutingNext(lists, hosts, inputs, configs)]_evidence
             PROVE  RoutingInv'
  OBVIOUS
<1>1. CASE Store
  <2>1. decision = NoDecision /\ BenchNext /\ decision' = decision
        /\ (asked' = asked \/ asked' = NotAsked)
    BY <1>1 DEF Store, BenchNext
  <2>2. BenchInv'
    BY <2>1, BenchStep DEF RoutingInv
  <2>3. TimesInv' /\ IsFiniteSet(used')
    BY <2>1, TimesStep DEF RoutingInv
  <2> QED BY <2>1, <2>2, <2>3 DEF RoutingInv, NoDecision, NotAsked
<1>2. ASSUME UNCHANGED bench PROVE BenchInv' /\ TimesInv' /\ IsFiniteSet(used') /\ runs' = runs
  <2>1. BenchInv'
    BY <1>2, BenchStep DEF RoutingInv
  <2>2. /\ runs' = runs /\ lines' = lines /\ stored' = stored /\ clock' = clock /\ used' = used
    BY <1>2 DEF bench, inMemory, disk
  <2>3. TimesInv'
    <3>1. \A r \in FinishedTold' : r \in FinishedTold
      BY <2>2 DEF FinishedTold, Told, Known
    <3> QED BY <2>2, <3>1, TimesKept DEF RoutingInv
  <2> QED BY <2>1, <2>2, <2>3 DEF RoutingInv
<1>3. CASE Asking(lists, inputs, configs)
  <2>1. PICK listed \in lists, input \in inputs, config \in configs :
          AskRoute(listed, input, config)
    BY <1>3 DEF Asking
  <2>2. PICK request : request = Request(listed, input, config)
    OBVIOUS
  <2>3. /\ decision = NoDecision /\ decision' = decision /\ UNCHANGED bench
        /\ asked' = <<request>>
    BY <2>1, <2>2 DEF AskRoute
  <2>4. IsRequest(request)
    BY <2>2, RequestIsMade DEF RoutingInv
  <2>5. asked'[1] = request
    BY <2>3
  <2> QED BY <1>2, <2>3, <2>4, <2>5 DEF RoutingInv, NoDecision, IsRequest, IsRecord
<1>4. CASE Deciding(hosts)
  <2>1. PICK host \in hosts : Decide(host)
    BY <1>4 DEF Deciding
  <2>2. PICK s : s = Situation(asked[1], host)
    OBVIOUS
  <2>3. PICK chosen \in Selections(runs, s) : decision' = <<s, chosen>>
    BY <2>1, <2>2 DEF Decide
  <2>4. asked # NotAsked /\ asked' = NotAsked /\ UNCHANGED bench
    BY <2>1 DEF Decide
  <2>5. IsSituation(s)
    BY <2>2, <2>4, SituationIsMade DEF RoutingInv
  <2>6. decision'[1] = s /\ decision'[2] = chosen
    BY <2>3
  <2>7. chosen \in Selections(runs', s)
    BY <1>2, <2>4
  <2>8. IsSituation(decision[1])' /\ (decision[2] \in Selections(runs, decision[1]))'
    BY <2>5, <2>6, <2>7 DEF IsSituation
  <2> QED BY <1>2, <2>4, <2>8 DEF RoutingInv, NotAsked
<1>5. CASE UNCHANGED evidence
  <2>1. UNCHANGED bench /\ decision' = decision /\ asked' = asked
    BY <1>5 DEF evidence
  <2>2. runs' = runs
    BY <1>2, <2>1
  <2>3. (asked = NotAsked \/ IsRequest(asked[1]))'
    BY <2>1 DEF RoutingInv, IsRequest, NotAsked
  <2>4. (decision = NoDecision
          \/ (IsSituation(decision[1]) /\ decision[2] \in Selections(runs, decision[1])))'
    BY <2>1, <2>2 DEF RoutingInv, NoDecision
  <2> QED BY <1>2, <2>1, <2>3, <2>4 DEF RoutingInv
<1> QED BY <1>1, <1>3, <1>4, <1>5 DEF RoutingNext

(* A decision is one of those the gates, the cost order, the fan-out bound  *)
(* and the task allow, and the record decides it: where every candidate has *)
(* a score, none just as cheap, healthy, reliable and diverse had more      *)
(* successes to show when the decision was made, unless its claims were not *)
(* all backed when the call came.                                           *)
THEOREM DecisionsFollowTheRecord ==
  ASSUME NEW lists, NEW hosts \in SUBSET HostAnswers, NEW inputs, NEW configs \in SUBSET Config
  PROVE  RoutingSpec(lists, hosts, inputs, configs) => []DecisionsAreJustified
<1>1. RoutingInit => RoutingInv
  BY BenchInitially, TimesInitially DEF RoutingInit, RoutingInv
<1>2. RoutingInv /\ [RoutingNext(lists, hosts, inputs, configs)]_evidence => RoutingInv'
  BY RoutingStep
<1>3. RoutingInv => DecisionsAreJustified
  <2> SUFFICES ASSUME RoutingInv PROVE DecisionsAreJustified
    OBVIOUS
  <2>1. CASE decision = NoDecision
    BY <2>1 DEF DecisionsAreJustified
  <2>2. CASE decision # NoDecision
    BY <2>2, DecisionHolds DEF RoutingInv
  <2> QED BY <2>1, <2>2
<1> QED BY <1>1, <1>2, <1>3, PTL DEF RoutingSpec
===============================================================================
