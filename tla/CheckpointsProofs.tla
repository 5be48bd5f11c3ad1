---------------------------- MODULE CheckpointsProofs ----------------------------
(***************************************************************************)
(* The checkpoint store for any number of steps, any retention and any     *)
(* number of crashes and failed appends.  TypeOK /\ MemoryIsTheTail is     *)
(* inductive; it rests on one law of the retention: trimming after every   *)
(* record keeps the same tail as trimming once at the end.                 *)
(*                                                                         *)
(* A completed step is never run again.  Of every step whose completion    *)
(* was kept, the last record in memory and in the file vouches for it      *)
(* (KeptInv), as the one in memory does while the line is on its way       *)
(* (FinishingInv).                                                         *)
(***************************************************************************)
EXTENDS Checkpoints, SequenceTheorems, WellFoundedInduction, TLAPS

LEMMA RetainedType ==
  ASSUME NEW S, NEW s \in Seq(S)
  PROVE  /\ Retained(s) \in Seq(S)
         /\ Len(Retained(s)) = IF Len(s) <= MaxEntries THEN Len(s) ELSE MaxEntries
         /\ \A i \in 1 .. Len(Retained(s)) :
              Retained(s)[i] = s[i + Len(s) - Len(Retained(s))]
<1>1. MaxEntries \in Nat \ {0} /\ Len(s) \in Nat
  BY LogAssumption, LenProperties
<1>2. CASE Len(s) <= MaxEntries
  BY <1>1, <1>2 DEF Retained
<1>3. CASE Len(s) > MaxEntries
  <2>1. Retained(s) = SubSeq(s, Len(s) - MaxEntries + 1, Len(s))
    BY <1>1, <1>3 DEF Retained
  <2>2. /\ Len(s) - MaxEntries + 1 \in 1 .. Len(s) + 1
        /\ Len(s) \in Len(s) - MaxEntries .. Len(s)
        /\ Len(s) - MaxEntries + 1 <= Len(s)
    BY <1>1, <1>3
  <2>3. /\ SubSeq(s, Len(s) - MaxEntries + 1, Len(s)) \in Seq(S)
        /\ Len(SubSeq(s, Len(s) - MaxEntries + 1, Len(s))) = MaxEntries
        /\ \A i \in 1 .. MaxEntries :
             SubSeq(s, Len(s) - MaxEntries + 1, Len(s))[i] = s[Len(s) - MaxEntries + i]
    BY <1>1, <1>3, <2>2, SubSeqProperties
  <2> QED BY <1>1, <1>3, <2>1, <2>3
<1> QED BY <1>1, <1>2, <1>3

LEMMA RetainedFits ==
  ASSUME NEW S, NEW s \in Seq(S)
  PROVE  Retained(s) \in Seq(S) /\ Len(Retained(s)) <= MaxEntries
<1>1. Len(s) \in Nat /\ MaxEntries \in Nat
  BY LenProperties, LogAssumption
<1>2. /\ Retained(s) \in Seq(S)
      /\ Len(Retained(s)) = IF Len(s) <= MaxEntries THEN Len(s) ELSE MaxEntries
  BY RetainedType
<1> QED BY <1>1, <1>2

(* Retention commutes with pushing. *)
LEMMA RetainedAppend ==
  ASSUME NEW S, NEW s \in Seq(S), NEW r \in S
  PROVE  Retained(Append(Retained(s), r)) = Retained(Append(s, r))
<1> DEFINE t == Append(Retained(s), r)
           u == Append(s, r)
<1>1. MaxEntries \in Nat \ {0} /\ Len(s) \in Nat
  BY LogAssumption, LenProperties
<1>2. /\ Retained(s) \in Seq(S)
      /\ Len(Retained(s)) \in Nat
      /\ Len(Retained(s)) = IF Len(s) <= MaxEntries THEN Len(s) ELSE MaxEntries
      /\ \A i \in 1 .. Len(Retained(s)) :
           Retained(s)[i] = s[i + Len(s) - Len(Retained(s))]
  BY <1>1, RetainedType
<1>3. /\ t \in Seq(S) /\ Len(t) = Len(Retained(s)) + 1
      /\ t[Len(t)] = r
      /\ \A i \in 1 .. Len(Retained(s)) : t[i] = Retained(s)[i]
  BY <1>2, AppendProperties
<1>4. /\ u \in Seq(S) /\ Len(u) = Len(s) + 1
      /\ u[Len(u)] = r
      /\ \A i \in 1 .. Len(s) : u[i] = s[i]
  BY <1>1, AppendProperties
<1>5. /\ Retained(t) \in Seq(S)
      /\ Len(Retained(t)) = IF Len(t) <= MaxEntries THEN Len(t) ELSE MaxEntries
      /\ \A i \in 1 .. Len(Retained(t)) :
           Retained(t)[i] = t[i + Len(t) - Len(Retained(t))]
  BY <1>3, RetainedType
<1>6. /\ Retained(u) \in Seq(S)
      /\ Len(Retained(u)) = IF Len(u) <= MaxEntries THEN Len(u) ELSE MaxEntries
      /\ \A i \in 1 .. Len(Retained(u)) :
           Retained(u)[i] = u[i + Len(u) - Len(Retained(u))]
  BY <1>4, RetainedType
<1> HIDE DEF t, u
(* The tail of t at any distance from its end is that of u. *)
<1>7. \A j \in 1 .. Len(t) : t[j] = u[j + Len(u) - Len(t)]
  <2> TAKE j \in 1 .. Len(t)
  <2>1. CASE j = Len(t)
    <3>1. Len(t) \in Int /\ Len(u) \in Int
      BY <1>1, <1>2, <1>3, <1>4
    <3>2. j + Len(u) - Len(t) = Len(u)
      BY <2>1, <3>1
    <3> QED BY <1>3, <1>4, <2>1, <3>2
  <2>2. CASE j # Len(t)
    <3>1. j \in 1 .. Len(Retained(s))
      BY <1>2, <1>3, <2>2
    <3>2. t[j] = s[j + Len(s) - Len(Retained(s))]
      BY <1>2, <1>3, <3>1
    <3>3. j + Len(s) - Len(Retained(s)) \in 1 .. Len(s)
      BY <1>1, <1>2, <3>1
    <3>4. j + Len(u) - Len(t) = j + Len(s) - Len(Retained(s))
      BY <1>1, <1>2, <1>3, <1>4, <3>1
    <3> QED BY <1>3, <1>4, <3>1, <3>2, <3>3, <3>4
  <2> QED BY <2>1, <2>2
<1>8. Len(Retained(t)) = Len(Retained(u)) /\ Len(Retained(t)) \in Nat
  BY <1>1, <1>2, <1>3, <1>4, <1>5, <1>6
<1>9. \A i \in 1 .. Len(Retained(t)) : Retained(t)[i] = Retained(u)[i]
  <2> TAKE i \in 1 .. Len(Retained(t))
  <2> DEFINE j == i + Len(t) - Len(Retained(t))
  <2>1. /\ i \in Nat /\ Len(t) \in Nat /\ Len(u) \in Nat
        /\ Len(Retained(t)) <= Len(t) /\ 1 <= i /\ i <= Len(Retained(t))
    BY <1>1, <1>2, <1>3, <1>4, <1>5, <1>8
  <2>2. /\ j \in 1 .. Len(t)
        /\ j + Len(u) - Len(t) = i + Len(u) - Len(Retained(t))
    BY <1>8, <2>1
  <2>3. t[j] = u[i + Len(u) - Len(Retained(t))]
    BY <1>7, <2>2
  <2> QED BY <1>5, <1>6, <1>8, <2>3
<1> QED BY <1>5, <1>6, <1>8, <1>9, SeqEqual DEF t, u

----
(* What settling the oldest chained record leaves of the chain and the file. *)
LEMMA SettleTypes ==
  ASSUME LogTypeOK(Record), queue # << >>
  PROVE  /\ Head(queue) \in Record /\ Tail(queue) \in Seq(Record)
         /\ Append(file, Head(queue)) \in Seq(Record)
         /\ Append(file, Head(queue)) \o Tail(queue) = file \o queue
<1>1. file \in Seq(Record) /\ queue \in Seq(Record)
  BY DEF LogTypeOK
<1>2. /\ Head(queue) \in Record /\ Tail(queue) \in Seq(Record)
      /\ queue = <<Head(queue)>> \o Tail(queue)
  BY <1>1, HeadTailProperties
<1>3. Append(file, Head(queue)) = file \o <<Head(queue)>>
  BY <1>1, <1>2, AppendIsConcat
<1>4. /\ <<Head(queue)>> \in Seq(Record)
      /\ (file \o <<Head(queue)>>) \o Tail(queue) = file \o (<<Head(queue)>> \o Tail(queue))
  BY <1>1, <1>2, ConcatAssociative
<1> QED BY <1>1, <1>2, <1>3, <1>4, AppendProperties

LEMMA CheckpointStep ==
  ASSUME TypeOK, MemoryIsTheTail, NEW s \in Step, NEW status \in Status,
         NEW hash \in Digest \cup {NoHash} \cup Malformed,
         NEW from \in Stage, NEW to \in Stage, Checkpoint(s, status, hash, from, to),
         recorded' \in [Step -> Digest \cup {NoHash}]
  PROVE  TypeOK' /\ MemoryIsTheTail'
<1> DEFINE r == [step |-> s, status |-> status, at |-> now, hash |-> hash]
<1>0. hash \in Digest \cup {NoHash}
  BY DEF Checkpoint, ValidateCheckpointRecord
<1>1. /\ r \in Record
      /\ memory \in Seq(Record) /\ queue \in Seq(Record) /\ file \in Seq(Record)
      /\ pushes \in 0 .. MaxPushes /\ pushes < MaxPushes /\ MaxPushes \in Nat
  BY <1>0, BoundsAssumption DEF TypeOK, LogTypeOK, Record, Checkpoint
<1>2. /\ memory' = Retained(Append(memory, r))
      /\ queue' = Append(queue, r) /\ file' = file /\ partial' = partial
      /\ UNCHANGED <<now, artifact, confirmed, lost, unreported, intact, faults, crashes, touches>>
      /\ stage' = [stage EXCEPT ![s] = to] /\ pushes' = pushes + 1
  BY DEF Checkpoint, Push
<1> HIDE DEF r
<1>3. TypeOK'
  <2>1. Append(memory, r) \in Seq(Record) /\ Append(queue, r) \in Seq(Record)
    BY <1>1, AppendProperties
  <2>2. memory' \in Seq(Record) /\ Len(memory') <= MaxEntries
    BY <1>2, <2>1, RetainedFits
  <2>3. LogTypeOK(Record)'
    BY <1>1, <1>2, <2>1, <2>2 DEF LogTypeOK, TypeOK
  <2>4. pushes' \in 0 .. MaxPushes /\ stage' \in [Step -> Stage]
    BY <1>1, <1>2 DEF TypeOK
  <2> QED BY <1>2, <2>3, <2>4 DEF TypeOK
<1>4. MemoryIsTheTail'
  <2> SUFFICES ASSUME intact PROVE memory' = Retained(file' \o queue')
    BY <1>2 DEF MemoryIsTheTail
  <2>1. memory = Retained(file \o queue)
    BY DEF MemoryIsTheTail
  <2>2. file \o queue \in Seq(Record)
    BY <1>1, ConcatProperties
  <2>3. file \o Append(queue, r) = Append(file \o queue, r)
    <3>1. /\ <<r>> \in Seq(Record)
          /\ Append(queue, r) = queue \o <<r>>
          /\ Append(file \o queue, r) = (file \o queue) \o <<r>>
      BY <1>1, <2>2, AppendIsConcat
    <3> QED BY <1>1, <3>1, ConcatAssociative
  <2> QED BY <1>1, <1>2, <2>1, <2>2, <2>3, RetainedAppend
<1> QED BY <1>3, <1>4

(* The answer to the oldest checkpoint() call keeps the host's part typed. *)
LEMMA AnsweredTypes ==
  ASSUME TypeOK, queue # << >>, NEW written \in BOOLEAN, Answered(written)
  PROVE  /\ stage' \in [Step -> Stage]
         /\ confirmed' \subseteq Step
         /\ lost' \subseteq confirmed' /\ unreported' \subseteq confirmed'
<1>1. Head(queue) \in Record
  BY SettleTypes DEF TypeOK
<1>2. Head(queue).step \in Step
  BY <1>1 DEF Record
<1>3. CASE Head(queue).status # "completed"
  BY <1>3 DEF Answered, TypeOK
<1>4. CASE Head(queue).status = "completed"
  <2>1. /\ stage' = [stage EXCEPT ![Head(queue).step] = IF @ = "finishing" THEN "done" ELSE @]
        /\ confirmed' = confirmed \cup {Head(queue).step}
        /\ lost' = IF written THEN lost \ {Head(queue).step} ELSE lost \cup {Head(queue).step}
        /\ unreported' = unreported \ {Head(queue).step}
    BY <1>4 DEF Answered
  <2>2. stage' \in [Step -> Stage]
    BY <1>2, <2>1 DEF TypeOK, Stage
  <2>3. lost' \subseteq confirmed'
    BY <1>2, <2>1 DEF TypeOK
  <2> QED BY <1>2, <2>1, <2>2, <2>3 DEF TypeOK
<1> QED BY <1>3, <1>4

LEMMA LandsStep ==
  ASSUME TypeOK, MemoryIsTheTail, AppendLands
  PROVE  TypeOK' /\ MemoryIsTheTail'
<1>1. /\ queue # << >> /\ queue' = Tail(queue) /\ memory' = memory
      /\ file' = (IF partial THEN file ELSE Append(file, Head(queue)))
      /\ partial' = FALSE /\ intact' = (intact /\ ~partial)
      /\ UNCHANGED <<now, artifact, recorded, pushes, faults, crashes, touches>>
      /\ Answered(~partial)
  BY DEF AppendLands, Lands, bounds
<1>2. /\ Head(queue) \in Record /\ Tail(queue) \in Seq(Record)
      /\ Append(file, Head(queue)) \in Seq(Record)
      /\ Append(file, Head(queue)) \o Tail(queue) = file \o queue
  BY <1>1, SettleTypes DEF TypeOK
<1>3. LogTypeOK(Record)'
  BY <1>1, <1>2 DEF TypeOK, LogTypeOK
<1>4. /\ stage' \in [Step -> Stage]
      /\ confirmed' \subseteq Step
      /\ lost' \subseteq confirmed' /\ unreported' \subseteq confirmed'
  BY <1>1, AnsweredTypes DEF TypeOK, LogTypeOK
<1>5. intact' \in BOOLEAN
  BY <1>1
<1>6. MemoryIsTheTail'
  BY <1>1, <1>2 DEF MemoryIsTheTail
<1> QED BY <1>1, <1>3, <1>4, <1>5, <1>6 DEF TypeOK

LEMMA FailsStep ==
  ASSUME TypeOK, MemoryIsTheTail, AppendFails
  PROVE  TypeOK' /\ MemoryIsTheTail'
<1>1. PICK leftPartial \in BOOLEAN : Fails(leftPartial)
  BY DEF AppendFails
<1>2. /\ queue # << >> /\ queue' = Tail(queue) /\ memory' = memory /\ file' = file
      /\ partial' = (partial \/ leftPartial) /\ intact' = FALSE
      /\ UNCHANGED <<now, artifact, recorded, pushes, crashes, touches>>
      /\ faults < MaxFaults /\ faults' = faults + 1
      /\ Answered(FALSE)
  BY <1>1 DEF AppendFails, Fails
<1>3. Tail(queue) \in Seq(Record)
  BY <1>2, SettleTypes DEF TypeOK
<1>4. partial' \in BOOLEAN
  BY <1>2
<1>5. LogTypeOK(Record)'
  BY <1>2, <1>3, <1>4 DEF TypeOK, LogTypeOK
<1>6. /\ stage' \in [Step -> Stage]
      /\ confirmed' \subseteq Step
      /\ lost' \subseteq confirmed' /\ unreported' \subseteq confirmed'
  BY <1>2, AnsweredTypes
<1>7. faults' \in 0 .. MaxFaults
  BY <1>2, BoundsAssumption DEF TypeOK
<1>8. MemoryIsTheTail'
  BY <1>2 DEF MemoryIsTheTail
<1> QED BY <1>2, <1>5, <1>6, <1>7, <1>8 DEF TypeOK

LEMMA CrashStep ==
  ASSUME TypeOK, MemoryIsTheTail, Crash
  PROVE  TypeOK' /\ MemoryIsTheTail'
<1>1. PICK leftPartial \in BOOLEAN, readable \in BOOLEAN :
        Restart(leftPartial, readable) /\ intact' = readable
  BY DEF Crash
<1>2. /\ queue' = << >> /\ file' = file /\ partial' = (partial \/ leftPartial)
      /\ memory' = (IF readable THEN Retained(file) ELSE << >>)
      /\ stage' = [s \in Step |-> "resuming"]
      /\ UNCHANGED <<now, artifact, confirmed, lost, unreported, recorded, pushes, faults, touches>>
      /\ crashes < MaxCrashes /\ crashes' = crashes + 1
  BY <1>1 DEF Crash, Restart
<1>3. file \in Seq(Record)
  BY DEF TypeOK, LogTypeOK
<1>4. /\ << >> \in Seq(Record) /\ Len(<< >>) = 0
      /\ file \o << >> = file
  BY <1>3, ConcatEmptySeq, EmptySeq
<1>5. memory' \in Seq(Record) /\ Len(memory') <= MaxEntries
  BY <1>2, <1>3, <1>4, RetainedFits, LogAssumption
<1>6. partial' \in BOOLEAN
  BY <1>2
<1>7. LogTypeOK(Record)'
  BY <1>2, <1>3, <1>4, <1>5, <1>6 DEF LogTypeOK
<1>8. stage' \in [Step -> Stage]
  BY <1>2 DEF Stage
<1>9. crashes' \in 0 .. MaxCrashes
  BY <1>2, BoundsAssumption DEF TypeOK
<1>10. MemoryIsTheTail'
  BY <1>1, <1>2, <1>4 DEF MemoryIsTheTail
<1> QED BY <1>1, <1>2, <1>7, <1>8, <1>9, <1>10 DEF TypeOK

LEMMA ResumeStep ==
  ASSUME TypeOK, MemoryIsTheTail, Resume
  PROVE  TypeOK' /\ MemoryIsTheTail'
<1>1. /\ stage' \in [Step -> Stage]
      /\ unreported' \subseteq confirmed
      /\ UNCHANGED <<memory, queue, file, partial, now, artifact, confirmed, lost, intact,
                     recorded, pushes, faults, crashes, touches>>
  BY DEF Resume, TypeOK, Stage, log, bounds
<1>2. LogTypeOK(Record)'
  BY <1>1 DEF TypeOK, LogTypeOK
<1> QED BY <1>1, <1>2 DEF TypeOK, MemoryIsTheTail

LEMMA NextStep ==
  ASSUME TypeOK, MemoryIsTheTail, [Next]_vars
  PROVE  TypeOK' /\ MemoryIsTheTail'
<1>1. CASE Tick
  <2>1. /\ now' \in 0 .. MaxNow
        /\ UNCHANGED <<memory, queue, file, partial, stage, artifact, confirmed, lost,
                       unreported, intact, recorded, pushes, faults, crashes, touches>>
    BY <1>1, BoundsAssumption DEF Tick, TypeOK, log, history, bounds
  <2> QED BY <2>1 DEF TypeOK, LogTypeOK, MemoryIsTheTail
<1>2. ASSUME NEW s \in Step, Begin(s) \/ Interrupt(s)
      PROVE  TypeOK' /\ MemoryIsTheTail'
  <2>1. /\ {"active", "interrupted"} \subseteq Status
        /\ {"todo", "active"} \subseteq Stage
    BY DEF Status, Stage
  <2>2. recorded' \in [Step -> Digest \cup {NoHash}]
    BY <1>2 DEF Begin, Interrupt, TypeOK
  <2> QED BY <1>2, <2>1, <2>2, CheckpointStep DEF Begin, Interrupt
<1>7. ASSUME NEW s \in Step, NEW hash \in {artifact[s], NoHash} \cup Malformed, Complete(s, hash)
      PROVE  TypeOK' /\ MemoryIsTheTail'
  <2>1. /\ "completed" \in Status /\ {"active", "finishing"} \subseteq Stage
        /\ hash \in Digest \cup {NoHash} \cup Malformed
    BY <1>7 DEF Status, Stage, TypeOK
  <2>2. /\ Checkpoint(s, "completed", hash, "active", "finishing")
        /\ recorded' = [recorded EXCEPT ![s] = hash]
        /\ hash \in Digest \cup {NoHash}
    BY <1>7, <2>1 DEF Complete, Checkpoint, ValidateCheckpointRecord
  <2>3. recorded' \in [Step -> Digest \cup {NoHash}]
    BY <2>2 DEF TypeOK
  <2> QED BY <2>1, <2>2, <2>3, CheckpointStep
<1>8. ASSUME NEW s \in Step, NEW d \in Digest, Touch(s, d)
      PROVE  TypeOK' /\ MemoryIsTheTail'
  <2>1. /\ artifact' \in [Step -> Digest] /\ touches' \in 0 .. MaxTouches
        /\ UNCHANGED <<memory, queue, file, partial, now, stage, confirmed, lost,
                       unreported, intact, recorded, pushes, faults, crashes>>
    BY <1>8, BoundsAssumption DEF Touch, TypeOK, log, history
  <2> QED BY <2>1 DEF TypeOK, LogTypeOK, MemoryIsTheTail
<1>3. CASE Settles
  BY <1>3, LandsStep, FailsStep DEF Settles
<1>4. CASE Crash
  BY <1>4, CrashStep
<1>5. CASE Resume
  BY <1>5, ResumeStep
<1>6. CASE UNCHANGED vars
  <2>1. UNCHANGED <<memory, queue, file, partial, now, stage, artifact, confirmed, lost,
                    unreported, intact, recorded, pushes, faults, crashes, touches>>
    BY <1>6 DEF vars, log, history, bounds
  <2> QED BY <2>1 DEF TypeOK, LogTypeOK, MemoryIsTheTail
<1> QED BY <1>1, <1>2, <1>3, <1>4, <1>5, <1>6, <1>7, <1>8 DEF Next

LEMMA InitTail ==
  ASSUME Init
  PROVE  TypeOK /\ MemoryIsTheTail
<1>1. /\ memory = << >> /\ queue = << >> /\ file = << >> /\ partial = FALSE
  BY DEF Init, LogInit
<1>2. /\ << >> \in Seq(Record) /\ Len(<< >>) = 0 /\ << >> \o << >> = << >>
  BY EmptySeq, ConcatEmptySeq
<1>3. LogTypeOK(Record)
  <2>1. 0 <= MaxEntries
    BY LogAssumption
  <2> QED BY <1>1, <1>2, <2>1 DEF LogTypeOK
<1>4. Retained(<< >>) = << >>
  BY <1>2, LogAssumption DEF Retained
<1>5. /\ artifact \in [Step -> Digest] /\ recorded \in [Step -> Digest \cup {NoHash}]
  BY DigestAssumption DEF Init
<1> QED BY <1>1, <1>2, <1>3, <1>4, <1>5, BoundsAssumption DEF Init, TypeOK, Stage, MemoryIsTheTail

(* The store and the host that works by it stay within their types; the    *)
(* records in memory never exceed what is retained.                        *)
THEOREM CheckpointsTypeCorrect == Spec => []TypeOK
<1>1. TypeOK /\ MemoryIsTheTail /\ [Next]_vars => (TypeOK /\ MemoryIsTheTail)'
  BY NextStep
<1> QED BY InitTail, <1>1, PTL DEF Spec

(* While nothing failed, what a restart would load after the chain drained *)
(* is what memory holds, for any retention and any number of crashes.      *)
THEOREM RestartLosesNothing == Spec => []MemoryIsTheTail
<1>1. TypeOK /\ MemoryIsTheTail /\ [Next]_vars => (TypeOK /\ MemoryIsTheTail)'
  BY NextStep
<1> QED BY InitTail, <1>1, PTL DEF Spec

----
(* Beyond that, for the steps whose completed checkpoint was answered and    *)
(* kept: records are in the order of the clock, a completed record is the    *)
(* last of its step wherever it is, and a host moves on only by the plan.    *)
InOrder(q) == \A i, j \in DOMAIN q : i <= j => q[i].at <= q[j].at
UpTo(q, t) == \A i \in DOMAIN q : q[i].at <= t

ClockInv ==
  /\ InOrder(memory) /\ InOrder(queue) /\ InOrder(file)
  /\ UpTo(memory, now) /\ UpTo(queue, now) /\ UpTo(file, now)
  /\ \A i \in DOMAIN file, j \in DOMAIN queue : file[i].at <= queue[j].at

(* The last record of s in q, if there is one, is completed and carries h. *)
Vouches(q, s, h) ==
  \A i \in DOMAIN q :
    q[i].step = s /\ (\A j \in DOMAIN q : j > i => q[j].step # s)
      => q[i].status = "completed" /\ q[i].hash = h

Kept == confirmed \ (lost \cup unreported)

KeptStep(s) ==
  /\ stage[s] \in {"done", "resuming"}
  /\ \A i \in DOMAIN queue : queue[i].step # s
  /\ Vouches(memory, s, recorded[s])
  /\ Vouches(file, s, recorded[s])

FinishingAt(i) ==
  /\ stage[queue[i].step] = "finishing"
  /\ queue[i].hash = recorded[queue[i].step]
  /\ \A j \in DOMAIN queue : j > i => queue[j].step # queue[i].step
  /\ Vouches(memory, queue[i].step, recorded[queue[i].step])

KeptInv == \A s \in Kept : KeptStep(s)
FinishingInv == \A i \in DOMAIN queue : queue[i].status = "completed" => FinishingAt(i)
ResumingInv == \A s, x \in Step : stage[s] = "resuming" => stage[x] = "resuming"

IInv == TypeOK /\ ClockInv /\ KeptInv /\ FinishingInv /\ ResumingInv

LEMMA RetainedVouches ==
  ASSUME NEW q \in Seq(Record), NEW s, NEW h, Vouches(q, s, h)
  PROVE  Vouches(Retained(q), s, h)
<1> DEFINE p == Retained(q)
<1>1. /\ p \in Seq(Record) /\ Len(p) <= Len(q)
      /\ \A i \in 1 .. Len(p) : p[i] = q[i + Len(q) - Len(p)]
      /\ Len(q) \in Nat /\ DOMAIN q = 1 .. Len(q)
  BY RetainedType, LenProperties, LogAssumption
<1> HIDE DEF p
<1>2. Len(p) \in Nat /\ DOMAIN p = 1 .. Len(p)
  BY <1>1, LenProperties
<1>3. ASSUME NEW i \in DOMAIN p, p[i].step = s, \A j \in DOMAIN p : j > i => p[j].step # s
      PROVE  p[i].status = "completed" /\ p[i].hash = h
  <2> DEFINE k == i + Len(q) - Len(p)
  <2>1. k \in DOMAIN q /\ p[i] = q[k]
    BY <1>1, <1>2
  <2>2. ASSUME NEW j \in DOMAIN q, j > k
        PROVE  q[j].step # s
    <3> DEFINE m == j + Len(p) - Len(q)
    <3>1. m \in DOMAIN p /\ m > i /\ m + Len(q) - Len(p) = j
      BY <1>1, <1>2, <2>2
    <3> HIDE DEF m
    <3> QED BY <1>1, <1>2, <1>3, <3>1
  <2> HIDE DEF k
  <2> QED BY <1>3, <2>1, <2>2 DEF Vouches
<1>4. Vouches(p, s, h)
  BY <1>3 DEF Vouches
<1> QED BY <1>4 DEF p

LEMMA RetainedInOrder ==
  ASSUME NEW q \in Seq(Record), NEW t, InOrder(q), UpTo(q, t)
  PROVE  InOrder(Retained(q)) /\ UpTo(Retained(q), t)
<1> DEFINE p == Retained(q)
<1>1. /\ p \in Seq(Record) /\ Len(p) <= Len(q)
      /\ \A i \in 1 .. Len(p) : p[i] = q[i + Len(q) - Len(p)]
      /\ Len(q) \in Nat /\ DOMAIN q = 1 .. Len(q)
  BY RetainedType, LenProperties, LogAssumption
<1> HIDE DEF p
<1>2. Len(p) \in Nat /\ DOMAIN p = 1 .. Len(p)
  BY <1>1, LenProperties
<1>3. ASSUME NEW i \in DOMAIN p
      PROVE  i + Len(q) - Len(p) \in DOMAIN q /\ p[i] = q[i + Len(q) - Len(p)]
  BY <1>1, <1>2
<1>4. InOrder(p)
  <2>1. ASSUME NEW i \in DOMAIN p, NEW j \in DOMAIN p, i <= j
        PROVE  p[i].at <= p[j].at
    <3>1. i + Len(q) - Len(p) <= j + Len(q) - Len(p)
      BY <1>1, <1>2, <2>1
    <3> QED BY <1>3, <3>1 DEF InOrder
  <2> QED BY <2>1 DEF InOrder
<1>5. UpTo(p, t)
  BY <1>3 DEF UpTo
<1> QED BY <1>4, <1>5 DEF p

(* One more record at the end. *)
LEMMA AppendPlaces ==
  ASSUME NEW q \in Seq(Record), NEW r \in Record
  PROVE  /\ Append(q, r) \in Seq(Record) /\ Len(q) \in Nat
         /\ DOMAIN q = 1 .. Len(q) /\ DOMAIN Append(q, r) = 1 .. (Len(q) + 1)
         /\ \A i \in DOMAIN q : Append(q, r)[i] = q[i]
         /\ Append(q, r)[Len(q) + 1] = r
BY AppendProperties, LenProperties

LEMMA AppendVouches ==
  ASSUME NEW q \in Seq(Record), NEW r \in Record, NEW s, NEW h,
         \/ r.step # s /\ Vouches(q, s, h)
         \/ r.step = s /\ r.status = "completed" /\ r.hash = h
  PROVE  Vouches(Append(q, r), s, h)
<1> DEFINE p == Append(q, r)
<1>1. /\ Len(q) \in Nat /\ DOMAIN q = 1 .. Len(q) /\ DOMAIN p = 1 .. (Len(q) + 1)
      /\ \A i \in DOMAIN q : p[i] = q[i]
      /\ p[Len(q) + 1] = r
  BY AppendPlaces
<1> HIDE DEF p
<1>2. ASSUME NEW i \in DOMAIN p, p[i].step = s, \A j \in DOMAIN p : j > i => p[j].step # s
      PROVE  p[i].status = "completed" /\ p[i].hash = h
  <2>1. CASE i = Len(q) + 1
    BY <1>1, <1>2, <2>1
  <2>2. CASE i # Len(q) + 1
    <3>1. i \in DOMAIN q /\ Len(q) + 1 \in DOMAIN p /\ Len(q) + 1 > i
      BY <1>1, <2>2
    <3>2. r.step # s
      BY <1>1, <1>2, <3>1
    <3>3. \A j \in DOMAIN q : j \in DOMAIN p /\ p[j] = q[j]
      BY <1>1
    <3> QED BY <1>2, <3>1, <3>2, <3>3 DEF Vouches
  <2> QED BY <2>1, <2>2
<1>3. Vouches(p, s, h)
  BY <1>2 DEF Vouches
<1> QED BY <1>3 DEF p

LEMMA AppendInOrder ==
  ASSUME NEW q \in Seq(Record), NEW r \in Record, NEW t, InOrder(q), UpTo(q, r.at),
         UpTo(q, t), r.at <= t
  PROVE  InOrder(Append(q, r)) /\ UpTo(Append(q, r), t)
<1> DEFINE p == Append(q, r)
<1>1. /\ Len(q) \in Nat /\ DOMAIN q = 1 .. Len(q) /\ DOMAIN p = 1 .. (Len(q) + 1)
      /\ \A i \in DOMAIN q : p[i] = q[i]
      /\ p[Len(q) + 1] = r
  BY AppendPlaces
<1>2. r.at \in Nat
  BY DEF Record
<1> HIDE DEF p
<1>3. ASSUME NEW i \in DOMAIN p
      PROVE  (i \in DOMAIN q /\ p[i] = q[i]) \/ (i = Len(q) + 1 /\ p[i] = r)
  BY <1>1
<1>4. UpTo(p, t)
  BY <1>3 DEF UpTo
<1>5. InOrder(p)
  <2>1. ASSUME NEW i \in DOMAIN p, NEW j \in DOMAIN p, i <= j
        PROVE  p[i].at <= p[j].at
    <3>1. CASE j = Len(q) + 1
      BY <1>1, <1>2, <1>3, <3>1 DEF UpTo
    <3>2. CASE j # Len(q) + 1
      <4>1. i \in DOMAIN q /\ j \in DOMAIN q
        BY <1>1, <2>1, <3>2
      <4> QED BY <1>1, <2>1, <4>1 DEF InOrder
    <3> QED BY <3>1, <3>2
  <2> QED BY <2>1 DEF InOrder
<1> QED BY <1>4, <1>5 DEF p

(* The chain without its oldest record. *)
LEMMA TailPlaces ==
  ASSUME NEW q \in Seq(Record), q # << >>
  PROVE  /\ Head(q) \in Record /\ Tail(q) \in Seq(Record) /\ Len(q) \in Nat \ {0}
         /\ DOMAIN q = 1 .. Len(q) /\ DOMAIN Tail(q) = 1 .. (Len(q) - 1)
         /\ Head(q) = q[1]
         /\ \A i \in DOMAIN Tail(q) : Tail(q)[i] = q[i + 1] /\ i + 1 \in DOMAIN q
<1>1. Len(q) \in Nat \ {0} /\ DOMAIN q = 1 .. Len(q)
  BY LenProperties, EmptySeq
<1>2. /\ Head(q) \in Record /\ Tail(q) \in Seq(Record) /\ Head(q) = q[1]
      /\ Len(Tail(q)) = Len(q) - 1 /\ \A i \in 1 .. Len(Tail(q)) : Tail(q)[i] = q[i + 1]
  BY HeadTailProperties
<1>3. DOMAIN Tail(q) = 1 .. (Len(q) - 1)
  BY <1>2, LenProperties
<1> QED BY <1>1, <1>2, <1>3

----
(* Records stay in the order of the clock. *)
LEMMA ClockPush ==
  ASSUME TypeOK, ClockInv, NEW r \in Record, r.at = now, Push(r), now' = now
  PROVE  ClockInv'
<1>1. /\ memory' = Retained(Append(memory, r)) /\ queue' = Append(queue, r) /\ file' = file
      /\ memory \in Seq(Record) /\ queue \in Seq(Record) /\ file \in Seq(Record)
      /\ now \in Nat
  BY DEF Push, TypeOK, LogTypeOK
<1>2. /\ InOrder(Append(memory, r)) /\ UpTo(Append(memory, r), now)
      /\ InOrder(Append(queue, r)) /\ UpTo(Append(queue, r), now)
      /\ Append(memory, r) \in Seq(Record)
  BY <1>1, AppendInOrder, AppendProperties DEF ClockInv
<1>3. InOrder(memory') /\ UpTo(memory', now)
  BY <1>1, <1>2, RetainedInOrder
<1>4. ASSUME NEW i \in DOMAIN file, NEW j \in DOMAIN queue'
      PROVE  file[i].at <= queue'[j].at
  <2>1. /\ Len(queue) \in Nat /\ DOMAIN queue = 1 .. Len(queue)
        /\ DOMAIN queue' = 1 .. (Len(queue) + 1)
        /\ \A k \in DOMAIN queue : queue'[k] = queue[k]
        /\ queue'[Len(queue) + 1] = r
    BY <1>1, AppendPlaces
  <2>2. CASE j \in DOMAIN queue
    BY <2>1, <2>2 DEF ClockInv
  <2>3. CASE j \notin DOMAIN queue
    <3>1. j = Len(queue) + 1
      BY <2>1, <2>3
    <3> QED BY <2>1, <3>1 DEF ClockInv, UpTo
  <2> QED BY <2>2, <2>3
<1> QED BY <1>1, <1>2, <1>3, <1>4 DEF ClockInv

LEMMA ClockSettle ==
  ASSUME TypeOK, ClockInv, queue # << >>, queue' = Tail(queue), memory' = memory, now' = now,
         file' = file \/ file' = Append(file, Head(queue))
  PROVE  ClockInv'
<1> DEFINE r == Head(queue)
<1>1. /\ queue \in Seq(Record) /\ file \in Seq(Record)
  BY DEF TypeOK, LogTypeOK
<1>2. /\ r \in Record /\ Len(queue) \in Nat \ {0} /\ 1 \in DOMAIN queue /\ r = queue[1]
      /\ DOMAIN queue = 1 .. Len(queue) /\ DOMAIN queue' = 1 .. (Len(queue) - 1)
      /\ \A i \in DOMAIN queue' : queue'[i] = queue[i + 1] /\ i + 1 \in DOMAIN queue
  BY <1>1, TailPlaces
<1> HIDE DEF r
<1>3. InOrder(queue')
  <2>1. ASSUME NEW i \in DOMAIN queue', NEW j \in DOMAIN queue', i <= j
        PROVE  queue'[i].at <= queue'[j].at
    <3>1. i + 1 <= j + 1
      BY <1>2, <2>1
    <3> QED BY <1>2, <3>1 DEF ClockInv, InOrder
  <2> QED BY <2>1 DEF InOrder
<1>4. UpTo(queue', now)
  BY <1>2 DEF ClockInv, UpTo
<1>5. \A i \in DOMAIN file, j \in DOMAIN queue' : file[i].at <= queue'[j].at
  BY <1>2 DEF ClockInv
<1>6. CASE file' = file
  BY <1>3, <1>4, <1>5, <1>6 DEF ClockInv
<1>7. CASE file' = Append(file, r)
  <2>1. UpTo(file, r.at) /\ r.at <= now
    BY <1>2 DEF ClockInv, UpTo
  <2>2. InOrder(file') /\ UpTo(file', now)
    BY <1>1, <1>2, <1>7, <2>1, AppendInOrder DEF ClockInv
  <2>3. ASSUME NEW i \in DOMAIN file', NEW j \in DOMAIN queue'
        PROVE  file'[i].at <= queue'[j].at
    <3>1. /\ Len(file) \in Nat /\ DOMAIN file = 1 .. Len(file)
          /\ DOMAIN file' = 1 .. (Len(file) + 1)
          /\ \A k \in DOMAIN file : file'[k] = file[k]
          /\ file'[Len(file) + 1] = r
      BY <1>1, <1>2, <1>7, AppendPlaces
    <3>2. CASE i \in DOMAIN file
      BY <1>5, <3>1, <3>2
    <3>3. CASE i \notin DOMAIN file
      <4>1. file'[i] = queue[1] /\ j + 1 \in DOMAIN queue /\ 1 <= j + 1
        BY <1>2, <3>1, <3>3
      <4> QED BY <1>2, <4>1 DEF ClockInv, InOrder
    <3> QED BY <3>2, <3>3
  <2> QED BY <1>3, <1>4, <2>2, <2>3 DEF ClockInv
<1> QED BY <1>6, <1>7 DEF r

LEMMA ClockNext ==
  ASSUME TypeOK, ClockInv, [Next]_vars
  PROVE  ClockInv'
<1>1. CASE Tick
  <2>1. /\ now' = now + 1 /\ now \in Nat /\ UNCHANGED <<memory, queue, file>>
        /\ memory \in Seq(Record) /\ queue \in Seq(Record) /\ file \in Seq(Record)
    BY <1>1 DEF Tick, TypeOK, LogTypeOK, log
  <2>2. ASSUME NEW q \in Seq(Record), UpTo(q, now)
        PROVE  UpTo(q, now + 1)
    <3>1. ASSUME NEW i \in DOMAIN q
          PROVE  q[i].at <= now + 1
      <4>1. q[i] \in Record
        BY ElementOfSeq, LenProperties
      <4>2. q[i].at \in Nat /\ q[i].at <= now
        BY <2>2, <4>1 DEF Record, UpTo
      <4> QED BY <2>1, <4>2
    <3> QED BY <3>1 DEF UpTo
  <2> QED BY <2>1, <2>2 DEF ClockInv
<1>2. ASSUME NEW s \in Step, NEW status \in Status, NEW hash, NEW from, NEW to,
             hash \in Digest \cup {NoHash} \cup Malformed,
             Checkpoint(s, status, hash, from, to)
      PROVE  ClockInv'
  <2> DEFINE r == [step |-> s, status |-> status, at |-> now, hash |-> hash]
  <2>1. hash \in Digest \cup {NoHash}
    BY <1>2 DEF Checkpoint, ValidateCheckpointRecord
  <2>2. r \in Record /\ r.at = now /\ Push(r) /\ now' = now
    BY <1>2, <2>1 DEF Checkpoint, TypeOK, Record
  <2> HIDE DEF r
  <2> QED BY <2>2, ClockPush
<1>3. ASSUME NEW s \in Step, Begin(s) \/ Interrupt(s)
      PROVE  ClockInv'
  <2>1. {"active", "interrupted"} \subseteq Status
    BY DEF Status
  <2> QED BY <1>2, <1>3, <2>1 DEF Begin, Interrupt
<1>4. ASSUME NEW s \in Step, NEW hash \in {artifact[s], NoHash} \cup Malformed, Complete(s, hash)
      PROVE  ClockInv'
  <2>1. "completed" \in Status /\ hash \in Digest \cup {NoHash} \cup Malformed
    BY DEF Status, TypeOK
  <2> QED BY <1>2, <1>4, <2>1 DEF Complete
<1>5. CASE Settles
  <2>1. /\ queue # << >> /\ queue' = Tail(queue) /\ memory' = memory /\ now' = now
        /\ file' = file \/ file' = Append(file, Head(queue))
    BY <1>5 DEF Settles, AppendLands, AppendFails, Lands, Fails
  <2> QED BY <2>1, ClockSettle
<1>6. CASE Crash
  <2>1. PICK readable \in BOOLEAN :
          memory' = IF readable THEN Retained(file) ELSE << >>
    BY <1>6 DEF Crash, Restart
  <2>2. queue' = << >> /\ file' = file /\ now' = now /\ file \in Seq(Record)
    BY <1>6 DEF Crash, Restart, TypeOK, LogTypeOK
  <2>3. DOMAIN << >> = {}
    BY EmptySeq
  <2>4. InOrder(<< >>) /\ UpTo(<< >>, now)
    BY <2>3 DEF InOrder, UpTo
  <2>5. InOrder(Retained(file)) /\ UpTo(Retained(file), now)
    BY <2>2, RetainedInOrder DEF ClockInv
  <2> QED BY <2>1, <2>2, <2>3, <2>4, <2>5 DEF ClockInv
<1>7. CASE Resume \/ UNCHANGED vars \/ \E s \in Step, d \in Digest : Touch(s, d)
  <2>1. UNCHANGED <<memory, queue, file, now>>
    BY <1>7 DEF Resume, vars, log, Touch
  <2> QED BY <2>1 DEF ClockInv
<1> QED BY <1>1, <1>3, <1>4, <1>5, <1>6, <1>7 DEF Next

----
(* What the plan shows of a step is the last record memory holds of it. *)
LEMMA LatestIsLast ==
  ASSUME TypeOK, ClockInv, NEW s \in Step, s \in Reported
  PROVE  \E m \in DOMAIN memory :
           /\ memory[m].step = s
           /\ \A j \in DOMAIN memory : j > m => memory[j].step # s
           /\ Latest(s) = memory[m]
<1>1. memory \in Seq(Record) /\ Len(memory) \in Nat /\ DOMAIN memory = 1 .. Len(memory)
  BY LenProperties DEF TypeOK, LogTypeOK
<1>2. \A i \in DOMAIN memory : memory[i].at \in Nat
  <2>1. \A i \in DOMAIN memory : memory[i] \in Record
    BY <1>1, ElementOfSeq
  <2> QED BY <2>1 DEF Record
<1> DEFINE FromEnd == {Len(memory) - i : i \in Of(s)}
<1>3. Of(s) # {} /\ Of(s) \subseteq 1 .. Len(memory)
  BY <1>1 DEF Reported, Of
<1>4. FromEnd \subseteq Nat /\ FromEnd # {}
  BY <1>1, <1>3
<1>5. PICK n \in FromEnd : \A k \in FromEnd : ~(<<k, n>> \in OpToRel(<, Nat))
  <2>1. IsWellFoundedOn(OpToRel(<, Nat), Nat)
    BY NatLessThanWellFounded
  <2> HIDE DEF FromEnd
  <2> QED BY <1>4, <2>1, WFMin
<1>6. PICK m \in Of(s) : n = Len(memory) - m
  OBVIOUS
<1>7. \A j \in Of(s) : j <= m
  <2>1. ASSUME NEW j \in Of(s), j > m
        PROVE  FALSE
    <3>1. Len(memory) - j \in FromEnd /\ Len(memory) - j \in Nat /\ n \in Nat
          /\ Len(memory) - j < n
      BY <1>1, <1>3, <1>6, <2>1
    <3> QED BY <1>5, <3>1 DEF OpToRel
  <2> QED BY <1>1, <1>3, <2>1
<1>8. m \in DOMAIN memory /\ memory[m].step = s
  BY DEF Of
<1>9. \A j \in DOMAIN memory : j > m => memory[j].step # s
  <2>1. ASSUME NEW j \in DOMAIN memory, j > m, memory[j].step = s
        PROVE  FALSE
    <3>1. j \in Of(s)
      BY <2>1 DEF Of
    <3> QED BY <1>1, <1>3, <1>7, <2>1, <3>1
  <2> QED BY <2>1
<1>10. \A j \in Of(s) : Supersedes(m, j)
  <2>1. ASSUME NEW j \in Of(s)
        PROVE  Supersedes(m, j)
    <3>1. j \in DOMAIN memory /\ j <= m /\ m >= j
      BY <1>1, <1>3, <1>7
    <3>2. memory[j].at <= memory[m].at
      BY <1>8, <3>1 DEF ClockInv, InOrder
    <3> QED BY <1>2, <1>8, <3>1, <3>2 DEF Supersedes
  <2> QED BY <2>1
<1> DEFINE c == CHOOSE i \in Of(s) : \A j \in Of(s) : Supersedes(i, j)
<1>11. c \in Of(s) /\ \A j \in Of(s) : Supersedes(c, j)
  BY <1>10
<1>12. Latest(s) = memory[c]
  BY DEF Latest
<1> HIDE DEF c
<1>13. c = m
  <2>1. Supersedes(c, m) /\ c <= m /\ c \in DOMAIN memory
    BY <1>1, <1>3, <1>7, <1>11
  <2>2. memory[c].at <= memory[m].at
    BY <1>8, <2>1 DEF ClockInv, InOrder
  <2> QED BY <1>1, <1>2, <1>3, <1>8, <2>1, <2>2 DEF Supersedes
<1> QED BY <1>8, <1>9, <1>12, <1>13

LEMMA KeptIsNoAction == IInv => CompletedNeverAnAction
<1> SUFFICES ASSUME IInv, NEW s \in Kept
             PROVE  /\ s \notin ResumeActions
                    /\ s \in Reported => (s \in Redo <=> recorded[s] \notin {NoHash, artifact[s]})
  BY DEF CompletedNeverAnAction, Kept
<1>1. s \in Step /\ Vouches(memory, s, recorded[s])
  BY DEF IInv, TypeOK, KeptInv, KeptStep, Kept
<1>2. CASE s \notin Reported
  BY <1>2 DEF ResumeActions, Redo
<1>3. CASE s \in Reported
  <2>1. PICK m \in DOMAIN memory :
          /\ memory[m].step = s
          /\ \A j \in DOMAIN memory : j > m => memory[j].step # s
          /\ Latest(s) = memory[m]
    BY <1>1, <1>3, LatestIsLast DEF IInv
  <2>2. Latest(s).status = "completed" /\ Latest(s).hash = recorded[s]
    BY <1>1, <2>1 DEF Vouches
  <2> QED BY <1>3, <2>2 DEF ResumeActions, Redo, CheckArtifactHashes
<1> QED BY <1>2, <1>3

----
(* A checkpoint of a step the host is at work on. *)
LEMMA KeptPush ==
  ASSUME IInv, NEW s \in Step, NEW status \in Status, NEW hash,
         hash \in Digest \cup {NoHash} \cup Malformed,
         NEW from \in {"todo", "active"}, NEW to \in {"todo", "active", "finishing"},
         Checkpoint(s, status, hash, from, to),
         \/ status # "completed" /\ recorded' = recorded
         \/ status = "completed" /\ to = "finishing" /\ recorded' = [recorded EXCEPT ![s] = hash]
  PROVE  KeptInv' /\ FinishingInv' /\ ResumingInv'
<1> DEFINE r == [step |-> s, status |-> status, at |-> now, hash |-> hash]
<1>1. hash \in Digest \cup {NoHash}
  BY DEF Checkpoint, ValidateCheckpointRecord
<1>2. r \in Record /\ r.step = s /\ r.status = status /\ r.hash = hash
  BY <1>1 DEF IInv, TypeOK, Record
<1>3. /\ memory' = Retained(Append(memory, r)) /\ queue' = Append(queue, r) /\ file' = file
      /\ stage[s] = from /\ stage' = [stage EXCEPT ![s] = to]
      /\ Kept' = Kept
  BY DEF Checkpoint, Push, Kept
<1>4. /\ memory \in Seq(Record) /\ queue \in Seq(Record)
      /\ stage \in [Step -> Stage] /\ recorded \in [Step -> Digest \cup {NoHash}]
      /\ Kept \subseteq Step
  BY DEF IInv, TypeOK, LogTypeOK, Kept
<1> HIDE DEF r
<1>5. /\ Append(memory, r) \in Seq(Record)
      /\ Len(queue) \in Nat /\ DOMAIN queue = 1 .. Len(queue)
      /\ DOMAIN queue' = 1 .. (Len(queue) + 1)
      /\ \A i \in DOMAIN queue : queue'[i] = queue[i]
      /\ queue'[Len(queue) + 1] = r
      /\ \A i \in DOMAIN queue : queue[i].step \in Step
  <2>1. \A i \in DOMAIN queue : queue[i] \in Record
    BY <1>4, ElementOfSeq, LenProperties
  <2> QED BY <1>2, <1>3, <1>4, <2>1, AppendPlaces DEF Record
<1>6. ASSUME NEW x \in Step, x # s, Vouches(memory, x, recorded[x])
      PROVE  recorded'[x] = recorded[x] /\ Vouches(memory', x, recorded'[x])
  <2>1. recorded'[x] = recorded[x]
    BY <1>4, <1>6
  <2>2. Vouches(Append(memory, r), x, recorded[x])
    BY <1>2, <1>4, <1>6, AppendVouches
  <2> QED BY <1>3, <1>5, <2>1, <2>2, RetainedVouches
<1>7. KeptInv'
  <2>1. ASSUME NEW x \in Kept
        PROVE  KeptStep(x)'
    <3>1. KeptStep(x) /\ x \in Step /\ x # s
      BY <1>3, <1>4, <2>1 DEF IInv, KeptInv, KeptStep
    <3>2. stage'[x] = stage[x]
      BY <1>3, <1>4, <3>1
    <3>3. \A i \in DOMAIN queue' : queue'[i].step # x
      <4>1. \A i \in DOMAIN queue' : i \in DOMAIN queue \/ i = Len(queue) + 1
        BY <1>5
      <4> QED BY <1>2, <1>5, <3>1, <4>1 DEF KeptStep
    <3>4. recorded'[x] = recorded[x] /\ Vouches(memory', x, recorded'[x])
      BY <1>6, <3>1 DEF KeptStep
    <3> QED BY <1>3, <3>1, <3>2, <3>3, <3>4 DEF KeptStep
  <2> QED BY <1>3, <2>1 DEF KeptInv
<1>8. FinishingInv'
  <2>1. ASSUME NEW i \in DOMAIN queue', queue'[i].status = "completed"
        PROVE  FinishingAt(i)'
    <3>1. CASE i \in DOMAIN queue
      <4>1. queue'[i] = queue[i] /\ FinishingAt(i)
        BY <1>5, <2>1, <3>1 DEF IInv, FinishingInv
      <4>2. queue[i].step \in Step /\ queue[i].step # s
        BY <1>3, <1>5, <3>1, <4>1 DEF FinishingAt
      <4>3. /\ stage'[queue[i].step] = "finishing"
            /\ recorded'[queue[i].step] = recorded[queue[i].step]
            /\ Vouches(memory', queue[i].step, recorded'[queue[i].step])
        BY <1>3, <1>4, <1>6, <4>1, <4>2 DEF FinishingAt
      <4>4. \A j \in DOMAIN queue' : j > i => queue'[j].step # queue[i].step
        <5>1. \A j \in DOMAIN queue' : j \in DOMAIN queue \/ j = Len(queue) + 1
          BY <1>5
        <5> QED BY <1>2, <1>5, <4>1, <4>2, <5>1 DEF FinishingAt
      <4> QED BY <4>1, <4>3, <4>4 DEF FinishingAt
    <3>2. CASE i \notin DOMAIN queue
      <4>1. i = Len(queue) + 1 /\ queue'[i] = r
        BY <1>5, <3>2
      <4>2. status = "completed" /\ to = "finishing" /\ recorded' = [recorded EXCEPT ![s] = hash]
        BY <1>2, <2>1, <4>1
      <4>3. stage'[s] = "finishing" /\ recorded'[s] = hash
        BY <1>3, <1>4, <4>2
      <4>4. Vouches(memory', s, hash)
        <5>1. Vouches(Append(memory, r), s, hash)
          BY <1>2, <1>4, <4>2, AppendVouches
        <5> QED BY <1>3, <1>5, <5>1, RetainedVouches
      <4>5. \A j \in DOMAIN queue' : ~(j > i)
        BY <1>5, <4>1
      <4> QED BY <1>2, <4>1, <4>3, <4>4, <4>5 DEF FinishingAt
    <3> QED BY <3>1, <3>2
  <2> QED BY <2>1 DEF FinishingInv
<1>9. ResumingInv'
  <2>1. stage[s] # "resuming"
    BY <1>3
  <2>2. \A x \in Step : stage[x] # "resuming"
    BY <2>1 DEF IInv, ResumingInv
  <2>3. \A x \in Step : stage'[x] # "resuming"
    BY <1>3, <1>4, <2>2
  <2> QED BY <2>3 DEF ResumingInv
<1> QED BY <1>7, <1>8, <1>9

(* The chain settles its oldest record, kept in the file or not. *)
LEMMA KeptSettle ==
  ASSUME IInv, queue # << >>, NEW written \in BOOLEAN, Answered(written),
         queue' = Tail(queue), memory' = memory, recorded' = recorded,
         file' = IF written THEN Append(file, Head(queue)) ELSE file
  PROVE  KeptInv' /\ FinishingInv' /\ ResumingInv'
<1> DEFINE r == Head(queue)
<1>1. /\ queue \in Seq(Record) /\ file \in Seq(Record) /\ stage \in [Step -> Stage]
      /\ Kept \subseteq Step
  BY DEF IInv, TypeOK, LogTypeOK, Kept
<1>2. /\ r \in Record /\ 1 \in DOMAIN queue /\ r = queue[1]
      /\ \A i \in DOMAIN queue' : queue'[i] = queue[i + 1] /\ i + 1 \in DOMAIN queue /\ i \in Nat \ {0}
  BY <1>1, TailPlaces
<1>3. file' = IF written THEN Append(file, r) ELSE file
  OBVIOUS
<1>4. /\ r.step \in Step
      /\ \A i \in DOMAIN queue : queue[i].step \in Step /\ i \in Nat
  <2>1. \A i \in DOMAIN queue : queue[i] \in Record /\ i \in Nat
    BY <1>1, ElementOfSeq, LenProperties
  <2> QED BY <1>2, <2>1 DEF Record
<1>5. \/ /\ r.status # "completed"
         /\ UNCHANGED <<stage, confirmed, lost, unreported>>
      \/ /\ r.status = "completed"
         /\ stage' = [stage EXCEPT ![r.step] = IF @ = "finishing" THEN "done" ELSE @]
         /\ confirmed' = confirmed \cup {r.step}
         /\ lost' = IF written THEN lost \ {r.step} ELSE lost \cup {r.step}
         /\ unreported' = unreported \ {r.step}
  BY DEF Answered
<1> HIDE DEF r
<1>6. r.status = "completed" => FinishingAt(1)
  BY <1>2 DEF IInv, FinishingInv
(* The steps that were kept before do not notice. *)
<1>7. ASSUME NEW x \in Kept
      PROVE  x # r.step /\ x \in Step /\ KeptStep(x)'
  <2>1. KeptStep(x) /\ x # r.step /\ x \in Step
    BY <1>1, <1>2, <1>7 DEF IInv, KeptInv, KeptStep
  <2>2. stage'[x] = stage[x]
    BY <1>1, <1>4, <1>5, <2>1
  <2>3. Vouches(file', x, recorded[x])
    <3>1. CASE written
      BY <1>1, <1>2, <1>3, <2>1, <3>1, AppendVouches DEF KeptStep
    <3>2. CASE ~written
      BY <1>3, <2>1, <3>2 DEF KeptStep
    <3> QED BY <3>1, <3>2
  <2>4. \A i \in DOMAIN queue' : queue'[i].step # x
    BY <1>2, <2>1 DEF KeptStep
  <2> QED BY <2>1, <2>2, <2>3, <2>4 DEF KeptStep
<1>8. KeptInv'
  <2>1. ASSUME NEW x \in Kept', x \notin Kept
        PROVE  KeptStep(x)'
    <3>1. r.status = "completed" /\ x = r.step /\ written
      BY <1>5, <2>1 DEF Kept
    <3>2. FinishingAt(1) /\ queue[1].step = x /\ queue[1].hash = recorded[x]
      BY <1>2, <1>6, <3>1 DEF FinishingAt
    <3>3. stage'[x] = "done"
      BY <1>1, <1>4, <1>5, <3>1, <3>2 DEF FinishingAt
    <3>4. Vouches(file', x, recorded[x])
      BY <1>1, <1>2, <1>3, <3>1, <3>2, AppendVouches
    <3>5. \A i \in DOMAIN queue' : queue'[i].step # x
      <4>1. ASSUME NEW i \in DOMAIN queue'
            PROVE  queue'[i].step # x
        <5>1. i + 1 \in DOMAIN queue /\ i + 1 > 1 /\ queue'[i] = queue[i + 1]
          BY <1>2
        <5> QED BY <3>2, <5>1 DEF FinishingAt
      <4> QED BY <4>1
    <3>6. Vouches(memory, x, recorded[x])
      BY <3>2 DEF FinishingAt
    <3> QED BY <3>3, <3>4, <3>5, <3>6 DEF KeptStep
  <2> QED BY <1>7, <2>1 DEF KeptInv
<1>9. FinishingInv'
  <2>1. ASSUME NEW i \in DOMAIN queue', queue'[i].status = "completed"
        PROVE  FinishingAt(i)'
    <3>1. /\ i + 1 \in DOMAIN queue /\ i + 1 > 1 /\ i \in Nat
          /\ queue'[i] = queue[i + 1] /\ FinishingAt(i + 1)
      BY <1>2, <2>1 DEF IInv, FinishingInv
    <3>2. stage'[queue[i + 1].step] = "finishing"
      <4>1. CASE r.status # "completed"
        BY <1>5, <3>1, <4>1 DEF FinishingAt
      <4>2. CASE r.status = "completed"
        <5>1. queue[i + 1].step # r.step
          BY <1>2, <1>6, <3>1, <4>2 DEF FinishingAt
        <5> QED BY <1>1, <1>4, <1>5, <3>1, <4>2, <5>1 DEF FinishingAt
      <4> QED BY <4>1, <4>2
    <3>3. \A j \in DOMAIN queue' : j > i => queue'[j].step # queue[i + 1].step
      <4>1. ASSUME NEW j \in DOMAIN queue', j > i
            PROVE  queue'[j].step # queue[i + 1].step
        <5>1. j + 1 \in DOMAIN queue /\ j + 1 > i + 1 /\ queue'[j] = queue[j + 1]
          BY <1>2, <3>1, <4>1
        <5> QED BY <3>1, <5>1 DEF FinishingAt
      <4> QED BY <4>1
    <3> QED BY <3>1, <3>2, <3>3 DEF FinishingAt
  <2> QED BY <2>1 DEF FinishingInv
<1>10. ResumingInv'
  <2>1. CASE r.status # "completed"
    BY <1>5, <2>1 DEF IInv, ResumingInv
  <2>2. CASE r.status = "completed"
    <3>1. stage[r.step] # "resuming"
      BY <1>2, <1>6, <2>2 DEF FinishingAt
    <3>2. \A x \in Step : stage[x] # "resuming"
      BY <1>4, <3>1 DEF IInv, ResumingInv
    <3>3. \A x \in Step : stage'[x] # "resuming"
      BY <1>1, <1>5, <2>2, <3>2
    <3> QED BY <3>3 DEF ResumingInv
  <2> QED BY <2>1, <2>2
<1> QED BY <1>8, <1>9, <1>10

(* After a crash the file is all there is. *)
LEMMA KeptCrash ==
  ASSUME IInv, Crash
  PROVE  KeptInv' /\ FinishingInv' /\ ResumingInv'
<1>1. PICK readable \in BOOLEAN :
        memory' = IF readable THEN Retained(file) ELSE << >>
  BY DEF Crash, Restart
<1>2. /\ queue' = << >> /\ file' = file /\ stage' = [s \in Step |-> "resuming"]
      /\ recorded' = recorded /\ Kept' = Kept /\ file \in Seq(Record) /\ Kept \subseteq Step
  BY DEF Crash, Restart, IInv, TypeOK, LogTypeOK, Kept
<1>3. DOMAIN << >> = {}
  BY EmptySeq
<1>4. ASSUME NEW x \in Kept
      PROVE  KeptStep(x)'
  <2>1. Vouches(file, x, recorded[x])
    BY DEF IInv, KeptInv, KeptStep
  <2>2. Vouches(Retained(file), x, recorded[x])
    BY <1>2, <2>1, RetainedVouches
  <2>3. Vouches(<< >>, x, recorded[x])
    BY <1>3 DEF Vouches
  <2>4. Vouches(memory', x, recorded[x])
    BY <1>1, <2>2, <2>3
  <2> QED BY <1>2, <1>3, <2>1, <2>4 DEF KeptStep
<1> QED BY <1>2, <1>3, <1>4 DEF KeptInv, FinishingInv, ResumingInv

(* The host takes the plan's word for what was completed. *)
LEMMA KeptResume ==
  ASSUME IInv, Resume
  PROVE  KeptInv' /\ FinishingInv' /\ ResumingInv'
<1>1. /\ stage' = [s \in Step |-> IF s \in Reported \ ResumeActions THEN "done" ELSE "todo"]
      /\ unreported' = unreported \cup (confirmed \ Reported)
      /\ UNCHANGED <<memory, queue, file, confirmed, lost, recorded>>
  BY DEF Resume, log
<1>2. \A x \in Step : stage[x] = "resuming"
  BY DEF Resume, IInv, ResumingInv
<1>3. ASSUME NEW x \in Kept'
      PROVE  KeptStep(x)'
  <2>1. x \in Kept /\ x \in Reported /\ x \in Step
    BY <1>1, <1>3 DEF Kept, IInv, TypeOK
  <2>2. x \notin ResumeActions
    BY <2>1, KeptIsNoAction DEF CompletedNeverAnAction, Kept
  <2>3. stage'[x] = "done"
    BY <1>1, <2>1, <2>2
  <2>4. KeptStep(x)
    BY <2>1 DEF IInv, KeptInv
  <2> QED BY <1>1, <2>3, <2>4 DEF KeptStep
<1>4. FinishingInv'
  <2>1. \A i \in DOMAIN queue : queue[i].step \in Step
    <3>1. \A i \in DOMAIN queue : queue[i] \in Record
      BY ElementOfSeq, LenProperties DEF IInv, TypeOK, LogTypeOK
    <3> QED BY <3>1 DEF Record
  <2>2. \A i \in DOMAIN queue : queue[i].status # "completed"
    BY <1>2, <2>1 DEF IInv, FinishingInv, FinishingAt
  <2> QED BY <1>1, <2>2 DEF FinishingInv
<1>5. ResumingInv'
  BY <1>1 DEF ResumingInv
<1> QED BY <1>3, <1>4, <1>5 DEF KeptInv

LEMMA IInvNext == IInv /\ MemoryIsTheTail /\ [Next]_vars => IInv'
<1> SUFFICES ASSUME IInv, MemoryIsTheTail, [Next]_vars
             PROVE  IInv'
  OBVIOUS
<1>1. TypeOK'
  BY NextStep DEF IInv
<1>2. ClockInv'
  BY ClockNext DEF IInv
<1>3. KeptInv' /\ FinishingInv' /\ ResumingInv'
  <2>1. ASSUME NEW s \in Step, Begin(s) \/ Interrupt(s)
        PROVE  KeptInv' /\ FinishingInv' /\ ResumingInv'
    <3>1. {"active", "interrupted"} \subseteq Status
      BY DEF Status
    <3>2. CASE Begin(s)
      <4>1. Checkpoint(s, "active", NoHash, "todo", "active") /\ recorded' = recorded
        BY <3>2 DEF Begin
      <4> QED BY <3>1, <4>1, KeptPush
    <3>3. CASE Interrupt(s)
      <4>1. Checkpoint(s, "interrupted", NoHash, "active", "todo") /\ recorded' = recorded
        BY <3>3 DEF Interrupt
      <4> QED BY <3>1, <4>1, KeptPush
    <3> QED BY <2>1, <3>2, <3>3
  <2>2. ASSUME NEW s \in Step, NEW hash \in {artifact[s], NoHash} \cup Malformed, Complete(s, hash)
        PROVE  KeptInv' /\ FinishingInv' /\ ResumingInv'
    <3>1. /\ "completed" \in Status /\ hash \in Digest \cup {NoHash} \cup Malformed
          /\ Checkpoint(s, "completed", hash, "active", "finishing")
          /\ recorded' = [recorded EXCEPT ![s] = hash]
      BY <2>2 DEF Status, IInv, TypeOK, Complete
    <3> QED BY <3>1, KeptPush
  <2>3. CASE AppendLands
    <3>1. /\ queue # << >> /\ Answered(~partial) /\ queue' = Tail(queue)
          /\ memory' = memory /\ recorded' = recorded
          /\ file' = IF ~partial THEN Append(file, Head(queue)) ELSE file
          /\ (~partial) \in BOOLEAN
      BY <2>3 DEF AppendLands, Lands
    <3> QED BY <3>1, KeptSettle
  <2>4. CASE AppendFails
    <3>1. /\ queue # << >> /\ Answered(FALSE) /\ queue' = Tail(queue)
          /\ memory' = memory /\ recorded' = recorded
          /\ file' = IF FALSE THEN Append(file, Head(queue)) ELSE file
      BY <2>4 DEF AppendFails, Fails
    <3> QED BY <3>1, KeptSettle
  <2>5. CASE Tick \/ UNCHANGED vars \/ \E s \in Step, d \in Digest : Touch(s, d)
    <3>1. UNCHANGED <<memory, queue, file, stage, confirmed, lost, unreported, recorded>>
      BY <2>5 DEF Tick, Touch, vars, log, history
    <3> QED BY <3>1 DEF IInv, KeptInv, KeptStep, Kept, FinishingInv, FinishingAt, ResumingInv
  <2> QED BY <2>1, <2>2, <2>3, <2>4, <2>5, KeptCrash, KeptResume DEF Next, Settles
<1> QED BY <1>1, <1>2, <1>3 DEF IInv

LEMMA IInvInit == Init => IInv
<1> SUFFICES ASSUME Init PROVE IInv
  OBVIOUS
<1>1. /\ memory = << >> /\ queue = << >> /\ file = << >> /\ confirmed = {}
      /\ stage = [s \in Step |-> "todo"] /\ DOMAIN << >> = {}
  BY EmptySeq DEF Init, LogInit
<1>2. InOrder(<< >>) /\ UpTo(<< >>, now)
  BY <1>1 DEF InOrder, UpTo
<1>3. ClockInv
  BY <1>1, <1>2 DEF ClockInv
<1>4. KeptInv /\ FinishingInv /\ ResumingInv
  BY <1>1 DEF KeptInv, Kept, FinishingInv, ResumingInv
<1> QED BY <1>3, <1>4, InitTail DEF IInv

(* A completed checkpoint that was answered and kept is never an action of a *)
(* later plan, and its artifact is asked about exactly when it has changed:  *)
(* for any number of steps and tasks, any retention, clock, digests, crashes *)
(* and failed appends, in whatever order checkpoint() was called.            *)
THEOREM CompletedStaysCompleted == Spec => []CompletedNeverAnAction
<1>1. IInv /\ MemoryIsTheTail /\ [Next]_vars => IInv' /\ MemoryIsTheTail'
  <2>1. TypeOK /\ MemoryIsTheTail /\ [Next]_vars => (TypeOK /\ MemoryIsTheTail)'
    BY NextStep
  <2> QED BY <2>1, IInvNext DEF IInv
<1> QED BY <1>1, IInvInit, InitTail, KeptIsNoAction, PTL DEF Spec
===============================================================================
