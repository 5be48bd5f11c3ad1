------------------------------- MODULE Checkpoints -------------------------------
(***************************************************************************)
(* The recovery checkpoints of supreme-benchmark and a host that works by  *)
(* them: it checkpoints a step as active, runs the step, checkpoints it as *)
(* completed (or interrupted, to try again), and after a crash asks for    *)
(* the resume plan and runs the actions it allows, and what the plan does  *)
(* not report.  A step is a (task, stepIndex) pair: the tasks share the    *)
(* retained records, and nothing else relates two of their steps.          *)
(* A completed step's record may carry the digest of the artifact it made; *)
(* others may change the artifact later, and the plan then shows the step  *)
(* as stale, for the host to look at, but never as one to run.             *)
(***************************************************************************)
EXTENDS FailOpenLog

CONSTANTS
  Step,
  Digest,           \* digests an artifact can have
  Malformed,        \* what a caller may pass for one that is no bounded token
  NoHash,           \* a record that carries none
  MaxNow,           \* bound: the clock
  MaxPushes,        \* bound: checkpoint() calls
  MaxTouches,       \* bound: changes of an artifact by others
  MaxFaults,        \* bound: appends that fail
  MaxCrashes        \* bound: crashes of the process

ASSUME BoundsAssumption ==
  /\ MaxNow \in Nat /\ MaxPushes \in Nat /\ MaxFaults \in Nat /\ MaxCrashes \in Nat
  /\ MaxTouches \in Nat

ASSUME DigestAssumption == Digest # {} /\ Malformed \cap Digest = {} /\ NoHash \notin Digest \cup Malformed

Status == {"active", "completed", "interrupted"}
Record == [step : Step, status : Status, at : 0 .. MaxNow, hash : Digest \cup {NoHash}]

(* A record with a digest that is not a bounded token is refused. *)
ValidateCheckpointRecord(r) == r.hash \notin Malformed

VARIABLES
  now,            \* Date.now()
  stage,          \* step -> how far the host got with it
  artifact,       \* step -> the digest of its artifact
  confirmed,      \* history: steps whose completed checkpoint was answered
  lost,           \* history: confirmed steps whose line is not in the file
  unreported,     \* history: confirmed steps a resume plan did not report
  intact,         \* history: nothing failed since the process started
  recorded,       \* history: step -> the hash its last completed checkpoint gave
  pushes, faults, crashes, touches

history == <<confirmed, lost, unreported, intact, recorded>>
bounds == <<pushes, faults, crashes, touches>>
vars == <<log, now, stage, artifact, history, bounds>>

Stage == {"todo", "active", "finishing", "done", "resuming"}

TypeOK ==
  /\ LogTypeOK(Record)
  /\ now \in 0 .. MaxNow
  /\ stage \in [Step -> Stage]
  /\ artifact \in [Step -> Digest] /\ recorded \in [Step -> Digest \cup {NoHash}]
  /\ confirmed \subseteq Step /\ lost \subseteq confirmed /\ unreported \subseteq confirmed
  /\ intact \in BOOLEAN
  /\ pushes \in 0 .. MaxPushes /\ faults \in 0 .. MaxFaults /\ crashes \in 0 .. MaxCrashes
  /\ touches \in 0 .. MaxTouches

Init ==
  /\ LogInit
  /\ now = 0
  /\ stage = [s \in Step |-> "todo"]
  /\ artifact = [s \in Step |-> CHOOSE d \in Digest : TRUE]
  /\ recorded = [s \in Step |-> NoHash]
  /\ confirmed = {} /\ lost = {} /\ unreported = {} /\ intact = TRUE
  /\ pushes = 0 /\ faults = 0 /\ crashes = 0 /\ touches = 0

----
(* The plan: the latest record of every step that has one, by updatedAt and *)
(* then by order, and the steps a resume may run by itself.                 *)
Of(s) == {i \in DOMAIN memory : memory[i].step = s}
Reported == {s \in Step : Of(s) # {}}

(* Mutant: of two records of one instant the first is the latest. *)
SupersedesStrictly(i, j) ==
  memory[i].at > memory[j].at \/ (memory[i].at = memory[j].at /\ i <= j)

Supersedes(i, j) ==
  memory[i].at > memory[j].at \/ (memory[i].at = memory[j].at /\ i >= j)

Latest(s) == memory[CHOOSE i \in Of(s) : \A j \in Of(s) : Supersedes(i, j)]

(* checkArtifactHashes(), against the digests the host measured. *)
CheckArtifactHashes(hash, current) ==
  IF hash = NoHash THEN "unverified" ELSE IF hash = current THEN "verified" ELSE "mismatch"

(* The steps of the plan where something is to be done, if only to look. *)
Redo == {s \in Reported : \/ Latest(s).status # "completed"
                          \/ CheckArtifactHashes(Latest(s).hash, artifact[s]) = "mismatch"}

ResumeActions == {s \in Redo : Latest(s).status # "completed"}

----
Tick == now < MaxNow /\ now' = now + 1 /\ UNCHANGED <<log, stage, artifact, history, bounds>>

(* Somebody changes the artifact of a step.  Digests are interchangeable:   *)
(* until one is recorded, nothing tells one artifact from another.          *)
Touch(s, d) ==
  /\ touches < MaxTouches /\ recorded[s] # NoHash /\ artifact[s] # d
  /\ artifact' = [artifact EXCEPT ![s] = d]
  /\ touches' = touches + 1
  /\ UNCHANGED <<log, now, stage, history, pushes, faults, crashes>>

(* checkpoint(): a record stamped with the clock is validated and pushed. *)
Checkpoint(s, status, hash, from, to) ==
  LET r == [step |-> s, status |-> status, at |-> now, hash |-> hash]
  IN  /\ stage[s] = from
      /\ pushes < MaxPushes
      /\ ValidateCheckpointRecord(r)
      /\ Push(r)
      /\ stage' = [stage EXCEPT ![s] = to]
      /\ pushes' = pushes + 1
      /\ UNCHANGED <<now, artifact, confirmed, lost, unreported, intact, faults, crashes, touches>>

Begin(s) == Checkpoint(s, "active", NoHash, "todo", "active") /\ UNCHANGED recorded
Interrupt(s) == Checkpoint(s, "interrupted", NoHash, "active", "todo") /\ UNCHANGED recorded
Complete(s, hash) ==
  /\ Checkpoint(s, "completed", hash, "active", "finishing")
  /\ recorded' = [recorded EXCEPT ![s] = hash]

(* The append chain settles its oldest record, and the call that pushed it  *)
(* is answered, whether or not its line can be read again.                  *)
Answered(written) ==
  LET r == Head(queue)
  IN  IF r.status # "completed" THEN UNCHANGED <<stage, confirmed, lost, unreported>>
      ELSE /\ stage' = [stage EXCEPT ![r.step] = IF @ = "finishing" THEN "done" ELSE @]
           /\ confirmed' = confirmed \cup {r.step}
           /\ lost' = IF written THEN lost \ {r.step} ELSE lost \cup {r.step}
           /\ unreported' = unreported \ {r.step}

AppendLands ==
  /\ Lands
  /\ Answered(~partial)
  /\ intact' = (intact /\ ~partial)
  /\ UNCHANGED <<now, artifact, recorded, bounds>>

AppendFails ==
  /\ faults < MaxFaults
  /\ \E leftPartial \in BOOLEAN : Fails(leftPartial)
  /\ Answered(FALSE)
  /\ intact' = FALSE
  /\ faults' = faults + 1
  /\ UNCHANGED <<now, artifact, recorded, pushes, crashes, touches>>

(* Mutant: a rejected append is not caught, and rejects all that follow it. *)
SettlesUntilRejected == faults = 0 /\ (AppendLands \/ AppendFails)

Settles == AppendLands \/ AppendFails

(* The process dies; the next one loads its checkpoints from the file.      *)
Crash ==
  /\ crashes < MaxCrashes
  /\ \E leftPartial, readable \in BOOLEAN :
       /\ Restart(leftPartial, readable)
       /\ intact' = readable
  /\ stage' = [s \in Step |-> "resuming"]
  /\ crashes' = crashes + 1
  /\ UNCHANGED <<now, artifact, confirmed, lost, unreported, recorded, pushes, faults, touches>>

(* resumeCheckpoint(): the host does what the plan allows, and takes a step *)
(* the plan does not report for one that was never recorded.                *)
Resume ==
  /\ \E s \in Step : stage[s] = "resuming"
  /\ stage' = [s \in Step |-> IF s \in Reported \ ResumeActions THEN "done" ELSE "todo"]
  /\ unreported' = unreported \cup (confirmed \ Reported)
  /\ UNCHANGED <<log, now, artifact, confirmed, lost, intact, recorded, bounds>>

Next ==
  \/ Tick
  \/ \E s \in Step, d \in Digest : Touch(s, d)
  \/ \E s \in Step : Begin(s) \/ Interrupt(s)
  \/ \E s \in Step : \E hash \in {artifact[s], NoHash} \cup Malformed : Complete(s, hash)
  \/ Settles
  \/ Crash
  \/ Resume

Spec == Init /\ [][Next]_vars

(* A promise chain runs as long as the process does, and every append ends  *)
(* one way or the other.                                                    *)
FairSpec == Spec /\ WF_vars(Settles)

----
(* A completed checkpoint that was answered and whose line was kept is      *)
(* never again among the actions of a resume: not after crashes, however    *)
(* much was evicted, and whatever the order in which the tasks' records     *)
(* were written.  The exceptions are the lines the fail-open append lost,   *)
(* and the steps a plan failed to report, which the host then began anew.   *)
(* A plan that reports such a step asks to look at it exactly when its      *)
(* artifact is no longer the one the completed checkpoint vouched for.      *)
CompletedNeverAnAction ==
  \A s \in confirmed \ (lost \cup unreported) :
    /\ s \notin ResumeActions
    /\ s \in Reported => (s \in Redo <=> recorded[s] \notin {NoHash, artifact[s]})

(* While nothing failed, memory is the tail of what the file will hold once *)
(* the chain has drained, so that a restart after a flush changes no plan.  *)
MemoryIsTheTail == intact => memory = Retained(file \o queue)

(* Every checkpoint() call is answered, failed appends and crashes or not.  *)
CallsAreAnswered == \A s \in Step : stage[s] = "finishing" ~> stage[s] # "finishing"

(* engine.ts:785-786: "resume must NEVER auto-repeat an already-executed    *)
(* side effect", of any step the host was told is checkpointed as completed *)
(* and that the plans kept reporting.                                       *)
NeverRepeatsCompleted == \A s \in confirmed \ unreported : s \notin ResumeActions
==================================================================================
