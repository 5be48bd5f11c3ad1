---------------------------- MODULE EvidenceClose ----------------------------
(***************************************************************************)
(* From a file to a closed task: hosts run a validator and record its      *)
(* verdict (runAndRecord), hash the file again and ask the close gate,     *)
(* while others rewrite the file in place, rename another one over it, or  *)
(* turn its path into a link that leaves the allowed roots.                *)
(*                                                                         *)
(* A read of the file goes through realpath, stat, open with fstat, and    *)
(* read, each awaited.  validator types that judge the caller's subject    *)
(* (inline) read nothing; the subject is what the host read before.        *)
(***************************************************************************)
EXTENDS ValidatorRegistry, CloseGate

CONSTANTS Hosts, Tasks, Contents, Inodes,
          Kind(_),             \* spec -> "inline", "file-exists" or "file-hash"
          Verdict(_, _),       \* spec, content (NoHash: empty) -> status of the validator on it
          Large,               \* contents beyond maxFileReadBytes
          NoFile,              \* nothing at the path
          MaxWrites, MaxRecords

VARIABLES link,       \* where the path leads: "in" or "out" of the allowed roots, or "loop"
          file,       \* the inode at the real path inside, or NoFile
          bytes,      \* content of each inode
          rev,        \* revision the host tracks; every change of the file moves it
          records,    \* the evidence records built so far
          idents,     \* history: which identity each record was built from
          job         \* what each host is doing

fileVars == <<link, file, bytes, rev>>
vars == <<registryVars, fileVars, records, idents, job>>

ASSUME CloseAssumption ==
  /\ Large \subseteq Contents /\ NoFile \notin Inodes /\ NoHash \notin Contents
  /\ NoRev \notin Nat /\ MaxWrites \in Nat /\ MaxRecords \in Nat
  /\ \A s \in Specs, c \in Contents \cup {NoHash} : Verdict(s, c) \in Statuses
  /\ \A s \in Specs : Kind(s) \in {"inline", "file-exists", "file-hash"}

\* file-exists passes whatever it finds, and no record is the absent one.
ASSUME VerdictAssumption ==
  /\ \A s \in Specs, c \in Contents : Kind(s) = "file-exists" => Verdict(s, c) = "PASS"
  /\ NoEvidence \notin [task : Tasks, validator : 0..MaxRegistrations, status : Statuses,
                        hash : Contents \cup {NoHash}, rev : 0..MaxWrites \cup {NoRev},
                        formed : BOOLEAN, reasoned : BOOLEAN, known : BOOLEAN, timed : BOOLEAN]

\* The content a read of the path would find now, NoHash when there is none.
Here == IF link = "in" /\ file # NoFile THEN bytes[file] ELSE NoHash

NoSpec == 0
Resting == [stage |-> "rest", purpose |-> "none", n |-> NoSpec, task |-> "none", ident |-> "none",
            rev |-> NoRev, hash |-> NoHash, status |-> "none", seen |-> NoFile, from |-> 0,
            decision |-> [closable |-> FALSE, code |-> "none"]]

Init ==
  /\ RegistryInit
  /\ link = "in" /\ file \in Inodes /\ bytes \in [Inodes -> Contents] /\ rev = 0
  /\ records = <<>> /\ idents = <<>>
  /\ job = [h \in Hosts |-> Resting]
-----------------------------------------------------------------------------
\* What others do to the file.  Each is a change of revision.
Rewrite(i, c) ==
  /\ rev < MaxWrites /\ bytes[i] # c
  /\ bytes' = [bytes EXCEPT ![i] = c] /\ rev' = rev + 1
  /\ UNCHANGED <<link, file>>

Rename(i) ==
  /\ rev < MaxWrites /\ file # i
  /\ file' = i /\ rev' = rev + 1
  /\ UNCHANGED <<link, bytes>>

Relink(l) ==
  /\ rev < MaxWrites /\ link # l
  /\ link' = l /\ rev' = rev + 1
  /\ UNCHANGED <<file, bytes>>

Others ==
  /\ \/ \E i \in Inodes, c \in Contents : Rewrite(i, c)
     \/ \E i \in Inodes \cup {NoFile} : Rename(i)
     \/ \E l \in {"in", "out", "loop"} : Relink(l)
  /\ UNCHANGED <<registryVars, records, idents, job>>
-----------------------------------------------------------------------------
Step(h, change) == job' = [job EXCEPT ![h] = change]

\* After the validator: hash the file unless the caller gave a hash.
Judged(j, status) ==
  [j EXCEPT !.status = status, !.seen = NoFile,
            !.purpose = IF j.ident = "hash" THEN j.purpose ELSE "bind",
            !.stage = IF j.ident = "hash" THEN "record" ELSE "confine"]

\* runAndRecord(id, identity, subject).  The spec is looked up at once; an
\* unknown id gets an UNAVAILABLE result.  ident tells which identity the
\* caller gives: the hash of the subject it read, or a path, with the
\* revision it saw or without; or a path that is in no allowed root.
Start(h, id, t, ident) ==
  LET found == Holding(id)
      n == CHOOSE k \in found : TRUE
      j == [Resting EXCEPT !.purpose = "verify", !.task = t, !.ident = ident,
              !.rev = IF ident = "rev" THEN rev ELSE NoRev,
              !.hash = IF ident = "hash" THEN Here ELSE NoHash]
      run == [j EXCEPT !.n = n]
  IN  /\ job[h].stage = "rest" /\ Len(records) < MaxRecords
      /\ ident = "hash" => Here # NoHash
      /\ Step(h, IF found = {} THEN Judged(j, "UNAVAILABLE")
                 ELSE IF Kind(spec[n]) # "inline" THEN [run EXCEPT !.stage = "confine"]
                 ELSE Judged(run, Verdict(spec[n], Here)))
      /\ UNCHANGED <<registryVars, fileVars, records, idents>>

\* pathIsAllowed(): the path as text lies under an allowed root.  The path of
\* a registered validator does.
PathIsAllowed(j) == j.purpose = "verify" \/ j.ident # "stray"

\* resolveRealConfinement(): where path and roots lead once links are followed.
Confinement ==
  CASE link = "loop" -> "unresolvable"
    [] link = "out"  -> "outside"
    [] link = "in"   -> IF file = NoFile THEN "missing" ELSE "ok"

ConfinedStatus(kind) ==
  CASE kind = "missing"      -> "FAIL"
    [] kind = "unresolvable" -> "ERROR"
    [] kind = "outside"      -> "UNAVAILABLE"
    [] kind = "ok"           -> "PASS"

\* stat() of the real path: no entry, too large to be read, or an inode.
StatOf == IF file = NoFile THEN "none" ELSE IF bytes[file] \in Large THEN "large" ELSE "fits"

\* Where a read that ends without bytes leaves the job: a validator has its
\* status, a hash is null.
Unread(j, status) ==
  IF j.purpose = "verify" THEN Judged(j, status)
  ELSE [j EXCEPT !.stage = IF j.purpose = "bind" THEN "record" ELSE "decide"]

\* Every read starts with the path: file-exists needs no more than this.
Confine(h) ==
  LET j == job[h]
      kind == IF PathIsAllowed(j) THEN Confinement ELSE "outside"
  IN  /\ j.stage = "confine"
      /\ Step(h, IF kind # "ok" THEN Unread(j, ConfinedStatus(kind))
                 ELSE IF j.purpose = "verify" /\ Kind(spec[j.n]) = "file-exists"
                 THEN Judged(j, ConfinedStatus("ok"))
                 ELSE [j EXCEPT !.stage = "stat"])
      /\ UNCHANGED <<registryVars, fileVars, records, idents>>

Stat(h) ==
  LET j == job[h]
  IN  /\ j.stage = "stat"
      /\ Step(h, IF StatOf # "fits" THEN Unread(j, "FAIL")
                 ELSE [j EXCEPT !.stage = "open", !.seen = file])
      /\ UNCHANGED <<registryVars, fileVars, records, idents>>

\* The open handle's identity is compared with the stat's by file-hash only;
\* hashArtifact() does not.
Open(h) ==
  LET j == job[h]
  IN  /\ j.stage = "open"
      /\ Step(h, IF file = NoFile THEN Unread(j, "FAIL")
                 ELSE [j EXCEPT !.stage = "read", !.seen = file,
                                !.status = IF j.purpose = "verify" /\ file # j.seen THEN "ERROR" ELSE @])
      /\ UNCHANGED <<registryVars, fileVars, records, idents>>

\* readFile() on the handle: its inode's content now, wherever the path leads.
Read(h) ==
  LET j == job[h]
      c == bytes[j.seen]
  IN  /\ j.stage = "read"
      /\ Step(h, IF j.purpose = "verify"
                 THEN Judged(j, IF j.status = "ERROR" THEN "ERROR" ELSE Verdict(spec[j.n], c))
                 ELSE [j EXCEPT !.hash = c, !.stage = IF j.purpose = "bind" THEN "record" ELSE "decide"])
      /\ UNCHANGED <<registryVars, fileVars, records, idents>>

\* recordEvidence(): the verbatim status, or an EvidenceError, also for an
\* input that is malformed or reports on the model that made the artifact.
Inputs == {"proper", "malformed", "self-report"}

ForbiddenEvidenceFields == {"self-report"}
RejectForbiddenFields(input) == input \in ForbiddenEvidenceFields

Recorded(j, e, input) ==
  IF input = "malformed" \/ RejectForbiddenFields(input) \/ ~Recordable(j.status, j.hash)
  THEN UNCHANGED <<records, idents>>
  ELSE records' = Append(records, e) /\ idents' = Append(idents, j.ident)

RecordLateRevision(h, input) ==        \* the revision read when the record is built
  LET j == job[h]
  IN  /\ j.stage = "record"
      /\ Recorded(j, Evidence(j.task, j.n, j.status, j.hash, IF j.ident = "rev" THEN rev ELSE NoRev), input)
      /\ Step(h, Resting)
      /\ UNCHANGED <<registryVars, fileVars>>

Record(h, input) ==
  LET j == job[h]
  IN  /\ j.stage = "record"
      /\ Recorded(j, Evidence(j.task, j.n, j.status, j.hash, j.rev), input)
      /\ Step(h, Resting)
      /\ UNCHANGED <<registryVars, fileVars>>

\* To close a task a host takes a record, whoever's, or none (0), notes the
\* revision, and hashes the file afresh.
BeginClose(h, t, e, ident) ==
  /\ job[h].stage = "rest" /\ e \in {0} \cup DOMAIN records
  /\ Step(h, [Resting EXCEPT !.stage = "confine", !.purpose = "fresh", !.task = t, !.from = e,
                             !.ident = ident, !.rev = IF ident = "rev" THEN rev ELSE NoRev])
  /\ UNCHANGED <<registryVars, fileVars, records, idents>>

Chosen(j) == IF j.from = 0 THEN NoEvidence ELSE records[j.from]

Decide(h, label) ==
  LET j == job[h]
  IN  /\ j.stage = "decide"
      /\ Step(h, [j EXCEPT !.stage = "decided",
                           !.decision = CanCloseTask(TRUE, "HIGH", label, Chosen(j), Current(j.hash, j.rev))])
      /\ UNCHANGED <<registryVars, fileVars, records, idents>>

Rest(h) ==
  /\ job[h].stage = "decided"
  /\ Step(h, Resting)
  /\ UNCHANGED <<registryVars, fileVars, records, idents>>

Next ==
  \/ Others
  \/ RegistryNext /\ UNCHANGED <<fileVars, records, idents, job>>
  \/ \E h \in Hosts :
       \/ \E id \in {IdOf(s) : s \in Specs}, t \in Tasks, ident \in {"hash", "path", "rev", "stray"} : Start(h, id, t, ident)
       \/ Confine(h) \/ Stat(h) \/ Open(h) \/ Read(h)
       \/ \E input \in Inputs : Record(h, input)
       \/ \E t \in Tasks, e \in 0..MaxRecords, ident \in {"path", "rev", "stray"} : BeginClose(h, t, e, ident)
       \/ \E label \in Statuses \cup {"none"} : Decide(h, label)
       \/ Rest(h)

Spec == Init /\ [][Next]_vars
-----------------------------------------------------------------------------
CloseCodes ==
  {"CLOSE_UNRESTRICTED", "EVIDENCE_UNBOUND", "EVIDENCE_STATUS_CONFLICT", "VERIFIER_BLOCKS_CLOSE",
   "EVIDENCE_CURRENCY_UNVERIFIED", "EVIDENCE_STALE", "EVIDENCE_CURRENT_PASS", "VERIFIER_PASS_RECORDED"}

Jobs ==
  [stage : {"rest", "confine", "stat", "open", "read", "record", "decide", "decided"},
   purpose : {"none", "verify", "bind", "fresh"}, n : 0..Len(spec), task : Tasks \cup {"none"},
   ident : {"none", "hash", "path", "rev", "stray"}, rev : 0..rev \cup {NoRev}, hash : Contents \cup {NoHash},
   status : Statuses \cup {"none"}, seen : Inodes \cup {NoFile}, from : 0..Len(records),
   decision : [closable : BOOLEAN, code : CloseCodes \cup {"none"}]]

Records ==
  [task : Tasks, validator : 0..Len(spec), status : Statuses, hash : Contents \cup {NoHash},
   rev : 0..rev \cup {NoRev}, formed : {TRUE}, reasoned : {TRUE}, known : {TRUE}, timed : {TRUE}]

TypeOK ==
  /\ RegistryTypeOK
  /\ link \in {"in", "out", "loop"} /\ file \in Inodes \cup {NoFile}
  /\ bytes \in [Inodes -> Contents] /\ rev \in 0..MaxWrites
  /\ records \in Seq(Records) /\ idents \in [DOMAIN records -> {"hash", "path", "rev", "stray"}]
  /\ job \in [Hosts -> Jobs]

\* What the identity of a record and of the close pin down: both carry a
\* revision, or the caller hashed the very subject it had judged.
Pinned(j) ==
  LET e == records[j.from]
  IN  \/ e.rev # NoRev /\ j.rev # NoRev
      \/ idents[j.from] = "hash" /\ Kind(spec[e.validator]) = "inline"

\* A task that the close gate lets close on a record was closed on bytes its
\* validator passes, whichever task the record is of, as far as identities
\* pin the bytes down.  (A path without a revision does not: the file may be
\* rewritten between the verdict and the hash that is bound to it.)
ClosedOnVerifiedBytes ==
  \A h \in Hosts :
    LET j == job[h] IN
    (j.stage = "decided" /\ j.decision.closable /\ j.from # 0) =>
       /\ records[j.from].status = "PASS" /\ records[j.from].validator # NoSpec
       /\ records[j.from].hash = j.hash /\ j.hash # NoHash
       /\ Pinned(j) => Verdict(spec[records[j.from].validator], j.hash) = "PASS"

\* The two gates, which share no code, on every record recordEvidence() built
\* or any damaged copy of one, whatever the artifact is now: what the verifier
\* calls current evidence closes the task, unless its reasonCode is empty, and
\* a task closes only on what the verifier calls current evidence, unless its
\* validator type or its recordedAt is no good.  On a record with nothing
\* wrong they also name the same reason, except that a record that is no
\* PASS is "not PASS" to the one and "blocks close" to the other.
Copy(e, f, g, k, t, x) ==
  [e EXCEPT !.formed = f, !.reasoned = g, !.known = k, !.timed = t, !.hash = x]
Damaged(e) ==
  {Copy(e, f, g, k, t, x) : f \in BOOLEAN, g \in BOOLEAN, k \in BOOLEAN, t \in BOOLEAN, x \in {e.hash, NoHash}}
SameReason(verifier, gate) ==
  \/ verifier = gate
  \/ verifier = "EVIDENCE_NOT_PASS" /\ gate = "VERIFIER_BLOCKS_CLOSE"
AllRest == \A h \in Hosts : job[h].stage = "rest"       \* enough: records do not change otherwise
GatesAgree ==
  AllRest =>
  \A i \in DOMAIN records : \A e \in Damaged(records[i]), x \in Contents, r \in 0..MaxWrites \cup {NoRev} :
    LET v == EvaluateEvidenceForClose(e, Current(x, r))
        g == CanCloseTask(TRUE, "HIGH", "none", e, Current(x, r))
    IN  /\ v.ok /\ e.reasoned => g.closable
        /\ g.closable /\ e.known /\ e.timed => v.ok
        /\ e.formed /\ e.reasoned /\ e.known /\ e.timed /\ e.hash # NoHash => SameReason(v.code, g.code)
=============================================================================
