------------------------------ MODULE CloseGate ------------------------------
(***************************************************************************)
(* Evidence records and the two gates that read them: the verifier's       *)
(* evaluateEvidenceForClose and the workflow policy's canCloseTask, which  *)
(* keeps its own copy of the binding check.  A hash stands for the bytes   *)
(* it is of; NoHash and NoRev are absent fields.                           *)
(***************************************************************************)
EXTENDS Integers, FiniteSets

CONSTANTS NoHash, NoRev, NoEvidence

Statuses == {"PASS", "FAIL", "ERROR", "UNAVAILABLE"}

\* The record recordEvidence() builds; formed, reasoned, known and timed tell
\* what a record made by other hands may get wrong: a field that both gates
\* look at in the same way, an empty reasonCode, a validator type that does
\* not exist, no recordedAt.
Evidence(task, validator, status, hash, rev) ==
  [task |-> task, validator |-> validator, status |-> status, hash |-> hash, rev |-> rev,
   formed |-> TRUE, reasoned |-> TRUE, known |-> TRUE, timed |-> TRUE]

\* recordEvidence() throws rather than record a PASS without a hash.
Recordable(status, hash) == status = "PASS" => hash # NoHash

\* The identity a host compares with: absent when its hash is.
Current(hash, rev) == [hash |-> hash, rev |-> rev]

Stale(e, cur) ==
  \/ e.hash # cur.hash
  \/ e.rev # NoRev /\ cur.rev # NoRev /\ e.rev # cur.rev

\* The verifier's check of the binding takes an empty reasonCode.
EvaluateEvidenceForClose(e, cur) ==
  LET Answer(ok, code) == [ok |-> ok, code |-> code]
  IN  IF e = NoEvidence \/ ~(e.formed /\ e.known /\ e.timed) \/ e.hash = NoHash
      THEN Answer(FALSE, "EVIDENCE_UNBOUND")
      ELSE IF e.status # "PASS" THEN Answer(FALSE, "EVIDENCE_NOT_PASS")
      ELSE IF Stale(e, cur)     THEN Answer(FALSE, "EVIDENCE_STALE")
      ELSE Answer(TRUE, "EVIDENCE_CURRENT_PASS")

\* validateCloseEvidenceRecord() wants a reasonCode that says something, but
\* does not look at recordedAt, takes any validator type, and lets a record
\* without a hash through.
ValidateCloseEvidenceRecord(e) == e.formed /\ e.reasoned

\* The gate without a record: the status label alone, or nothing at all when
\* the host knows the artifact.
CloseOnStatus(label, cur) ==
  IF cur.hash # NoHash THEN [closable |-> FALSE, code |-> "EVIDENCE_CURRENCY_UNVERIFIED"]
  ELSE IF label = "PASS" THEN [closable |-> TRUE, code |-> "VERIFIER_PASS_RECORDED"]
  ELSE [closable |-> FALSE, code |-> "VERIFIER_BLOCKS_CLOSE"]

\* The gate's own comparison; the hash of a record that has none matches no
\* artifact.
CoversHashAlone(e, cur) == e.hash # NoHash /\ e.hash = cur.hash

Covers(e, cur) ==
  /\ e.hash # NoHash /\ e.hash = cur.hash
  /\ e.rev = NoRev \/ cur.rev = NoRev \/ e.rev = cur.rev

\* label is the verifierStatus the caller passes beside the record ("none"
\* when it passes none).
CanCloseTask(required, risk, label, e, cur) ==
  LET Answer(ok, code) == [closable |-> ok, code |-> code]
  IN  IF ~required \/ risk # "HIGH"           THEN Answer(TRUE, "CLOSE_UNRESTRICTED")
      ELSE IF e = NoEvidence                  THEN CloseOnStatus(label, cur)
      ELSE IF ~ValidateCloseEvidenceRecord(e) THEN Answer(FALSE, "EVIDENCE_UNBOUND")
      ELSE IF label \notin {"none", e.status} THEN Answer(FALSE, "EVIDENCE_STATUS_CONFLICT")
      ELSE IF e.status # "PASS"               THEN Answer(FALSE, "VERIFIER_BLOCKS_CLOSE")
      ELSE IF cur.hash = NoHash               THEN Answer(FALSE, "EVIDENCE_CURRENCY_UNVERIFIED")
      ELSE IF ~Covers(e, cur)                 THEN Answer(FALSE, "EVIDENCE_STALE")
      ELSE Answer(TRUE, "EVIDENCE_CURRENT_PASS")
=============================================================================
