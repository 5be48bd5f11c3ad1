SPECIFICATION MCSpec
CONSTANTS
  i1 = i1
  i2 = i2
  Specs = {"text", "schema", "file-hash", "file-exists"}
  IdOf <- MCIdOf
  MaxRegistrations = 3
  Hosts = {h1}
  Tasks = {t1}
  Contents = {1, 2, 3}
  Inodes = {i1, i2}
  Kind <- MCKind
  Verdict <- MCVerdict
  Large = {3}
  NoFile = NoFile
  NoHash = NoHash
  NoRev = NoRev
  NoEvidence = NoEvidence
  MaxWrites = 2
  MaxRecords = 1
CONSTRAINT Regimes
CHECK_DEADLOCK FALSE
INVARIANT LimitsNeverPass
