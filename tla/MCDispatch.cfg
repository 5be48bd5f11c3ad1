CONSTANTS
  p1 = p1
  p2 = p2
  p3 = p3
  m1 = m1
  star = star
  d1 = d1
  d2 = d2
  Provider <- MCProvider
  Model <- MCModel
  AnyModel = star
  Dispatcher <- MCDispatcher
  Task <- MCTask
  TaskOf <- MCTaskOf
  Allowlist <- MCAllowlist
  FailureThreshold = 1
  WindowMs = 1
  CooldownMs = 1
  ConsecutiveFailures = 1
  OutcomeCooldownMs = 1
  MaxEntries = 3
  EscalationLimit = 1
  MaxNow = 2
  AllowTrial = FALSE
  AllowPaid = FALSE
  CostFirst = TRUE
  MaxRetries = 1
  MaxFanout = 1
  LedgerLimit = 1
  ProbeDiscipline = FALSE
  MaxDispatches = 2
SYMMETRY Symmetry
SPECIFICATION Spec
INVARIANTS
  DispatchSound
  NoDisallowedStream
  RetryBound
PROPERTIES
  NoDecisionThroughOpenCircuit
CHECK_DEADLOCK FALSE
