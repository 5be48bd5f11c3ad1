CONSTANTS
  p1 = p1
  m1 = m1
  m2 = m2
  star = star
  d1 = d1
  d2 = d2
  Provider <- MCProvider
  Model <- MCModel
  AnyModel = star
  Dispatcher <- MCDispatcher
  Task <- MCDispatcher
  TaskOf <- MCTaskOf
  Allowlist <- MCAllowlist
  FailureThreshold = 1
  WindowMs = 1
  CooldownMs = 1
  ConsecutiveFailures = 1
  OutcomeCooldownMs = 1
  MaxEntries = 3
  EscalationLimit = 1
  MaxNow = 2
  AllowTrial = FALSE
  AllowPaid = FALSE
  CostFirst = TRUE
  MaxRetries = 2
  MaxFanout = 1
  LedgerLimit = 2
  ProbeDiscipline = TRUE
  MaxDispatches = 2
SPECIFICATION AdmissionSpec
INVARIANT HalfOpenAdmitsOneDispatch
CHECK_DEADLOCK FALSE
