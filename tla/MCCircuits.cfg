\* Thresholds of 2, a window of 1 ms, cooldowns of 1 and 2 ms on a clock of 3:
\* failures fall in and out of the window, and two full episodes fit.  The map
\* holds 3 of the 4 keys, so that entries are evicted too.
CONSTANTS
  p1 = p1
  p2 = p2
  m1 = m1
  star = star
  Provider <- MCProvider
  Model <- MCModel
  AnyModel = star
  FailureThreshold = 2
  WindowMs = 1
  CooldownMs = 2
  ConsecutiveFailures = 2
  OutcomeCooldownMs = 1
  MaxEntries = 3
  EscalationLimit = 1
  MaxNow = 3
  MaxReports = 5
  s1 = s1
  s2 = s2
  s3 = s3
  padded = padded
  spaces = spaces
  t1 = t1
  t2 = t2
  text = text
  blank = blank
  Session <- MCSession
  Task <- MCTask
  Content <- MCContent
  Blank = blank
  Nothing = Nothing
  Normalized <- MCNormalized
  NoIdentity = NoIdentity
  NoTask = NoTask
  Capacity = 2
SPECIFICATION MCSpec
CONSTRAINT MCUsed
SYMMETRY Symmetry
INVARIANTS
  CircuitsSound
  OutcomeBreakerMatchesLog
  OneProbePerEpisode
  EscalatedOnFailOnly
  WindowBreakerMatchesLog
  StoreInv
  LeastRecentlyUsedGoesFirst
PROPERTY
  ShowsLatestOrNothing
CHECK_DEADLOCK FALSE
