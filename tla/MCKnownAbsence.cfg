SPECIFICATION MCSpec
CONSTANTS
  None = None
  h1 = h1
  h2 = h2
  s1 = s1
  s2 = s2
  s3 = s3
  x1 = x1
  x2 = x2
  x3 = x3
  c1 = c1
  Hosts = {h1, h2}
  LimitSets <- MCLimitSets
  Tasks <- MCTasks
  ChildOf <- MCChildOf
  Starter <- MCStarter
  MaxUsed = 8
  TokensOf <- MCTokensOf
  NotAString = None
  Service = {"a", "b"}
  Profiles <- MCProfiles
  BootCall = {1, 2}
  DisposeCall = {1, 2}
  MaxKernelCalls = 3
  Bundled = {"p1", "p2"}
  Requests <- MCRequests
  MaxSetups = 4
  Session <- MCSession
  Shape <- MCShape
  Call <- MCCall
  MaxSessions = 2
  MaxShapes = 2
  MaxTraces = 1
  Unknown = Unknown
  Scenes = {"gate"}
CHECK_DEADLOCK FALSE
INVARIANT KnownAbsenceFailsClosed
