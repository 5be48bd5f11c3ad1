CONSTANTS
  a = a
  b = b
  c = c
  d = d
  r1 = r1
  r2 = r2
  r3 = r3
  p1 = p1
  p2 = p2
  code = code
  Code = Code
  chat = chat
  low = low
  HIGH = HIGH
  RunId = {a, b, c}
  Route <- MCRoute
  RouteOf <- MCRouteOf
  ClassOf <- MCClassOf
  Normal <- MCNormal
  Configured <- MCConfigured
  MaxQuality = 1
  NaN = NaN
  Null = Null
  Absent = Absent
  RequireEvidence = TRUE
  MaxCalls = 4
  HalfLives = 6
  SampleCap = 1
  SampleLimit = 3
  SimpleClasses = {"CHAT"}
  UnscoredWeight = 50
  MinSamples = 2
  MinQuota = 50
  Scenes = {"new store"}
  Note <- MCNote
  Knowledge <- MCKnowledge
  Provider = {p1, p2}
  ItemsOf <- MCItemsOf
  Noop = Noop
  Secret = "secret"
  NotANumber = NotANumber
  TokensOf <- MCTokensOf
  Task <- MCTask
  Budget <- MCBudget
  MinConfidence = 50
  MaxInjected = 2
  RelevanceRanking = TRUE
  MaxAppends = 5
  MaxEntries = 3
  MaxFileBytes = 2
  MaxEmits = 3
  MaxLives = 2
SPECIFICATION MCSpec
INVARIANT
  OldestSampleGoesFirst
CHECK_DEADLOCK FALSE
