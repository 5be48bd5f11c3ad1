CONSTANTS
  a = a
  b = b
  c = c
  d = d
  r1 = r1
  r2 = r2
  r3 = r3
  p1 = p1
  p2 = p2
  code = code
  Code = Code
  chat = chat
  low = low
  HIGH = HIGH
  RunId = {a, b, c, d}
  Route <- MCRoute
  RouteOf <- MCRouteOf
  ClassOf <- MCClassOf
  Normal <- MCNormal
  Configured <- MCConfigured
  MaxQuality = 1
  NaN = NaN
  Null = Null
  Absent = Absent
  RequireEvidence = TRUE
  MaxCalls = 3
  HalfLives = 6
  SampleCap = 2
  SampleLimit = 3
  SimpleClasses = {"CHAT"}
  UnscoredWeight = 50
  MinSamples = 2
  MinQuota = 50
  Scenes = {"runs", "decisions", "notes", "trail"}
  Note <- MCNote
  Knowledge <- MCKnowledge
  Provider = {p1, p2}
  ItemsOf <- MCItemsOf
  Noop = Noop
  Secret = "secret"
  NotANumber = NotANumber
  TokensOf <- MCTokensOf
  Task <- MCTask
  Budget <- MCBudget
  MinConfidence = 50
  MaxInjected = 2
  RelevanceRanking = TRUE
  MaxAppends = 4
  MaxEntries = 3
  MaxFileBytes = 2
  MaxEmits = 3
  MaxLives = 2
SPECIFICATION MCSpec
INVARIANTS
  ReplayKeepsMemory
  EvidenceIsCurrent
  TrailKeepsOrder
  PromptsAreAdmissible
  DecisionsAreJustified
PROPERTY
  OutcomesMoveScores
CHECK_DEADLOCK FALSE
