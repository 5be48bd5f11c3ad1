CONSTANTS
  a = a
  b = b
  Step <- MCStep
  d1 = d1
  d2 = d2
  Digest <- MCDigest
  Malformed <- MCMalformed
  NoHash = NoHash
  MaxTouches = 1
  MaxEntries = 2
  MaxNow = 1
  MaxPushes = 5
  MaxFaults = 1
  MaxCrashes = 1
SPECIFICATION Spec
INVARIANT
  NeverRepeatsCompleted
CHECK_DEADLOCK FALSE
