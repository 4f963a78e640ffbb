SPECIFICATION FairSpec
CONSTANTS
  Opener = {o1, o2}
  Handler = {h1, h2}
  Config <- MCConfig
  None = none
  Torn = torn
  Baked = baked
  MaxFaults = 1
CHECK_DEADLOCK FALSE
INVARIANTS AcknowledgedIsComplete RefusalsHaveReasons ShellHasOneSession
PROPERTIES LockReturned
