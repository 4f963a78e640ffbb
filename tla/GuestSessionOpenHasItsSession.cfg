SPECIFICATION Spec
CONSTANTS
  Opener = {o1, o2}
  Handler = {h1, h2}
  Config <- MCConfig
  None = none
  Torn = torn
  Baked = baked
  MaxFaults = 0
CHECK_DEADLOCK FALSE
INVARIANT OpenHasItsSession
