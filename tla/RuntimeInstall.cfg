SPECIFICATION Spec
CONSTANTS
  s1 = s1  s2 = s2  r1 = r1  m1 = m1  n1 = n1  m2 = m2  bad = bad
  Setup = {s1, s2}
  Reader = {r1}
  Manifest <- MCManifest
  Version <- MCVersion
  VersionOf <- Released
  Cli <- MCCli
  CliOf <- Clis
  RangeOf <- Ranges
  Valid = {m1, n1, m2}
  Lock <- ReleasedLocks
  None = none
  Unreadable = unreadable
  MaxSetups = 3
  MaxFaults = 1
  MaxDamages = 1
  Sigkill = TRUE
INVARIANTS PointerAgrees SetupDelivers ReadersUndisturbed
PROPERTIES KeepsUsable
