SPECIFICATION Spec
CONSTANTS
  c1 = c1
  c2 = c2
  d1 = d1
  d2 = d2
  registry = registry
  local = local
  None = None
  Creator <- MCCreator
  Digest <- MCDigest
  Agent = {a1, a2}
  Reference <- MCReference
  LocalReference <- MCLocalReference
  Derived <- MCDerived
  MaxCreates = 2
  MaxMoves = 1
  MaxPublishes = 1
  MaxSwaps = 1
  MaxFaults = 1
  MaxDamages = 1
CHECK_DEADLOCK FALSE
SYMMETRY MCSymmetry
INVARIANTS EntriesAreOneImage FailuresHaveReasons MachinesKeepTheirImage
