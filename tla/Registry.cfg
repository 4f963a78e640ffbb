SPECIFICATION HistorySpec
CONSTANTS
  Id = {m1, m2, m3, m4}
  NoId = none
  MaxCount = 3
  MaxFaults = 3
  Interrupts = "crash"
SYMMETRY IdSymmetry
INVARIANTS RunningIsRecorded RecordedIsComplete OrphansNeedMishap
PROPERTIES CatalogueSpec
