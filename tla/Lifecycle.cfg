SPECIFICATION FairSpec
CONSTANTS
  Identity = {i1, i2, i3}
  None = none
  Uncatchable = FALSE
INVARIANTS HelpersRecorded RunningMeansLayout
PROPERTIES LockReleased StartRepairs LeaseSpec StopCleans FailedStartCleans PublishRestores
