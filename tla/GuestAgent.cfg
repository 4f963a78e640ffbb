SPECIFICATION AgentFairSpec
CONSTANTS
  Handler = {h1, h2}
  Terminal = {h2}
  MaxPid = 3
  None = none
  MaxFaults = 2
INVARIANTS StatusesAreNotStolen SignalsStayInGroup FailsForAReason
PROPERTIES OrphansReaped
