SPECIFICATION DashboardSpec
CONSTANTS
  Siblings = {"tries"}
  Dependents = {"skills", "mcp"}
  Partial = {"repos"}
  Rare = {}
  MaxRequests = 2
INVARIANTS ShownIsCurrent DependentsAgree SpinnersStop
PROPERTIES CloneNotAbandoned
CHECK_DEADLOCK FALSE
