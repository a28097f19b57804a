SPECIFICATION Spec
CONSTANTS
  Page = {a, b}
  Route = {r1, r2}
  Control = {c1, c2}
  None = None
  MaxProfiles = 2
  MaxFailures = 2
  MaxHeals = 1
  MaxWrites = 3
  MaxTurns = 1
  MaxSide = 1
  MaxEvents = 1
SYMMETRY Symmetry
CHECK_DEADLOCK FALSE
INVARIANTS EvidenceIsEarned ManagementExcludesPrompts
PROPERTIES WritersHaveRead
