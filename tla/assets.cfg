SPECIFICATION Spec
CONSTANTS
  Tab = {t1}
  Asset = {a1, a2}
  Linked = {a1}
  Id = {x}
  None = None
  Budgets = {2}
  Sizes = {2}
  MaxRegistered = 1
  MaxSources = 1
  MaxFetches = 2
  MaxEvents = 1
CHECK_DEADLOCK FALSE
INVARIANTS CompleteIsWhole RegistryIsBounded TransferFollowsItsDocument
PROPERTIES TransferEnds
