SPECIFICATION Spec
CHECK_DEADLOCK FALSE
CONSTANTS
  first = first
  Inspectors = {first}
  Text <- Texts
  Environment <- Expansion
  References <- Variables
  Requests <- CommandLines
  Applications <- Deployed
  Files <- Twice
  OddFiles = {}
  MaxChanges = 1
INVARIANTS
  EndpointsConfiguredOnce
