SPECIFICATION Spec
CHECK_DEADLOCK FALSE
CONSTANTS
  first = first
  Inspectors = {first}
  Text <- Texts
  Environment <- Expansion
  References <- Variables
  Requests <- Named
  Applications <- Deployed
  Files <- Once
  OddFiles = {}
  MaxChanges = 1
INVARIANTS
  WrittenFilesLoad
