CONSTANTS
  Processes = {p1, p2}
  Names = {web, api}
  Types = {spring, quarkus}
  NoType = NoType
  Starts = {1}
  FirstFiles <- Files
  MaxBoots = 2
SPECIFICATION Spec
SYMMETRY Symmetry
INVARIANTS
  ReadyMeansUsable
  RefusalHasCause
  ReadyMeansRegistered
  BoundByAcceptedConfigs
PROPERTIES
  WritesAreSupported
  HistoryKept
CHECK_DEADLOCK FALSE
