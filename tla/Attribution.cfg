SPECIFICATION Spec
CHECK_DEADLOCK FALSE
CONSTANTS
  Loop = loop
  MaxIncarnation = 2
  MaxClock = 1
  MaxAttempts = 3
  MaxBoots = 2
INVARIANTS
  RestartEventsMarkNewRuns
  DeltasStayInOneProcess
  RunsAreContiguous
  NoMaskedReset
  CaddyRunsUnbroken
