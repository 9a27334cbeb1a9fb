SPECIFICATION LiveSpec
CHECK_DEADLOCK FALSE
CONSTANTS
  Loop = loop
  Callers = {caller}
  Requests = {r1, r2}
  Caddy = FALSE
  OneDocument = FALSE
  Exposures <- Partial
  MaxLevel = 0
  Health = {""}
  Faults = {"load", "detect", "save", "reload"}
  ClockMayStepBack = TRUE
  Retention = 0
  TrailingLimit = 2
  MaxIncarnation = 3
  MaxClock = 2
  MaxAttempts = 1
  MaxBoots = 1
INVARIANTS
  TypeOK
  OneStartPerRun
  NoUnknownAnswer
  ChecksStopped
PROPERTIES
  PollsReturn
  StartupSettles
  SignalEndsProcess
