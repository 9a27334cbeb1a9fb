SPECIFICATION ReadersSpec
CHECK_DEADLOCK FALSE
CONSTANTS
  Loop = loop
  Callers = {}
  Caddy = FALSE
  OneDocument = TRUE
  Exposures <- StartOnly
  MaxLevel = 0
  Health = {"UP", ""}
  Faults = {"load", "detect", "save"}
  ClockMayStepBack = FALSE
  Retention = 0
  TrailingLimit = 2
  MaxIncarnation = 2
  MaxClock = 2
  MaxAttempts = 3
  MaxBoots = 2
INVARIANTS
  ReadersSeeOneState
  BaselineIsCurrent
  RestoreMatchesLive
PROPERTIES
  ImplementsRunJournal
