SPECIFICATION Spec
CHECK_DEADLOCK FALSE
CONSTANTS
  Counters = {"requests", "time", "errors"}
  Exposures = {{}, {"errors"}, {"gauge", "requests"}, {"requests", "time", "errors"}}
  SampledBuckets = {3}
  Buckets = {0}
  Slot = 3
  PollLimit = 2
  Retention = 0
  MaxPolls = 3
  MaxTime = 3
  MaxRun = 2
  MaxLevel = 1
INVARIANTS
  WindowsAgree
  SampledMatchesNative
  NothingBeforeCutoff
  RatiosMatch
