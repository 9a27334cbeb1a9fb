SPECIFICATION CollectorsSpec
CHECK_DEADLOCK FALSE
CONSTANTS
  Statuses = {403, 404, 500}
  Configured = "auto"
  Exposures = {"compatible", "unlabelled", "incompatible", "absent", "failed"}
  Failures = TRUE
  MaxCount = 3
  MaxIncarnation = 2
  MaxCollections = 2
  MaxRedirects = 1
  MaxDecompressed = 8
  MaxSamples = 2
  MaxLines = 3
  Labels <- SomeLabels
  Servers = {"srv0", "srv1"}
  MaxTuples = 2
  MaxRequests = 3
  MaxResets = 2
  MaxScrapes = 3
INVARIANTS
  ScrapesAreExact
  TotalsAreConsistent
  FailuresNeverDowngrade
  DeltasAreServed
