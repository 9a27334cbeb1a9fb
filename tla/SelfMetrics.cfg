SPECIFICATION SelfSpec
CHECK_DEADLOCK FALSE
SYMMETRY Symmetry
CONSTANTS
  Handlers = {h1, h2}
  Headers = {103, 404, 500}
  Durations = {1, 2}
  MaxWrites = 2
  MaxRequests = 2
  MaxScrapes = 1
  Scrapes = {s1, s2}
  Interval = 2
  Cores = 1
  Capacities <- UsedUpOrImpossible
  Totals = {0, 1}
  Word = 8
  MaxClock = 5
  MaxHost = 2
INVARIANTS
  MetricsAddUp
  DocumentsCollect
PROPERTIES
  UsageIsAverage
