SPECIFICATION CollectorSpec
CHECK_DEADLOCK FALSE
CONSTANTS
  Frameworks = {"quarkus", "micronaut"}
  NotFoundOptional = TRUE
  Scrapes = {"start", "no_start", "failed"}
  MaxIncarnation = 2
  Series <- SomeSeries
  Values <- SomeValues
  MaxTotal = 2
  MatchingLimit = 2
  MaxSamples = 3
INVARIANTS
  MicronautResumes
  LossIsReported
  EvaluationIsExact
