SPECIFICATION Spec
CHECK_DEADLOCK FALSE
CONSTANTS
  Frameworks = {"quarkus"}
  NotFoundOptional = TRUE
  Scrapes = {"start", "no_start"}
  MaxIncarnation = 4
INVARIANTS
  DiscoveryResumes
