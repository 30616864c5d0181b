SPECIFICATION BreakerSpec
CONSTANTS
  Threshold = 2
  Probes = 2
  Rolling = TRUE
  MinThroughput = 3
  MaxRecent = 5
INVARIANTS
  ProbesCounted
  NoIgnoredEvidence
PROPERTIES
  OpensOnFreshFailures
