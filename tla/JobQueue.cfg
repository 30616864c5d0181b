SPECIFICATION JobQueueSpec
CONSTANTS
  Jobs = {j1, j2}
  Workers = {w1, w2}
  NoJob = NoJob
  MaxEnqueues = 3
  MaxCrashes = 2
INVARIANTS
  OneEntryPerJob
  NeverLost
PROPERTIES
  ClaimedJobsFinish
