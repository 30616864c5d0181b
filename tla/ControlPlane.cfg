SPECIFICATION ControlPlaneSpec
CONSTANTS
  Jobs = {j1, j2}
  Workers = {w1}
  NoJob = NoJob
  MaxEnqueues = 2
  MaxCrashes = 1
  Apis = {a1, a2}
  MaxRequests = 3
INVARIANTS
  CompletedMeansRunsDone
  QueueNeverAheadOfDatabase
