SPECIFICATION ControlPlaneSpec
CONSTANTS
  Jobs = {j1, j2}
  Workers = {w1}
  NoJob = NoJob
  MaxEnqueues = 1
  MaxCrashes = 0
  Apis = {a1}
  MaxRequests = 1
PROPERTIES
  CompletedIsFinal
