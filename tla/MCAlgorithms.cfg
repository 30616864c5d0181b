SPECIFICATION AlgorithmsSpec
CONSTANTS
  Names = {"payment_service", "b", "c"}
  MaxEdits = 3
  MaxDepends = 2
  Base <- MCBase
  Factors <- MCFactors
  DictNode = "dict"
  Values = {1, 4}
  Censored <- MCCensored
  Repetitions = 2
  Undefined = Undefined
  Scale = 10080
  Titles = {l1, l2}
  MaxExperiments = 2
  MaxRuns = 3
  Clients = {c1, c2}
  MaxRequests = 2
  MaxAttempts = 2
  Delays = {1, 2}
  Deadline = 3
  Bucket = 2
  MaxTime = 4
  BaselineWindow = 1
  StabilityWindow = 2
  AvailNum = 9
  AvailDen = 10
  GateNum = 5
  GateDen = 4
  Firsts = {0, 3}
  Rates = {0, 1, 2}
  Latencies = {1, 3}
  MaxBuckets = 6
INVARIANTS
  GraphDecided
  ServicesAsConfigured
  ConditionsAsDesigned
  EffectsAccount
  ViewsAgree
  EffectsAgree
  ResidualNonNegative
  TimelineAddsUp
PROPERTIES
  VerdictsStand
  EarlyRecoveryProvisional
SYMMETRY MCSymmetry
CHECK_DEADLOCK FALSE
