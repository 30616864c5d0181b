SPECIFICATION ExecutorSpec
CONSTANTS
  Tasks = {t1, t2, t3, t4}
  Limit = 2
  QueueLimit = 1
  Unbounded = Unbounded
  Renotify = TRUE
  Threshold = 1
  Probes = 1
  Rolling = FALSE
  MinThroughput = 1
  MaxRecent = 1
  MaxAttempts = 2
  Budget = Unbounded
  Deadline = FALSE
  Escapes = FALSE
  Idle = Idle
INVARIANTS
  ProbeSlotsOwned
PROPERTIES
  HalfOpenResolves
  SlotsComeBack
