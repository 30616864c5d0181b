SPECIFICATION ExecutorSpec
CONSTANTS
  Tasks = {t1, t2, t3}
  Limit = 2
  QueueLimit = 1
  Unbounded = Unbounded
  Renotify = TRUE
  Threshold = 2
  Probes = 2
  Rolling = FALSE
  MinThroughput = 1
  MaxRecent = 1
  MaxAttempts = 2
  Budget = 1
  Deadline = TRUE
  Escapes = TRUE
  Idle = Idle
INVARIANTS
  SlotHeldByCall
PROPERTIES
  NoFirstCallWhileOpen
  EventOrder
