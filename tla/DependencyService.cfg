SPECIFICATION DependencySpec
CONSTANTS
  Tasks = {t1, t2, t3, t4, t5}
  Limit = 2
  QueueLimit = 2
  Unbounded = Unbounded
  Renotify = TRUE
INVARIANTS
  CountersExact
  NoStrandedWaiter
  SaturationReported
  SlotHeldByWork
PROPERTIES
  NeverRejectedAfterQueueing
  ImplementsAdmissionControl
