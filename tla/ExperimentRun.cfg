SPECIFICATION RunSpec
CONSTANTS
  Clients = {c1, c2}
  Modes = {"closed_loop", "arrivals"}
  WarmUp = TRUE
  Repetitions = 2
  MaxIssues = 4
INVARIANTS
  OutcomeMatchesRuns
  WarmUpUnrecorded
  ArrivalRepetitionsWhole
PROPERTIES
  ClosedLoopEnds
