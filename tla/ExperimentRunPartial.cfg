SPECIFICATION RunSpec
CONSTANTS
  Clients = {c1}
  Modes = {"closed_loop"}
  WarmUp = FALSE
  Repetitions = 1
  MaxIssues = 2
INVARIANTS
  PartialNeverComplete
