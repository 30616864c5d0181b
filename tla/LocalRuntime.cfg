SPECIFICATION LocalSpec
CONSTANTS
  Ids = {e1, e2}
  Executions = {x1, x2, x3}
  Reasons = {r1}
  NoReason = NoReason
  Default = Default
  Nobody = Nobody
INVARIANTS
  StatusBacksCancel
  OutcomeBelongs
PROPERTIES
  CancelRequestsEnd
CHECK_DEADLOCK FALSE
