SPECIFICATION StoreSpec
CONSTANTS
  Items = 2
  MaxReps = 2
  MaxInvocations = 2
INVARIANTS
  ManifestNeverAhead
  VerdictsTrue
PROPERTIES
  AnswersFollowBundle
CHECK_DEADLOCK FALSE
