CONSTANTS
  Version = {1, 2}
  FlawChoices <- MCFlawChoices
  MaxRuns = 1
  MaxTouches = 2
SPECIFICATION Spec
INVARIANTS
  ReleaseOnCleanTag
CHECK_DEADLOCK FALSE
