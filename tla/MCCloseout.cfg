CONSTANTS
  Version = {1, 2}
  FlawChoices <- MCFlawChoices
  MaxRuns = 2
  MaxTouches = 3
  Durations = {1800, 3600}
  Limit = 0
  MinSamples = 1
  MaxBanners = 1
  Cycles = 2
  MaxOverruns = 1
  MaxSessions = 2
  Records <- MCRecords
  Documented = {"none", "FAIL"}
  Filed <- MCFiled
  Profile = {"soak_1h"}
  MaxAttempts = 2
  Budgets <- MCBudgets
SPECIFICATION CloseoutSpec
INVARIANTS
  CloseoutTypeOK
  StatusEarned
  StatusIsLast
  PedigreeIsOfTheTag
  EvidenceIsReal
  TeamPassIsEvidence
  HourCoversHalf
  PassOutlives
CHECK_DEADLOCK FALSE
