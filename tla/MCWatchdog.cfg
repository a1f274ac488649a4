CONSTANTS
  MonitoredCount = 4
  Supervisor = 1
  Active <- MCActive
  Fast <- MCFast
  WARNING_THRESHOLD = 1
  CRITICAL_THRESHOLD = 2
  MAX_RESTARTS = 1
  BattLevels <- MCBattLevels
  EmergencyPct = 2
  SafeModePct = 5
  DegradedPct = 15
  Hysteresis = 2
  BattMax = 100
  HEARTBEAT_INTERVAL = 1
  PARAM_CHECK_INTERVAL = 1
  EventDepth = 3
SPECIFICATION Spec
INVARIANTS
  BatteryCovered
  FaultCovered
PROPERTIES
  EmergencyIsEarned
  ImplementsMissionMode
  PassiveFaultLatches
  SupervisionResumes
