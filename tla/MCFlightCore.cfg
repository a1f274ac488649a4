CONSTANTS
  payload = payload
  star = star
  nobody = nobody
  MonitoredCount = 3
  Supervisor = 1
  HubId = 2
  Active <- MCActive
  Fast <- MCFast
  WARNING_THRESHOLD = 1
  CRITICAL_THRESHOLD = 2
  MAX_RESTARTS = 1
  BattLevels <- MCBattLevels
  EmergencyPct = 2
  SafeModePct = 5
  DegradedPct = 15
  Hysteresis = 2
  BattMax = 100
  HEARTBEAT_INTERVAL = 1
  PARAM_CHECK_INTERVAL = 1
  EventDepth = 8
  Command <- MCCommand
  Policy <- MCPolicy
  Routed <- MCRouted
  FastTargets <- MCFastTargets
  CommandDepth = 1
  AckDepth = 1
  SendsPerTick = 2
SPECIFICATION FlightSpec
INVARIANTS
  FlightTypeOK
PROPERTIES
  ExecutedWhenAllowed
  SupervisedAsSpecified
