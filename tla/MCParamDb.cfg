CONSTANTS
  p1 = p1
  p2 = p2
  p3 = p3
  pi = pi
  rounded = rounded
  nan = nan
  fast = fast
  norm = norm
  Param <- MCParam
  Value <- MCValue
  Default <- MCDefault
  Printed <- MCPrinted
  Unreadable = {nan}
  Caller <- MCCaller
  MAX_PARAMS = 2
  MaxCalls = 2
  MaxBoots = 2
SYMMETRY Symmetric
SPECIFICATION ParamSpec
INVARIANTS
  AlarmIsTrue
  SurvivesReboot
PROPERTIES
  ImplementsParamMap
CHECK_DEADLOCK FALSE
