CONSTANTS
  Terminal = {t1, t2}
  StandardComponents <- MCStandardComponents
  StandardCommands <- MCStandardCommands
  Wires <- MCWires
  SystemInsts <- MCSystemInsts
  Shipped <- MCShipped
  NewClass <- MCNewClass
  Scraps <- MCScraps
  NewName = {"OTA_BEGIN"}
  ChosenId = {4}
  MaxCommands = 1
  MaxRuns = 2
SPECIFICATION Spec
INVARIANTS
  ToolsKeepItValid
  InstallSettles
  NothingLostAlone
  OfferedIsServed
SYMMETRY Symmetry
CHECK_DEADLOCK FALSE
