----------------------------- MODULE MissionFsm ------------------------------
(***************************************************************************)
(* The mission states of WatchdogComponent.hpp and the gate of             *)
(* MissionFsm.hpp: which class of command is legal in which state.         *)
(***************************************************************************)
EXTENDS Naturals

BOOT == 0
NOMINAL == 1
DEGRADED == 2
SAFE_MODE == 3
EMERGENCY == 4
MissionState == BOOT .. EMERGENCY

OpClass == {"HOUSEKEEPING", "OPERATIONAL", "RESTRICTED"}

AllowedClasses(state) ==
  CASE state = BOOT      -> {"HOUSEKEEPING"}
    [] state = NOMINAL   -> OpClass
    [] state = DEGRADED  -> {"HOUSEKEEPING", "OPERATIONAL"}
    [] state = SAFE_MODE -> {"HOUSEKEEPING"}
    [] OTHER             -> {}

=============================================================================
