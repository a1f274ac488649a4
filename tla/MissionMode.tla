----------------------------- MODULE MissionMode -----------------------------
(***************************************************************************)
(* What the fault supervisor promises of the mission state, whatever the   *)
(* faults: it boots into NOMINAL, gets worse by any number of levels at a  *)
(* time, gets better only by a full recovery from DEGRADED or SAFE_MODE to *)
(* NOMINAL while recovery is earned, and never leaves EMERGENCY.           *)
(***************************************************************************)
EXTENDS MissionFsm

VARIABLES
  mode,      \* the mission state every command is gated by
  healthy    \* the vehicle is fit for NOMINAL: battery and subsystems

vars == <<mode, healthy>>

Init == mode = BOOT /\ healthy \in BOOLEAN

Boot == mode = BOOT /\ mode' = NOMINAL

Escalate == mode # BOOT /\ mode' \in MissionState /\ mode' > mode

Recover == mode \in {DEGRADED, SAFE_MODE} /\ healthy /\ mode' = NOMINAL

Drift == healthy' \in BOOLEAN /\ mode' = mode

Next == \/ (Boot \/ Escalate \/ Recover) /\ healthy' \in BOOLEAN
        \/ Drift

Spec == Init /\ [][Next]_vars

=============================================================================
