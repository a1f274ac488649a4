----------------------------- MODULE MCWatchdog ------------------------------
(***************************************************************************)
(* Four subsystems in the order TopologyManager registers them: the        *)
(* watchdog, a NORM component (cmd_hub), the radio and a FAST component    *)
(* (star_tracker).                                                         *)
(***************************************************************************)
EXTENDS Watchdog

MCActive == {3}
MCFast == {4}
MCBattLevels == {1, 4, 14, 100}

=============================================================================
