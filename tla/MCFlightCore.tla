---------------------------- MODULE MCFlightCore -----------------------------
(***************************************************************************)
(* The watchdog, cmd_hub and the radio as subsystems; the payload monitor  *)
(* (NORM) and the star tracker (FAST) as targets, a command of each class  *)
(* and one for a target nobody routes.                                     *)
(***************************************************************************)
EXTENDS FlightCore

CONSTANTS payload, star, nobody

Cmd(t, op) == [target |-> t, opcode |-> op]

MCActive == {3}
MCFast == {}
MCBattLevels == {4, 100}
MCCommand == {Cmd(payload, 2), Cmd(payload, 3), Cmd(star, 1), Cmd(nobody, 1)}
MCPolicy == [cmd \in {Cmd(payload, 2), Cmd(payload, 3)} |->
               IF cmd.opcode = 2 THEN "RESTRICTED" ELSE "HOUSEKEEPING"]
MCRouted == {payload, star}
MCFastTargets == {star}

=============================================================================
