-------------------------- MODULE MCPortRingShared ---------------------------
(***************************************************************************)
(* cmd_hub.cmd_input as TopologyManager wires it: radio.command_out pushes *)
(* on the radio's own thread (TopologyManager.hpp:327), and                *)
(* cmd_sequencer.command_out pushes on the NORM thread (line 399), which   *)
(* is also the thread of the hub that pops.                                *)
(***************************************************************************)
EXTENDS PortRing, TLC

CONSTANTS radio, cmd_sequencer, radioThread, normThread

MCProducers == {radio, cmd_sequencer}
MCThreads == {radioThread, normThread}
MCThreadOf == radio :> radioThread @@ cmd_sequencer :> normThread

=============================================================================
