----------------------------- MODULE MCPortRing ------------------------------
(***************************************************************************)
(* One producer and one consumer thread: radio.command_out into            *)
(* cmd_hub.cmd_input while no on-board sequencer sends.                    *)
(***************************************************************************)
EXTENDS PortRing, TLC

CONSTANTS radio, radioThread, normThread

MCProducers == {radio}
MCThreads == {radioThread, normThread}
MCThreadOf == radio :> radioThread

=============================================================================
