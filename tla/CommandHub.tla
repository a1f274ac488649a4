----------------------------- MODULE CommandHub ------------------------------
(***************************************************************************)
(* CommandHub (src/src/CommandHub.hpp): classifies each uplinked command,  *)
(* asks MissionFsm whether its class is legal in the watchdog's mission    *)
(* state, and forwards it to the port of its target or refuses it, with an *)
(* ACK or NACK event either way.  The mission state belongs to Watchdog.   *)
(***************************************************************************)
EXTENDS MissionFsm, Sequences

CONSTANTS
  Command,      \* the packets that may arrive: records [target, opcode]
  Policy,       \* command_policies: a class for some (target, opcode)
  Routed,       \* the targets with a route
  CommandDepth, \* QUEUE_DEPTH of cmd_input and of each target's cmd_in
  AckDepth      \* QUEUE_DEPTH of the port behind ack_out

VARIABLES
  mission_state,
  cmd_input,
  cmd_in,       \* the input port of each routed target
  ack_out       \* ACK and NACK events the event hub has not drained

HubTypeOK ==
  /\ cmd_input \in Seq(Command) /\ Len(cmd_input) <= CommandDepth
  /\ cmd_in \in [Routed -> Seq(Command)]
  /\ \A t \in Routed : Len(cmd_in[t]) <= CommandDepth
  /\ ack_out \in 0 .. AckDepth

HubInit ==
  /\ cmd_input = <<>>
  /\ cmd_in = [t \in Routed |-> <<>>]
  /\ ack_out = 0

\* Unregistered commands are OPERATIONAL.
ClassOf(cmd) == IF cmd \in DOMAIN Policy THEN Policy[cmd] ELSE "OPERATIONAL"

Allowed(cmd) == ClassOf(cmd) \in AllowedClasses(mission_state)

\* MUTANT of Forwardable: the port of the target is not asked.
ForwardableWhenFull(cmd) == Allowed(cmd) /\ cmd.target \in Routed

Forwardable(cmd) ==
  /\ Allowed(cmd)
  /\ cmd.target \in Routed
  /\ Len(cmd_in[cmd.target]) < CommandDepth

\* Another component sends to the hub; a full port refuses.
Uplink(cmd) ==
  /\ cmd_input' = IF Len(cmd_input) < CommandDepth THEN Append(cmd_input, cmd)
                  ELSE cmd_input
  /\ UNCHANGED <<cmd_in, ack_out>>

\* recordError calls of one dispatch: the refusal, and the event if it is lost.
DispatchErrors ==
  (IF Forwardable(Head(cmd_input)) THEN 0 ELSE 1) + (IF ack_out = AckDepth THEN 1 ELSE 0)

\* MUTANT of Dispatch: a command its target has no room for is kept and tried
\* again.
DispatchRetried ==
  LET cmd == Head(cmd_input)
  IN  /\ cmd_input # <<>>
      /\ ack_out' = IF ack_out = AckDepth THEN ack_out ELSE ack_out + 1
      /\ \/ /\ Forwardable(cmd)
            /\ cmd_input' = Tail(cmd_input)
            /\ cmd_in' = [cmd_in EXCEPT ![cmd.target] = Append(@, cmd)]
         \/ /\ ~Forwardable(cmd)
            /\ UNCHANGED <<cmd_input, cmd_in>>

Dispatch ==
  LET cmd == Head(cmd_input)
  IN  /\ cmd_input # <<>>
      /\ cmd_input' = Tail(cmd_input)
      /\ ack_out' = IF ack_out = AckDepth THEN ack_out ELSE ack_out + 1
      /\ \/ /\ Forwardable(cmd)
            /\ cmd_in' = [cmd_in EXCEPT ![cmd.target] = Append(@, cmd)]
         \/ /\ ~Forwardable(cmd)
            /\ UNCHANGED cmd_in

=============================================================================
