----------------------------- MODULE FlightCore ------------------------------
(***************************************************************************)
(* The command path under fault supervision, as TopologyManager wires it   *)
(* and RateGroupExecutive schedules it: in each NORM tick the watchdog     *)
(* steps first, then the hub dispatches everything in its port, the event  *)
(* hub drains both event ports, the on-board sequencers send, the targets  *)
(* execute and the battery reports.  The radio sends from its own thread   *)
(* at any moment and a target of the FAST group executes at any moment.    *)
(***************************************************************************)
EXTENDS Watchdog

CONSTANTS
  Command, Policy, Routed, CommandDepth, AckDepth,
  HubId,          \* the hub's index in monitored_systems
  FastTargets,    \* routed targets of the FAST rate group
  SendsPerTick    \* bound: commands sent to the hub in one NORM tick

NormTargets == Routed \ FastTargets

VARIABLES
  cmd_input, cmd_in, ack_out,
  sends_left     \* of SendsPerTick

Hub == INSTANCE CommandHub

hubVars == <<cmd_input, cmd_in, ack_out, sends_left>>
flightVars == <<vars, hubVars>>

ASSUME FlightAssumption ==
  /\ HubId \in Norm
  /\ FastTargets \subseteq Routed
  /\ \A cmd \in DOMAIN Policy : Policy[cmd] \in OpClass
  /\ CommandDepth \in Nat /\ AckDepth \in Nat /\ SendsPerTick \in Nat

FlightTypeOK ==
  /\ TypeOK
  /\ Hub!HubTypeOK
  /\ sends_left \in 0 .. SendsPerTick

FlightInit ==
  /\ Init
  /\ Hub!HubInit
  /\ sends_left = SendsPerTick

-----------------------------------------------------------------------------

FlightBoot == Boot /\ UNCHANGED hubVars

\* The watchdog's own step: the hub and the targets of its thread do not move.
Supervise == Step /\ UNCHANGED hubVars

\* One turn of the hub's loop.
HubDispatch ==
  /\ at = "cmd_hub"
  /\ Hub!Dispatch
  /\ errors' = [errors EXCEPT ![HubId] = Saturated(@ + Hub!DispatchErrors)]
  /\ UNCHANGED <<sends_left, mission_state, last_batt_soc, battery_level_in, cycles,
                 restart_counts, thread, event_count, params_ok, at, idx,
                 any_critical, any_warning>>

\* The hub's loop ends when it finds its port empty.
HubReturns ==
  /\ cmd_input = <<>>
  /\ HubsDone
  /\ UNCHANGED hubVars

EventHubStep ==
  /\ DrainEvents
  /\ ack_out' = 0
  /\ UNCHANGED <<cmd_input, cmd_in, sends_left>>

\* The radio, whose uplink runs in no order with the tick, or a sequencer,
\* stepped after the hubs.
SendToHub(cmd) ==
  /\ at # "boot"
  /\ sends_left > 0
  /\ sends_left' = sends_left - 1
  /\ Hub!Uplink(cmd)
  /\ UNCHANGED vars

\* A target of the NORM group runs each command it finds in its port.
Execute(t) ==
  /\ at = "battery"
  /\ cmd_in[t] # <<>>
  /\ cmd_in' = [cmd_in EXCEPT ![t] = Tail(@)]
  /\ UNCHANGED <<cmd_input, ack_out, sends_left, vars>>

\* One of the FAST group does so on its own thread.
ExecuteFast(t) ==
  /\ cmd_in[t] # <<>>
  /\ cmd_in' = [cmd_in EXCEPT ![t] = Tail(@)]
  /\ UNCHANGED <<cmd_input, ack_out, sends_left, vars>>

\* MUTANT of EndTick: the tick ends with commands left in the targets' ports.
EndTickEarly ==
  /\ \E soc \in BattLevels : SendReading(soc)
  /\ sends_left' = SendsPerTick
  /\ UNCHANGED <<cmd_input, cmd_in, ack_out>>

\* Every target of the group has drained its port when the tick ends.
EndTick ==
  /\ \A t \in NormTargets : cmd_in[t] = <<>>
  /\ \E soc \in BattLevels : SendReading(soc)
  /\ sends_left' = SendsPerTick
  /\ UNCHANGED <<cmd_input, cmd_in, ack_out>>

\* The other components fail as in Watchdog; the hub only by dispatching.
Elsewhere ==
  /\ \/ \E c \in Subsystem \ {HubId} : RecordErrors(c)
     \/ \E ok \in BOOLEAN : SetIntegrity(ok)
  /\ UNCHANGED hubVars

FlightNormTick ==
  \/ Supervise
  \/ HubDispatch
  \/ HubReturns
  \/ EventHubStep
  \/ \E t \in NormTargets : Execute(t)
  \/ EndTick

FlightWorker(c) == Worker(c) /\ UNCHANGED hubVars

FlightNext ==
  \/ FlightBoot
  \/ FlightNormTick
  \/ \E cmd \in Command : SendToHub(cmd)
  \/ \E t \in FastTargets : ExecuteFast(t)
  \/ \E c \in Active : FlightWorker(c)
  \/ Elsewhere

\* The NORM thread runs on and active steps return, as in Watchdog.
FlightSpec ==
  /\ FlightInit
  /\ [][FlightNext]_flightVars
  /\ WF_flightVars(FlightNormTick)
  /\ \A c \in Active : WF_flightVars(FlightWorker(c))

-----------------------------------------------------------------------------

\* A command a NORM target executes is legal in the mission state of that
\* moment, not only in that of its dispatch: no escalation comes in between
\* (DV-SEC-02).
ExecutedWhenAllowed ==
  [][\A t \in NormTargets :
       cmd_in[t] # <<>> /\ cmd_in'[t] = Tail(cmd_in[t]) =>
         Hub!Allowed(Head(cmd_in[t]))]_flightVars

\* The composition is still the supervisor of Watchdog: what the hub, the
\* senders and the targets do is what a component of the NORM group may do,
\* and the watchdog's tick still comes round.
SupervisedAsSpecified == Spec

=============================================================================
