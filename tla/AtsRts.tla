------------------------------- MODULE AtsRts --------------------------------
(***************************************************************************)
(* AtsRtsSequencerComponent.hpp: commands bound to an absolute time (ATS)  *)
(* or to a delay after an event (RTS), sent while the sequencer is armed.  *)
(* The opcodes that stage one field each are one, STAGE, whose argument is *)
(* the whole of what is staged.  MET and UTC are 64 bits wide here and     *)
(* never go backwards, so an entry keeps the time it has still to go.      *)
(***************************************************************************)
EXTENDS NormTick

CONSTANTS
  MAX_SEQUENCE_ENTRIES,
  EventDepth             \* QUEUE_DEPTH of event_in

ASSUME AtsRtsAssumption == MAX_SEQUENCE_ENTRIES \in Nat /\ EventDepth \in Nat

VARIABLES
  ats_cmd_in,
  event_in,       \* the source of each event the hub passed on
  armed_,
  staged_,        \* staged_cmd_, staged_trigger_, staged_event_source_, time
  entries_,
  executing,      \* the entries found due that are still to be sent
  ats_errors

atsVars == <<ats_cmd_in, event_in, armed_, staged_, entries_, executing, ats_errors>>

Empty == [active |-> FALSE, waiting_event |-> FALSE, trigger |-> "ABS_MET", source |-> 0,
          left |-> 0, cmd |-> <<>>, job |-> 0]

AtsInit ==
  /\ ats_cmd_in = <<>>
  /\ event_in = <<>>
  /\ armed_ = FALSE
  /\ staged_ = [cmd |-> <<"other", "WORK", 0>>, trigger |-> "ABS_MET", time |-> 0,
                source |-> 0]
  /\ entries_ = [i \in 1 .. MAX_SEQUENCE_ENTRIES |-> Empty]
  /\ executing = {}
  /\ ats_errors = 0

Active == {i \in DOMAIN entries_ : entries_[i].active}
FreeSlots == DOMAIN entries_ \ Active

-----------------------------------------------------------------------------
(* handleCommand *)

AtsHandles(opcode) ==
  /\ at = "ats_rts"
  /\ ats_cmd_in # <<>>
  /\ Head(ats_cmd_in)[2] = opcode
  /\ ats_cmd_in' = Tail(ats_cmd_in)
  /\ UNCHANGED <<at, cmd_input, met, stall, event_in, executing>>

AtsStage ==
  /\ AtsHandles("STAGE")
  /\ staged_' = Head(ats_cmd_in)[3]
  /\ UNCHANGED <<armed_, entries_, ats_errors, fate>>

\* An absolute time may be near, far or past; a delay only starts to run with
\* its event.
AtsCommit ==
  /\ AtsHandles("COMMIT")
  /\ NextJob \in Jobs
  /\ FreeSlots # {}
  /\ \E left \in 0 .. staged_.time :
       /\ staged_.trigger = "REL_EVENT" => left = staged_.time
       /\ entries_' = [entries_ EXCEPT ![Min(FreeSlots)] =
                         [active |-> TRUE, waiting_event |-> staged_.trigger = "REL_EVENT",
                          trigger |-> staged_.trigger, source |-> staged_.source,
                          left |-> left, cmd |-> staged_.cmd, job |-> NextJob]]
  /\ fate' = Fated({NextJob}, "waiting")
  /\ UNCHANGED <<armed_, staged_, ats_errors>>

AtsFull ==
  /\ AtsHandles("COMMIT")
  /\ NextJob \in Jobs
  /\ FreeSlots = {}
  /\ ats_errors' = Counted(ats_errors)
  /\ fate' = Fated({NextJob}, "lost")
  /\ UNCHANGED <<armed_, staged_, entries_>>

AtsArm(opcode) ==
  /\ AtsHandles(opcode)
  /\ armed_' = (opcode = "ARM")
  /\ UNCHANGED <<staged_, entries_, ats_errors, fate>>

AtsClear ==
  /\ AtsHandles("CLEAR")
  /\ entries_' = [i \in DOMAIN entries_ |-> Empty]
  /\ fate' = Fated({entries_[i].job : i \in Active}, "cleared")
  /\ UNCHANGED <<armed_, staged_, ats_errors>>

AtsBadOpcode ==
  /\ AtsHandles("BAD")
  /\ ats_errors' = Counted(ats_errors)
  /\ UNCHANGED <<armed_, staged_, entries_, fate>>

AtsDrained ==
  /\ at = "ats_rts"
  /\ ats_cmd_in = <<>>
  /\ at' = "ats_events"
  /\ UNCHANGED <<cmd_input, met, stall, fate, atsVars>>

-----------------------------------------------------------------------------
(* onEvent *)

Matches(e, source) ==
  e.active /\ e.waiting_event /\ e.source \in {0, source}

\* An event that finds the sequencer disarmed is forgotten.
OnEvent ==
  /\ at = "ats_events"
  /\ event_in # <<>>
  /\ event_in' = Tail(event_in)
  /\ entries_' = [i \in DOMAIN entries_ |->
                    IF armed_ /\ Matches(entries_[i], Head(event_in))
                    THEN [entries_[i] EXCEPT !.waiting_event = FALSE, !.trigger = "ABS_MET"]
                    ELSE entries_[i]]
  /\ UNCHANGED <<at, cmd_input, met, stall, fate, ats_cmd_in, armed_, staged_, executing,
                 ats_errors>>

-----------------------------------------------------------------------------
(* executeDueEntries *)

AtsDue == {i \in Active : ~entries_[i].waiting_event /\ entries_[i].left = 0}

AtsScan ==
  /\ at = "ats_events"
  /\ event_in = <<>>
  /\ at' = "executing"
  /\ executing' = IF armed_ THEN AtsDue ELSE {}
  /\ UNCHANGED <<cmd_input, met, stall, fate, ats_cmd_in, event_in, armed_, staged_,
                 entries_, ats_errors>>

AtsExecute ==
  LET i == Min(executing)
  IN  /\ at = "executing"
      /\ executing # {}
      /\ executing' = executing \ {i}
      /\ cmd_input' = Sent(cmd_input, entries_[i].cmd)
      /\ \/ /\ HasRoom(cmd_input)
            /\ fate' = Fated({entries_[i].job}, "sent")
            /\ UNCHANGED ats_errors
         \/ /\ ~HasRoom(cmd_input)
            /\ fate' = Fated({entries_[i].job}, "lost")
            /\ ats_errors' = Counted(ats_errors)
      /\ entries_' = [entries_ EXCEPT ![i] = Empty]
      /\ UNCHANGED <<at, met, stall, ats_cmd_in, event_in, armed_, staged_>>

AtsReturns ==
  /\ at = "executing"
  /\ executing = {}
  /\ at' = "mode_manager"
  /\ UNCHANGED <<cmd_input, met, stall, fate, atsVars>>

AtsStep ==
  \/ AtsStage \/ AtsCommit \/ AtsFull \/ AtsArm("ARM") \/ AtsArm("DISARM")
  \/ AtsClear \/ AtsBadOpcode \/ AtsDrained
  \/ OnEvent \/ AtsScan \/ AtsExecute \/ AtsReturns

=============================================================================
