-------------------------- MODULE CommandSequencer ---------------------------
(***************************************************************************)
(* CommandSequencerComponent.hpp: a command is staged, committed with a    *)
(* delay into the first free of MAX_SCHEDULED entries, and sent to the hub *)
(* by the first step that finds it due.  A command is <<target, opcode,    *)
(* argument>>; the opcodes that stage one field each are one, STAGE, whose *)
(* argument is the command staged.                                         *)
(***************************************************************************)
EXTENDS NormTick

CONSTANT MAX_SCHEDULED

ASSUME CommandSequencerAssumption == MAX_SCHEDULED \in Nat

VARIABLES
  seq_cmd_in,
  staged_command_,
  queue_,         \* the entries; history: "left", the time until one is due, and
                  \* "long", for a delay beyond half the range of the clock
  releasing,      \* the entries the scan under way has still to send
  seq_errors

seqVars == <<seq_cmd_in, staged_command_, queue_, releasing, seq_errors>>

NoEntry == [active |-> FALSE, release |-> 0, command |-> <<>>, job |-> 0, left |-> 0,
            long |-> FALSE]

SeqInit ==
  /\ seq_cmd_in = <<>>
  /\ staged_command_ = <<"other", "WORK", 0>>
  /\ queue_ = [i \in 1 .. MAX_SCHEDULED |-> NoEntry]
  /\ releasing = {}
  /\ seq_errors = 0

Queued == {i \in DOMAIN queue_ : queue_[i].active}
FreeEntries == DOMAIN queue_ \ Queued

\* MUTANT of IsDue: the times are compared as they are.
IsDueUnwrapped(release) == met >= release

\* MUTANT of IsDue: due only in the very tick of its release.
IsDueExactly(release) == met = release

IsDue(release) == (met + Wrap - release) % Wrap < Wrap \div 2

-----------------------------------------------------------------------------
(* handleCommand *)

SeqHandles(opcode) ==
  /\ at = "cmd_sequencer"
  /\ seq_cmd_in # <<>>
  /\ Head(seq_cmd_in)[2] = opcode
  /\ seq_cmd_in' = Tail(seq_cmd_in)
  /\ UNCHANGED <<at, cmd_input, met, stall, releasing>>

SeqStage ==
  /\ SeqHandles("STAGE")
  /\ staged_command_' = Head(seq_cmd_in)[3]
  /\ UNCHANGED <<queue_, seq_errors, fate>>

SeqSchedule ==
  LET delay == Head(seq_cmd_in)[3]
  IN  /\ SeqHandles("COMMIT_DELAY")
      /\ NextJob \in Jobs
      /\ FreeEntries # {}
      /\ queue_' = [queue_ EXCEPT ![Min(FreeEntries)] =
                      [active |-> TRUE, release |-> (met + delay) % Wrap,
                       command |-> staged_command_, job |-> NextJob,
                       left |-> delay, long |-> delay > Wrap \div 2]]
      /\ fate' = Fated({NextJob}, "waiting")
      /\ UNCHANGED <<staged_command_, seq_errors>>

SeqFull ==
  /\ SeqHandles("COMMIT_DELAY")
  /\ NextJob \in Jobs
  /\ FreeEntries = {}
  /\ seq_errors' = Counted(seq_errors)
  /\ fate' = Fated({NextJob}, "lost")
  /\ UNCHANGED <<staged_command_, queue_>>

SeqClear ==
  /\ SeqHandles("CLEAR")
  /\ queue_' = [i \in DOMAIN queue_ |-> NoEntry]
  /\ fate' = Fated({queue_[i].job : i \in Queued}, "cleared")
  /\ UNCHANGED <<staged_command_, seq_errors>>

SeqBadOpcode ==
  /\ SeqHandles("BAD")
  /\ seq_errors' = Counted(seq_errors)
  /\ UNCHANGED <<staged_command_, queue_, fate>>

-----------------------------------------------------------------------------
(* the rest of step *)

\* The port is drained, the clock is read and the scan begins.
SeqScan ==
  /\ at = "cmd_sequencer"
  /\ seq_cmd_in = <<>>
  /\ releasing' = {i \in Queued : IsDue(queue_[i].release)}
  /\ at' = "releasing"
  /\ stall' = 0
  /\ UNCHANGED <<cmd_input, met, fate, seq_cmd_in, staged_command_, queue_, seq_errors>>

\* MUTANT of SeqRelease: the result of send is not looked at.
SeqReleaseUnchecked ==
  LET i == Min(releasing)
  IN  /\ releasing # {}
      /\ releasing' = releasing \ {i}
      /\ cmd_input' = Sent(cmd_input, queue_[i].command)
      /\ fate' = Fated({queue_[i].job}, IF HasRoom(cmd_input) THEN "sent" ELSE "lost")
      /\ queue_' = [queue_ EXCEPT ![i] = NoEntry]
      /\ UNCHANGED <<at, met, stall, seq_cmd_in, staged_command_, seq_errors>>

\* The first entry that was due: it is given up whether the hub takes it or not.
SeqRelease ==
  LET i == Min(releasing)
  IN  /\ releasing # {}
      /\ releasing' = releasing \ {i}
      /\ cmd_input' = Sent(cmd_input, queue_[i].command)
      /\ \/ /\ HasRoom(cmd_input)
            /\ fate' = Fated({queue_[i].job}, "sent")
            /\ UNCHANGED seq_errors
         \/ /\ ~HasRoom(cmd_input)
            /\ fate' = Fated({queue_[i].job}, "lost")
            /\ seq_errors' = Counted(seq_errors)
      /\ queue_' = [queue_ EXCEPT ![i] = NoEntry]
      /\ UNCHANGED <<at, met, stall, seq_cmd_in, staged_command_>>

SeqReturns ==
  /\ at = "releasing"
  /\ releasing = {}
  /\ at' = "ats_rts"
  /\ UNCHANGED <<cmd_input, met, stall, fate, seqVars>>

SeqStep ==
  \/ SeqStage \/ SeqSchedule \/ SeqFull \/ SeqClear \/ SeqBadOpcode
  \/ SeqScan \/ SeqRelease \/ SeqReturns

=============================================================================
