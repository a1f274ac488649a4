----------------------------- MODULE Sequencing ------------------------------
(***************************************************************************)
(* The command sequencer, the ATS/RTS sequencer and the mode manager in    *)
(* the NORM tick, which step after the hub and all send into its one port, *)
(* beside the radio, whose thread does so at any moment.  What they send   *)
(* may come back to one of them in the next tick.  The gate of the hub is  *)
(* modelled in CommandHub: here it may refuse any command.  Two sends at   *)
(* one moment are modelled in PortRing: here a send is one step.           *)
(***************************************************************************)
EXTENDS CommandSequencer, AtsRts, ModeManager

CONSTANTS
  Campaign,     \* bound: each the commands the ground uses together, and the
                \* sources whose events arrive meanwhile
  RadioBurst    \* bound: commands of the radio in one tick

VARIABLES
  campaign,     \* what the ground and the other components do in this behaviour
  burst         \* commands of the radio since the tick began

vars == <<at, cmd_input, met, stall, fate, seqVars, atsVars, modeVars, campaign, burst>>

FromGround == UNION {c.commands : c \in Campaign}
Staged(name) == {c[3] : c \in {d \in FromGround : d[1] = name /\ d[2] = "STAGE"}}

Command ==
  FromGround \cup {<<"other", "WORK", 0>>} \cup
  Staged("cmd_sequencer") \cup {plan.cmd : plan \in Staged("ats_rts")} \cup
  UNION {{<<rule.target, rule.enable, 0>>, <<rule.target, rule.disable, 0>>} :
           rule \in Staged("mode_manager")}

\* What the argument of a command can be.  A staged command has a scalar for its
\* argument, so it stages nothing; a delay has 32 bits; modes and masks are cut to
\* the modes there are.
ASSUME CommandAssumption ==
  /\ RadioBurst \in Nat
  /\ \A cmd \in Command :
       /\ cmd[2] = "STAGE" => cmd \in FromGround
       /\ cmd[2] = "COMMIT_DELAY" => cmd[3] \in 0 .. Wrap - 1
       /\ cmd[2] = "SET_MODE" => cmd[3] \in Mode
  /\ \A plan \in Staged("ats_rts") :
       plan \in [cmd : Command, trigger : {"ABS_MET", "ABS_UTC", "REL_EVENT"},
                 time : Nat, source : Nat]
  /\ \A rule \in Staged("mode_manager") :
       /\ rule = [target |-> rule.target, enable |-> rule.enable, disable |-> rule.disable,
                  mask |-> rule.mask]
       /\ rule.mask \subseteq Mode

PortOK(port) == Len(port) <= CommandDepth /\ \A k \in DOMAIN port : port[k] \in Command

\* The hub's port and the components' never hold more than their depth, whoever
\* sends (Port.hpp:29-40), and the rest has its type.
TypeOK ==
  /\ at \in {"idle", "cmd_hub", "event_hub", "cmd_sequencer", "releasing", "ats_rts",
             "ats_events", "executing", "mode_manager"}
  /\ PortOK(cmd_input) /\ PortOK(seq_cmd_in) /\ PortOK(ats_cmd_in) /\ PortOK(mode_cmd_in)
  /\ Len(event_in) <= EventDepth /\ \A k \in DOMAIN event_in : event_in[k] \in campaign.sources
  /\ met \in 0 .. Wrap - 1 /\ stall \in 0 .. MaxStall
  /\ fate \in [Jobs -> {"new", "waiting", "sent", "lost", "cleared"}]
  /\ \A i \in Queued : queue_[i].command \in Command /\ queue_[i].release \in 0 .. Wrap - 1
  /\ \A i \in Active : entries_[i].cmd \in Command /\ entries_[i].left \in Nat
  /\ releasing \subseteq Queued /\ executing \subseteq Active /\ applying \subseteq Ruling
  /\ {seq_errors, ats_errors, mode_errors} \subseteq 0 .. MaxErrors
  /\ current_mode_ \in Mode /\ \A i \in Ruling : rules_[i].mask \subseteq Mode
  /\ burst \in 0 .. RadioBurst /\ campaign \in Campaign

Init ==
  /\ at = "idle"
  /\ cmd_input = <<>>
  /\ met = 0
  /\ stall = 0
  /\ fate = [j \in Jobs |-> "new"]
  /\ SeqInit /\ AtsInit /\ ModeInit
  /\ campaign \in Campaign
  /\ burst = 0

tickVars == <<met, stall, fate, campaign>>

-----------------------------------------------------------------------------

IsCommit(cmd) == cmd[2] \in {"COMMIT_DELAY", "COMMIT"}
CommitsUnderway ==
  Cardinality({place \in {1, 2, 3} \X (1 .. CommandDepth) :
    LET port == <<cmd_input, seq_cmd_in, ats_cmd_in>>[place[1]]
    IN  place[2] \in DOMAIN port /\ IsCommit(port[place[2]])})

\* The radio passes on a command of the ground, or finds the port full.  A
\* commitment is followed only while there is a number left for it.
Radio(cmd) ==
  /\ burst < RadioBurst
  /\ burst' = burst + 1
  /\ IsCommit(cmd) => NextJob + CommitsUnderway \in Jobs
  /\ HasRoom(cmd_input)
  /\ cmd_input' = Append(cmd_input, cmd)
  /\ UNCHANGED <<at, tickVars, seqVars, atsVars, modeVars>>

\* The clock goes on for every entry that waits for MET.  The 32-bit reading of
\* it is followed only while the command sequencer has an entry to compare.
MetTicks ==
  /\ \/ /\ Queued # {}
        /\ stall < MaxStall
        /\ stall' = stall + 1
        /\ met' = (met + 1) % Wrap
     \/ /\ Queued = {}
        /\ UNCHANGED <<met, stall>>
  /\ queue_' = [i \in DOMAIN queue_ |-> [queue_[i] EXCEPT !.left = Sooner(@)]]
  /\ entries_' = [i \in DOMAIN entries_ |->
                    IF entries_[i].trigger = "ABS_MET"
                    THEN [entries_[i] EXCEPT !.left = Sooner(@)] ELSE entries_[i]]
  /\ UNCHANGED <<at, cmd_input, fate, seq_cmd_in, staged_command_, releasing, seq_errors,
                 ats_cmd_in, event_in, armed_, staged_, executing, ats_errors, modeVars,
                 campaign, burst>>

\* UTC may stand still or jump, as it is synchronised, but never goes back.
UtcMoves ==
  /\ entries_' = [i \in DOMAIN entries_ |->
                    IF entries_[i].trigger = "ABS_UTC"
                    THEN [entries_[i] EXCEPT !.left = Sooner(@)] ELSE entries_[i]]
  /\ UNCHANGED <<at, cmd_input, seqVars, ats_cmd_in, event_in, armed_, staged_, executing,
                 ats_errors, modeVars, tickVars, burst>>

BeginTick ==
  /\ at = "idle"
  /\ at' = "cmd_hub"
  /\ burst' = 0
  /\ UNCHANGED <<cmd_input, tickVars, seqVars, atsVars, modeVars>>

\* The hub forwards the next command to its target, or refuses it.
HubForwards ==
  LET cmd == Head(cmd_input)
      To(name, port) == IF cmd[1] = name THEN Sent(port, cmd) ELSE port
  IN  /\ at = "cmd_hub"
      /\ cmd_input # <<>>
      /\ cmd_input' = Tail(cmd_input)
      /\ \/ /\ seq_cmd_in' = To("cmd_sequencer", seq_cmd_in)
            /\ ats_cmd_in' = To("ats_rts", ats_cmd_in)
            /\ mode_cmd_in' = To("mode_manager", mode_cmd_in)
         \/ UNCHANGED <<seq_cmd_in, ats_cmd_in, mode_cmd_in>>
      /\ UNCHANGED <<at, tickVars, burst, staged_command_, queue_, releasing, seq_errors,
                     event_in, armed_, staged_, entries_, executing, ats_errors,
                     current_mode_, staged_rule_, rules_, applying, mode_errors>>

HubReturns ==
  /\ at = "cmd_hub"
  /\ cmd_input = <<>>
  /\ at' = "event_hub"
  /\ UNCHANGED <<cmd_input, tickVars, burst, seqVars, atsVars, modeVars>>

\* The event hub broadcasts an event; the listener's port may be full.
EventArrives(source) ==
  /\ at = "event_hub"
  /\ Len(event_in) < EventDepth
  /\ event_in' = Append(event_in, source)
  /\ UNCHANGED <<at, cmd_input, tickVars, burst, seqVars, ats_cmd_in, armed_, staged_,
                 entries_, executing, ats_errors, modeVars>>

EventHubReturns ==
  /\ at = "event_hub"
  /\ at' = "cmd_sequencer"
  /\ UNCHANGED <<cmd_input, tickVars, burst, seqVars, atsVars, modeVars>>

Hubs ==
  \/ BeginTick \/ HubForwards \/ HubReturns
  \/ (\E s \in campaign.sources : EventArrives(s)) \/ EventHubReturns

NormThread ==
  \/ Hubs
  \/ SeqStep /\ UNCHANGED <<atsVars, modeVars, campaign, burst>>
  \/ AtsStep /\ UNCHANGED <<seqVars, modeVars, campaign, burst>>
  \/ ModeStep /\ UNCHANGED <<seqVars, atsVars, campaign, burst>>

Next ==
  \/ NormThread
  \/ \E cmd \in campaign.commands : Radio(cmd) /\ UNCHANGED campaign
  \/ MetTicks
  \/ UtcMoves

Spec == Init /\ [][Next]_vars

-----------------------------------------------------------------------------

\* A command committed to either sequencer leaves it at most once, whatever
\* entry it was in and however the clock wraps, not before its time and, after an
\* event, not before its delay.  Excepted is a delay of more than half the range of
\* the clock, which the command sequencer takes for the past.
QueueDue == {i \in Queued : queue_[i].left = 0 \/ queue_[i].long}
DueJobs == {queue_[i].job : i \in QueueDue} \cup {entries_[i].job : i \in AtsDue}

TheAgenda == INSTANCE Agenda WITH Job <- Jobs, due <- DueJobs

ImplementsAgenda == TheAgenda!Spec

\* A commitment that was dropped, for want of an entry or of room in the hub's
\* port, has left an error the watchdog can see.
LossIsRecorded ==
  Cardinality({j \in Jobs : fate[j] = "lost"}) <= seq_errors + ats_errors

\* However rules are committed, replaced and cleared, no target has two, so that
\* applying a mode never sends it contradicting commands.
OneRulePerTarget ==
  \A i, k \in Ruling : rules_[i].target = rules_[k].target => i = k

\* The scan passes over no entry of the command sequencer whose time has come, even
\* though it was held up meanwhile and compares times modulo the clock's range: one
\* passed over for half a range would look early again.
NoneOverdue ==
  [][at = "cmd_sequencer" /\ at' = "releasing" =>
       \A i \in Queued : queue_[i].left = 0 /\ ~queue_[i].long => i \in releasing']_vars

=============================================================================
