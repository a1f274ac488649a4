---------------------------- MODULE MCSequencing -----------------------------
(***************************************************************************)
(* The three senders with two entries each.  In a behaviour the ground     *)
(* uses the commands of one campaign: delays, some of them past a wrap of  *)
(* the clock; entries of the ATS at a time or after an event; rules for    *)
(* the ATS and another target; opcodes that no component has.              *)
(***************************************************************************)
EXTENDS Sequencing

Work == <<"other", "WORK", 0>>

DelayCommands ==
  {<<"cmd_sequencer", "STAGE", <<"cmd_sequencer", "CLEAR", 0>>>>,
   <<"cmd_sequencer", "COMMIT_DELAY", 3>>, <<"cmd_sequencer", "COMMIT_DELAY", 6>>}

Plan(trigger, time, source, cmd) ==
  <<"ats_rts", "STAGE", [cmd |-> cmd, trigger |-> trigger, time |-> time, source |-> source]>>

TimedCommands ==
  {Plan("ABS_MET", 1, 0, Work), Plan("ABS_UTC", 1, 0, <<"ats_rts", "DISARM", 0>>),
   <<"ats_rts", "COMMIT", 0>>, <<"ats_rts", "ARM", 0>>}

EventCommands ==
  {Plan("REL_EVENT", 1, 7, Work), Plan("REL_EVENT", 0, 0, <<"ats_rts", "CLEAR", 0>>),
   <<"ats_rts", "COMMIT", 0>>, <<"ats_rts", "ARM", 0>>}

WrongCommands ==
  {<<"cmd_sequencer", "BAD", 0>>, <<"ats_rts", "BAD", 0>>, <<"mode_manager", "BAD", 0>>}

Rule(target, enable, disable, mode) ==
  <<"mode_manager", "STAGE", [target |-> target, enable |-> enable, disable |-> disable,
                              mask |-> {mode}]>>

ModeCommands ==
  {Rule("ats_rts", "ARM", "DISARM", "SCIENCE_GATHERING"),
   Rule("other", "none", "WORK", "SUN_POINTING"),
   <<"mode_manager", "COMMIT_RULE", 0>>, <<"mode_manager", "CLEAR_RULES", 0>>,
   <<"mode_manager", "SET_MODE", "SCIENCE_GATHERING">>,
   <<"mode_manager", "SET_MODE", "SUN_POINTING">>,
   <<"mode_manager", "APPLY_MODE", 0>>, <<"mode_manager", "REPORT_STATUS", 0>>}

MCCampaign ==
  {[commands |-> c, sources |-> {}] :
     c \in {DelayCommands, TimedCommands, ModeCommands, WrongCommands}} \cup
  {[commands |-> EventCommands, sources |-> {7, 8}]}
MCMode == {"SUN_POINTING", "SCIENCE_GATHERING"}

=============================================================================
