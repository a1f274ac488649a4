----------------------------- MODULE ModeManager -----------------------------
(***************************************************************************)
(* ModeManagerComponent.hpp: one rule for each target says which command   *)
(* it gets when the rules are applied, by whether its mask has the current *)
(* mode.  The opcodes that stage one field each are one, STAGE; a rule may *)
(* have "none" for an opcode, the code's 0.                                *)
(***************************************************************************)
EXTENDS NormTick

CONSTANTS
  MAX_RULES,
  Mode

ASSUME ModeManagerAssumption == MAX_RULES \in Nat /\ "SUN_POINTING" \in Mode

VARIABLES
  mode_cmd_in,
  current_mode_,
  staged_rule_,   \* staged_target_id_ ("none" for 0), opcodes and mode mask
  rules_,
  applying,       \* the rules applyCurrentMode has still to send
  mode_errors

modeVars == <<mode_cmd_in, current_mode_, staged_rule_, rules_, applying, mode_errors>>

NoRule == [active |-> FALSE, target |-> "none", enable |-> "none", disable |-> "none",
           mask |-> {}, last_enabled |-> FALSE]

ModeInit ==
  /\ mode_cmd_in = <<>>
  /\ current_mode_ = "SUN_POINTING"
  /\ staged_rule_ = [target |-> "none", enable |-> "none", disable |-> "none",
                     mask |-> {"SUN_POINTING"}]
  /\ rules_ = [i \in 1 .. MAX_RULES |-> NoRule]
  /\ applying = {}
  /\ mode_errors = 0

Ruling == {i \in DOMAIN rules_ : rules_[i].active}

\* findRule, allocRule: the rule of the target, else a free one; at most one.
\* MUTANT of RuleFor: always a free one.
RuleForAlwaysNew(target) ==
  {i \in DOMAIN rules_ : ~rules_[i].active /\ \A k \in DOMAIN rules_ : k < i => rules_[k].active}

RuleFor(target) ==
  LET own == {i \in Ruling : rules_[i].target = target}
      free == DOMAIN rules_ \ Ruling
  IN  IF own # {} THEN {Min(own)} ELSE IF free # {} THEN {Min(free)} ELSE {}

-----------------------------------------------------------------------------
(* handleCommand *)

ModeHandles(opcode) ==
  /\ at = "mode_manager"
  /\ applying = {}
  /\ mode_cmd_in # <<>>
  /\ Head(mode_cmd_in)[2] = opcode
  /\ mode_cmd_in' = Tail(mode_cmd_in)
  /\ UNCHANGED <<at, cmd_input, met, stall, fate>>

ModeStage ==
  /\ ModeHandles("STAGE")
  /\ staged_rule_' = Head(mode_cmd_in)[3]
  /\ UNCHANGED <<current_mode_, rules_, applying, mode_errors>>

CommitRule ==
  /\ ModeHandles("COMMIT_RULE")
  /\ staged_rule_.target # "none"
  /\ \E i \in RuleFor(staged_rule_.target) :
       rules_' = [rules_ EXCEPT ![i] =
                    [active |-> TRUE, target |-> staged_rule_.target,
                     enable |-> staged_rule_.enable, disable |-> staged_rule_.disable,
                     mask |-> staged_rule_.mask,
                     last_enabled |-> FALSE]]
  /\ UNCHANGED <<current_mode_, staged_rule_, applying, mode_errors>>

RefuseRule ==
  /\ ModeHandles("COMMIT_RULE")
  /\ staged_rule_.target = "none" \/ RuleFor(staged_rule_.target) = {}
  /\ mode_errors' = Counted(mode_errors)
  /\ UNCHANGED <<current_mode_, staged_rule_, rules_, applying>>

ClearRules ==
  /\ ModeHandles("CLEAR_RULES")
  /\ rules_' = [i \in DOMAIN rules_ |-> NoRule]
  /\ UNCHANGED <<current_mode_, staged_rule_, applying, mode_errors>>

SetMode ==
  /\ ModeHandles("SET_MODE")
  /\ current_mode_' = Head(mode_cmd_in)[3]
  /\ UNCHANGED <<staged_rule_, rules_, applying, mode_errors>>

Enabled(i) == current_mode_ \in rules_[i].mask
OpcodeOf(i) == IF Enabled(i) THEN rules_[i].enable ELSE rules_[i].disable

\* applyCurrentMode: a rule without an opcode for the mode is passed over.
ApplyMode ==
  /\ ModeHandles("APPLY_MODE")
  /\ applying' = {i \in Ruling : OpcodeOf(i) # "none"}
  /\ UNCHANGED <<current_mode_, staged_rule_, rules_, mode_errors>>

ApplyRule ==
  LET i == Min(applying)
  IN  /\ at = "mode_manager"
      /\ applying # {}
      /\ applying' = applying \ {i}
      /\ cmd_input' = Sent(cmd_input, <<rules_[i].target, OpcodeOf(i), 0>>)
      /\ mode_errors' = IF HasRoom(cmd_input) THEN mode_errors ELSE Counted(mode_errors)
      /\ rules_' = [rules_ EXCEPT ![i].last_enabled = Enabled(i)]
      /\ UNCHANGED <<at, met, stall, fate, mode_cmd_in, current_mode_, staged_rule_>>

ReportStatus ==
  /\ ModeHandles("REPORT_STATUS")
  /\ UNCHANGED <<current_mode_, staged_rule_, rules_, applying, mode_errors>>

ModeBadOpcode ==
  /\ ModeHandles("BAD")
  /\ mode_errors' = Counted(mode_errors)
  /\ UNCHANGED <<current_mode_, staged_rule_, rules_, applying>>

\* The last of the four: the NORM tick goes on to its end.
ModeReturns ==
  /\ at = "mode_manager"
  /\ applying = {}
  /\ mode_cmd_in = <<>>
  /\ at' = "idle"
  /\ UNCHANGED <<cmd_input, met, stall, fate, modeVars>>

ModeStep ==
  \/ ModeStage \/ CommitRule \/ RefuseRule \/ ClearRules \/ SetMode
  \/ ApplyMode \/ ApplyRule \/ ReportStatus \/ ModeBadOpcode \/ ModeReturns

=============================================================================
