-------------------------- MODULE SequencingProofs ---------------------------
(***************************************************************************)
(* What the sequencers and the mode manager keep, for any number of        *)
(* entries, rules and commitments, any depth of the ports and range of the *)
(* clock, and anything the ground and the radio send: a dropped commitment *)
(* leaves an error, no target has two rules, every port and table has its  *)
(* type, and the two tables together are an Agenda.                        *)
(***************************************************************************)
EXTENDS Sequencing, FiniteSetTheorems, WellFoundedInduction, TLAPS

LEMMA Constants == MAX_RULES \in Nat /\ MaxJobs \in Nat /\ MaxErrors \in Nat /\ MaxErrors > MaxJobs
BY NormTickAssumption, ModeManagerAssumption

-----------------------------------------------------------------------------
(* Dropped commitments.                                                    *)

Lost == {j \in Jobs : fate[j] = "lost"}

\* An error counter is not followed beyond MaxErrors, more than can be lost.
LossInv ==
  /\ seq_errors \in Nat /\ ats_errors \in Nat
  /\ fate \in [Jobs -> {"new", "waiting", "sent", "lost", "cleared"}]
  /\ Cardinality(Lost) <= seq_errors + ats_errors

LEMMA LostIsFinite ==
  ASSUME NEW S, S \subseteq Jobs
  PROVE  IsFiniteSet(S) /\ Cardinality(S) \in Nat /\ Cardinality(S) <= MaxJobs
<1>1. IsFiniteSet(Jobs) /\ Cardinality(Jobs) = MaxJobs
  <2>1. IsFiniteSet(1 .. MaxJobs) /\ Cardinality(1 .. MaxJobs) = IF 1 > MaxJobs THEN 0 ELSE MaxJobs - 1 + 1
    BY Constants, FS_Interval
  <2> QED BY <2>1, Constants DEF Jobs
<1> QED BY <1>1, FS_Subset, FS_CardinalityType

\* Nothing else than a loss makes the lost more, and a loss makes them one more.
LEMMA NoneLost ==
  ASSUME NEW S, NEW f, f # "lost", fate' = Fated(S, f)
  PROVE  Lost' \subseteq Lost
BY DEF Lost, Fated, Jobs

LEMMA OneLost ==
  ASSUME NEW x, fate' = Fated({x}, "lost")
  PROVE  Lost' \subseteq Lost \cup {x}
BY DEF Lost, Fated, Jobs

LEMMA FewerLost ==
  ASSUME Lost' \subseteq Lost
  PROVE  Cardinality(Lost') <= Cardinality(Lost)
<1>1. Lost \subseteq Jobs
  BY DEF Lost
<1> QED BY <1>1, LostIsFinite, FS_Subset

LEMMA OneMoreLost ==
  ASSUME NEW x, Lost' \subseteq Lost \cup {x}
  PROVE  Cardinality(Lost') <= Cardinality(Lost) + 1 /\ Cardinality(Lost') <= MaxJobs
<1>1. Lost \subseteq Jobs /\ Lost' \subseteq Jobs
  BY DEF Lost, Jobs
<1>2. /\ IsFiniteSet(Lost) /\ Cardinality(Lost) \in Nat
      /\ Cardinality(Lost') \in Nat /\ Cardinality(Lost') <= MaxJobs
  BY <1>1, LostIsFinite
<1>3. /\ IsFiniteSet(Lost \cup {x})
      /\ Cardinality(Lost \cup {x}) = Cardinality(Lost) \/ Cardinality(Lost \cup {x}) = Cardinality(Lost) + 1
  BY <1>2, FS_AddElement
<1>4. Cardinality(Lost') <= Cardinality(Lost \cup {x})
  BY <1>3, FS_Subset
<1> QED BY <1>2, <1>3, <1>4

Fates == {"new", "waiting", "sent", "lost", "cleared"}

LEMMA FatedTyped ==
  ASSUME fate \in [Jobs -> Fates], NEW S, NEW f \in Fates, fate' = Fated(S, f)
  PROVE  fate' \in [Jobs -> Fates]
BY DEF Fated, Jobs

\* The three ways a step treats the commitments.
LEMMA NoLoss ==
  ASSUME LossInv, NEW S, NEW f \in Fates \ {"lost"}, fate' = Fated(S, f) \/ fate' = fate,
         seq_errors' = seq_errors \/ seq_errors' = Counted(seq_errors),
         ats_errors' = ats_errors \/ ats_errors' = Counted(ats_errors)
  PROVE  LossInv'
<1>1. fate' \in [Jobs -> Fates]
  BY FatedTyped DEF LossInv, Fates
<1>2. Lost' \subseteq Lost
  <2>1. CASE fate' = fate
    BY <2>1 DEF Lost, Jobs
  <2>2. CASE fate' = Fated(S, f)
    BY <2>2, NoneLost
  <2> QED BY <2>1, <2>2
<1>3. Cardinality(Lost') <= Cardinality(Lost) /\ Cardinality(Lost') \in Nat /\ Cardinality(Lost) \in Nat
  <2>1. Lost' \subseteq Jobs /\ Lost \subseteq Jobs
    BY DEF Lost, Jobs
  <2> QED BY <1>2, <2>1, FewerLost, LostIsFinite
<1>4. /\ seq_errors' \in Nat /\ seq_errors <= seq_errors'
      /\ ats_errors' \in Nat /\ ats_errors <= ats_errors'
  BY Constants DEF LossInv, Counted
<1>5. Cardinality(Lost') <= seq_errors' + ats_errors'
  BY <1>3, <1>4 DEF LossInv
<1>6. Jobs' = Jobs
  BY DEF Jobs
<1> QED BY <1>1, <1>4, <1>5, <1>6 DEF LossInv, Fates

\* The lost are still no more than the errors when both have gone up by one, or
\* when the errors are not counted further.
LEMMA OneErrorMore ==
  ASSUME NEW e1 \in Nat, NEW e2 \in Nat, NEW f1 \in Nat, NEW f2 \in Nat,
         NEW m \in Nat, NEW n \in Nat, n <= e1 + e2, m <= n + 1, m <= MaxJobs,
         f1 + f2 = e1 + e2 + 1 \/ f1 + f2 >= MaxErrors
  PROVE  m <= f1 + f2
BY Constants

OneCounts ==
  \/ seq_errors' = Counted(seq_errors) /\ ats_errors' = ats_errors
  \/ ats_errors' = Counted(ats_errors) /\ seq_errors' = seq_errors

LEMMA CountedLoss ==
  ASSUME LossInv, NEW x, fate' = Fated({x}, "lost"), OneCounts
  PROVE  LossInv'
<1>1. fate' \in [Jobs -> Fates]
  BY FatedTyped DEF LossInv, Fates
<1>2. Lost' \subseteq Lost \cup {x}
  BY OneLost
<1>3. Lost' \subseteq Jobs /\ Lost \subseteq Jobs
  BY DEF Lost, Jobs
<1>4. /\ Cardinality(Lost') <= Cardinality(Lost) + 1 /\ Cardinality(Lost') <= MaxJobs
      /\ Cardinality(Lost') \in Nat /\ Cardinality(Lost) \in Nat
  BY <1>2, <1>3, OneMoreLost, LostIsFinite
<1>5. /\ seq_errors' \in Nat /\ ats_errors' \in Nat
      /\ \/ seq_errors' + ats_errors' = seq_errors + ats_errors + 1
         \/ seq_errors' + ats_errors' >= MaxErrors
  BY Constants DEF LossInv, Counted, OneCounts
<1>6. Cardinality(Lost') <= seq_errors' + ats_errors'
  <2>1. seq_errors \in Nat /\ ats_errors \in Nat /\ Cardinality(Lost) <= seq_errors + ats_errors
    BY DEF LossInv
  <2> QED BY <1>4, <1>5, <2>1, OneErrorMore, ZenonT(30)
<1>7. Jobs' = Jobs
  BY DEF Jobs
<1> QED BY <1>1, <1>5, <1>6, <1>7 DEF LossInv, Fates

LEMMA LossInit == Init => LossInv
<1> SUFFICES ASSUME Init PROVE LossInv
  OBVIOUS
<1>1. fate = [j \in Jobs |-> "new"] /\ seq_errors = 0 /\ ats_errors = 0
  BY DEF Init, SeqInit, AtsInit
<1>2. Lost = {}
  BY <1>1 DEF Lost
<1>3. Cardinality(Lost) = 0
  BY <1>2, FS_EmptySet
<1> QED BY <1>1, <1>3 DEF LossInv

LEMMA LossKept ==
  ASSUME LossInv, [Next]_vars
  PROVE  LossInv'
<1> USE DEF Fates
<1>1. CASE SeqStep /\ UNCHANGED <<atsVars, modeVars, campaign, burst>>
  <2>0. ats_errors' = ats_errors
    BY <1>1 DEF atsVars
  <2>1. CASE SeqFull
    BY <2>0, <2>1, CountedLoss DEF SeqFull, OneCounts
  <2>2. CASE SeqRelease
    <3> DEFINE x == queue_[Min(releasing)].job
    <3>1. CASE HasRoom(cmd_input)
      <4>1. fate' = Fated({x}, "sent") /\ seq_errors' = seq_errors
        BY <2>2, <3>1 DEF SeqRelease
      <4> HIDE DEF x
      <4> QED BY <2>0, <4>1, NoLoss
    <3>2. CASE ~HasRoom(cmd_input)
      <4>1. fate' = Fated({x}, "lost") /\ seq_errors' = Counted(seq_errors)
        BY <2>2, <3>2 DEF SeqRelease
      <4> HIDE DEF x
      <4> QED BY <2>0, <4>1, CountedLoss DEF OneCounts
    <3> QED BY <3>1, <3>2
  <2>3. CASE SeqSchedule
    <3>1. fate' = Fated({NextJob}, "waiting") /\ seq_errors' = seq_errors
      BY <2>3 DEF SeqSchedule
    <3> QED BY <2>0, <3>1, NoLoss
  <2>4. CASE SeqClear
    <3> DEFINE S == {queue_[i].job : i \in Queued}
    <3>1. fate' = Fated(S, "cleared") /\ seq_errors' = seq_errors
      BY <2>4 DEF SeqClear
    <3> HIDE DEF S
    <3> QED BY <2>0, <3>1, NoLoss
  <2>5. CASE SeqStage \/ SeqBadOpcode \/ SeqScan \/ SeqReturns
    <3>1. fate' = fate /\ (seq_errors' = seq_errors \/ seq_errors' = Counted(seq_errors))
      BY <2>5 DEF SeqStage, SeqBadOpcode, SeqScan, SeqReturns, seqVars
    <3> QED BY <2>0, <3>1, NoLoss
  <2> QED BY <1>1, <2>1, <2>2, <2>3, <2>4, <2>5 DEF SeqStep
<1>2. CASE AtsStep /\ UNCHANGED <<seqVars, modeVars, campaign, burst>>
  <2>0. seq_errors' = seq_errors
    BY <1>2 DEF seqVars
  <2>1. CASE AtsFull
    BY <2>0, <2>1, CountedLoss DEF AtsFull, OneCounts
  <2>2. CASE AtsExecute
    <3> DEFINE x == entries_[Min(executing)].job
    <3>1. CASE HasRoom(cmd_input)
      <4>1. fate' = Fated({x}, "sent") /\ ats_errors' = ats_errors
        BY <2>2, <3>1 DEF AtsExecute
      <4> HIDE DEF x
      <4> QED BY <2>0, <4>1, NoLoss
    <3>2. CASE ~HasRoom(cmd_input)
      <4>1. fate' = Fated({x}, "lost") /\ ats_errors' = Counted(ats_errors)
        BY <2>2, <3>2 DEF AtsExecute
      <4> HIDE DEF x
      <4> QED BY <2>0, <4>1, CountedLoss DEF OneCounts
    <3> QED BY <3>1, <3>2
  <2>3. CASE AtsCommit
    <3>1. fate' = Fated({NextJob}, "waiting") /\ ats_errors' = ats_errors
      BY <2>3 DEF AtsCommit
    <3> QED BY <2>0, <3>1, NoLoss
  <2>4. CASE AtsClear
    <3> DEFINE S == {entries_[i].job : i \in Active}
    <3>1. fate' = Fated(S, "cleared") /\ ats_errors' = ats_errors
      BY <2>4 DEF AtsClear
    <3> HIDE DEF S
    <3> QED BY <2>0, <3>1, NoLoss
  <2>5. CASE \/ AtsStage \/ AtsArm("ARM") \/ AtsArm("DISARM") \/ AtsBadOpcode \/ AtsDrained
             \/ OnEvent \/ AtsScan \/ AtsReturns
    <3>1. fate' = fate /\ (ats_errors' = ats_errors \/ ats_errors' = Counted(ats_errors))
      BY <2>5 DEF AtsStage, AtsArm, AtsBadOpcode, AtsDrained, OnEvent, AtsScan, AtsReturns, atsVars
    <3> QED BY <2>0, <3>1, NoLoss
  <2> QED BY <1>2, <2>1, <2>2, <2>3, <2>4, <2>5 DEF AtsStep
<1>3. CASE ModeStep /\ UNCHANGED <<seqVars, atsVars, campaign, burst>>
  <2>1. seq_errors' = seq_errors /\ ats_errors' = ats_errors
    BY <1>3 DEF seqVars, atsVars
  <2>2. fate' = fate
    BY <1>3 DEF ModeStep, ModeHandles, ModeStage, CommitRule, RefuseRule, ClearRules, SetMode,
       ApplyMode, ApplyRule, ReportStatus, ModeBadOpcode, ModeReturns
  <2> QED BY <2>1, <2>2, NoLoss
<1>4. CASE \/ Hubs \/ MetTicks \/ UtcMoves \/ UNCHANGED vars
           \/ \E cmd \in campaign.commands : Radio(cmd)
  <2>1. fate' = fate /\ seq_errors' = seq_errors /\ ats_errors' = ats_errors
    BY <1>4 DEF Hubs, BeginTick, HubForwards, HubReturns, EventArrives, EventHubReturns,
       Radio, MetTicks, UtcMoves, tickVars, seqVars, atsVars, vars
  <2> QED BY <2>1, NoLoss
<1> QED BY <1>1, <1>2, <1>3, <1>4 DEF Next, NormThread

\* A commitment dropped for want of an entry or of room left an error behind.
THEOREM LossLeavesError == Spec => []LossIsRecorded
<1>1. Init => LossInv
  BY LossInit
<1>2. LossInv /\ [Next]_vars => LossInv'
  BY LossKept
<1>3. LossInv => LossIsRecorded
  BY DEF LossInv, Lost, LossIsRecorded
<1> QED BY <1>1, <1>2, <1>3, PTL DEF Spec

-----------------------------------------------------------------------------
(* The rules of the mode manager.                                          *)

\* A rule has its fields, whatever their values are.
IsRule(r) ==
  r = [active |-> r.active, target |-> r.target, enable |-> r.enable, disable |-> r.disable,
       mask |-> r.mask, last_enabled |-> r.last_enabled]

RulesInv ==
  /\ DOMAIN rules_ = 1 .. MAX_RULES
  /\ rules_ = [i \in 1 .. MAX_RULES |-> rules_[i]]
  /\ \A i \in 1 .. MAX_RULES : IsRule(rules_[i])
  /\ OneRulePerTarget

LEMMA MarkedRule ==
  ASSUME NEW r, IsRule(r), NEW b, NEW s, s = [r EXCEPT !.last_enabled = b]
  PROVE  IsRule(s) /\ s.active = r.active /\ s.target = r.target
BY DEF IsRule

\* A set of indices has a least one, so Min is in it.
LEMMA MinIsThere ==
  ASSUME NEW S, S \subseteq Nat, S # {}
  PROVE  Min(S) \in S
<1>1. PICK x \in S : \A y \in S : ~(<<y, x>> \in OpToRel(<, Nat))
  BY NatLessThanWellFounded, WFMin
<1>2. \A y \in S : x <= y
  <2> SUFFICES ASSUME NEW y \in S PROVE x <= y
    OBVIOUS
  <2>1. x \in Nat /\ y \in Nat /\ <<y, x>> \in Nat \X Nat
    OBVIOUS
  <2>2. ~(y < x)
    BY <1>1, <2>1 DEF OpToRel
  <2> QED BY <2>1, <2>2
<1> QED BY <1>2 DEF Min

\* A rule goes to the slot the target has, or to a free one if it has none.
LEMMA RuleForTarget ==
  ASSUME RulesInv, NEW target, NEW i \in RuleFor(target)
  PROVE  /\ i \in 1 .. MAX_RULES
         /\ \A k \in Ruling : rules_[k].target = target => k = i
<1> DEFINE own == {k \in Ruling : rules_[k].target = target}
           free == DOMAIN rules_ \ Ruling
<1>1. /\ own \subseteq 1 .. MAX_RULES /\ free \subseteq 1 .. MAX_RULES
      /\ own \subseteq Nat /\ free \subseteq Nat
  BY Constants DEF Ruling, RulesInv
<1>2. CASE own # {}
  <2>1. i = Min(own)
    BY <1>2 DEF RuleFor
  <2>2. i \in own
    <3> HIDE DEF own
    <3> QED BY <1>1, <1>2, <2>1, MinIsThere
  <2> QED BY <1>1, <2>2 DEF RulesInv, OneRulePerTarget
<1>3. CASE own = {}
  <2>1. free # {} /\ i = Min(free)
    BY <1>3 DEF RuleFor
  <2>2. i \in free
    <3> HIDE DEF free
    <3> QED BY <1>1, <2>1, MinIsThere
  <2> QED BY <1>1, <1>3, <2>2
<1> QED BY <1>2, <1>3

LEMMA RulesKept ==
  ASSUME RulesInv, [Next]_vars
  PROVE  RulesInv'
<1>1. CASE CommitRule
  <2>1. PICK i \in RuleFor(staged_rule_.target) :
          rules_' = [rules_ EXCEPT ![i] =
                       [active |-> TRUE, target |-> staged_rule_.target,
                        enable |-> staged_rule_.enable, disable |-> staged_rule_.disable,
                        mask |-> staged_rule_.mask, last_enabled |-> FALSE]]
    BY <1>1 DEF CommitRule
  <2>2. /\ i \in 1 .. MAX_RULES
        /\ \A k \in Ruling : rules_[k].target = staged_rule_.target => k = i
    BY <2>1, RuleForTarget
  <2>3. /\ DOMAIN rules_' = 1 .. MAX_RULES
        /\ rules_' = [k \in 1 .. MAX_RULES |-> rules_'[k]]
        /\ rules_'[i].target = staged_rule_.target
        /\ \A k \in 1 .. MAX_RULES : k # i => rules_'[k] = rules_[k]
        /\ IsRule(rules_'[i])
    BY <2>1, <2>2 DEF RulesInv, IsRule
  <2>4. \A k \in Ruling' : k \in 1 .. MAX_RULES /\ (k # i => k \in Ruling /\ rules_'[k] = rules_[k])
    BY <2>3 DEF Ruling, RulesInv
  <2>5. OneRulePerTarget'
    <3> SUFFICES ASSUME NEW j \in Ruling', NEW k \in Ruling', rules_'[j].target = rules_'[k].target
                 PROVE  j = k
      BY DEF OneRulePerTarget
    <3>1. CASE j = i
      BY <2>2, <2>3, <2>4, <3>1
    <3>2. CASE k = i
      BY <2>2, <2>3, <2>4, <3>2
    <3>3. CASE j # i /\ k # i
      BY <2>4, <3>3 DEF RulesInv, OneRulePerTarget
    <3> QED BY <3>1, <3>2, <3>3
  <2>6. \A k \in 1 .. MAX_RULES : IsRule(rules_'[k])
    BY <2>3 DEF RulesInv
  <2> QED BY <2>3, <2>5, <2>6 DEF RulesInv, IsRule
<1>2. CASE ClearRules
  <2>1. rules_' = [i \in 1 .. MAX_RULES |-> NoRule]
    BY <1>2 DEF ClearRules, RulesInv
  <2>2. DOMAIN rules_' = 1 .. MAX_RULES /\ Ruling' = {}
    BY <2>1 DEF Ruling, NoRule
  <2>3. /\ rules_' = [i \in 1 .. MAX_RULES |-> rules_'[i]]
        /\ \A i \in 1 .. MAX_RULES : IsRule(rules_'[i])
    BY <2>1 DEF NoRule, IsRule
  <2> QED BY <2>2, <2>3 DEF RulesInv, OneRulePerTarget, IsRule
<1>3. CASE ApplyRule
  <2>1. PICK i, b : rules_' = [rules_ EXCEPT ![i].last_enabled = b]
    BY <1>3 DEF ApplyRule
  <2>2. /\ DOMAIN rules_' = 1 .. MAX_RULES
        /\ rules_' = [k \in 1 .. MAX_RULES |-> rules_'[k]]
        /\ \A k \in 1 .. MAX_RULES :
             rules_'[k] = IF k = i THEN [rules_[k] EXCEPT !.last_enabled = b] ELSE rules_[k]
    BY <2>1 DEF RulesInv
  <2>4. \A k \in 1 .. MAX_RULES :
          /\ IsRule(rules_'[k])
          /\ rules_'[k].active = rules_[k].active /\ rules_'[k].target = rules_[k].target
    <3> SUFFICES ASSUME NEW k \in 1 .. MAX_RULES
                 PROVE  /\ IsRule(rules_'[k])
                        /\ rules_'[k].active = rules_[k].active
                        /\ rules_'[k].target = rules_[k].target
      OBVIOUS
    <3>1. IsRule(rules_[k])
      BY DEF RulesInv
    <3>2. CASE k = i
      <4>1. rules_'[k] = [rules_[k] EXCEPT !.last_enabled = b]
        BY <2>2, <3>2
      <4> QED BY <3>1, <4>1, MarkedRule
    <3>3. CASE k # i
      BY <2>2, <3>1, <3>3
    <3> QED BY <3>2, <3>3
  <2>3. Ruling' = Ruling /\ Ruling \subseteq 1 .. MAX_RULES
    BY <2>2, <2>4 DEF RulesInv, Ruling
  <2> QED BY <2>2, <2>3, <2>4 DEF RulesInv, OneRulePerTarget, IsRule
<1>4. CASE rules_' = rules_
  BY <1>4 DEF RulesInv, OneRulePerTarget, Ruling, IsRule
<1>5. ~CommitRule /\ ~ClearRules /\ ~ApplyRule => rules_' = rules_
  <2>1. CASE ModeStep
    BY <2>1 DEF ModeStep, ModeStage, RefuseRule, SetMode, ApplyMode, ReportStatus, ModeBadOpcode,
       ModeReturns, modeVars
  <2>2. CASE SeqStep /\ UNCHANGED <<atsVars, modeVars, campaign, burst>>
    BY <2>2 DEF modeVars
  <2>3. CASE AtsStep /\ UNCHANGED <<seqVars, modeVars, campaign, burst>>
    BY <2>3 DEF modeVars
  <2>4. CASE \/ Hubs \/ MetTicks \/ UtcMoves \/ UNCHANGED vars
             \/ \E cmd \in campaign.commands : Radio(cmd)
    BY <2>4 DEF Hubs, BeginTick, HubForwards, HubReturns, EventArrives, EventHubReturns,
       Radio, MetTicks, UtcMoves, modeVars, vars
  <2> QED BY <2>1, <2>2, <2>3, <2>4 DEF Next, NormThread
<1> QED BY <1>1, <1>2, <1>3, <1>4, <1>5

LEMMA RulesInit == Init => RulesInv
<1> SUFFICES ASSUME Init PROVE RulesInv
  OBVIOUS
<1>1. rules_ = [i \in 1 .. MAX_RULES |-> NoRule]
  BY DEF Init, ModeInit
<1>2. DOMAIN rules_ = 1 .. MAX_RULES /\ Ruling = {}
  BY <1>1 DEF Ruling, NoRule
<1>3. \A i \in 1 .. MAX_RULES : IsRule(rules_[i])
  BY <1>1 DEF NoRule, IsRule
<1> QED BY <1>1, <1>2, <1>3 DEF RulesInv, OneRulePerTarget

\* No target ever has two rules, however they are committed, replaced, cleared.
THEOREM TargetsHaveOneRule == Spec => []OneRulePerTarget
<1>1. Init => RulesInv
  BY RulesInit
<1>2. RulesInv /\ [Next]_vars => RulesInv'
  BY RulesKept
<1>3. RulesInv => OneRulePerTarget
  BY DEF RulesInv
<1> QED BY <1>1, <1>2, <1>3, PTL DEF Spec

-----------------------------------------------------------------------------
(* Types.                                                                  *)

For(name) == {cmd \in Command : cmd[1] = name}

InPort(S, port) == port \in Seq(S) /\ Len(port) <= CommandDepth

Entry ==
  [active : BOOLEAN, release : 0 .. Wrap - 1, command : Command \cup {<<>>},
   job : Jobs \cup {0}, left : Nat, long : BOOLEAN]

Trigger == {"ABS_MET", "ABS_UTC", "REL_EVENT"}

Plan == [cmd : Command, trigger : Trigger, time : Nat, source : Nat]

TimedEntry ==
  [active : BOOLEAN, waiting_event : BOOLEAN, trigger : Trigger, source : Nat, left : Nat,
   cmd : Command \cup {<<>>}, job : Jobs \cup {0}]

ThreadTyped ==
  /\ at \in {"idle", "cmd_hub", "event_hub", "cmd_sequencer", "releasing", "ats_rts",
             "ats_events", "executing", "mode_manager"}
  /\ met \in 0 .. Wrap - 1 /\ stall \in 0 .. MaxStall
  /\ burst \in 0 .. RadioBurst /\ campaign \in Campaign

PortsTyped ==
  /\ InPort(Command, cmd_input)
  /\ InPort(For("cmd_sequencer"), seq_cmd_in)
  /\ InPort(For("ats_rts"), ats_cmd_in)
  /\ InPort(For("mode_manager"), mode_cmd_in)
  /\ event_in \in Seq(campaign.sources) /\ Len(event_in) <= EventDepth

SeqTyped ==
  /\ staged_command_ \in Command
  /\ queue_ \in [1 .. MAX_SCHEDULED -> Entry]
  /\ \A i \in Queued : queue_[i].command \in Command
  /\ releasing \subseteq Queued
  /\ seq_errors \in 0 .. MaxErrors

AtsTyped ==
  /\ staged_ \in Plan
  /\ entries_ \in [1 .. MAX_SEQUENCE_ENTRIES -> TimedEntry]
  /\ \A i \in Active : entries_[i].cmd \in Command
  /\ executing \subseteq Active
  /\ ats_errors \in 0 .. MaxErrors

\* A rule in force is one the ground staged; until then "none" is staged.
Follows(r, rule) ==
  /\ r.target = rule.target
  /\ r.enable = rule.enable
  /\ r.disable = rule.disable
  /\ r.mask = rule.mask

ModeTyped ==
  /\ current_mode_ \in Mode
  /\ staged_rule_.target = "none" \/ staged_rule_ \in Staged("mode_manager")
  /\ \A i \in Ruling : \E rule \in Staged("mode_manager") : Follows(rules_[i], rule)
  /\ applying \subseteq Ruling
  /\ mode_errors \in 0 .. MaxErrors

\* The scan under way belongs to the place where the thread is.
Places ==
  /\ releasing # {} => at = "releasing"
  /\ executing # {} => at = "executing"
  /\ applying # {} => at = "mode_manager"

TypedInv ==
  ThreadTyped /\ PortsTyped /\ SeqTyped /\ AtsTyped /\ ModeTyped /\ Places /\ RulesInv

-----------------------------------------------------------------------------

LEMMA Bounds ==
  /\ CommandDepth \in Nat \ {0} /\ EventDepth \in Nat /\ RadioBurst \in Nat
  /\ MAX_SCHEDULED \in Nat /\ MAX_SEQUENCE_ENTRIES \in Nat
  /\ Wrap \in Nat /\ Wrap \div 2 \in Nat /\ Wrap = 2 * (Wrap \div 2)
  /\ MaxStall \in Nat /\ MaxStall > 0 /\ MaxStall < Wrap \div 2
BY NormTickAssumption, CommandSequencerAssumption, AtsRtsAssumption, CommandAssumption

LEMMA GroundCommands ==
  ASSUME NEW c \in Campaign
  PROVE  c.commands \subseteq Command
BY DEF Command, FromGround

\* What a command stages, by the component it is for.
LEMMA StagedBy ==
  ASSUME NEW name, NEW cmd \in For(name), cmd[2] = "STAGE"
  PROVE  /\ cmd[3] \in Staged(name)
         /\ name = "cmd_sequencer" => cmd[3] \in Command
         /\ name = "ats_rts" => cmd[3] \in Plan
<1>1. cmd \in FromGround
  BY CommandAssumption DEF For
<1>2. cmd[3] \in Staged(name)
  BY <1>1 DEF Staged, For
<1>3. Staged("cmd_sequencer") \subseteq Command
  BY DEF Command
<1>4. \A plan \in Staged("ats_rts") : plan \in Plan
  BY CommandAssumption DEF Plan, Trigger
<1> QED BY <1>2, <1>3, <1>4

LEMMA RuleCommands ==
  ASSUME NEW rule \in Staged("mode_manager")
  PROVE  /\ <<rule.target, rule.enable, 0>> \in Command
         /\ <<rule.target, rule.disable, 0>> \in Command
         /\ rule.mask \subseteq Mode
BY CommandAssumption DEF Command

LEMMA HeadTail ==
  ASSUME NEW S, NEW port, InPort(S, port), port # <<>>
  PROVE  Head(port) \in S /\ InPort(S, Tail(port))
BY Bounds DEF InPort

LEMMA SentTyped ==
  ASSUME NEW S, NEW port, InPort(S, port), NEW cmd \in S
  PROVE  InPort(S, Sent(port, cmd))
BY Bounds DEF InPort, Sent, HasRoom

LEMMA ErrorsTyped ==
  ASSUME NEW n \in 0 .. MaxErrors
  PROVE  Counted(n) \in 0 .. MaxErrors
BY Constants DEF Counted

LEMMA TypedInit == Init => TypedInv
<1> SUFFICES ASSUME Init PROVE TypedInv
  OBVIOUS
<1>1. ThreadTyped
  BY Bounds DEF Init, ThreadTyped
<1>2. PortsTyped
  BY Bounds DEF Init, SeqInit, AtsInit, ModeInit, PortsTyped, InPort
<1>3. <<"other", "WORK", 0>> \in Command
  BY DEF Command
<1>4. SeqTyped
  BY <1>3, Bounds, Constants DEF Init, SeqInit, SeqTyped, Entry, NoEntry, Queued
<1>5. AtsTyped
  BY <1>3, Bounds, Constants DEF Init, AtsInit, AtsTyped, TimedEntry, Empty, Active, Plan, Trigger
<1>6. ModeTyped
  BY Constants, ModeManagerAssumption DEF Init, ModeInit, ModeTyped, NoRule, Ruling
<1>7. Places
  BY DEF Init, SeqInit, AtsInit, ModeInit, Places
<1>8. RulesInv
  BY RulesInit
<1> QED BY <1>1, <1>2, <1>3, <1>4, <1>5, <1>6, <1>7, <1>8 DEF TypedInv

LEMMA ThreadKept ==
  ASSUME ThreadTyped, [Next]_vars
  PROVE  ThreadTyped'
<1> USE DEF ThreadTyped
<1>1. CASE Hubs
  BY <1>1, Bounds DEF Hubs, BeginTick, HubForwards, HubReturns, EventArrives, EventHubReturns, tickVars
<1>2. CASE SeqStep /\ UNCHANGED <<atsVars, modeVars, campaign, burst>>
  BY <1>2, Bounds DEF SeqStep, SeqHandles, SeqStage, SeqSchedule, SeqFull, SeqClear, SeqBadOpcode, SeqScan,
     SeqRelease, SeqReturns
<1>3. CASE AtsStep /\ UNCHANGED <<seqVars, modeVars, campaign, burst>>
  BY <1>3, Bounds DEF AtsStep, AtsHandles, AtsStage, AtsCommit, AtsFull, AtsArm, AtsClear, AtsBadOpcode,
     AtsDrained, OnEvent, AtsScan, AtsExecute, AtsReturns
<1>4. CASE ModeStep /\ UNCHANGED <<seqVars, atsVars, campaign, burst>>
  BY <1>4, Bounds DEF ModeStep, ModeHandles, ModeStage, CommitRule, RefuseRule, ClearRules, SetMode,
     ApplyMode, ApplyRule, ReportStatus, ModeBadOpcode, ModeReturns
<1>5. CASE \E cmd \in campaign.commands : Radio(cmd) /\ UNCHANGED campaign
  BY <1>5, Bounds DEF Radio, tickVars
<1>6. CASE MetTicks
  BY <1>6, Bounds DEF MetTicks
<1>7. CASE UtcMoves \/ UNCHANGED vars
  BY <1>7 DEF UtcMoves, tickVars, vars
<1> QED BY <1>1, <1>2, <1>3, <1>4, <1>5, <1>6, <1>7 DEF Next, NormThread

LEMMA PlacesKept ==
  ASSUME Places, [Next]_vars
  PROVE  Places'
<1> USE DEF Places
<1>1. CASE Hubs
  BY <1>1 DEF Hubs, BeginTick, HubForwards, HubReturns, EventArrives, EventHubReturns, seqVars, atsVars,
     modeVars
<1>2. CASE SeqStep /\ UNCHANGED <<atsVars, modeVars, campaign, burst>>
  BY <1>2 DEF SeqStep, SeqHandles, SeqStage, SeqSchedule, SeqFull, SeqClear, SeqBadOpcode, SeqScan,
     SeqRelease, SeqReturns, seqVars, atsVars, modeVars
<1>3. CASE AtsStep /\ UNCHANGED <<seqVars, modeVars, campaign, burst>>
  BY <1>3 DEF AtsStep, AtsHandles, AtsStage, AtsCommit, AtsFull, AtsArm, AtsClear, AtsBadOpcode,
     AtsDrained, OnEvent, AtsScan, AtsExecute, AtsReturns, seqVars, atsVars, modeVars
<1>4. CASE ModeStep /\ UNCHANGED <<seqVars, atsVars, campaign, burst>>
  BY <1>4 DEF ModeStep, ModeHandles, ModeStage, CommitRule, RefuseRule, ClearRules, SetMode,
     ApplyMode, ApplyRule, ReportStatus, ModeBadOpcode, ModeReturns, seqVars, atsVars, modeVars
<1>5. CASE \/ MetTicks \/ UtcMoves \/ UNCHANGED vars
           \/ \E cmd \in campaign.commands : Radio(cmd) /\ UNCHANGED campaign
  BY <1>5 DEF Radio, MetTicks, UtcMoves, vars, seqVars, atsVars, modeVars
<1> QED BY <1>1, <1>2, <1>3, <1>4, <1>5 DEF Next, NormThread

\* What a step may send to the hub is a command.
LEMMA RuleSends ==
  ASSUME ModeTyped, NEW i \in applying
  PROVE  <<rules_[i].target, OpcodeOf(i), 0>> \in Command
<1>1. PICK rule \in Staged("mode_manager") : Follows(rules_[i], rule)
  BY DEF ModeTyped
<1> QED BY <1>1, RuleCommands DEF Follows, OpcodeOf

LEMMA LeastIndex ==
  ASSUME NEW S, NEW m \in Nat, S \subseteq 1 .. m, S # {}
  PROVE  Min(S) \in S /\ Min(S) \in 1 .. m
<1>1. S \subseteq Nat
  OBVIOUS
<1> QED BY <1>1, MinIsThere

InputStep ==
  \/ cmd_input' = cmd_input
  \/ cmd_input # <<>> /\ cmd_input' = Tail(cmd_input)
  \/ \E cmd \in Command : cmd_input' = Sent(cmd_input, cmd)

LEMMA InputSteps ==
  ASSUME TypedInv, [Next]_vars
  PROVE  InputStep
<1>1. CASE Hubs
  BY <1>1 DEF InputStep, Hubs, BeginTick, HubForwards, HubReturns, EventArrives, EventHubReturns
<1>2. CASE SeqStep /\ UNCHANGED <<atsVars, modeVars, campaign, burst>>
  <2>1. CASE SeqRelease
    <3>1. Min(releasing) \in Queued
      <4>1. releasing \subseteq 1 .. MAX_SCHEDULED /\ releasing # {} /\ releasing \subseteq Queued
        BY <2>1 DEF TypedInv, SeqTyped, Queued, SeqRelease
      <4> QED BY <4>1, Bounds, LeastIndex
    <3>2. queue_[Min(releasing)].command \in Command
      BY <3>1 DEF TypedInv, SeqTyped
    <3> QED BY <2>1, <3>2 DEF SeqRelease, InputStep
  <2>2. CASE ~SeqRelease
    BY <1>2, <2>2 DEF InputStep, SeqStep, SeqHandles, SeqStage, SeqSchedule, SeqFull, SeqClear,
       SeqBadOpcode, SeqScan, SeqReturns
  <2> QED BY <2>1, <2>2
<1>3. CASE AtsStep /\ UNCHANGED <<seqVars, modeVars, campaign, burst>>
  <2>1. CASE AtsExecute
    <3>1. Min(executing) \in Active
      <4>1. executing \subseteq 1 .. MAX_SEQUENCE_ENTRIES /\ executing # {} /\ executing \subseteq Active
        BY <2>1 DEF TypedInv, AtsTyped, Active, AtsExecute
      <4> QED BY <4>1, Bounds, LeastIndex
    <3>2. entries_[Min(executing)].cmd \in Command
      BY <3>1 DEF TypedInv, AtsTyped
    <3> QED BY <2>1, <3>2 DEF AtsExecute, InputStep
  <2>2. CASE ~AtsExecute
    BY <1>3, <2>2 DEF InputStep, AtsStep, AtsHandles, AtsStage, AtsCommit, AtsFull, AtsArm, AtsClear,
       AtsBadOpcode, AtsDrained, OnEvent, AtsScan, AtsReturns
  <2> QED BY <2>1, <2>2
<1>4. CASE ModeStep /\ UNCHANGED <<seqVars, atsVars, campaign, burst>>
  <2>1. CASE ApplyRule
    <3>1. Min(applying) \in applying
      <4>1. applying \subseteq 1 .. MAX_RULES /\ applying # {}
        BY <2>1 DEF TypedInv, ModeTyped, RulesInv, Ruling, ApplyRule
      <4> QED BY <4>1, Constants, LeastIndex
    <3>2. <<rules_[Min(applying)].target, OpcodeOf(Min(applying)), 0>> \in Command
      BY <3>1, RuleSends DEF TypedInv
    <3> QED BY <2>1, <3>2 DEF ApplyRule, InputStep
  <2>2. CASE ~ApplyRule
    BY <1>4, <2>2 DEF InputStep, ModeStep, ModeHandles, ModeStage, CommitRule, RefuseRule, ClearRules, SetMode,
       ApplyMode, ReportStatus, ModeBadOpcode, ModeReturns
  <2> QED BY <2>1, <2>2
<1>5. CASE \E cmd \in campaign.commands : Radio(cmd) /\ UNCHANGED campaign
  <2>1. campaign.commands \subseteq Command
    BY GroundCommands DEF TypedInv, ThreadTyped
  <2> QED BY <1>5, <2>1 DEF Radio, InputStep, Sent
<1>6. CASE MetTicks \/ UtcMoves \/ UNCHANGED vars
  BY <1>6 DEF InputStep, MetTicks, UtcMoves, vars
<1> QED BY <1>1, <1>2, <1>3, <1>4, <1>5, <1>6 DEF Next, NormThread

LEMMA PortsKept ==
  ASSUME TypedInv, [Next]_vars
  PROVE  PortsTyped'
<1>0. PortsTyped /\ campaign' = campaign
  <2>1. campaign' = campaign
    BY DEF Next, NormThread, Hubs, BeginTick, HubForwards, HubReturns, EventArrives, EventHubReturns,
       MetTicks, UtcMoves, tickVars, vars
  <2> QED BY <2>1 DEF TypedInv
<1>1. InPort(Command, cmd_input')
  BY <1>0, InputSteps, HeadTail, SentTyped DEF InputStep, PortsTyped
<1>2. \/ HubForwards
      \/ /\ (seq_cmd_in' = seq_cmd_in \/ (seq_cmd_in # <<>> /\ seq_cmd_in' = Tail(seq_cmd_in)))
         /\ (ats_cmd_in' = ats_cmd_in \/ (ats_cmd_in # <<>> /\ ats_cmd_in' = Tail(ats_cmd_in)))
         /\ (mode_cmd_in' = mode_cmd_in \/ (mode_cmd_in # <<>> /\ mode_cmd_in' = Tail(mode_cmd_in)))
  <2>1. CASE Hubs
    BY <2>1 DEF Hubs, BeginTick, HubReturns, EventArrives, EventHubReturns, seqVars, atsVars, modeVars
  <2>2. CASE SeqStep /\ UNCHANGED <<atsVars, modeVars, campaign, burst>>
    BY <2>2 DEF SeqStep, SeqHandles, SeqStage, SeqSchedule, SeqFull, SeqClear, SeqBadOpcode, SeqScan,
       SeqRelease, SeqReturns, seqVars, atsVars, modeVars
  <2>3. CASE AtsStep /\ UNCHANGED <<seqVars, modeVars, campaign, burst>>
    BY <2>3 DEF AtsStep, AtsHandles, AtsStage, AtsCommit, AtsFull, AtsArm, AtsClear, AtsBadOpcode,
       AtsDrained, OnEvent, AtsScan, AtsExecute, AtsReturns, seqVars, atsVars, modeVars
  <2>4. CASE ModeStep /\ UNCHANGED <<seqVars, atsVars, campaign, burst>>
    BY <2>4 DEF ModeStep, ModeHandles, ModeStage, CommitRule, RefuseRule, ClearRules, SetMode,
       ApplyMode, ApplyRule, ReportStatus, ModeBadOpcode, ModeReturns, seqVars, atsVars, modeVars
  <2>5. CASE \/ MetTicks \/ UtcMoves \/ UNCHANGED vars
             \/ \E cmd \in campaign.commands : Radio(cmd) /\ UNCHANGED campaign
    BY <2>5 DEF Radio, MetTicks, UtcMoves, vars, seqVars, atsVars, modeVars
  <2> QED BY <2>1, <2>2, <2>3, <2>4, <2>5 DEF Next, NormThread
<1>3. /\ InPort(For("cmd_sequencer"), seq_cmd_in')
      /\ InPort(For("ats_rts"), ats_cmd_in')
      /\ InPort(For("mode_manager"), mode_cmd_in')
  <2>1. CASE ~HubForwards
    BY <1>0, <1>2, <2>1, HeadTail DEF PortsTyped
  <2>2. CASE HubForwards
    <3> DEFINE cmd == Head(cmd_input)
    <3>1. cmd \in Command
      BY <1>0, <2>2, HeadTail DEF PortsTyped, HubForwards
    <3>2. \A name, port : cmd[1] = name /\ InPort(For(name), port) => InPort(For(name), Sent(port, cmd))
      BY <3>1, SentTyped DEF For
    <3>3. /\ seq_cmd_in' = seq_cmd_in \/ (cmd[1] = "cmd_sequencer" /\ seq_cmd_in' = Sent(seq_cmd_in, cmd))
          /\ ats_cmd_in' = ats_cmd_in \/ (cmd[1] = "ats_rts" /\ ats_cmd_in' = Sent(ats_cmd_in, cmd))
          /\ mode_cmd_in' = mode_cmd_in \/ (cmd[1] = "mode_manager" /\ mode_cmd_in' = Sent(mode_cmd_in, cmd))
      BY <2>2 DEF HubForwards
    <3> HIDE DEF cmd
    <3> QED BY <1>0, <3>2, <3>3 DEF PortsTyped
  <2> QED BY <2>1, <2>2
<1>4. \/ event_in' = event_in
      \/ event_in # <<>> /\ event_in' = Tail(event_in)
      \/ \E source \in campaign.sources : Len(event_in) < EventDepth /\ event_in' = Append(event_in, source)
  <2>1. CASE Hubs
    BY <2>1 DEF Hubs, BeginTick, HubForwards, HubReturns, EventArrives, EventHubReturns, atsVars
  <2>2. CASE AtsStep /\ UNCHANGED <<seqVars, modeVars, campaign, burst>>
    BY <2>2 DEF AtsStep, AtsHandles, AtsStage, AtsCommit, AtsFull, AtsArm, AtsClear, AtsBadOpcode,
       AtsDrained, OnEvent, AtsScan, AtsExecute, AtsReturns, atsVars
  <2>3. CASE \/ SeqStep /\ UNCHANGED <<atsVars, modeVars, campaign, burst>>
             \/ ModeStep /\ UNCHANGED <<seqVars, atsVars, campaign, burst>>
             \/ MetTicks \/ UtcMoves \/ UNCHANGED vars
             \/ \E cmd \in campaign.commands : Radio(cmd) /\ UNCHANGED campaign
    BY <2>3 DEF Radio, MetTicks, UtcMoves, vars, atsVars
  <2> QED BY <2>1, <2>2, <2>3 DEF Next, NormThread
<1>5. event_in' \in Seq(campaign.sources) /\ Len(event_in') <= EventDepth
  BY <1>0, <1>4, Bounds DEF PortsTyped
<1> QED BY <1>0, <1>1, <1>3, <1>5 DEF PortsTyped, InPort

LEMMA SeqKept ==
  ASSUME TypedInv, [Next]_vars, LossInv
  PROVE  SeqTyped'
<1>0. SeqTyped /\ InPort(For("cmd_sequencer"), seq_cmd_in) /\ met \in 0 .. Wrap - 1
  BY DEF TypedInv, PortsTyped, ThreadTyped
<1>1. CASE SeqStage
  <2>1. Head(seq_cmd_in) \in For("cmd_sequencer") /\ Head(seq_cmd_in)[2] = "STAGE"
    BY <1>0, <1>1, HeadTail DEF SeqStage, SeqHandles
  <2>2. staged_command_' \in Command
    BY <1>1, <2>1, StagedBy DEF SeqStage
  <2> QED BY <1>0, <1>1, <2>2 DEF SeqTyped, SeqStage, SeqHandles, Queued
<1>2. CASE SeqSchedule
  <2> DEFINE delay == Head(seq_cmd_in)[3]
             i == Min(FreeEntries)
             e == [active |-> TRUE, release |-> (met + delay) % Wrap, command |-> staged_command_,
                   job |-> NextJob, left |-> delay, long |-> delay > Wrap \div 2]
  <2>1. Head(seq_cmd_in) \in Command /\ Head(seq_cmd_in)[2] = "COMMIT_DELAY"
    BY <1>0, <1>2, HeadTail DEF SeqSchedule, SeqHandles, For
  <2>2. delay \in 0 .. Wrap - 1
    BY <2>1, CommandAssumption
  <2>3. (met + delay) % Wrap \in 0 .. Wrap - 1
    <3>1. met + delay \in Nat /\ Wrap \in Nat /\ Wrap > 0
      BY <1>0, <2>2, Bounds
    <3> HIDE DEF delay
    <3> QED BY <3>1
  <2>4. (delay > Wrap \div 2) \in BOOLEAN
    OBVIOUS
  <2>5. e \in Entry /\ e.command = staged_command_
    <3>1. NextJob \in Jobs
      BY <1>2 DEF SeqSchedule
    <3>2. delay \in Nat
      BY <2>2
    <3> HIDE DEF delay
    <3> QED BY <1>0, <2>3, <2>4, <3>1, <3>2 DEF Entry, SeqTyped
  <2>6. i \in 1 .. MAX_SCHEDULED
    <3>1. FreeEntries \subseteq 1 .. MAX_SCHEDULED /\ FreeEntries # {}
      BY <1>0, <1>2 DEF SeqTyped, FreeEntries, SeqSchedule
    <3> QED BY <3>1, Bounds, LeastIndex
  <2>7. queue_' = [queue_ EXCEPT ![i] = e]
    BY <1>2 DEF SeqSchedule
  <2>8. releasing' = releasing /\ staged_command_' = staged_command_ /\ seq_errors' = seq_errors
    BY <1>2 DEF SeqSchedule, SeqHandles
  <2>9. e.active
    OBVIOUS
  <2> HIDE DEF e, i
  <2>10. queue_' \in [1 .. MAX_SCHEDULED -> Entry] /\ Queued' = Queued \cup {i}
    BY <1>0, <2>5, <2>6, <2>7, <2>9 DEF SeqTyped, Queued
  <2> QED BY <1>0, <2>5, <2>7, <2>8, <2>10, <2>6 DEF SeqTyped, Queued
<1>3. CASE SeqClear
  <2>1. NoEntry \in Entry
    BY Bounds, <1>0 DEF NoEntry, Entry
  <2>2. /\ queue_' = [i \in 1 .. MAX_SCHEDULED |-> NoEntry] /\ releasing' = releasing
        /\ staged_command_' = staged_command_ /\ seq_errors' = seq_errors
    BY <1>0, <1>3 DEF SeqClear, SeqHandles, SeqTyped
  <2>3. releasing = {}
    BY <1>3 DEF SeqClear, SeqHandles, TypedInv, Places
  <2>4. Queued' = {}
    BY <2>2 DEF Queued, NoEntry
  <2> QED BY <1>0, <2>1, <2>2, <2>3, <2>4 DEF SeqTyped
<1>4. CASE SeqRelease
  <2> DEFINE i == Min(releasing)
  <2>1. i \in releasing /\ i \in 1 .. MAX_SCHEDULED
    <3>1. releasing \subseteq 1 .. MAX_SCHEDULED /\ releasing # {}
      BY <1>0, <1>4 DEF SeqTyped, Queued, SeqRelease
    <3> QED BY <3>1, Bounds, LeastIndex
  <2>2. NoEntry \in Entry /\ ~NoEntry.active
    BY Bounds, <1>0 DEF NoEntry, Entry
  <2>3. /\ queue_' = [queue_ EXCEPT ![i] = NoEntry] /\ releasing' = releasing \ {i}
        /\ staged_command_' = staged_command_
        /\ seq_errors' = seq_errors \/ seq_errors' = Counted(seq_errors)
    BY <1>4 DEF SeqRelease
  <2> HIDE DEF i
  <2>4. queue_' \in [1 .. MAX_SCHEDULED -> Entry] /\ Queued' = Queued \ {i}
    BY <1>0, <2>1, <2>2, <2>3 DEF SeqTyped, Queued
  <2>5. seq_errors' \in 0 .. MaxErrors
    BY <1>0, <2>3, ErrorsTyped DEF SeqTyped
  <2> QED BY <1>0, <2>1, <2>3, <2>4, <2>5 DEF SeqTyped
<1>5. CASE MetTicks
  <2>1. /\ queue_' = [i \in 1 .. MAX_SCHEDULED |-> [queue_[i] EXCEPT !.left = Sooner(@)]]
        /\ releasing' = releasing /\ staged_command_' = staged_command_ /\ seq_errors' = seq_errors
    BY <1>0, <1>5 DEF MetTicks, SeqTyped
  <2>2. \A e \in Entry : /\ [e EXCEPT !.left = Sooner(@)] \in Entry
                         /\ [e EXCEPT !.left = Sooner(@)].active = e.active
                         /\ [e EXCEPT !.left = Sooner(@)].command = e.command
    <3>1. \A n \in Nat : Sooner(n) \in Nat
      BY DEF Sooner
    <3>2. ASSUME NEW e \in Entry, NEW n \in Nat
          PROVE  LET f == [e EXCEPT !.left = n]
                 IN  f \in Entry /\ f.active = e.active /\ f.command = e.command
      BY DEF Entry
    <3>3. \A e \in Entry : e.left \in Nat
      BY DEF Entry
    <3> QED BY <3>1, <3>2, <3>3
  <2>3. queue_' \in [1 .. MAX_SCHEDULED -> Entry]
    BY <1>0, <2>1, <2>2 DEF SeqTyped
  <2>4. \A i \in 1 .. MAX_SCHEDULED : queue_'[i].active = queue_[i].active /\ queue_'[i].command = queue_[i].command
    BY <1>0, <2>1, <2>2 DEF SeqTyped
  <2>5. Queued' = Queued
    BY <1>0, <2>3, <2>4 DEF SeqTyped, Queued
  <2> QED BY <1>0, <2>1, <2>3, <2>4, <2>5 DEF SeqTyped, Queued
<1>6. CASE SeqScan
  BY <1>0, <1>6 DEF SeqTyped, SeqScan, Queued
<1>7. CASE SeqFull \/ SeqBadOpcode \/ SeqReturns
  <2>1. /\ queue_' = queue_ /\ releasing' = releasing /\ staged_command_' = staged_command_
        /\ seq_errors' = seq_errors \/ seq_errors' = Counted(seq_errors)
    BY <1>7 DEF SeqFull, SeqBadOpcode, SeqReturns, SeqHandles, seqVars
  <2>2. seq_errors' \in 0 .. MaxErrors
    BY <1>0, <2>1, ErrorsTyped DEF SeqTyped
  <2> QED BY <1>0, <2>1, <2>2 DEF SeqTyped, Queued
<1>8. CASE /\ queue_' = queue_ /\ releasing' = releasing /\ staged_command_' = staged_command_
           /\ seq_errors' = seq_errors
  BY <1>0, <1>8 DEF SeqTyped, Queued
<1>9. CASE \/ Hubs
           \/ AtsStep /\ UNCHANGED <<seqVars, modeVars, campaign, burst>>
           \/ ModeStep /\ UNCHANGED <<seqVars, atsVars, campaign, burst>>
           \/ UtcMoves \/ UNCHANGED vars
           \/ \E cmd \in campaign.commands : Radio(cmd) /\ UNCHANGED campaign
  BY <1>8, <1>9 DEF Hubs, BeginTick, HubForwards, HubReturns, EventArrives, EventHubReturns, UtcMoves, Radio,
     seqVars, vars
<1> QED BY <1>1, <1>2, <1>3, <1>4, <1>5, <1>6, <1>7, <1>9 DEF Next, NormThread, SeqStep

\* What the clocks and an event may do to an entry.
Moved(e, f) ==
  /\ f \in TimedEntry
  /\ f.active = e.active /\ f.cmd = e.cmd /\ f.job = e.job
  /\ e.left = 0 => f.left = 0
  /\ f.waiting_event => e.waiting_event

LEMMA SoonerMoves ==
  ASSUME NEW e \in TimedEntry
  PROVE  Moved(e, e) /\ Moved(e, [e EXCEPT !.left = Sooner(@)])
<1>1. e.left \in Nat /\ Sooner(e.left) \in Nat /\ (e.left = 0 => Sooner(e.left) = 0)
  BY DEF TimedEntry, Sooner
<1>2. ASSUME NEW n \in Nat, e.left = 0 => n = 0
      PROVE  Moved(e, [e EXCEPT !.left = n])
  <2>1. [e EXCEPT !.left = n] \in TimedEntry
    BY DEF TimedEntry
  <2> QED BY <1>2, <2>1 DEF TimedEntry, Moved
<1> QED BY <1>1, <1>2 DEF Moved

LEMMA EventMoves ==
  ASSUME NEW e \in TimedEntry
  PROVE  Moved(e, e) /\ Moved(e, [e EXCEPT !.waiting_event = FALSE, !.trigger = "ABS_MET"])
BY DEF TimedEntry, Trigger, Moved

LEMMA EntriesMove ==
  ASSUME AtsTyped, MetTicks \/ UtcMoves \/ OnEvent
  PROVE  /\ executing' = executing /\ staged_' = staged_ /\ ats_errors' = ats_errors
         /\ entries_' = [i \in 1 .. MAX_SEQUENCE_ENTRIES |-> entries_'[i]]
         /\ \A i \in 1 .. MAX_SEQUENCE_ENTRIES : Moved(entries_[i], entries_'[i])
<1>1. /\ DOMAIN entries_ = 1 .. MAX_SEQUENCE_ENTRIES
      /\ \A i \in 1 .. MAX_SEQUENCE_ENTRIES : entries_[i] \in TimedEntry
  BY DEF AtsTyped
<1>2. CASE MetTicks
  BY <1>1, <1>2, SoonerMoves DEF MetTicks
<1>3. CASE UtcMoves
  BY <1>1, <1>3, SoonerMoves DEF UtcMoves
<1>4. CASE OnEvent
  BY <1>1, <1>4, EventMoves DEF OnEvent
<1> QED BY <1>2, <1>3, <1>4

LEMMA AtsKept ==
  ASSUME TypedInv, [Next]_vars
  PROVE  AtsTyped'
<1>0. AtsTyped /\ InPort(For("ats_rts"), ats_cmd_in)
  BY DEF TypedInv, PortsTyped
<1>1. CASE AtsStage
  <2>1. Head(ats_cmd_in) \in For("ats_rts") /\ Head(ats_cmd_in)[2] = "STAGE"
    BY <1>0, <1>1, HeadTail DEF AtsStage, AtsHandles
  <2>2. staged_' \in Plan
    BY <1>1, <2>1, StagedBy DEF AtsStage
  <2> QED BY <1>0, <1>1, <2>2 DEF AtsTyped, AtsStage, AtsHandles, Active
<1>2. CASE AtsCommit
  <2> DEFINE i == Min(FreeSlots)
             waits == staged_.trigger = "REL_EVENT"
  <2>1. PICK left \in 0 .. staged_.time :
          entries_' = [entries_ EXCEPT ![i] =
                         [active |-> TRUE, waiting_event |-> waits,
                          trigger |-> staged_.trigger, source |-> staged_.source,
                          left |-> left, cmd |-> staged_.cmd, job |-> NextJob]]
    BY <1>2 DEF AtsCommit
  <2> DEFINE e == [active |-> TRUE, waiting_event |-> waits, trigger |-> staged_.trigger,
                   source |-> staged_.source, left |-> left, cmd |-> staged_.cmd, job |-> NextJob]
  <2>2. waits \in BOOLEAN
    OBVIOUS
  <2>3. NextJob \in Jobs
    BY <1>2 DEF AtsCommit
  <2>4. /\ staged_.trigger \in Trigger /\ staged_.source \in Nat /\ staged_.time \in Nat
        /\ staged_.cmd \in Command
    BY <1>0 DEF AtsTyped, Plan
  <2>5. left \in Nat
    BY <2>1, <2>4
  <2>6. e.active /\ e.cmd = staged_.cmd
    OBVIOUS
  <2>7. e \in TimedEntry
    <3> HIDE DEF waits
    <3> QED BY <2>2, <2>3, <2>4, <2>5 DEF TimedEntry
  <2>8. i \in 1 .. MAX_SEQUENCE_ENTRIES
    <3>1. FreeSlots \subseteq 1 .. MAX_SEQUENCE_ENTRIES /\ FreeSlots # {}
      BY <1>0, <1>2 DEF AtsTyped, FreeSlots, AtsCommit
    <3> QED BY <3>1, Bounds, LeastIndex
  <2>9. entries_' = [entries_ EXCEPT ![i] = e]
    BY <2>1
  <2>10. executing' = executing /\ staged_' = staged_ /\ ats_errors' = ats_errors
    BY <1>2 DEF AtsCommit, AtsHandles
  <2> HIDE DEF e, i
  <2>11. entries_' \in [1 .. MAX_SEQUENCE_ENTRIES -> TimedEntry] /\ Active' = Active \cup {i}
    BY <1>0, <2>6, <2>7, <2>8, <2>9 DEF AtsTyped, Active
  <2> QED BY <1>0, <2>4, <2>6, <2>8, <2>9, <2>10, <2>11 DEF AtsTyped, Active
<1>3. CASE AtsClear
  <2>1. Empty \in TimedEntry /\ ~Empty.active
    BY DEF Empty, TimedEntry, Trigger
  <2>2. /\ entries_' = [i \in 1 .. MAX_SEQUENCE_ENTRIES |-> Empty] /\ executing' = executing
        /\ staged_' = staged_ /\ ats_errors' = ats_errors
    BY <1>0, <1>3 DEF AtsClear, AtsHandles, AtsTyped
  <2>3. executing = {}
    BY <1>3 DEF AtsClear, AtsHandles, TypedInv, Places
  <2>4. Active' = {}
    BY <2>1, <2>2 DEF Active
  <2> QED BY <1>0, <2>1, <2>2, <2>3, <2>4 DEF AtsTyped
<1>4. CASE AtsExecute
  <2> DEFINE i == Min(executing)
  <2>1. i \in executing /\ i \in 1 .. MAX_SEQUENCE_ENTRIES
    <3>1. executing \subseteq 1 .. MAX_SEQUENCE_ENTRIES /\ executing # {}
      BY <1>0, <1>4 DEF AtsTyped, Active, AtsExecute
    <3> QED BY <3>1, Bounds, LeastIndex
  <2>2. Empty \in TimedEntry /\ ~Empty.active
    BY DEF Empty, TimedEntry, Trigger
  <2>3. /\ entries_' = [entries_ EXCEPT ![i] = Empty] /\ executing' = executing \ {i}
        /\ staged_' = staged_
        /\ ats_errors' = ats_errors \/ ats_errors' = Counted(ats_errors)
    BY <1>4 DEF AtsExecute
  <2> HIDE DEF i
  <2>4. entries_' \in [1 .. MAX_SEQUENCE_ENTRIES -> TimedEntry] /\ Active' = Active \ {i}
    BY <1>0, <2>1, <2>2, <2>3 DEF AtsTyped, Active
  <2>5. ats_errors' \in 0 .. MaxErrors
    BY <1>0, <2>3, ErrorsTyped DEF AtsTyped
  <2> QED BY <1>0, <2>1, <2>3, <2>4, <2>5 DEF AtsTyped
<1>5. CASE MetTicks \/ UtcMoves \/ OnEvent
  <2>1. /\ executing' = executing /\ staged_' = staged_ /\ ats_errors' = ats_errors
        /\ entries_' = [i \in 1 .. MAX_SEQUENCE_ENTRIES |-> entries_'[i]]
        /\ \A i \in 1 .. MAX_SEQUENCE_ENTRIES : Moved(entries_[i], entries_'[i])
    BY <1>0, <1>5, EntriesMove
  <2>2. entries_' \in [1 .. MAX_SEQUENCE_ENTRIES -> TimedEntry]
    BY <2>1 DEF Moved
  <2>3. Active' = Active /\ \A i \in Active : entries_'[i].cmd = entries_[i].cmd
    BY <1>0, <2>1, <2>2 DEF AtsTyped, Active, Moved
  <2> QED BY <1>0, <2>1, <2>2, <2>3 DEF AtsTyped
<1>6. CASE AtsScan
  BY <1>0, <1>6 DEF AtsTyped, AtsScan, Active, AtsDue
<1>7. CASE AtsFull \/ AtsBadOpcode \/ AtsArm("ARM") \/ AtsArm("DISARM") \/ AtsDrained \/ AtsReturns
  <2>1. /\ entries_' = entries_ /\ executing' = executing /\ staged_' = staged_
        /\ ats_errors' = ats_errors \/ ats_errors' = Counted(ats_errors)
    BY <1>7 DEF AtsFull, AtsBadOpcode, AtsArm, AtsDrained, AtsReturns, AtsHandles, atsVars
  <2>2. ats_errors' \in 0 .. MaxErrors
    BY <1>0, <2>1, ErrorsTyped DEF AtsTyped
  <2> QED BY <1>0, <2>1, <2>2 DEF AtsTyped, Active
<1>8. CASE /\ entries_' = entries_ /\ executing' = executing /\ staged_' = staged_
           /\ ats_errors' = ats_errors
  BY <1>0, <1>8 DEF AtsTyped, Active
<1>9. CASE \/ Hubs
           \/ SeqStep /\ UNCHANGED <<atsVars, modeVars, campaign, burst>>
           \/ ModeStep /\ UNCHANGED <<seqVars, atsVars, campaign, burst>>
           \/ UNCHANGED vars
           \/ \E cmd \in campaign.commands : Radio(cmd) /\ UNCHANGED campaign
  BY <1>8, <1>9 DEF Hubs, BeginTick, HubForwards, HubReturns, EventArrives, EventHubReturns, Radio, atsVars,
     vars
<1>10. CASE AtsStep /\ UNCHANGED <<seqVars, modeVars, campaign, burst>>
  BY <1>1, <1>2, <1>3, <1>4, <1>5, <1>6, <1>7, <1>10 DEF AtsStep
<1> QED BY <1>5, <1>9, <1>10 DEF Next, NormThread

LEMMA ModeKept ==
  ASSUME TypedInv, [Next]_vars
  PROVE  ModeTyped'
<1>0. ModeTyped /\ RulesInv /\ InPort(For("mode_manager"), mode_cmd_in)
  BY DEF TypedInv, PortsTyped
<1>1. CASE ModeStage
  <2>1. Head(mode_cmd_in) \in For("mode_manager") /\ Head(mode_cmd_in)[2] = "STAGE"
    BY <1>0, <1>1, HeadTail DEF ModeStage, ModeHandles
  <2>2. staged_rule_' \in Staged("mode_manager")
    BY <1>1, <2>1, StagedBy DEF ModeStage
  <2> QED BY <1>0, <1>1, <2>2 DEF ModeTyped, ModeStage, Ruling
<1>2. CASE CommitRule
  <2> DEFINE r == [active |-> TRUE, target |-> staged_rule_.target,
                   enable |-> staged_rule_.enable, disable |-> staged_rule_.disable,
                   mask |-> staged_rule_.mask, last_enabled |-> FALSE]
  <2>1. PICK i \in RuleFor(staged_rule_.target) : rules_' = [rules_ EXCEPT ![i] = r]
    BY <1>2 DEF CommitRule
  <2>2. staged_rule_ \in Staged("mode_manager")
    BY <1>0, <1>2 DEF ModeTyped, CommitRule
  <2>3. Follows(r, staged_rule_)
    BY DEF Follows
  <2>4. i \in 1 .. MAX_RULES
    BY <1>0, <2>1, RuleForTarget
  <2>5. applying = {} /\ applying' = applying /\ current_mode_' = current_mode_ /\ staged_rule_' = staged_rule_
        /\ mode_errors' = mode_errors
    BY <1>2 DEF CommitRule, ModeHandles
  <2> HIDE DEF r
  <2>6. \A k \in Ruling' : rules_'[k] = r \/ (k \in Ruling /\ rules_'[k] = rules_[k])
    BY <1>0, <2>1, <2>4 DEF Ruling, RulesInv
  <2>7. \A k \in Ruling' : \E rule \in Staged("mode_manager") : Follows(rules_'[k], rule)
    BY <1>0, <2>2, <2>3, <2>6 DEF ModeTyped
  <2> QED BY <1>0, <2>5, <2>7 DEF ModeTyped
<1>3. CASE ClearRules
  <2>1. Ruling' = {} /\ applying' = {}
    BY <1>3 DEF ClearRules, ModeHandles, Ruling, NoRule
  <2> QED BY <1>0, <1>3, <2>1 DEF ModeTyped, ClearRules
<1>4. CASE SetMode
  <2>1. Head(mode_cmd_in) \in Command /\ Head(mode_cmd_in)[2] = "SET_MODE"
    BY <1>0, <1>4, HeadTail DEF SetMode, ModeHandles, For
  <2>2. current_mode_' \in Mode
    BY <1>4, <2>1, CommandAssumption DEF SetMode
  <2> QED BY <1>0, <1>4, <2>2 DEF ModeTyped, SetMode, Ruling
<1>5. CASE ApplyRule
  <2> DEFINE i == Min(applying)
             b == Enabled(i)
  <2>1. /\ rules_' = [rules_ EXCEPT ![i].last_enabled = b]
        /\ applying' = applying \ {i}
        /\ current_mode_' = current_mode_ /\ staged_rule_' = staged_rule_
        /\ mode_errors' = mode_errors \/ mode_errors' = Counted(mode_errors)
    BY <1>5 DEF ApplyRule
  <2> HIDE DEF i, b
  <2>2. DOMAIN rules_' = 1 .. MAX_RULES
    BY <1>0, <2>1 DEF RulesInv
  <2>3. \A k \in 1 .. MAX_RULES :
          /\ rules_'[k].active = rules_[k].active
          /\ \A rule : Follows(rules_[k], rule) => Follows(rules_'[k], rule)
    <3> SUFFICES ASSUME NEW k \in 1 .. MAX_RULES
                 PROVE  /\ rules_'[k].active = rules_[k].active
                        /\ \A rule : Follows(rules_[k], rule) => Follows(rules_'[k], rule)
      OBVIOUS
    <3>1. IsRule(rules_[k])
      BY <1>0 DEF RulesInv
    <3>2. rules_'[k] = rules_[k] \/ rules_'[k] = [rules_[k] EXCEPT !.last_enabled = b]
      BY <1>0, <2>1 DEF RulesInv
    <3>3. \A s : s = [rules_[k] EXCEPT !.last_enabled = b] =>
            /\ s.active = rules_[k].active /\ s.target = rules_[k].target
            /\ s.enable = rules_[k].enable /\ s.disable = rules_[k].disable /\ s.mask = rules_[k].mask
      BY <3>1 DEF IsRule
    <3> QED BY <3>2, <3>3 DEF Follows
  <2>4. Ruling' = Ruling
    BY <1>0, <2>2, <2>3 DEF RulesInv, Ruling
  <2>5. mode_errors' \in 0 .. MaxErrors
    BY <1>0, <2>1, ErrorsTyped DEF ModeTyped
  <2>6. \A k \in Ruling' : \E rule \in Staged("mode_manager") : Follows(rules_'[k], rule)
    BY <1>0, <2>2, <2>3, <2>4 DEF ModeTyped, Ruling
  <2> QED BY <1>0, <2>1, <2>4, <2>5, <2>6 DEF ModeTyped
<1>6. CASE ApplyMode
  BY <1>0, <1>6 DEF ModeTyped, ApplyMode, Ruling
<1>7. CASE RefuseRule \/ ReportStatus \/ ModeBadOpcode \/ ModeReturns
  <2>1. /\ rules_' = rules_ /\ applying' = applying /\ staged_rule_' = staged_rule_
        /\ current_mode_' = current_mode_
        /\ mode_errors' = mode_errors \/ mode_errors' = Counted(mode_errors)
    BY <1>7 DEF RefuseRule, ReportStatus, ModeBadOpcode, ModeReturns, ModeHandles, modeVars
  <2>2. mode_errors' \in 0 .. MaxErrors
    BY <1>0, <2>1, ErrorsTyped DEF ModeTyped
  <2> QED BY <1>0, <2>1, <2>2 DEF ModeTyped, Ruling
<1>8. CASE /\ rules_' = rules_ /\ applying' = applying /\ staged_rule_' = staged_rule_
           /\ current_mode_' = current_mode_ /\ mode_errors' = mode_errors
  BY <1>0, <1>8 DEF ModeTyped, Ruling
<1>9. CASE \/ Hubs \/ MetTicks \/ UtcMoves \/ UNCHANGED vars
           \/ SeqStep /\ UNCHANGED <<atsVars, modeVars, campaign, burst>>
           \/ AtsStep /\ UNCHANGED <<seqVars, modeVars, campaign, burst>>
           \/ \E cmd \in campaign.commands : Radio(cmd) /\ UNCHANGED campaign
  BY <1>8, <1>9 DEF Hubs, BeginTick, HubForwards, HubReturns, EventArrives, EventHubReturns, Radio, MetTicks,
     UtcMoves, modeVars, vars
<1>10. CASE ModeStep
  BY <1>1, <1>2, <1>3, <1>4, <1>5, <1>6, <1>7, <1>10 DEF ModeStep
<1> QED BY <1>9, <1>10 DEF Next, NormThread

LEMMA TypedKept ==
  ASSUME TypedInv, [Next]_vars, LossInv
  PROVE  TypedInv'
<1>1. ThreadTyped' /\ Places' /\ RulesInv'
  BY ThreadKept, PlacesKept, RulesKept DEF TypedInv
<1> QED BY <1>1, PortsKept, SeqKept, AtsKept, ModeKept DEF TypedInv

\* The whole state has its type, and no port ever holds more than its depth.
THEOREM TypeCorrect == Spec => []TypeOK
<1>1. Init => TypedInv /\ LossInv
  BY TypedInit, LossInit
<1>2. TypedInv /\ LossInv /\ [Next]_vars => (TypedInv /\ LossInv)'
  BY TypedKept, LossKept
<1>3. TypedInv /\ LossInv => TypeOK
  <2> SUFFICES ASSUME TypedInv, LossInv PROVE TypeOK
    OBVIOUS
  <2>1. /\ at \in {"idle", "cmd_hub", "event_hub", "cmd_sequencer", "releasing", "ats_rts",
                   "ats_events", "executing", "mode_manager"}
        /\ met \in 0 .. Wrap - 1 /\ stall \in 0 .. MaxStall
        /\ burst \in 0 .. RadioBurst /\ campaign \in Campaign
    BY DEF TypedInv, ThreadTyped
  <2>2. PortOK(cmd_input) /\ PortOK(seq_cmd_in) /\ PortOK(ats_cmd_in) /\ PortOK(mode_cmd_in)
    <3>1. ASSUME NEW S, S \subseteq Command, NEW port, InPort(S, port)
          PROVE  PortOK(port)
      BY <3>1 DEF InPort, PortOK
    <3>2. \A name : For(name) \subseteq Command
      BY DEF For
    <3> QED BY <3>1, <3>2 DEF TypedInv, PortsTyped
  <2>3. Len(event_in) <= EventDepth /\ \A k \in DOMAIN event_in : event_in[k] \in campaign.sources
    BY DEF TypedInv, PortsTyped
  <2>4. fate \in [Jobs -> {"new", "waiting", "sent", "lost", "cleared"}]
    BY DEF LossInv
  <2>5. \A i \in Queued : queue_[i].command \in Command /\ queue_[i].release \in 0 .. Wrap - 1
    BY DEF TypedInv, SeqTyped, Entry, Queued
  <2>6. \A i \in Active : entries_[i].cmd \in Command /\ entries_[i].left \in Nat
    BY DEF TypedInv, AtsTyped, TimedEntry, Active
  <2>7. /\ releasing \subseteq Queued /\ executing \subseteq Active /\ applying \subseteq Ruling
        /\ {seq_errors, ats_errors, mode_errors} \subseteq 0 .. MaxErrors
    BY DEF TypedInv, SeqTyped, AtsTyped, ModeTyped
  <2>8. current_mode_ \in Mode /\ \A i \in Ruling : rules_[i].mask \subseteq Mode
    <3>1. \A i \in Ruling : \E rule \in Staged("mode_manager") : Follows(rules_[i], rule)
      BY DEF TypedInv, ModeTyped
    <3> QED BY <3>1, RuleCommands DEF TypedInv, ModeTyped, Follows
  <2> QED BY <2>1, <2>2, <2>3, <2>4, <2>5, <2>6, <2>7, <2>8 DEF TypeOK
<1> QED BY <1>1, <1>2, <1>3, PTL DEF Spec

-----------------------------------------------------------------------------
(* The clock of the command sequencer.                                     *)

Later(t, d) == IF t + d < Wrap THEN t + d ELSE t + d - Wrap

\* How far an entry's release is from the clock: ahead of it by what is left, or
\* behind it by no more than the scan has been held up, unless the scan found it.
EntryInTime(e, found) ==
  ~e.long =>
    /\ e.left > 0 => e.left <= Wrap \div 2 /\ e.release = Later(met, e.left)
    /\ e.left = 0 /\ found = {} => \E late \in 0 .. stall : met = Later(e.release, late)

ClockInv == \A i \in Queued : EntryInTime(queue_[i], releasing \cap {i})

LEMMA Remainder ==
  ASSUME NEW m \in Nat, NEW x \in Nat, m > 0, x < 2 * m
  PROVE  x % m = IF x < m THEN x ELSE x - m
<1>1. x % m \in 0 .. m - 1 /\ x \div m \in Nat /\ x = m * (x \div m) + (x % m)
  OBVIOUS
<1>2. PICK q \in Nat, r \in Nat : x = m * q + r /\ r = x % m /\ r < m
  BY <1>1
<1>3. q = 0 \/ q = 1 \/ q >= 2
  BY <1>2
<1>4. q >= 2 => m * q >= 2 * m
  BY <1>2
<1>5. (q = 0 => m * q = 0) /\ (q = 1 => m * q = m)
  BY <1>2
<1>6. m * q \in Nat
  BY <1>2
<1> QED BY <1>2, <1>3, <1>4, <1>5, <1>6

LEMMA LaterIs ==
  ASSUME NEW t \in 0 .. Wrap - 1, NEW d \in 0 .. Wrap - 1
  PROVE  (t + d) % Wrap = Later(t, d) /\ Later(t, d) \in 0 .. Wrap - 1
<1>1. Wrap \in Nat /\ Wrap > 0 /\ t + d \in Nat /\ t + d < 2 * Wrap
  BY Bounds
<1>2. (t + d) % Wrap = IF t + d < Wrap THEN t + d ELSE t + d - Wrap
  BY <1>1, Remainder
<1> QED BY <1>1, <1>2 DEF Later

\* Modulo the range, a release counts as due for half of the range from its time on
\* and for no time before.
LEMMA DueWhen ==
  ASSUME NEW release \in 0 .. Wrap - 1, NEW d \in Nat, met \in 0 .. Wrap - 1
  PROVE  /\ d < Wrap \div 2 /\ met = Later(release, d) => IsDue(release)
         /\ d > 0 /\ d <= Wrap \div 2 /\ release = Later(met, d) => ~IsDue(release)
<1>1. /\ Wrap \in Nat /\ Wrap > 0 /\ met + Wrap - release \in Nat /\ met + Wrap - release < 2 * Wrap
      /\ Wrap \div 2 \in Nat /\ Wrap = 2 * (Wrap \div 2)
  BY Bounds
<1>2. (met + Wrap - release) % Wrap =
        IF met + Wrap - release < Wrap THEN met + Wrap - release ELSE met - release
  <2>1. (met + Wrap - release) % Wrap =
          IF met + Wrap - release < Wrap THEN met + Wrap - release ELSE met + Wrap - release - Wrap
    BY <1>1, Remainder
  <2> QED BY <1>1, <2>1
<1>3. PICK h \in Nat : h = Wrap \div 2 /\ Wrap = 2 * h
  BY <1>1
<1>4. IsDue(release) <=>
        (IF met + Wrap - release < Wrap THEN met + Wrap - release ELSE met - release) < h
  BY <1>2, <1>3 DEF IsDue
<1>5. d < h /\ met = Later(release, d) => IsDue(release)
  BY <1>3, <1>4 DEF Later
<1>6. d > 0 /\ d <= h /\ release = Later(met, d) => ~IsDue(release)
  BY <1>3, <1>4 DEF Later
<1> QED BY <1>3, <1>5, <1>6

LEMMA OneTickLater ==
  ASSUME NEW e \in Entry, NEW found, EntryInTime(e, found),
         met \in 0 .. Wrap - 1, stall \in 0 .. MaxStall, stall < MaxStall,
         stall' = stall + 1, met' = (met + 1) % Wrap,
         NEW f, f = [e EXCEPT !.left = Sooner(@)]
  PROVE  EntryInTime(f, found)'
<1>1. /\ e.left \in Nat /\ e.release \in 0 .. Wrap - 1
      /\ f.left = Sooner(e.left) /\ f.release = e.release /\ f.long = e.long
  BY DEF Entry
<1>2. PICK h \in Nat : h = Wrap \div 2 /\ Wrap = 2 * h /\ MaxStall \in Nat /\ MaxStall < h
  BY Bounds
<1>3. met' = Later(met, 1) /\ met' \in 0 .. Wrap - 1
  <2>1. 1 \in 0 .. Wrap - 1
    BY <1>2, Bounds
  <2> QED BY <2>1, LaterIs
<1>4. CASE ~e.long /\ e.left > 0
  <2>1. PICK n \in Nat, r \in Nat : n = e.left /\ r = e.release /\ r < Wrap
    BY <1>1, <1>2
  <2>2. n > 0 /\ n <= h /\ r = Later(met, n)
    BY <1>2, <1>4, <2>1 DEF EntryInTime
  <2>3. f.left = n - 1 /\ f.release = r
    BY <1>1, <2>1, <2>2 DEF Sooner
  <2>4. n - 1 > 0 => n - 1 <= h /\ r = Later(met', n - 1)
    BY <1>2, <1>3, <2>1, <2>2 DEF Later
  <2>5. n - 1 = 0 => met' = Later(r, 0)
    BY <1>2, <1>3, <2>1, <2>2 DEF Later
  <2>6. 0 \in 0 .. stall'
    BY <1>2
  <2> QED BY <1>2, <2>3, <2>4, <2>5, <2>6 DEF EntryInTime, Later
<1>5. CASE ~e.long /\ e.left = 0 /\ found = {}
  <2>1. PICK late \in 0 .. stall : met = Later(e.release, late)
    BY <1>5 DEF EntryInTime
  <2>2. PICK r \in Nat : r = e.release /\ r < Wrap
    BY <1>1, <1>2
  <2>3. late + 1 \in 0 .. stall' /\ met' = Later(r, late + 1)
    BY <1>2, <1>3, <2>1, <2>2 DEF Later
  <2>4. f.left = 0
    BY <1>1, <1>5 DEF Sooner
  <2> QED BY <1>1, <2>2, <2>3, <2>4 DEF EntryInTime, Later
<1>6. CASE e.long \/ (e.left = 0 /\ found # {})
  <2>1. f.left = 0 \/ f.long
    BY <1>1, <1>6 DEF Sooner
  <2> QED BY <1>1, <1>6, <2>1 DEF EntryInTime
<1> QED BY <1>1, <1>4, <1>5, <1>6

-----------------------------------------------------------------------------
(* The commitments that wait, by the table they wait in.                   *)

Named(J, S) == {J[i] : i \in S}
OneEach(J, S) == \A i, k \in S : J[i] = J[k] => i = k

LEMMA NamedAdd ==
  ASSUME NEW J, NEW K, NEW A, NEW x, x \notin A, \A i \in A : K[i] = J[i],
         OneEach(J, A), K[x] \notin Named(J, A)
  PROVE  OneEach(K, A \cup {x})
BY DEF OneEach, Named

LEMMA NamedDrop ==
  ASSUME NEW J, NEW K, NEW A, NEW x \in A, \A i \in A \ {x} : K[i] = J[i], OneEach(J, A)
  PROVE  OneEach(K, A \ {x})
BY DEF OneEach

LEMMA NamedDropPart ==
  ASSUME NEW J, NEW K, NEW A, NEW D \in SUBSET A, NEW x \in A, \A i \in D \ {x} : K[i] = J[i],
         OneEach(J, A)
  PROVE  Named(K, D \ {x}) = Named(J, D) \ {J[x]}
BY DEF Named, OneEach

QueueJob == [i \in DOMAIN queue_ |-> queue_[i].job]
EntryJob == [i \in DOMAIN entries_ |-> entries_[i].job]
QueueJobs == Named(QueueJob, Queued)
EntryJobs == Named(EntryJob, Active)
QueueDueJobs == Named(QueueJob, QueueDue)
EntryDueJobs == Named(EntryJob, AtsDue)
WaitingJobs == {j \in Jobs : fate[j] = "waiting"}

\* A commitment that waits is in one entry of one of the tables.
JobsInv ==
  /\ QueueJobs \cup EntryJobs \subseteq WaitingJobs
  /\ QueueJobs \cap EntryJobs = {}
  /\ OneEach(QueueJob, Queued)
  /\ OneEach(EntryJob, Active)

\* Numbers are given in order.
InOrder == \A j, k \in Jobs : k <= j /\ fate[j] # "new" => fate[k] # "new"

\* What a scan under way has still to send is due.
ScansInv == releasing \subseteq QueueDue /\ executing \subseteq AtsDue

AgendaInv == JobsInv /\ InOrder /\ ScansInv /\ ClockInv

DuePart ==
  /\ QueueDue \subseteq Queued /\ AtsDue \subseteq Active
  /\ QueueDueJobs \subseteq QueueJobs /\ EntryDueJobs \subseteq EntryJobs
  /\ DueJobs = QueueDueJobs \cup EntryDueJobs

LEMMA DueSets == DuePart
<1>1. QueueDue \subseteq Queued /\ AtsDue \subseteq Active
  BY DEF QueueDue, AtsDue
<1>2. QueueDueJobs = {queue_[i].job : i \in QueueDue}
  BY <1>1 DEF QueueDueJobs, Named, QueueJob, Queued
<1>3. EntryDueJobs = {entries_[i].job : i \in AtsDue}
  BY <1>1 DEF EntryDueJobs, Named, EntryJob, Active
<1>4. QueueDueJobs \subseteq QueueJobs /\ EntryDueJobs \subseteq EntryJobs
  BY <1>1 DEF QueueDueJobs, QueueJobs, EntryDueJobs, EntryJobs, Named
<1> QED BY <1>1, <1>2, <1>3, <1>4 DEF DueJobs, DuePart

\* The next number is the first that was not given.
LEMMA NextIsNew ==
  ASSUME InOrder, NextJob \in Jobs
  PROVE  fate[NextJob] = "new" /\ \A k \in Jobs : k < NextJob => fate[k] # "new"
<1> DEFINE Used == {j \in Jobs : fate[j] # "new"}
<1>1. PICK n \in Nat : n = Cardinality(Used) /\ NextJob = n + 1
  <2>1. Used \subseteq Jobs
    OBVIOUS
  <2> QED BY <2>1, LostIsFinite DEF NextJob
<1>2. IsFiniteSet(Used)
  <2>1. Used \subseteq Jobs
    OBVIOUS
  <2> QED BY <2>1, LostIsFinite
<1>3. n + 1 \in 1 .. MaxJobs /\ MaxJobs \in Nat
  BY <1>1, Constants DEF Jobs
<1>4. \A m \in Nat : IsFiniteSet(1 .. m) /\ Cardinality(1 .. m) = m
  BY FS_Interval
<1>5. fate[NextJob] = "new"
  <2> SUFFICES ASSUME fate[NextJob] # "new" PROVE FALSE
    OBVIOUS
  <2>1. 1 .. n + 1 \subseteq Used
    BY <1>1, <1>3 DEF InOrder, Jobs
  <2>2. Cardinality(1 .. n + 1) <= Cardinality(Used)
    BY <1>2, <2>1, FS_Subset
  <2> QED BY <1>1, <1>4, <2>2
<1>6. ASSUME NEW k \in Jobs, k < NextJob
      PROVE  fate[k] # "new"
  <2> SUFFICES ASSUME fate[k] = "new" PROVE FALSE
    OBVIOUS
  <2>1. k - 1 \in Nat /\ k - 1 < n
    BY <1>1, <1>6, Constants DEF Jobs
  <2>2. Used \subseteq 1 .. k - 1
    BY Constants DEF InOrder, Jobs
  <2>3. Cardinality(Used) <= Cardinality(1 .. k - 1) /\ Cardinality(1 .. k - 1) = k - 1
    BY <1>4, <2>1, <2>2, FS_Subset
  <2> QED BY <1>1, <2>1, <2>3
<1> QED BY <1>5, <1>6

\* How a step may treat one of the tables: it has the jobs J of which D are due, and
\* then K of which E are due.
Gains(J, D, K, E) ==
  /\ NextJob \in Jobs /\ fate' = Fated({NextJob}, "waiting")
  /\ K = J \cup {NextJob} /\ E \in {D, D \cup {NextJob}}

Sends(J, D, K, E) ==
  \E j \in D : /\ fate' \in {Fated({j}, "sent"), Fated({j}, "lost")}
               /\ K = J \ {j} /\ E = D \ {j}

Clears(J, D, K, E) == fate' = Fated(J, "cleared") /\ K = {} /\ E = {}

TableStep(J, D, K, E) == Gains(J, D, K, E) \/ Sends(J, D, K, E) \/ Clears(J, D, K, E)

SameQueue == QueueJobs' = QueueJobs /\ QueueDueJobs' = QueueDueJobs
SameEntries == EntryJobs' = EntryJobs /\ EntryDueJobs' = EntryDueJobs

Refuses == NextJob \in Jobs /\ fate' = Fated({NextJob}, "lost") /\ SameQueue /\ SameEntries

Ripens ==
  /\ fate' = fate
  /\ QueueJobs' = QueueJobs /\ QueueDueJobs \subseteq QueueDueJobs'
  /\ EntryJobs' = EntryJobs /\ EntryDueJobs \subseteq EntryDueJobs'

AgendaStep ==
  \/ TableStep(QueueJobs, QueueDueJobs, QueueJobs', QueueDueJobs') /\ SameEntries
  \/ TableStep(EntryJobs, EntryDueJobs, EntryJobs', EntryDueJobs') /\ SameQueue
  \/ Refuses
  \/ Ripens

\* Each of these is a step of the agenda, whichever table it is of.
LEMMA TableSteps ==
  ASSUME LossInv, InOrder, NEW J, NEW D \in SUBSET J, NEW K, NEW E,
         NEW other, NEW otherDue \in SUBSET other,
         J \cup other \subseteq WaitingJobs, J \cap other = {},
         TableStep(J, D, K, E),
         DueJobs = D \cup otherDue, DueJobs' = E \cup otherDue
  PROVE  /\ TheAgenda!Next
         /\ K \cup other \subseteq WaitingJobs' /\ K \cap other = {}
<1>0. /\ fate \in [Jobs -> Fates] /\ \A S, f : Fated(S, f) = [j \in Jobs |-> IF j \in S THEN f ELSE fate[j]]
      /\ \A S \in SUBSET WaitingJobs : S \subseteq Jobs /\ \A j \in S : fate[j] = "waiting"
  BY DEF LossInv, Fates, Fated, WaitingJobs
<1>1. CASE Gains(J, D, K, E)
  <2>1. PICK n \in Jobs : n = NextJob
    BY <1>1 DEF Gains
  <2>2. fate[n] = "new"
    BY <2>1, NextIsNew
  <2>3. /\ fate' = Fated({n}, "waiting") /\ K = J \cup {n} /\ (E = D \/ E = D \cup {n})
    BY <1>1, <2>1 DEF Gains
  <2>4. n \notin WaitingJobs
    BY <2>2 DEF WaitingJobs
  <2>5. fate' = [fate EXCEPT ![n] = "waiting"]
    BY <1>0, <2>3
  <2>6. DueJobs' \in {DueJobs, DueJobs \cup {n}}
    BY <2>3
  <2>7. TheAgenda!Commit(n)
    BY <2>2, <2>5, <2>6 DEF TheAgenda!Commit
  <2>8. K \cup other \subseteq WaitingJobs' /\ K \cap other = {}
    <3>1. WaitingJobs' = WaitingJobs \cup {n}
      <4>1. \A k \in Jobs : fate'[k] = IF k = n THEN "waiting" ELSE fate[k]
        BY <2>3 DEF Fated
      <4> QED BY <2>1, <4>1 DEF WaitingJobs, Jobs
    <3> QED BY <2>3, <2>4, <3>1
  <2> QED BY <2>7, <2>8 DEF TheAgenda!Next
<1>2. CASE Sends(J, D, K, E)
  <2>1. PICK j \in D : /\ fate' \in {Fated({j}, "sent"), Fated({j}, "lost")}
                       /\ K = J \ {j} /\ E = D \ {j}
    BY <1>2 DEF Sends
  <2>2. j \in Jobs /\ j \notin otherDue /\ j \notin other /\ fate[j] = "waiting"
    BY <1>0, <2>1
  <2>3. PICK f \in {"sent", "lost"} : fate' = Fated({j}, f)
    BY <2>1
  <2>4. fate' = [fate EXCEPT ![j] = f]
    BY <1>0, <2>3
  <2>5. DueJobs' = DueJobs \ {j} /\ j \in DueJobs
    BY <2>1, <2>2
  <2>6. TheAgenda!Leave(j)
    BY <2>4, <2>5 DEF TheAgenda!Leave
  <2>7. K \cup other \subseteq WaitingJobs' /\ K \cap other = {}
    <3>1. WaitingJobs' = WaitingJobs \ {j}
      BY <1>0, <2>2, <2>3 DEF WaitingJobs, Jobs
    <3> QED BY <2>1, <2>2, <3>1
  <2> QED BY <2>2, <2>6, <2>7 DEF TheAgenda!Next
<1>3. CASE Clears(J, D, K, E)
  <2>1. fate' = Fated(J, "cleared") /\ K = {} /\ E = {}
    BY <1>3 DEF Clears
  <2>2. J \subseteq Jobs /\ J \subseteq TheAgenda!Waiting
    BY <1>0 DEF TheAgenda!Waiting, WaitingJobs
  <2>3. DueJobs' = DueJobs \ J
    BY <2>1
  <2>4. fate' = [j \in Jobs |-> IF j \in J THEN "cleared" ELSE fate[j]]
    BY <1>0, <2>1
  <2>5. TheAgenda!Clear(J)
    BY <2>2, <2>3, <2>4 DEF TheAgenda!Clear
  <2>6. K \cup other \subseteq WaitingJobs' /\ K \cap other = {}
    <3>1. WaitingJobs' = WaitingJobs \ J
      BY <1>0, <2>1, <2>2 DEF WaitingJobs, Jobs
    <3> QED BY <2>1, <3>1
  <2> QED BY <2>2, <2>5, <2>6 DEF TheAgenda!Next
<1> QED BY <1>1, <1>2, <1>3 DEF TableStep

LEMMA AgendaSteps ==
  ASSUME LossInv, InOrder, AgendaStep,
         QueueJobs \cup EntryJobs \subseteq WaitingJobs, QueueJobs \cap EntryJobs = {}
  PROVE  /\ [TheAgenda!Next]_(TheAgenda!vars)
         /\ (QueueJobs \cup EntryJobs \subseteq WaitingJobs)'
         /\ (QueueJobs \cap EntryJobs = {})'
<1>a. DuePart /\ DuePart'
  BY DueSets, PTL
<1>0. /\ QueueDueJobs \in SUBSET QueueJobs /\ EntryDueJobs \in SUBSET EntryJobs
      /\ DueJobs = QueueDueJobs \cup EntryDueJobs
      /\ QueueDueJobs' \subseteq QueueJobs' /\ EntryDueJobs' \subseteq EntryJobs'
      /\ DueJobs' = QueueDueJobs' \cup EntryDueJobs'
  BY <1>a DEF DuePart
<1>1. CASE TableStep(QueueJobs, QueueDueJobs, QueueJobs', QueueDueJobs') /\ SameEntries
  <2>1. EntryJobs' = EntryJobs /\ EntryDueJobs' = EntryDueJobs
    BY <1>1 DEF SameEntries
  <2>2. /\ TheAgenda!Next
        /\ QueueJobs' \cup EntryJobs \subseteq WaitingJobs' /\ QueueJobs' \cap EntryJobs = {}
    BY <1>0, <1>1, <2>1, TableSteps
  <2> QED BY <2>1, <2>2
<1>2. CASE TableStep(EntryJobs, EntryDueJobs, EntryJobs', EntryDueJobs') /\ SameQueue
  <2>1. QueueJobs' = QueueJobs /\ QueueDueJobs' = QueueDueJobs
    BY <1>2 DEF SameQueue
  <2>2. /\ EntryJobs \cup QueueJobs \subseteq WaitingJobs /\ EntryJobs \cap QueueJobs = {}
        /\ DueJobs = EntryDueJobs \cup QueueDueJobs /\ DueJobs' = EntryDueJobs' \cup QueueDueJobs
    BY <1>0, <2>1
  <2>3. /\ TheAgenda!Next
        /\ EntryJobs' \cup QueueJobs \subseteq WaitingJobs' /\ EntryJobs' \cap QueueJobs = {}
    <3>1. TableStep(EntryJobs, EntryDueJobs, EntryJobs', EntryDueJobs')
      BY <1>2
    <3>2. EntryDueJobs \in SUBSET EntryJobs /\ QueueDueJobs \in SUBSET QueueJobs
      BY <1>0
    <3> QED BY <2>2, <3>1, <3>2, TableSteps
  <2> QED BY <2>1, <2>3
<1>3. CASE Refuses
  <2>1. PICK n \in Jobs : n = NextJob
    BY <1>3 DEF Refuses
  <2>2. fate[n] = "new" /\ fate' = Fated({n}, "lost")
    BY <1>3, <2>1, NextIsNew DEF Refuses
  <2>3. fate' = [fate EXCEPT ![n] = "lost"]
    BY <2>2 DEF LossInv, Fated
  <2>4. DueJobs' = DueJobs
    BY <1>0, <1>3 DEF Refuses, SameQueue, SameEntries
  <2>5. TheAgenda!Commit(n)
    BY <2>2, <2>3, <2>4 DEF TheAgenda!Commit
  <2>6. WaitingJobs' = WaitingJobs
    BY <2>2 DEF WaitingJobs, Fated, Jobs
  <2> QED BY <1>3, <2>5, <2>6 DEF TheAgenda!Next, Refuses, SameQueue, SameEntries
<1>4. CASE Ripens
  <2>1. WaitingJobs' = WaitingJobs
    BY <1>4 DEF Ripens, WaitingJobs, Jobs
  <2>2. WaitingJobs' = (TheAgenda!Waiting)' /\ WaitingJobs = TheAgenda!Waiting
    BY DEF WaitingJobs, TheAgenda!Waiting
  <2>3. DueJobs \subseteq DueJobs' /\ DueJobs' \subseteq WaitingJobs
    BY <1>0, <1>4 DEF Ripens
  <2>4. TheAgenda!Ripen
    BY <1>4, <2>2, <2>3 DEF TheAgenda!Ripen, Ripens
  <2> QED BY <1>4, <2>1, <2>4 DEF TheAgenda!Next, Ripens
<1> QED BY <1>1, <1>2, <1>3, <1>4 DEF AgendaStep

SequencingInv == LossInv /\ TypedInv /\ AgendaInv

LEMMA SameTables ==
  /\ queue_' = queue_ => SameQueue /\ (OneEach(QueueJob, Queued) => OneEach(QueueJob, Queued)')
  /\ entries_' = entries_ => SameEntries /\ (OneEach(EntryJob, Active) => OneEach(EntryJob, Active)')
<1>1. ASSUME queue_' = queue_
      PROVE  SameQueue /\ (OneEach(QueueJob, Queued) => OneEach(QueueJob, Queued)')
  <2>1. QueueJob' = QueueJob /\ Queued' = Queued
    BY <1>1 DEF QueueJob, Queued
  <2>2. QueueDue' = QueueDue
    BY <1>1, <2>1 DEF QueueDue
  <2> QED BY <2>1, <2>2 DEF SameQueue, QueueJobs, QueueDueJobs, Named, OneEach
<1>2. ASSUME entries_' = entries_
      PROVE  SameEntries /\ (OneEach(EntryJob, Active) => OneEach(EntryJob, Active)')
  <2>1. EntryJob' = EntryJob /\ Active' = Active
    BY <1>2 DEF EntryJob, Active
  <2>2. AtsDue' = AtsDue
    BY <1>2, <2>1 DEF AtsDue
  <2> QED BY <2>1, <2>2 DEF SameEntries, EntryJobs, EntryDueJobs, Named, OneEach
<1> QED BY <1>1, <1>2

LEMMA ScheduleGains ==
  ASSUME SequencingInv, SeqSchedule
  PROVE  /\ Gains(QueueJobs, QueueDueJobs, QueueJobs', QueueDueJobs')
         /\ OneEach(QueueJob, Queued)'
         /\ ClockInv'
<1> DEFINE delay == Head(seq_cmd_in)[3]
           i == Min(FreeEntries)
           e == [active |-> TRUE, release |-> (met + delay) % Wrap, command |-> staged_command_,
                 job |-> NextJob, left |-> delay, long |-> delay > Wrap \div 2]
<1>0. /\ queue_ \in [1 .. MAX_SCHEDULED -> Entry] /\ met \in 0 .. Wrap - 1 /\ stall \in 0 .. MaxStall
      /\ OneEach(QueueJob, Queued) /\ QueueJobs \subseteq WaitingJobs /\ ClockInv
  BY DEF SequencingInv, TypedInv, SeqTyped, ThreadTyped, AgendaInv, JobsInv
<1>1. i \in FreeEntries /\ i \in 1 .. MAX_SCHEDULED
  <2>1. FreeEntries \subseteq 1 .. MAX_SCHEDULED /\ FreeEntries # {}
    BY <1>0 DEF FreeEntries, SeqSchedule
  <2> QED BY <2>1, Bounds, LeastIndex
<1>2. delay \in 0 .. Wrap - 1
  <2>1. Head(seq_cmd_in) \in Command /\ Head(seq_cmd_in)[2] = "COMMIT_DELAY"
    <3>1. InPort(For("cmd_sequencer"), seq_cmd_in)
      BY DEF SequencingInv, TypedInv, PortsTyped
    <3> QED BY <3>1, HeadTail DEF SeqSchedule, SeqHandles, For
  <2> QED BY <2>1, CommandAssumption
<1>3. NextJob \in Jobs /\ fate[NextJob] = "new"
  BY NextIsNew DEF SequencingInv, AgendaInv, SeqSchedule
<1>4. /\ queue_' = [queue_ EXCEPT ![i] = e] /\ releasing' = releasing /\ met' = met /\ stall' = stall
      /\ fate' = Fated({NextJob}, "waiting")
  BY DEF SeqSchedule, SeqHandles
<1>5. releasing = {}
  BY DEF SeqSchedule, SeqHandles, SequencingInv, TypedInv, Places
<1>6. e.active /\ e.job = NextJob
  OBVIOUS
<1>7. EntryInTime(e, {})
  <2>1. e.release = (met + delay) % Wrap /\ e.left = delay /\ (~e.long => ~(delay > Wrap \div 2))
    OBVIOUS
  <2> HIDE DEF e
  <2>2. PICK d \in 0 .. Wrap - 1 : d = delay
    BY <1>2
  <2> HIDE DEF delay
  <2>3. e.release = Later(met, d) /\ e.left = d /\ (~e.long => d <= Wrap \div 2)
    BY <1>0, <2>1, <2>2, Bounds, LaterIs
  <2>4. d = 0 => met = Later(Later(met, d), 0) /\ 0 \in 0 .. stall
    BY <1>0, Bounds DEF Later
  <2> QED BY <2>3, <2>4 DEF EntryInTime
<1> HIDE DEF e, i
<1>8. /\ DOMAIN queue_' = 1 .. MAX_SCHEDULED /\ queue_'[i] = e
      /\ \A k \in 1 .. MAX_SCHEDULED \ {i} : queue_'[k] = queue_[k]
      /\ Queued \subseteq 1 .. MAX_SCHEDULED /\ i \notin Queued
  BY <1>0, <1>1, <1>4 DEF Queued, FreeEntries
<1>9. Queued' = Queued \cup {i}
  BY <1>0, <1>1, <1>6, <1>8 DEF Queued
<1>10. QueueDue' = QueueDue \/ QueueDue' = QueueDue \cup {i}
  <2>1. CASE e.left = 0 \/ e.long
    BY <1>8, <1>9, <2>1 DEF QueueDue
  <2>2. CASE ~(e.left = 0 \/ e.long)
    BY <1>8, <1>9, <2>2 DEF QueueDue
  <2> QED BY <2>1, <2>2
<1>11. QueueJob'[i] = NextJob /\ \A k \in Queued : QueueJob'[k] = QueueJob[k]
  BY <1>0, <1>1, <1>6, <1>8 DEF QueueJob
<1>12. NextJob \notin QueueJobs
  BY <1>0, <1>3 DEF WaitingJobs
<1>13. /\ OneEach(QueueJob', Queued')
       /\ QueueJobs' = QueueJobs \cup {NextJob}
       /\ QueueDueJobs' \in {QueueDueJobs, QueueDueJobs \cup {NextJob}}
  <2>1. /\ OneEach(QueueJob', Queued \cup {i})
        /\ \A D \in SUBSET Queued : /\ Named(QueueJob', D) = Named(QueueJob, D)
                                    /\ Named(QueueJob', D \cup {i}) = Named(QueueJob, D) \cup {QueueJob'[i]}
    <3>1. OneEach(QueueJob, Queued) /\ i \notin Queued
      BY <1>0, <1>8
    <3>2. \A k \in Queued : QueueJob'[k] = QueueJob[k]
      BY <1>11
    <3>3. QueueJob'[i] \notin Named(QueueJob, Queued)
      BY <1>11, <1>12 DEF QueueJobs
    <3>4. OneEach(QueueJob', Queued \cup {i})
      BY <3>1, <3>2, <3>3, NamedAdd
    <3>5. ASSUME NEW D \in SUBSET Queued
          PROVE  /\ Named(QueueJob', D) = Named(QueueJob, D)
                 /\ Named(QueueJob', D \cup {i}) = Named(QueueJob, D) \cup {QueueJob'[i]}
      <4>1. \A k \in D : QueueJob'[k] = QueueJob[k]
        BY <3>2
      <4>2. Named(QueueJob', D) = Named(QueueJob, D)
        BY <4>1 DEF Named
      <4>3. Named(QueueJob', D \cup {i}) = Named(QueueJob, D) \cup {QueueJob'[i]}
        BY <4>1 DEF Named
      <4> QED BY <4>2, <4>3
    <3> QED BY <3>4, <3>5
  <2>2. QueueDue \in SUBSET Queued /\ Queued \in SUBSET Queued
    BY DEF QueueDue
  <2> QED BY <1>9, <1>10, <1>11, <2>1, <2>2 DEF QueueJobs, QueueDueJobs
<1>14. ClockInv'
  <2> SUFFICES ASSUME NEW k \in Queued' PROVE EntryInTime(queue_[k], releasing \cap {k})'
    BY DEF ClockInv
  <2>1. CASE k = i
    BY <1>4, <1>5, <1>7, <1>8, <2>1 DEF EntryInTime
  <2>2. CASE k # i
    <3>1. k \in Queued /\ queue_'[k] = queue_[k]
      BY <1>8, <1>9, <2>2
    <3> QED BY <1>0, <1>4, <3>1 DEF EntryInTime, ClockInv
  <2> QED BY <2>1, <2>2
<1>15. OneEach(QueueJob, Queued)'
  BY <1>13 DEF OneEach
<1> QED BY <1>3, <1>4, <1>13, <1>14, <1>15 DEF Gains

LEMMA ReleaseSends ==
  ASSUME SequencingInv, SeqRelease
  PROVE  /\ Sends(QueueJobs, QueueDueJobs, QueueJobs', QueueDueJobs')
         /\ OneEach(QueueJob, Queued)'
         /\ (releasing \subseteq QueueDue)'
         /\ ClockInv'
<1> DEFINE i == Min(releasing)
           j == queue_[i].job
<1>0. /\ queue_ \in [1 .. MAX_SCHEDULED -> Entry]
      /\ OneEach(QueueJob, Queued) /\ releasing \subseteq QueueDue /\ ClockInv
  BY DEF SequencingInv, TypedInv, SeqTyped, AgendaInv, JobsInv, ScansInv
<1>1. i \in releasing /\ i \in 1 .. MAX_SCHEDULED
  <2>1. releasing \subseteq 1 .. MAX_SCHEDULED /\ releasing # {}
    BY <1>0 DEF QueueDue, Queued, SeqRelease
  <2> QED BY <2>1, Bounds, LeastIndex
<1>2. i \in QueueDue /\ i \in Queued /\ QueueDue \in SUBSET Queued /\ Queued \in SUBSET Queued
  BY <1>0, <1>1 DEF QueueDue
<1>3. /\ queue_' = [queue_ EXCEPT ![i] = NoEntry] /\ releasing' = releasing \ {i}
      /\ fate' \in {Fated({j}, "sent"), Fated({j}, "lost")}
      /\ met' = met /\ stall' = stall
  BY DEF SeqRelease
<1> HIDE DEF i
<1>4. /\ DOMAIN queue_' = 1 .. MAX_SCHEDULED /\ ~queue_'[i].active
      /\ \A k \in 1 .. MAX_SCHEDULED \ {i} : queue_'[k] = queue_[k]
      /\ Queued \subseteq 1 .. MAX_SCHEDULED
  BY <1>0, <1>1, <1>3 DEF Queued, NoEntry
<1>5. Queued' = Queued \ {i}
  BY <1>0, <1>1, <1>4 DEF Queued
<1>6. QueueDue' = QueueDue \ {i}
  <2>1. QueueDue' = {k \in Queued \ {i} : queue_'[k].left = 0 \/ queue_'[k].long}
    BY <1>5 DEF QueueDue
  <2>2. \A k \in Queued \ {i} : queue_'[k] = queue_[k]
    BY <1>4
  <2> QED BY <2>1, <2>2 DEF QueueDue
<1>7. QueueJob[i] = j /\ \A k \in Queued \ {i} : QueueJob'[k] = QueueJob[k]
  BY <1>0, <1>1, <1>4 DEF QueueJob
<1>8. /\ OneEach(QueueJob', Queued')
      /\ QueueJobs' = QueueJobs \ {j}
      /\ QueueDueJobs' = QueueDueJobs \ {j}
      /\ j \in QueueDueJobs
  <2>1. /\ OneEach(QueueJob', Queued \ {i})
        /\ \A D \in SUBSET Queued : Named(QueueJob', D \ {i}) = Named(QueueJob, D) \ {QueueJob[i]}
    <3>1. OneEach(QueueJob, Queued) /\ i \in Queued
      BY <1>0, <1>2
    <3>2. \A k \in Queued \ {i} : QueueJob'[k] = QueueJob[k]
      BY <1>7
    <3>3. OneEach(QueueJob', Queued \ {i})
      BY <3>1, <3>2, NamedDrop
    <3>4. ASSUME NEW D \in SUBSET Queued
          PROVE  Named(QueueJob', D \ {i}) = Named(QueueJob, D) \ {QueueJob[i]}
      <4>1. \A k \in D \ {i} : QueueJob'[k] = QueueJob[k]
        BY <3>2
      <4> QED BY <3>1, <4>1, NamedDropPart
    <3> QED BY <3>3, <3>4
  <2>2. j \in QueueDueJobs
    BY <1>2, <1>7 DEF QueueDueJobs, Named
  <2> QED BY <1>2, <1>5, <1>6, <1>7, <2>1, <2>2 DEF QueueJobs, QueueDueJobs
<1>9. ClockInv'
  <2> SUFFICES ASSUME NEW k \in Queued' PROVE EntryInTime(queue_[k], releasing \cap {k})'
    BY DEF ClockInv
  <2>1. k \in Queued /\ queue_'[k] = queue_[k] /\ releasing' \cap {k} = releasing \cap {k}
    BY <1>3, <1>4, <1>5
  <2> QED BY <1>0, <1>3, <2>1 DEF EntryInTime, ClockInv
<1>10. OneEach(QueueJob, Queued)' /\ (releasing \subseteq QueueDue)'
  BY <1>0, <1>3, <1>6, <1>8 DEF OneEach
<1> HIDE DEF j
<1> QED BY <1>3, <1>8, <1>9, <1>10 DEF Sends

LEMMA ClearClears ==
  ASSUME SequencingInv, SeqClear
  PROVE  /\ Clears(QueueJobs, QueueDueJobs, QueueJobs', QueueDueJobs')
         /\ OneEach(QueueJob, Queued)'
         /\ (releasing \subseteq QueueDue)'
         /\ ClockInv'
<1>1. Queued' = {} /\ QueueDue' = {} /\ releasing' = {}
  <2>1. Queued' = {}
    BY DEF SeqClear, Queued, NoEntry
  <2>2. releasing' = {}
    BY DEF SeqClear, SeqHandles, SequencingInv, TypedInv, Places
  <2> QED BY <2>1, <2>2 DEF QueueDue
<1>2. QueueJobs = {queue_[i].job : i \in Queued}
  BY DEF QueueJobs, Named, QueueJob, Queued
<1>3. fate' = Fated(QueueJobs, "cleared")
  BY <1>2 DEF SeqClear
<1>4. QueueJobs' = {} /\ QueueDueJobs' = {}
  BY <1>1 DEF QueueJobs, QueueDueJobs, Named
<1> QED BY <1>1, <1>3, <1>4 DEF Clears, OneEach, ClockInv

LEMMA ScanFindsDue ==
  ASSUME SequencingInv, SeqScan
  PROVE  /\ (releasing \subseteq QueueDue)'
         /\ ClockInv'
         /\ \A i \in Queued : queue_[i].left = 0 /\ ~queue_[i].long => i \in releasing'
<1>0. /\ queue_ \in [1 .. MAX_SCHEDULED -> Entry] /\ met \in 0 .. Wrap - 1 /\ stall \in 0 .. MaxStall
      /\ ClockInv
  BY DEF SequencingInv, TypedInv, SeqTyped, ThreadTyped, AgendaInv
<1>1. releasing = {} /\ queue_' = queue_ /\ met' = met /\ stall' = 0
  BY DEF SeqScan, SequencingInv, TypedInv, Places
<1>2. releasing' = {i \in Queued : IsDue(queue_[i].release)}
  BY DEF SeqScan
<1>3. \A i \in Queued : queue_[i] \in Entry
  BY <1>0 DEF Queued
<1>4. ASSUME NEW i \in Queued, ~queue_[i].long
      PROVE  IsDue(queue_[i].release) <=> queue_[i].left = 0
  <2>1. PICK e \in Entry : e = queue_[i]
    BY <1>3
  <2>2. e.release \in 0 .. Wrap - 1 /\ e.left \in Nat
    BY <2>1 DEF Entry
  <2>3. EntryInTime(e, {})
    BY <1>0, <1>1, <2>1 DEF ClockInv
  <2>4. CASE e.left = 0
    <3>1. PICK late \in 0 .. stall : met = Later(e.release, late)
      BY <1>4, <2>1, <2>3, <2>4 DEF EntryInTime
    <3>2. late \in Nat /\ late < Wrap \div 2
      BY <1>0, Bounds
    <3> QED BY <1>0, <2>1, <2>2, <2>4, <3>1, <3>2, DueWhen
  <2>5. CASE e.left > 0
    <3>1. e.left <= Wrap \div 2 /\ e.release = Later(met, e.left)
      BY <1>4, <2>1, <2>3, <2>5 DEF EntryInTime
    <3>2. ~IsDue(e.release)
      BY <1>0, <2>2, <2>5, <3>1, DueWhen
    <3> QED BY <2>1, <2>2, <2>5, <3>2
  <2> QED BY <2>2, <2>4, <2>5
<1>5. \A i \in Queued : queue_[i].left = 0 /\ ~queue_[i].long => i \in releasing'
  BY <1>2, <1>4
<1>6. Queued' = Queued /\ (releasing \subseteq QueueDue)'
  BY <1>1, <1>2, <1>4 DEF Queued, QueueDue
<1>7. ClockInv'
  <2> SUFFICES ASSUME NEW i \in Queued PROVE EntryInTime(queue_[i], releasing \cap {i})'
    BY <1>6 DEF ClockInv
  <2>1. EntryInTime(queue_[i], releasing \cap {i})
    BY <1>0 DEF ClockInv
  <2> QED BY <1>1, <1>5, <2>1 DEF EntryInTime
<1> QED BY <1>5, <1>6, <1>7

LEMMA TickRipensQueue ==
  ASSUME SequencingInv, MetTicks
  PROVE  /\ QueueJobs' = QueueJobs /\ QueueDueJobs \subseteq QueueDueJobs'
         /\ OneEach(QueueJob, Queued)'
         /\ (releasing \subseteq QueueDue)'
         /\ ClockInv'
<1>0. /\ queue_ \in [1 .. MAX_SCHEDULED -> Entry] /\ met \in 0 .. Wrap - 1 /\ stall \in 0 .. MaxStall
      /\ OneEach(QueueJob, Queued) /\ releasing \subseteq QueueDue /\ ClockInv
  BY DEF SequencingInv, TypedInv, SeqTyped, ThreadTyped, AgendaInv, JobsInv, ScansInv
<1>1. /\ queue_' = [i \in 1 .. MAX_SCHEDULED |-> [queue_[i] EXCEPT !.left = Sooner(@)]]
      /\ releasing' = releasing
  BY <1>0 DEF MetTicks
<1>2. ASSUME NEW e \in Entry, NEW f, f = [e EXCEPT !.left = Sooner(@)]
      PROVE  f.active = e.active /\ f.job = e.job /\ f.long = e.long /\ (e.left = 0 => f.left = 0)
  BY <1>2 DEF Entry, Sooner
<1>3. /\ DOMAIN queue_' = 1 .. MAX_SCHEDULED
      /\ \A i \in 1 .. MAX_SCHEDULED :
           /\ queue_[i] \in Entry /\ queue_'[i] = [queue_[i] EXCEPT !.left = Sooner(@)]
           /\ queue_'[i].active = queue_[i].active /\ queue_'[i].job = queue_[i].job
           /\ queue_'[i].long = queue_[i].long /\ (queue_[i].left = 0 => queue_'[i].left = 0)
  BY <1>0, <1>1, <1>2
<1>4. Queued' = Queued /\ Queued \subseteq 1 .. MAX_SCHEDULED /\ QueueDue \subseteq QueueDue'
  BY <1>0, <1>3 DEF Queued, QueueDue
<1>5. \A i \in Queued : QueueJob'[i] = QueueJob[i]
  BY <1>0, <1>3, <1>4 DEF QueueJob
<1>6. /\ OneEach(QueueJob', Queued)
      /\ \A D \in SUBSET Queued : Named(QueueJob', D) = Named(QueueJob, D)
  <2>1. OneEach(QueueJob', Queued)
    BY <1>0, <1>5 DEF OneEach
  <2>2. \A D \in SUBSET Queued : Named(QueueJob', D) = Named(QueueJob, D)
    BY <1>5 DEF Named
  <2> QED BY <2>1, <2>2
<1>7. QueueJobs' = QueueJobs
  BY <1>4, <1>6 DEF QueueJobs
<1>8. QueueDueJobs \subseteq QueueDueJobs'
  <2>1. QueueDueJobs = Named(QueueJob', QueueDue)
    BY <1>6 DEF QueueDueJobs, QueueDue
  <2> QED BY <1>4, <2>1 DEF QueueDueJobs, Named
<1>9. ClockInv'
  <2> SUFFICES ASSUME NEW i \in Queued PROVE EntryInTime(queue_[i], releasing \cap {i})'
    BY <1>4 DEF ClockInv
  <2>1. Queued # {} /\ stall < MaxStall /\ stall' = stall + 1 /\ met' = (met + 1) % Wrap
    BY DEF MetTicks
  <2>2. PICK found : found = releasing \cap {i}
    OBVIOUS
  <2>3. queue_[i] \in Entry /\ EntryInTime(queue_[i], found)
    BY <1>0, <1>3, <1>4, <2>2 DEF ClockInv
  <2>4. PICK e \in Entry : e = queue_[i]
    BY <2>3
  <2>5. PICK f : f = queue_'[i] /\ f = [e EXCEPT !.left = Sooner(@)]
    BY <1>3, <1>4, <2>4
  <2>6. EntryInTime(f, found)'
    BY <1>0, <2>1, <2>3, <2>4, <2>5, OneTickLater
  <2> QED BY <1>1, <2>2, <2>5, <2>6 DEF EntryInTime
<1>10. OneEach(QueueJob, Queued)' /\ (releasing \subseteq QueueDue)'
  BY <1>0, <1>1, <1>4, <1>6 DEF OneEach
<1> QED BY <1>7, <1>8, <1>9, <1>10

LEMMA CommitGains ==
  ASSUME SequencingInv, AtsCommit
  PROVE  /\ Gains(EntryJobs, EntryDueJobs, EntryJobs', EntryDueJobs')
         /\ OneEach(EntryJob, Active)'
         /\ (executing \subseteq AtsDue)'
<1> DEFINE i == Min(FreeSlots)
           waits == staged_.trigger = "REL_EVENT"
<1>0. /\ entries_ \in [1 .. MAX_SEQUENCE_ENTRIES -> TimedEntry]
      /\ OneEach(EntryJob, Active) /\ EntryJobs \subseteq WaitingJobs
  BY DEF SequencingInv, TypedInv, AtsTyped, AgendaInv, JobsInv
<1>1. i \in FreeSlots /\ i \in 1 .. MAX_SEQUENCE_ENTRIES
  <2>1. FreeSlots \subseteq 1 .. MAX_SEQUENCE_ENTRIES /\ FreeSlots # {}
    BY <1>0 DEF FreeSlots, AtsCommit
  <2> QED BY <2>1, Bounds, LeastIndex
<1>2. PICK left \in 0 .. staged_.time :
        entries_' = [entries_ EXCEPT ![i] =
                       [active |-> TRUE, waiting_event |-> waits,
                        trigger |-> staged_.trigger, source |-> staged_.source,
                        left |-> left, cmd |-> staged_.cmd, job |-> NextJob]]
  BY DEF AtsCommit
<1> DEFINE e == [active |-> TRUE, waiting_event |-> waits, trigger |-> staged_.trigger,
                 source |-> staged_.source, left |-> left, cmd |-> staged_.cmd, job |-> NextJob]
<1>3. NextJob \in Jobs /\ fate[NextJob] = "new"
  BY NextIsNew DEF SequencingInv, AgendaInv, AtsCommit
<1>4. /\ entries_' = [entries_ EXCEPT ![i] = e] /\ executing' = executing
      /\ fate' = Fated({NextJob}, "waiting")
  BY <1>2 DEF AtsCommit, AtsHandles
<1>5. executing' = {}
  BY <1>4 DEF AtsCommit, AtsHandles, SequencingInv, TypedInv, Places
<1>6. e.active /\ e.job = NextJob
  OBVIOUS
<1> HIDE DEF e, i
<1>7. /\ DOMAIN entries_' = 1 .. MAX_SEQUENCE_ENTRIES /\ entries_'[i] = e
      /\ \A k \in 1 .. MAX_SEQUENCE_ENTRIES \ {i} : entries_'[k] = entries_[k]
      /\ Active \subseteq 1 .. MAX_SEQUENCE_ENTRIES /\ i \notin Active
  BY <1>0, <1>1, <1>4 DEF Active, FreeSlots
<1>8. Active' = Active \cup {i}
  BY <1>0, <1>1, <1>6, <1>7 DEF Active
<1>9. AtsDue' = AtsDue \/ AtsDue' = AtsDue \cup {i}
  <2>1. CASE ~e.waiting_event /\ e.left = 0
    BY <1>7, <1>8, <2>1 DEF AtsDue
  <2>2. CASE ~(~e.waiting_event /\ e.left = 0)
    BY <1>7, <1>8, <2>2 DEF AtsDue
  <2> QED BY <2>1, <2>2
<1>10. EntryJob'[i] = NextJob /\ \A k \in Active : EntryJob'[k] = EntryJob[k]
  BY <1>0, <1>1, <1>6, <1>7 DEF EntryJob
<1>11. NextJob \notin EntryJobs
  BY <1>0, <1>3 DEF WaitingJobs
<1>12. /\ OneEach(EntryJob', Active')
       /\ EntryJobs' = EntryJobs \cup {NextJob}
       /\ EntryDueJobs' \in {EntryDueJobs, EntryDueJobs \cup {NextJob}}
  <2>1. OneEach(EntryJob, Active) /\ i \notin Active
    BY <1>0, <1>7
  <2>2. \A k \in Active : EntryJob'[k] = EntryJob[k]
    BY <1>10
  <2>3. EntryJob'[i] \notin Named(EntryJob, Active)
    BY <1>10, <1>11 DEF EntryJobs
  <2>4. OneEach(EntryJob', Active \cup {i})
    BY <2>1, <2>2, <2>3, NamedAdd
  <2>5. ASSUME NEW D \in SUBSET Active
        PROVE  /\ Named(EntryJob', D) = Named(EntryJob, D)
               /\ Named(EntryJob', D \cup {i}) = Named(EntryJob, D) \cup {EntryJob'[i]}
    <3>1. \A k \in D : EntryJob'[k] = EntryJob[k]
      BY <2>2
    <3>2. Named(EntryJob', D) = Named(EntryJob, D)
      BY <3>1 DEF Named
    <3>3. Named(EntryJob', D \cup {i}) = Named(EntryJob, D) \cup {EntryJob'[i]}
      BY <3>1 DEF Named
    <3> QED BY <3>2, <3>3
  <2>6. AtsDue \in SUBSET Active /\ Active \in SUBSET Active
    BY DEF AtsDue
  <2> QED BY <1>8, <1>9, <1>10, <2>4, <2>5, <2>6 DEF EntryJobs, EntryDueJobs
<1>13. OneEach(EntryJob, Active)'
  BY <1>12 DEF OneEach
<1> QED BY <1>3, <1>4, <1>5, <1>12, <1>13 DEF Gains

LEMMA ExecuteSends ==
  ASSUME SequencingInv, AtsExecute
  PROVE  /\ Sends(EntryJobs, EntryDueJobs, EntryJobs', EntryDueJobs')
         /\ OneEach(EntryJob, Active)'
         /\ (executing \subseteq AtsDue)'
<1> DEFINE i == Min(executing)
           j == entries_[i].job
<1>0. /\ entries_ \in [1 .. MAX_SEQUENCE_ENTRIES -> TimedEntry]
      /\ OneEach(EntryJob, Active) /\ executing \subseteq AtsDue
  BY DEF SequencingInv, TypedInv, AtsTyped, AgendaInv, JobsInv, ScansInv
<1>1. i \in executing /\ i \in 1 .. MAX_SEQUENCE_ENTRIES
  <2>1. executing \subseteq 1 .. MAX_SEQUENCE_ENTRIES /\ executing # {}
    BY <1>0 DEF AtsDue, Active, AtsExecute
  <2> QED BY <2>1, Bounds, LeastIndex
<1>2. i \in AtsDue /\ i \in Active /\ AtsDue \in SUBSET Active /\ Active \in SUBSET Active
  BY <1>0, <1>1 DEF AtsDue
<1>3. /\ entries_' = [entries_ EXCEPT ![i] = Empty] /\ executing' = executing \ {i}
      /\ fate' \in {Fated({j}, "sent"), Fated({j}, "lost")}
  BY DEF AtsExecute
<1> HIDE DEF i
<1>4. /\ DOMAIN entries_' = 1 .. MAX_SEQUENCE_ENTRIES /\ ~entries_'[i].active
      /\ \A k \in 1 .. MAX_SEQUENCE_ENTRIES \ {i} : entries_'[k] = entries_[k]
      /\ Active \subseteq 1 .. MAX_SEQUENCE_ENTRIES
  BY <1>0, <1>1, <1>3 DEF Active, Empty
<1>5. Active' = Active \ {i}
  BY <1>0, <1>1, <1>4 DEF Active
<1>6. AtsDue' = AtsDue \ {i}
  <2>1. AtsDue' = {k \in Active \ {i} : ~entries_'[k].waiting_event /\ entries_'[k].left = 0}
    BY <1>5 DEF AtsDue
  <2>2. \A k \in Active \ {i} : entries_'[k] = entries_[k]
    BY <1>4
  <2> QED BY <2>1, <2>2 DEF AtsDue
<1>7. EntryJob[i] = j /\ \A k \in Active \ {i} : EntryJob'[k] = EntryJob[k]
  BY <1>0, <1>1, <1>4 DEF EntryJob
<1>8. /\ OneEach(EntryJob', Active')
      /\ EntryJobs' = EntryJobs \ {j}
      /\ EntryDueJobs' = EntryDueJobs \ {j}
      /\ j \in EntryDueJobs
  <2>1. OneEach(EntryJob, Active) /\ i \in Active
    BY <1>0, <1>2
  <2>2. \A k \in Active \ {i} : EntryJob'[k] = EntryJob[k]
    BY <1>7
  <2>3. OneEach(EntryJob', Active \ {i})
    BY <2>1, <2>2, NamedDrop
  <2>4. ASSUME NEW D \in SUBSET Active
        PROVE  Named(EntryJob', D \ {i}) = Named(EntryJob, D) \ {EntryJob[i]}
    <3>1. \A k \in D \ {i} : EntryJob'[k] = EntryJob[k]
      BY <2>2
    <3> QED BY <2>1, <3>1, NamedDropPart
  <2>5. j \in EntryDueJobs
    BY <1>2, <1>7 DEF EntryDueJobs, Named
  <2> QED BY <1>2, <1>5, <1>6, <1>7, <2>3, <2>4, <2>5 DEF EntryJobs, EntryDueJobs
<1>9. OneEach(EntryJob, Active)' /\ (executing \subseteq AtsDue)'
  BY <1>0, <1>3, <1>6, <1>8 DEF OneEach
<1> HIDE DEF j
<1> QED BY <1>3, <1>8, <1>9 DEF Sends

LEMMA AtsClearClears ==
  ASSUME SequencingInv, AtsClear
  PROVE  /\ Clears(EntryJobs, EntryDueJobs, EntryJobs', EntryDueJobs')
         /\ OneEach(EntryJob, Active)'
         /\ (executing \subseteq AtsDue)'
<1>1. Active' = {} /\ AtsDue' = {} /\ executing' = {}
  <2>1. Active' = {}
    BY DEF AtsClear, Active, Empty
  <2>2. executing' = {}
    BY DEF AtsClear, AtsHandles, SequencingInv, TypedInv, Places
  <2> QED BY <2>1, <2>2 DEF AtsDue
<1>2. EntryJobs = {entries_[i].job : i \in Active}
  BY DEF EntryJobs, Named, EntryJob, Active
<1>3. fate' = Fated(EntryJobs, "cleared")
  BY <1>2 DEF AtsClear
<1>4. EntryJobs' = {} /\ EntryDueJobs' = {}
  BY <1>1 DEF EntryJobs, EntryDueJobs, Named
<1> QED BY <1>1, <1>3, <1>4 DEF Clears, OneEach

LEMMA EntriesRipen ==
  ASSUME SequencingInv, MetTicks \/ UtcMoves \/ OnEvent
  PROVE  /\ EntryJobs' = EntryJobs /\ EntryDueJobs \subseteq EntryDueJobs'
         /\ OneEach(EntryJob, Active)'
         /\ (executing \subseteq AtsDue)'
<1>0. /\ AtsTyped /\ entries_ \in [1 .. MAX_SEQUENCE_ENTRIES -> TimedEntry]
      /\ OneEach(EntryJob, Active) /\ executing \subseteq AtsDue
  BY DEF SequencingInv, TypedInv, AtsTyped, AgendaInv, JobsInv, ScansInv
<1>1. /\ executing' = executing
      /\ entries_' = [i \in 1 .. MAX_SEQUENCE_ENTRIES |-> entries_'[i]]
      /\ \A i \in 1 .. MAX_SEQUENCE_ENTRIES : Moved(entries_[i], entries_'[i])
  BY <1>0, EntriesMove
<1>2. Active' = Active /\ Active \subseteq 1 .. MAX_SEQUENCE_ENTRIES
  BY <1>0, <1>1 DEF Active, Moved
<1>3. AtsDue \subseteq AtsDue'
  BY <1>1, <1>2 DEF AtsDue, Moved
<1>4. \A i \in Active : EntryJob'[i] = EntryJob[i]
  BY <1>0, <1>1, <1>2 DEF EntryJob, Moved
<1>5. /\ OneEach(EntryJob', Active)
      /\ \A D \in SUBSET Active : Named(EntryJob', D) = Named(EntryJob, D)
  <2>1. OneEach(EntryJob', Active)
    BY <1>0, <1>4 DEF OneEach
  <2>2. \A D \in SUBSET Active : Named(EntryJob', D) = Named(EntryJob, D)
    BY <1>4 DEF Named
  <2> QED BY <2>1, <2>2
<1>6. EntryJobs' = EntryJobs
  BY <1>2, <1>5 DEF EntryJobs
<1>7. EntryDueJobs \subseteq EntryDueJobs'
  <2>1. EntryDueJobs = Named(EntryJob', AtsDue)
    BY <1>5 DEF EntryDueJobs, AtsDue
  <2> QED BY <1>3, <2>1 DEF EntryDueJobs, Named
<1>8. OneEach(EntryJob, Active)' /\ (executing \subseteq AtsDue)'
  BY <1>0, <1>1, <1>2, <1>3, <1>5 DEF OneEach
<1> QED BY <1>6, <1>7, <1>8

-----------------------------------------------------------------------------

LEMMA OrderKept ==
  ASSUME LossInv, InOrder, AgendaStep, QueueJobs \cup EntryJobs \subseteq WaitingJobs
  PROVE  InOrder'
<1>0. fate \in [Jobs -> Fates] /\ DuePart
  BY DueSets DEF LossInv, Fates
<1>1. \/ fate' = fate
      \/ NextJob \in Jobs /\ \E f \in {"waiting", "lost"} : fate' = Fated({NextJob}, f)
      \/ \E S \in SUBSET WaitingJobs, f \in {"sent", "lost", "cleared"} : fate' = Fated(S, f)
  <2>1. CASE Refuses \/ Ripens
    BY <2>1 DEF Refuses, Ripens
  <2>2. ASSUME NEW J, NEW D, NEW K, NEW E, J \subseteq WaitingJobs, D \subseteq J,
               TableStep(J, D, K, E)
        PROVE  \/ NextJob \in Jobs /\ fate' = Fated({NextJob}, "waiting")
               \/ \E S \in SUBSET WaitingJobs, f \in {"sent", "lost", "cleared"} : fate' = Fated(S, f)
    <3>1. CASE Gains(J, D, K, E)
      BY <3>1 DEF Gains
    <3>2. CASE Sends(J, D, K, E)
      <4>1. PICK j \in D : fate' \in {Fated({j}, "sent"), Fated({j}, "lost")}
        BY <3>2 DEF Sends
      <4>2. {j} \in SUBSET WaitingJobs
        BY <2>2
      <4> QED BY <4>1, <4>2
    <3>3. CASE Clears(J, D, K, E)
      BY <2>2, <3>3 DEF Clears
    <3> QED BY <2>2, <3>1, <3>2, <3>3 DEF TableStep
  <2>3. CASE TableStep(QueueJobs, QueueDueJobs, QueueJobs', QueueDueJobs')
    <3>1. QueueJobs \subseteq WaitingJobs /\ QueueDueJobs \subseteq QueueJobs
      BY <1>0 DEF DuePart
    <3> QED BY <2>2, <2>3, <3>1
  <2>4. CASE TableStep(EntryJobs, EntryDueJobs, EntryJobs', EntryDueJobs')
    <3>1. EntryJobs \subseteq WaitingJobs /\ EntryDueJobs \subseteq EntryJobs
      BY <1>0 DEF DuePart
    <3> QED BY <2>2, <2>4, <3>1
  <2> QED BY <2>1, <2>3, <2>4 DEF AgendaStep
<1>2. CASE fate' = fate
  BY <1>2 DEF InOrder, Jobs
<1>3. CASE NextJob \in Jobs /\ \E f \in {"waiting", "lost"} : fate' = Fated({NextJob}, f)
  <2>1. PICK f \in {"waiting", "lost"} : fate' = Fated({NextJob}, f)
    BY <1>3
  <2>2. PICK n \in Jobs : n = NextJob
    BY <1>3
  <2>3. fate[n] = "new" /\ \A k \in Jobs : k < n => fate[k] # "new"
    BY <2>2, NextIsNew
  <2>4. \A k \in Jobs : fate'[k] = IF k = n THEN f ELSE fate[k]
    BY <2>1, <2>2 DEF Fated
  <2>5. Jobs' = Jobs /\ Jobs \subseteq Nat
    BY DEF Jobs
  <2>6. ASSUME NEW j \in Jobs, NEW k \in Jobs, k <= j, fate'[j] # "new"
        PROVE  fate'[k] # "new"
    <3>1. CASE j = n
      BY <2>1, <2>3, <2>4, <2>5, <2>6, <3>1
    <3>2. CASE j # n
      BY <2>1, <2>4, <2>6, <3>2 DEF InOrder
    <3> QED BY <3>1, <3>2
  <2> QED BY <2>5, <2>6 DEF InOrder
<1>4. CASE \E S \in SUBSET WaitingJobs, f \in {"sent", "lost", "cleared"} : fate' = Fated(S, f)
  <2>1. PICK S \in SUBSET WaitingJobs, f \in {"sent", "lost", "cleared"} : fate' = Fated(S, f)
    BY <1>4
  <2>2. \A k \in Jobs : fate'[k] # "new" <=> fate[k] # "new"
    BY <2>1 DEF Fated, WaitingJobs
  <2>3. Jobs' = Jobs
    BY DEF Jobs
  <2> QED BY <2>2, <2>3 DEF InOrder
<1> QED BY <1>1, <1>2, <1>3, <1>4

\* What is left to show of a step: the agenda's, and what it leaves of the rest.
StepShown ==
  /\ AgendaStep
  /\ OneEach(QueueJob, Queued)' /\ OneEach(EntryJob, Active)'
  /\ ScansInv' /\ ClockInv'

LEMMA SameClock ==
  ASSUME ClockInv, queue_' = queue_, releasing' = releasing, met' = met, stall' = stall
  PROVE  ClockInv'
<1>1. Queued' = Queued
  BY DEF Queued
<1> QED BY <1>1 DEF ClockInv, EntryInTime

LEMMA SameDue ==
  /\ queue_' = queue_ => QueueDue' = QueueDue
  /\ entries_' = entries_ => AtsDue' = AtsDue
<1>1. ASSUME queue_' = queue_ PROVE QueueDue' = QueueDue
  <2>1. Queued' = Queued
    BY <1>1 DEF Queued
  <2> QED BY <1>1, <2>1 DEF QueueDue
<1>2. ASSUME entries_' = entries_ PROVE AtsDue' = AtsDue
  <2>1. Active' = Active
    BY <1>2 DEF Active
  <2> QED BY <1>2, <2>1 DEF AtsDue
<1> QED BY <1>1, <1>2

\* The steps of the command sequencer leave the other's table alone, and the other way
\* around.
LEMMA EntriesAlone ==
  ASSUME SequencingInv, entries_' = entries_, executing' = executing
  PROVE  SameEntries /\ OneEach(EntryJob, Active)' /\ (executing \subseteq AtsDue)'
BY SameTables, SameDue DEF SequencingInv, AgendaInv, JobsInv, ScansInv

LEMMA QueueAlone ==
  ASSUME SequencingInv, queue_' = queue_, releasing' = releasing
  PROVE  SameQueue /\ OneEach(QueueJob, Queued)' /\ (releasing \subseteq QueueDue)'
BY SameTables, SameDue DEF SequencingInv, AgendaInv, JobsInv, ScansInv

LEMMA NothingDone ==
  ASSUME SequencingInv, fate' = fate, queue_' = queue_, releasing' = releasing,
         entries_' = entries_, executing' = executing, met' = met, stall' = stall
  PROVE  StepShown
<1>1. ClockInv'
  BY SameClock DEF SequencingInv, AgendaInv
<1>2. Ripens
  BY EntriesAlone, QueueAlone DEF Ripens, SameQueue, SameEntries
<1> QED BY <1>1, <1>2, EntriesAlone, QueueAlone DEF StepShown, AgendaStep, ScansInv

LEMMA SeqShown ==
  ASSUME SequencingInv, SeqStep, UNCHANGED <<atsVars, modeVars, campaign, burst>>
  PROVE  StepShown
<1>0. /\ SameEntries /\ OneEach(EntryJob, Active)' /\ (executing \subseteq AtsDue)'
      /\ ClockInv /\ entries_' = entries_ /\ executing' = executing
  <2>1. entries_' = entries_ /\ executing' = executing
    BY DEF atsVars
  <2> QED BY <2>1, EntriesAlone DEF SequencingInv, AgendaInv
<1>1. CASE SeqSchedule
  <2>1. (releasing \subseteq QueueDue)'
    BY <1>1 DEF SeqSchedule, SeqHandles, SequencingInv, TypedInv, Places
  <2> QED BY <1>0, <1>1, <2>1, ScheduleGains DEF StepShown, AgendaStep, TableStep, ScansInv
<1>2. CASE SeqRelease
  BY <1>0, <1>2, ReleaseSends DEF StepShown, AgendaStep, TableStep, ScansInv
<1>3. CASE SeqClear
  BY <1>0, <1>3, ClearClears DEF StepShown, AgendaStep, TableStep, ScansInv
<1>4. CASE SeqFull
  <2>1. /\ queue_' = queue_ /\ releasing' = releasing /\ met' = met /\ stall' = stall
        /\ NextJob \in Jobs /\ fate' = Fated({NextJob}, "lost")
    BY <1>4 DEF SeqFull, SeqHandles
  <2>2. SameQueue /\ OneEach(QueueJob, Queued)' /\ (releasing \subseteq QueueDue)' /\ ClockInv'
    BY <1>0, <2>1, QueueAlone, SameClock
  <2> QED BY <1>0, <2>1, <2>2 DEF StepShown, AgendaStep, Refuses, ScansInv
<1>5. CASE SeqScan
  <2>1. queue_' = queue_ /\ fate' = fate
    BY <1>5 DEF SeqScan
  <2>2. SameQueue /\ OneEach(QueueJob, Queued)'
    BY <2>1, SameTables DEF SequencingInv, AgendaInv, JobsInv
  <2>3. Ripens
    BY <1>0, <2>1, <2>2 DEF Ripens, SameQueue, SameEntries
  <2> QED BY <1>0, <1>5, <2>2, <2>3, ScanFindsDue DEF StepShown, AgendaStep, ScansInv
<1>6. CASE SeqStage \/ SeqBadOpcode \/ SeqReturns
  <2>1. /\ queue_' = queue_ /\ releasing' = releasing /\ fate' = fate /\ met' = met /\ stall' = stall
    BY <1>6 DEF SeqStage, SeqBadOpcode, SeqReturns, SeqHandles, seqVars
  <2> QED BY <1>0, <2>1, NothingDone
<1> QED BY <1>1, <1>2, <1>3, <1>4, <1>5, <1>6 DEF SeqStep

LEMMA AtsShown ==
  ASSUME SequencingInv, AtsStep, UNCHANGED <<seqVars, modeVars, campaign, burst>>
  PROVE  StepShown
<1>0. /\ queue_' = queue_ /\ releasing' = releasing /\ met' = met /\ stall' = stall
  BY DEF AtsStep, AtsHandles, AtsStage, AtsCommit, AtsFull, AtsArm, AtsClear, AtsBadOpcode,
     AtsDrained, OnEvent, AtsScan, AtsExecute, AtsReturns, seqVars
<1>1. SameQueue /\ OneEach(QueueJob, Queued)' /\ (releasing \subseteq QueueDue)' /\ ClockInv'
  BY <1>0, QueueAlone, SameClock DEF SequencingInv, AgendaInv
<1>2. CASE AtsCommit
  BY <1>1, <1>2, CommitGains DEF StepShown, AgendaStep, TableStep, ScansInv
<1>3. CASE AtsExecute
  BY <1>1, <1>3, ExecuteSends DEF StepShown, AgendaStep, TableStep, ScansInv
<1>4. CASE AtsClear
  BY <1>1, <1>4, AtsClearClears DEF StepShown, AgendaStep, TableStep, ScansInv
<1>5. CASE AtsFull
  <2>1. /\ entries_' = entries_ /\ executing' = executing
        /\ NextJob \in Jobs /\ fate' = Fated({NextJob}, "lost")
    BY <1>5 DEF AtsFull, AtsHandles
  <2>2. SameEntries /\ OneEach(EntryJob, Active)' /\ (executing \subseteq AtsDue)'
    BY <2>1, EntriesAlone
  <2> QED BY <1>1, <2>1, <2>2 DEF StepShown, AgendaStep, Refuses, ScansInv
<1>6. CASE OnEvent
  <2>1. fate' = fate
    BY <1>6 DEF OnEvent
  <2>2. /\ EntryJobs' = EntryJobs /\ EntryDueJobs \subseteq EntryDueJobs'
        /\ OneEach(EntryJob, Active)' /\ (executing \subseteq AtsDue)'
    BY <1>6, EntriesRipen
  <2>3. Ripens
    BY <1>1, <2>1, <2>2 DEF Ripens, SameQueue
  <2> QED BY <1>1, <2>2, <2>3 DEF StepShown, AgendaStep, ScansInv
<1>7. CASE AtsScan
  <2>1. entries_' = entries_ /\ fate' = fate
    BY <1>7 DEF AtsScan
  <2>2. SameEntries /\ OneEach(EntryJob, Active)'
    BY <2>1, SameTables DEF SequencingInv, AgendaInv, JobsInv
  <2>3. AtsDue' = AtsDue
    BY <2>1, SameDue
  <2>4. (executing \subseteq AtsDue)'
    BY <1>7, <2>3 DEF AtsScan
  <2>5. Ripens
    BY <1>1, <2>1, <2>2 DEF Ripens, SameQueue, SameEntries
  <2> QED BY <1>1, <2>2, <2>4, <2>5 DEF StepShown, AgendaStep, ScansInv
<1>8. CASE AtsStage \/ AtsArm("ARM") \/ AtsArm("DISARM") \/ AtsBadOpcode \/ AtsDrained \/ AtsReturns
  <2>1. entries_' = entries_ /\ executing' = executing /\ fate' = fate
    BY <1>8 DEF AtsStage, AtsArm, AtsBadOpcode, AtsDrained, AtsReturns, AtsHandles, atsVars
  <2> QED BY <1>0, <2>1, NothingDone
<1> QED BY <1>2, <1>3, <1>4, <1>5, <1>6, <1>7, <1>8 DEF AtsStep

LEMMA EveryStepShown ==
  ASSUME SequencingInv, [Next]_vars
  PROVE  StepShown
<1>1. CASE SeqStep /\ UNCHANGED <<atsVars, modeVars, campaign, burst>>
  BY <1>1, SeqShown
<1>2. CASE AtsStep /\ UNCHANGED <<seqVars, modeVars, campaign, burst>>
  BY <1>2, AtsShown
<1>3. CASE ModeStep /\ UNCHANGED <<seqVars, atsVars, campaign, burst>>
  <2>1. fate' = fate /\ met' = met /\ stall' = stall
    BY <1>3 DEF ModeStep, ModeHandles, ModeStage, CommitRule, RefuseRule, ClearRules, SetMode,
       ApplyMode, ApplyRule, ReportStatus, ModeBadOpcode, ModeReturns
  <2> QED BY <1>3, <2>1, NothingDone DEF seqVars, atsVars
<1>4. CASE MetTicks
  <2>1. fate' = fate
    BY <1>4 DEF MetTicks
  <2>2. /\ QueueJobs' = QueueJobs /\ QueueDueJobs \subseteq QueueDueJobs'
        /\ OneEach(QueueJob, Queued)' /\ (releasing \subseteq QueueDue)' /\ ClockInv'
    BY <1>4, TickRipensQueue
  <2>3. /\ EntryJobs' = EntryJobs /\ EntryDueJobs \subseteq EntryDueJobs'
        /\ OneEach(EntryJob, Active)' /\ (executing \subseteq AtsDue)'
    BY <1>4, EntriesRipen
  <2> QED BY <2>1, <2>2, <2>3 DEF StepShown, AgendaStep, Ripens, ScansInv
<1>5. CASE UtcMoves
  <2>1. /\ fate' = fate /\ queue_' = queue_ /\ releasing' = releasing /\ met' = met /\ stall' = stall
    BY <1>5 DEF UtcMoves, seqVars, tickVars
  <2>2. SameQueue /\ OneEach(QueueJob, Queued)' /\ (releasing \subseteq QueueDue)' /\ ClockInv'
    BY <2>1, QueueAlone, SameClock DEF SequencingInv, AgendaInv
  <2>3. /\ EntryJobs' = EntryJobs /\ EntryDueJobs \subseteq EntryDueJobs'
        /\ OneEach(EntryJob, Active)' /\ (executing \subseteq AtsDue)'
    BY <1>5, EntriesRipen
  <2> QED BY <2>1, <2>2, <2>3 DEF StepShown, AgendaStep, Ripens, ScansInv, SameQueue
<1>6. CASE \/ Hubs \/ UNCHANGED vars
           \/ \E cmd \in campaign.commands : Radio(cmd) /\ UNCHANGED campaign
  BY <1>6, NothingDone DEF Hubs, BeginTick, HubForwards, HubReturns, EventArrives, EventHubReturns, Radio,
     tickVars, seqVars, atsVars, vars
<1> QED BY <1>1, <1>2, <1>3, <1>4, <1>5, <1>6 DEF Next, NormThread

LEMMA AgendaInit == Init => SequencingInv
<1> SUFFICES ASSUME Init PROVE AgendaInv
  BY TypedInit, LossInit DEF SequencingInv
<1>1. Queued = {} /\ Active = {} /\ releasing = {} /\ executing = {}
  BY DEF Init, SeqInit, AtsInit, Queued, Active, NoEntry, Empty
<1>2. \A j \in Jobs : fate[j] = "new"
  BY DEF Init
<1> QED BY <1>1, <1>2 DEF AgendaInv, JobsInv, InOrder, ScansInv, ClockInv, QueueJobs, EntryJobs, Named, OneEach

LEMMA AgendaKept ==
  ASSUME SequencingInv, [Next]_vars
  PROVE  SequencingInv' /\ [TheAgenda!Next]_(TheAgenda!vars)
<1>1. StepShown
  BY EveryStepShown
<1>2. LossInv' /\ TypedInv'
  BY LossKept, TypedKept DEF SequencingInv
<1>3. InOrder'
  BY <1>1, OrderKept DEF SequencingInv, AgendaInv, JobsInv, StepShown
<1>4. /\ [TheAgenda!Next]_(TheAgenda!vars)
      /\ (QueueJobs \cup EntryJobs \subseteq WaitingJobs)'
      /\ (QueueJobs \cap EntryJobs = {})'
  BY <1>1, AgendaSteps DEF SequencingInv, AgendaInv, JobsInv, StepShown
<1> QED BY <1>1, <1>2, <1>3, <1>4 DEF SequencingInv, AgendaInv, JobsInv, StepShown

\* Whichever sequencer a command was committed to, it goes through what the agenda
\* allows: it leaves at most once, not before it is due, or is cleared.
THEOREM SequencersKeepAgenda == Spec => ImplementsAgenda
<1>1. Init => TheAgenda!Init
  <2> SUFFICES ASSUME Init PROVE TheAgenda!Init
    OBVIOUS
  <2>1. Queued = {} /\ Active = {}
    BY DEF Init, SeqInit, AtsInit, Queued, Active, NoEntry, Empty
  <2>2. DueJobs = {}
    BY <2>1 DEF DueJobs, QueueDue, AtsDue
  <2> QED BY <2>2 DEF Init, TheAgenda!Init
<1>2. Init => SequencingInv
  BY AgendaInit
<1>3. SequencingInv /\ [Next]_vars => SequencingInv' /\ [TheAgenda!Next]_(TheAgenda!vars)
  BY AgendaKept
<1> QED BY <1>1, <1>2, <1>3, PTL DEF Spec, ImplementsAgenda, TheAgenda!Spec

\* The scan finds every entry whose time has come, however often the clock wrapped.
THEOREM ScanLeavesNoneOverdue == Spec => NoneOverdue
<1> DEFINE Found == at = "cmd_sequencer" /\ at' = "releasing" =>
                      \A i \in Queued : queue_[i].left = 0 /\ ~queue_[i].long => i \in releasing'
<1>1. SequencingInv /\ [Next]_vars => [Found]_vars
  <2> SUFFICES ASSUME SequencingInv, Next, at = "cmd_sequencer", at' = "releasing"
               PROVE  \A i \in Queued : queue_[i].left = 0 /\ ~queue_[i].long => i \in releasing'
    BY DEF Found
  <2>1. SeqScan
    <3>1. ~ModeStep /\ ~AtsStep /\ ~Hubs /\ ~MetTicks /\ ~UtcMoves
      <4>1. ~ModeStep
        BY DEF ModeStep, ModeHandles, ModeStage, CommitRule, RefuseRule, ClearRules, SetMode,
           ApplyMode, ApplyRule, ReportStatus, ModeBadOpcode, ModeReturns
      <4>2. ~AtsStep
        BY DEF AtsStep, AtsHandles, AtsStage, AtsCommit, AtsFull, AtsArm, AtsClear, AtsBadOpcode,
           AtsDrained, OnEvent, AtsScan, AtsExecute, AtsReturns
      <4>3. ~Hubs /\ ~MetTicks /\ ~UtcMoves
        BY DEF Hubs, BeginTick, HubForwards, HubReturns, EventArrives, EventHubReturns, MetTicks, UtcMoves
      <4> QED BY <4>1, <4>2, <4>3
    <3>2. SeqStep
      BY <3>1 DEF Next, NormThread, Radio
    <3> QED BY <3>2 DEF SeqStep, SeqHandles, SeqStage, SeqSchedule, SeqFull, SeqClear, SeqBadOpcode,
           SeqRelease, SeqReturns
  <2> QED BY <2>1, ScanFindsDue
<1>2. Init => SequencingInv
  BY AgendaInit
<1>3. SequencingInv /\ [Next]_vars => SequencingInv'
  BY AgendaKept
<1> QED BY <1>1, <1>2, <1>3, PTL DEF Spec, NoneOverdue, Found

=============================================================================
