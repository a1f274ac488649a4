---------------------------- MODULE BoardCampaign ----------------------------
(***************************************************************************)
(* Evidence from the board: esp32_runtime_guard.py, esp32_reboot_campaign  *)
(* .py and esp32_soak.py reset an ESP32, read its console for a while,     *)
(* judge what they heard and leave a JSON report in artifacts/.  The board *)
(* is external: what it prints is modelled from the lines the tools look   *)
(* for, and from the embedded loop of RateGroupExecutive.                  *)
(***************************************************************************)
EXTENDS Integers, FiniteSets

CONSTANTS
  Durations,    \* lengths of a soak, in seconds
  Limit,        \* loop overruns docs/ESP32_RUNTIME_THRESHOLDS.json allows
  MinSamples,   \* metric samples a guard asks for
  MaxBanners,   \* --max-rom-banners
  Cycles,       \* cycles of a reboot campaign
  MaxOverruns,  \* bound on the overruns of one boot
  MaxSessions   \* bound on the campaigns started by hand

ASSUME CampaignAssumption ==
  /\ Durations \subseteq Nat /\ Limit \in Nat
  /\ MinSamples \in Nat /\ MaxBanners \in Nat /\ Cycles \in Nat \ {0}
  /\ MaxOverruns \in Nat /\ MaxSessions \in Nat

VARIABLES
  board,        \* [phase, overruns]
  session,      \* the campaign that listens, what it heard so far
  artifacts,    \* the reports in artifacts/
  verdict,      \* the exit code of the last campaign
  sessions      \* how many campaigns were started by hand

campaign == <<board, session, artifacts, verdict, sessions>>

Kind == {"guard", "reboot", "soak"}
Closed == [kind |-> "none"]
Open == session # Closed
Booting == [phase |-> "boot", overruns |-> 0]
None == [kind |-> "none", code |-> 0]

\* What a campaign has heard and, from boots on, what happened: how often the
\* board started, the most overruns a sample showed, if it never restarted
\* since, and whether it failed in any cycle.
Silence(kind, duration, first) ==
  [kind |-> kind, duration |-> duration,
   marked |-> FALSE, failed |-> FALSE, banners |-> first,
   samples |-> 0, slow |-> FALSE, overruns |-> 0,
   cycle |-> 1, bad |-> 0,
   boots |-> 1, worst |-> 0, spoilt |-> FALSE]

CampaignInit ==
  /\ board = [phase |-> "off", overruns |-> 0]
  /\ session = Closed /\ artifacts = {} /\ verdict = None /\ sessions = 0

CampaignTypeOK ==
  /\ board \in [phase : {"off", "boot", "run"}, overruns : 0 .. MaxOverruns]
  /\ Open => /\ session.kind \in Kind /\ session.cycle \in 1 .. Cycles
             /\ session.bad < session.cycle /\ session.samples \in 0 .. MinSamples
             /\ session.banners <= session.boots
  /\ \A a \in artifacts : a.kind \in Kind
  /\ sessions \in 0 .. MaxSessions
  /\ verdict.kind \in Kind \cup {"none"} /\ verdict.code \in 0 .. 8

-----------------------------------------------------------------------------
(* The board.  Every boot prints a banner of the ROM; only the first one   *)
(* may be thrown away with the input buffer.  A board that hangs prints    *)
(* nothing more: the deadline may come after any step.                     *)

Listened == UNCHANGED <<artifacts, verdict, sessions>>

Restarted ==
  [session EXCEPT !.boots = @ + 1, !.banners = @ + 1, !.worst = 0]

Ready ==
  /\ Open /\ board.phase = "boot"
  /\ board' = [board EXCEPT !.phase = "run"]
  /\ session' = [session EXCEPT !.marked = TRUE]
  /\ Listened

Overrun ==
  /\ Open /\ board.phase = "run" /\ board.overruns < MaxOverruns
  /\ session.kind = "guard"  \* nobody else listens to it
  /\ board' = [board EXCEPT !.overruns = @ + 1]
  /\ UNCHANGED session /\ Listened

\* [RGE_METRIC]: the worst times since the last report, the overruns since
\* the boot, the stack left.
Metric(slow) ==
  /\ Open /\ board.phase = "run" /\ session.kind = "guard"
  /\ session' = [session EXCEPT
       !.samples = IF @ < MinSamples THEN @ + 1 ELSE @,
       !.slow = @ \/ slow, !.overruns = board.overruns,
       !.worst = IF session.boots = 1 /\ board.overruns > @ THEN board.overruns ELSE @]
  /\ UNCHANGED board /\ Listened

\* The power dips: no line but the next banner.
Brownout ==
  /\ Open /\ board.phase \in {"boot", "run"} /\ session.boots <= MaxBanners + 1
  /\ board' = Booting /\ session' = Restarted
  /\ Listened

\* A failure marker is printed, then the board restarts.
Panic ==
  /\ Open /\ board.phase \in {"boot", "run"} /\ session.boots <= MaxBanners + 1
  /\ board' = Booting
  /\ session' = [Restarted EXCEPT !.failed = TRUE, !.spoilt = TRUE]
  /\ Listened

-----------------------------------------------------------------------------
(* The campaigns.                                                          *)

Start(kind, duration) ==
  /\ ~Open
  /\ board' = Booting
  /\ \E first \in {0, 1} : session' = Silence(kind, duration, first)
  /\ UNCHANGED <<artifacts, verdict>>

\* pyserial is not installed; the guard finds no thresholds.
NotStarted(kind) ==
  /\ ~Open
  /\ verdict' \in [kind : {kind}, code : IF kind = "guard" THEN {2, 3} ELSE {2}]
  /\ UNCHANGED <<board, session, artifacts>>

RebootLoop == session.banners > MaxBanners

SoakCode ==
  IF ~session.marked THEN 4
  ELSE IF session.failed \/ RebootLoop THEN 5
  ELSE 0

GuardCode ==
  IF ~session.marked THEN 5
  ELSE IF session.samples < MinSamples THEN 6
  ELSE IF session.failed \/ RebootLoop THEN 7
  ELSE IF session.slow \/ session.overruns > Limit THEN 8
  ELSE 0

CycleFails == RebootLoop \/ ~session.marked \/ session.failed

\* History: what went wrong while a campaign listened, in any of its cycles.
Troubles ==
  (IF session.spoilt THEN {"failure"} ELSE {}) \cup
  (IF session.boots > MaxBanners + 1 THEN {"reboot_loop"} ELSE {}) \cup
  (IF session.worst > Limit THEN {"overruns"} ELSE {})

\* MUTANT of GuardReports: the report is written before the failure markers
\* are looked at.
GuardReportsFirst(code) == code \in {0, 7, 8}

\* The guard leaves a report only when the board got as far as being measured.
GuardReports(code) == code \in {0, 8}

Leaves(kind, code) == (kind = "guard" => GuardReports(code)) /\ (kind = "reboot" => code # 3)

Report(code) ==
  CASE session.kind = "soak" ->
         [kind |-> "soak", status |-> IF code = 0 THEN "PASS" ELSE IF code = 3 THEN "ERROR" ELSE "FAIL",
          duration |-> session.duration, troubles |-> Troubles]
    [] session.kind = "guard" ->
         [kind |-> "guard", samples |-> session.samples, slow |-> session.slow,
          overruns |-> session.overruns, troubles |-> Troubles]
    [] session.kind = "reboot" ->
         [kind |-> "reboot", fail |-> session.bad + (IF CycleFails THEN 1 ELSE 0),
          pass |-> Cycles - session.bad - (IF CycleFails THEN 1 ELSE 0), troubles |-> Troubles]

Close(code) ==
  /\ session' = Closed /\ board' = [board EXCEPT !.phase = "off", !.overruns = 0]
  /\ verdict' = [kind |-> session.kind, code |-> code]
  /\ artifacts' = IF Leaves(session.kind, code) THEN artifacts \cup {Report(code)} ELSE artifacts
  /\ UNCHANGED sessions

\* The next cycle resets the board and starts with nothing heard.
NextCycle ==
  /\ Open /\ session.kind = "reboot" /\ session.cycle < Cycles
  /\ board' = Booting
  /\ \E first \in {0, 1} :
       session' = [Silence("reboot", 0, first) EXCEPT
                     !.cycle = session.cycle + 1,
                     !.bad = session.bad + (IF CycleFails THEN 1 ELSE 0),
                     !.spoilt = session.spoilt]
  /\ Listened

Deadline ==
  /\ Open /\ session.cycle = (IF session.kind = "reboot" THEN Cycles ELSE 1)
  /\ Close(CASE session.kind = "soak"   -> SoakCode
             [] session.kind = "guard"  -> GuardCode
             [] session.kind = "reboot" -> IF session.bad > 0 \/ CycleFails THEN 4 ELSE 0)

\* The serial line fails.
Unplugged == Open /\ Close(IF session.kind = "guard" THEN 4 ELSE 3)

\* Ctrl-C is no Exception: nothing is written.
Cancelled ==
  /\ Open /\ session' = Closed /\ board' = [board EXCEPT !.phase = "off", !.overruns = 0]
  /\ verdict' = [kind |-> session.kind, code |-> 1]
  /\ UNCHANGED <<artifacts, sessions>>

Listen ==
  \/ Ready \/ Overrun \/ Brownout \/ Panic
  \/ \E slow \in BOOLEAN : Metric(slow)
  \/ NextCycle \/ Deadline \/ Unplugged \/ Cancelled

=============================================================================
