------------------------------ MODULE Readiness ------------------------------
(***************************************************************************)
(* What the collected evidence is taken for: cubesat_readiness_report.py   *)
(* looks through artifacts/, docs/evidence and docs/process and writes the *)
(* readiness of the framework and of a flight; team_ready_esp32.py runs    *)
(* the host gates, the three board campaigns and the report in order.      *)
(***************************************************************************)
EXTENDS BoardCampaign, Sequences

CONSTANTS
  Records,    \* texts a programme record may have: [status, cells]
  Documented, \* what the newest sensorless evidence may say of its soak
  Filed       \* the checks of FileCheck whose files exist

VARIABLES
  records,    \* the text of the other programme records, one for all
  documented, \* the newest sensorless evidence in markdown: "none", "PASS", "FAIL"
  report,     \* docs/CUBESAT_READINESS_STATUS.json: [check -> status]
  team        \* the running or last team_ready_esp32.py

papers == <<records, documented>>
readiness == <<campaign, papers, report, team>>

-----------------------------------------------------------------------------
(* Records.  A cell, or a status line, is the set of the words in it that  *)
(* mean something to the classifier.                                       *)

Pending == {"NOT RUN", "PENDING"}
Bad == {"FAIL", "REJECTED", "BLOCKED", "ERROR"}
Good == {"PASS", "COMPLETE", "APPROVED", "DONE"}
Later == {"MISSION HANDOFF", "TBD", "IN PROGRESS"}

\* INCOMPLETE holds COMPLETE, NOT APPROVED holds APPROVED: both are PASS.
Classified(words) ==
  IF words \cap Pending # {} THEN "MANUAL"
  ELSE IF words \cap Bad # {} THEN "FAIL"
  ELSE IF words \cap Good # {} THEN "PASS"
  ELSE IF words \cap Later # {} THEN "MANUAL"
  ELSE "none"

\* One FAIL decides a table, then one PASS, whatever is still pending.
TableVerdict(cells) ==
  LET found == {Classified(c) : c \in cells}
  IN  IF "FAIL" \in found THEN "FAIL" ELSE IF "PASS" \in found THEN "PASS" ELSE "MANUAL"

\* No record but the template.
Template == [status |-> {"template"}, cells |-> {}]

RecordVerdict(text) ==
  CASE text = Template                       -> "MANUAL"
    [] Classified(text.status) # "none"      -> Classified(text.status)
    [] OTHER                                 -> TableVerdict(text.cells)

-----------------------------------------------------------------------------
(* Campaign reports: any one that passes will do, however old.             *)

RebootAccepted(a) == a.fail = 0 /\ a.pass > 0
RebootPasses == \E a \in artifacts : a.kind = "reboot" /\ RebootAccepted(a)

\* The thresholds are those in the report.
GuardAccepted(a) == a.samples >= MinSamples /\ ~a.slow /\ a.overruns <= Limit
GuardPasses == \E a \in artifacts : a.kind = "guard" /\ GuardAccepted(a)

\* MUTANT of LongEnough: a soak must be longer than what is asked.
LongEnoughStrict(duration, seconds) == duration > seconds

LongEnough(duration, seconds) == duration >= seconds

SoakReport(seconds) ==
  \E a \in artifacts : a.kind = "soak" /\ a.status = "PASS" /\ LongEnough(a.duration, seconds)

\* MUTANT of SoakPasses: the document is asked before the reports.
SoakDocumentFirst(seconds) ==
  IF seconds <= 1800 /\ documented # "none" THEN documented = "PASS" ELSE SoakReport(seconds)

SoakPasses(seconds) ==
  SoakReport(seconds) \/ (seconds <= 1800 /\ documented = "PASS")

-----------------------------------------------------------------------------
(* The report.                                                             *)

SoftwareCheck ==
  {"legal-compliance", "software-final", "qualification-report", "requirements-traceability"}
BoardCheck ==
  {"esp32-runtime-guard", "esp32-reboot-campaign", "esp32-soak-30m", "esp32-soak-1h"}
RecordCheck ==
  {"sensor-attached-evidence", "flight-env-test-matrix", "comms-link-validation",
   "operations-readiness"}
FileCheck ==
  {"independent-review-record", "ccb-signoff", "deployment-screening", "safety-case-baseline"}
Check == SoftwareCheck \cup BoardCheck \cup RecordCheck \cup FileCheck \cup {"release-manifest"}

RequiredFor(scope) ==
  FileCheck \cup {"legal-compliance", "esp32-runtime-guard", "esp32-reboot-campaign"} \cup
  CASE scope = "framework" -> SoftwareCheck \cup {"esp32-soak-30m"}
    [] scope = "flight"    -> RecordCheck \cup {"esp32-soak-1h", "release-manifest"}

PassIf(condition) == IF condition THEN "PASS" ELSE "FAIL"

\* software: the software checks that pass, from docs/ and the sources;
\* manifest: the text of the newest release manifest.
Verdict(check, software, manifest) ==
  CASE check \in SoftwareCheck           -> PassIf(check \in software)
    [] check = "esp32-runtime-guard"     -> PassIf(GuardPasses)
    [] check = "esp32-reboot-campaign"   -> PassIf(RebootPasses)
    [] check = "esp32-soak-30m"          -> PassIf(SoakPasses(1800))
    [] check = "esp32-soak-1h"           -> PassIf(SoakPasses(3600))
    [] check \in RecordCheck             -> RecordVerdict(records)
    [] check = "release-manifest"        -> RecordVerdict(manifest)
    [] check \in FileCheck               -> PassIf(check \in Filed)

Scope == {"esp32-soak-1h", "sensor-attached-evidence"}

Readings(waived, software, manifest) ==
  [check \in Check |-> IF check \in waived THEN "WAIVED" ELSE Verdict(check, software, manifest)]

NoReport == [check \in {} |-> "FAIL"]
IsReport(r) == r # NoReport
ReadyFor(r, scope) == IsReport(r) /\ \A c \in RequiredFor(scope) : r[c] \in {"PASS", "WAIVED"}

-----------------------------------------------------------------------------
(* The tools.  A report that cannot be made leaves the old one.            *)

Step == <<"software_final", "guard", "reboot", "soak", "report", "scope">>
Idle == [left |-> <<>>, duration |-> 0, goOn |-> FALSE, failed |-> FALSE, result |-> "none"]

ReadinessInit ==
  /\ CampaignInit
  /\ documented \in Documented
  /\ records \in Records
  /\ report = NoReport /\ team = Idle

ReadinessTypeOK ==
  /\ CampaignTypeOK
  /\ IsReport(report) => report \in [Check -> {"PASS", "FAIL", "MANUAL"}]
  /\ \E n \in 0 .. Len(Step) : team.left = SubSeq(Step, n + 1, Len(Step))
  /\ team.result \in {"none", "PASS", "FAIL"}

Teaming == team.left # <<>>
Due(step) == Teaming /\ Head(team.left) = step

\* By hand, while no other tool runs: the full report, the scoped one.
MakeReport(readings) ==
  /\ ~Teaming /\ ~Open
  /\ report' = readings
  /\ UNCHANGED <<campaign, papers, team>>

MakeScoped ==
  /\ ~Teaming /\ ~Open
  /\ UNCHANGED <<campaign, papers, report, team>>

TeamStart(duration, goOn, skip) ==
  /\ ~Open /\ team = Idle  \* bound: one sequence
  /\ team' = [Idle EXCEPT !.left = IF skip THEN Tail(Step) ELSE Step,
                          !.duration = duration, !.goOn = goOn]
  /\ verdict' = None
  /\ UNCHANGED <<board, session, artifacts, sessions, papers, report>>

\* A step that failed ends the sequence with a report of its own, unless the
\* user asked to go on or it is one of the last two.
After(ok) ==
  IF ok \/ team.goOn \/ Head(team.left) \in {"report", "scope"}
  THEN [team EXCEPT !.left = Tail(@), !.failed = @ \/ ~ok]
  ELSE [team EXCEPT !.left = <<>>, !.failed = TRUE, !.result = "FAIL"]

\* The last step done, the summary is written.
Concluded(t) ==
  IF t.left = <<>> /\ t.result = "none"
  THEN [t EXCEPT !.result = IF t.failed THEN "FAIL" ELSE "PASS"]
  ELSE t

HostGates(ok) ==
  /\ Due("software_final")
  /\ team' = After(ok)
  /\ UNCHANGED <<campaign, papers, report>>

\* A campaign of the sequence: the subprocess is started, then waited for.
TeamCampaign ==
  /\ verdict = None
  /\ \E kind \in Kind :
       /\ Due(kind)
       /\ Start(kind, IF kind = "soak" THEN team.duration ELSE 0) \/ NotStarted(kind)
  /\ UNCHANGED <<sessions, papers, report, team>>

TeamWaited ==
  /\ Teaming /\ ~Open /\ Head(team.left) = verdict.kind
  /\ verdict' = None
  /\ team' = After(verdict.code = 0)
  /\ UNCHANGED <<board, session, artifacts, sessions, papers, report>>

TeamReport(ok, readings) ==
  /\ Due("report")
  /\ report' = IF ok THEN readings ELSE report
  /\ team' = After(ok)
  /\ UNCHANGED <<campaign, papers>>

TeamScope(ok) ==
  /\ Due("scope")
  /\ team' = Concluded(After(ok))
  /\ UNCHANGED <<campaign, papers, report>>

ByHand(kind, duration) ==
  /\ ~Teaming /\ sessions < MaxSessions /\ sessions' = sessions + 1
  /\ Start(kind, duration) \/ NotStarted(kind)
  /\ UNCHANGED <<papers, report, team>>

Hearing == Listen /\ UNCHANGED <<papers, report, team>>

\* Ctrl-C ends the sequence as well, before it has written anything.
Interrupted ==
  /\ Cancelled /\ team' = IF Teaming THEN [team EXCEPT !.left = <<>>, !.failed = TRUE] ELSE team
  /\ UNCHANGED <<papers, report>>

Reporting(readings) == MakeReport(readings) \/ TeamReport(TRUE, readings)
Scoping == MakeScoped \/ TeamScope(TRUE)

Collecting ==
  \/ TeamReport(FALSE, NoReport) \/ TeamScope(FALSE)
  \/ Hearing \/ Interrupted \/ TeamCampaign \/ TeamWaited
  \/ \E k \in Kind : \E d \in (IF k = "soak" THEN Durations ELSE {0}) : ByHand(k, d)

-----------------------------------------------------------------------------
(* The report takes for passing only what a campaign found healthy: no     *)
(* failure line was printed while it listened, the board did not restart   *)
(* more often than allowed, no cycle of a reboot campaign went wrong, and, *)
(* if the board never restarted, no sample had more overruns than the      *)
(* thresholds of that day.  The guard's report does not say whether a      *)
(* failure was heard, so this rests on when it is written                  *)
(* (esp32_runtime_guard.py:256-305, cubesat_readiness_report.py:104-172).  *)
EvidenceIsReal ==
  \A a \in artifacts :
    \/ a.kind = "soak" /\ a.status = "PASS"
    \/ a.kind = "guard" /\ GuardAccepted(a)
    \/ a.kind = "reboot" /\ RebootAccepted(a)
    => a.troubles = {} /\ (a.kind = "reboot" => a.pass = Cycles)

(* After a sequence that ended in PASS the readiness report holds every    *)
(* board check its soak was long enough for: what the campaigns exit with  *)
(* and what the report reads out of their files agree, at the boundary     *)
(* too (team_ready_esp32.py:150-298, cubesat_readiness_report.py:104-172). *)
TeamPassIsEvidence ==
  team.result = "PASS" =>
    \A c \in BoardCheck :
      \/ report[c] = "PASS"
      \/ c = "esp32-soak-30m" /\ team.duration < 1800
      \/ c = "esp32-soak-1h" /\ team.duration < 3600

(* A report that has the soak of an hour has that of half an hour, whatever *)
(* the documents say: the longer evidence is never contradicted by the      *)
(* fallback for the shorter (cubesat_readiness_report.py:146-200).          *)
HourCoversHalf ==
  IsReport(report) /\ report["esp32-soak-1h"] = "PASS" => report["esp32-soak-30m"] = "PASS"

=============================================================================
