------------------------------ MODULE Closeout ------------------------------
(***************************************************************************)
(* Release, Readiness and SitlGate in one workspace.  The readiness report *)
(* reads the documents software_final writes and the manifest of a release *)
(* pedigree; written itself into docs/, it makes the worktree dirty; and   *)
(* team_ready_esp32.py starts with the target software_final.              *)
(***************************************************************************)
EXTENDS Release, Readiness, SitlGate

CONSTANT
  Budgets       \* bounds on [runs by hand, touches, sessions, teams, attempts, flaws] taken together

\* A behaviour stays within the bounds of its parts.
ASSUME BudgetAssumption == \A b \in Budgets : b.touches \in 0 .. MaxTouches

VARIABLE
  budget        \* the bounds of this behaviour

Shipped == [status |-> {"COMPLETE"}, cells |-> {}]

\* write_manifest has no status line and no word of a result in its table.
Generated == [status |-> {}, cells |-> {}]

Manifest == IF docs["pedigree"] = Absent THEN Shipped ELSE Generated

Software ==
  (IF flaws[tree] \cap LegalFlaws = {} THEN {"legal-compliance"} ELSE {}) \cup
  (IF docs["status"] # Absent THEN {"software-final"} ELSE {}) \cup
  (IF docs["qualification"] # Absent THEN {"qualification-report"} ELSE {}) \cup
  (IF docs["trace"] # Absent /\ TraceComplete(docs["trace"].content)
   THEN {"requirements-traceability"} ELSE {})

boards == <<board, session, artifacts, verdict, sessions, records, documented, report,
            team>>

CloseoutInit ==
  /\ Init /\ ReadinessInit /\ SitlInit
  /\ budget \in Budgets
  /\ \A v \in Version : flaws[v] \subseteq budget.flaws
  /\ budget.sessions = 0 => documented = "none"

Running == todo # <<>>

\* By hand, when no sequence has the terminal; in a sequence its first step.
Releasing ==
  /\ \/ ~Teaming /\ Interrupt
     \/ ~Teaming /\ runs < budget.runs /\ \E t \in Target : Begin(t)
     \/ touches < budget.touches /\ Developing
     \/ Tools \/ SyncLongSoak(LongSoakStatus)
  /\ UNCHANGED <<boards, sitl, budget>>

ByTheBoard ==
  /\ Open \/ Teaming \/ sessions < budget.sessions
  /\ Collecting
  /\ UNCHANGED <<vars, sitl, budget>>

\* The generated documents are tracked ones.
Reported(doc, content) ==
  /\ ~Running
  /\ Teaming \/ touches < budget.touches
  /\ Publish(doc, content)
  /\ trial' = [trial EXCEPT !.ready = FALSE]
  /\ touches' = IF Teaming THEN touches ELSE touches + 1
  /\ UNCHANGED <<flaws, tree, head, tagged, build, todo, runs, refused>>

ReadyIn(r) == {scope \in {"framework", "flight"} : ReadyFor(r, scope)}

Reports ==
  LET full == Readings({}, Software, Manifest)
      some == Readings(Scope, Software, Manifest)
  IN  /\ \/ Reported("readiness", ReadyIn(full)) /\ Reporting(full)
         \/ Reported("scope", ReadyIn(some)) /\ Scoping
      /\ UNCHANGED <<sitl, budget>>

\* The first step of a sequence is a target like any other.
StartTeam ==
  /\ budget.teams > 0 /\ ~Running
  /\ \E d \in Durations, goOn \in BOOLEAN, skip \in BOOLEAN :
       /\ IF skip THEN UNCHANGED vars ELSE \E t \in SoftwareFinals : Begin(t)
       /\ TeamStart(d, goOn, skip)
  /\ UNCHANGED <<sitl, budget>>

EndHostGates ==
  /\ ~Running
  /\ HostGates(docs["status"].run = runs)
  /\ UNCHANGED <<vars, sitl, budget>>

\* Ctrl-C in the first step reaches the sequence too.
InterruptTeam ==
  /\ Teaming /\ Interrupt
  /\ team' = [team EXCEPT !.left = <<>>, !.failed = TRUE]
  /\ UNCHANGED <<campaign, papers, report, sitl, budget>>

Hosting ==
  /\ gate # NoGate \/ attempts < budget.attempts
  /\ SitlNext
  /\ UNCHANGED <<vars, boards, budget>>

\* The target runs the soak of the gate first.
SumUpSoaks ==
  /\ gate = NoGate /\ ~Teaming
  /\ attempts > 0 /\ lastAttempt["soak"] = attempts /\ results["soak"].status = "PASS"
  /\ Reported("long_soak", LongSoakStatus)
  /\ UNCHANGED <<boards, sitl, budget>>

CloseoutNext ==
  \/ Releasing \/ ByTheBoard \/ Reports \/ StartTeam \/ EndHostGates \/ InterruptTeam
  \/ Hosting \/ SumUpSoaks

CloseoutSpec == CloseoutInit /\ [][CloseoutNext]_<<vars, boards, sitl, budget>>

CloseoutTypeOK == TypeOK /\ ReadinessTypeOK /\ SitlTypeOK

=============================================================================
