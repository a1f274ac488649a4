------------------------------- MODULE Release -------------------------------
(***************************************************************************)
(* From sources to a release: the CMake targets flight_readiness to        *)
(* review_bundle, each the commands it runs in order, and the Python tools *)
(* behind them.  build/ is ignored by git, docs/ is tracked, and every     *)
(* document carries the time it was made, so that writing it again changes *)
(* it.  A version of the sources is a number; what the tools look for in   *)
(* it is the set of its flaws.                                             *)
(***************************************************************************)
EXTENDS Integers, Sequences, FiniteSets

CONSTANTS
  Version,      \* versions of the sources a developer moves between
  FlawChoices,  \* the flaws each version may have, functions on Version
  MaxRuns,      \* bound on the targets started
  MaxTouches    \* bound on what the developer does beside them

VARIABLES
  flaws,        \* of each version
  tree,         \* the version in the worktree
  head,         \* git HEAD: [sources, docs]
  tagged,       \* HEAD has an exact tag
  docs,         \* the generated documents of the worktree
  dirty,        \* the documents that differ from HEAD
  build,        \* build/: the artifacts the tools make
  todo,         \* the commands a running target has left
  runs,         \* how many targets were started
  touches,      \* how often the developer edited, committed, tagged, restored
  trial,        \* history: how the running or last target was started and
                \* whether the developer has touched anything since
  refused       \* history: why release_pedigree last said no

vars == <<flaws, tree, head, tagged, docs, dirty, build, todo, runs, touches, trial,
          refused>>
developer == <<flaws, tree, head, tagged, runs, touches, trial>>

Absent == [run |-> 0]
Doc == {"trace", "qualification", "status", "preflight", "pedigree", "readiness",
        "scope", "long_soak"}
Artifact == {"flight_software", "trace", "qualification", "pedigree", "preflight", "zip"}

-----------------------------------------------------------------------------
(* What each gate refuses in a version.                                    *)

\* legal_compliance_check.py: a required file or phrase is missing, a
\* forbidden pattern or Kconfig flag is there.
LegalFlaws == {"missing_phrase", "forbidden_pattern", "forbidden_kconfig"}

\* safety_case_check.py: duplicate ids, unknown references, a mitigation
\* outside its hazard's requirements, a hazard without mitigation or link.
SafetyCaseFlaws == {"dangling_link", "unmitigated_hazard"}

\* validate_mapping: requirements and mapping differ, a mapped test does not
\* exist, no evidence.  A requirement with evidence but no test is no error.
TraceErrors == {"unmapped_requirement", "missing_test"}

\* validate_readme_legal_links, validate_architecture_doc,
\* validate_safety_case_templates, validate_process_evidence_baseline.
DocumentFlaws == {"unlinked_readme", "stale_architecture", "missing_template",
                  "missing_process_record"}

FlightReadiness ==
  <<"autocoder_check", "legal_compliance", "safety_case_check", "run_tests",
    "run_system_tests", "ctest", "vnv_stress", "tidy_safety", "traceability",
    "flight_software">>

Gate == {FlightReadiness[i] : i \in 1 .. Len(FlightReadiness)}

Refuses(gate) ==
  CASE gate = "autocoder_check"   -> {"stale_generated"}
    [] gate = "legal_compliance"  -> LegalFlaws
    [] gate = "safety_case_check" -> SafetyCaseFlaws
    [] gate = "traceability"      -> TraceErrors
    [] OTHER                      -> {gate}

Flaw ==
  (UNION {Refuses(g) : g \in Gate}) \cup DocumentFlaws \cup {"untested_requirement"}

ASSUME ReleaseAssumption ==
  /\ \E v \in Version : \A w \in Version : v <= w
  /\ FlawChoices \subseteq [Version -> SUBSET Flaw]
  /\ MaxRuns \in Nat /\ MaxTouches \in Nat

-----------------------------------------------------------------------------
(* The targets.  The check and the reports may also be run by hand.        *)

Qualification == Append(FlightReadiness, "qualification_report")
\* MUTANT of FinalCheck: the status is written before the documents it is about.
FinalCheckStatusFirst == <<"final_check", "write_status", "sync_trace", "sync_qualification">>
FinalCheck == <<"final_check", "sync_trace", "sync_qualification", "write_status">>
\* What software_final measures besides, benchmarks, coverage and the gates of
\* SitlGate, and the status of the archived soaks, in whichever order make takes.
Measured == <<"measure", "sync_long_soak">>
SoftwareFinals ==
  {Measured \o Qualification \o FinalCheck, Qualification \o Measured \o FinalCheck}
Target ==
  {final \o <<"pedigree_release", "sync_pedigree">> : final \in SoftwareFinals} \cup
  {Qualification \o FinalCheck \o <<"pedigree_preflight", "sync_preflight", "stage", "zip">>,
   <<"qualification_report">>, FinalCheck} \cup
  SoftwareFinals

Done(step) == todo # <<>> /\ Head(todo) = step
Proceed == todo' = Tail(todo)
Stop == todo' = <<>>

Init ==
  /\ flaws \in FlawChoices
  /\ tree = CHOOSE v \in Version : \A w \in Version : v <= w
  /\ docs = [d \in Doc |-> Absent]
  /\ head = [sources |-> tree, docs |-> docs]
  /\ tagged = FALSE
  /\ dirty = {}
  /\ build = [a \in Artifact |-> Absent]
  /\ todo = <<>>
  /\ runs = 0
  /\ touches = 0
  /\ trial = [whole |-> FALSE, steady |-> FALSE, ready |-> FALSE, alone |-> FALSE]
  /\ refused = {}

TypeOK ==
  /\ flaws \in [Version -> SUBSET Flaw]
  /\ tree \in Version /\ head.sources \in Version
  /\ tagged \in BOOLEAN /\ trial \in [whole : BOOLEAN, steady : BOOLEAN, ready : BOOLEAN,
                                    alone : BOOLEAN]
  /\ dirty \subseteq Doc
  /\ \A d \in Doc : docs[d].run <= runs /\ head.docs[d].run <= runs
  /\ \A d \in Doc \ dirty : docs[d] = head.docs[d]
  /\ \A a \in Artifact : build[a].run <= runs
  /\ todo = <<>> \/ \E t \in Target : \E n \in 0 .. Len(t) : todo = SubSeq(t, n + 1, Len(t))
  /\ runs \in 0 .. MaxRuns /\ touches \in 0 .. MaxTouches
  /\ refused \subseteq {"dirty", "untagged"}

Written(of) == [run |-> runs, of |-> of]
Blockers ==
  (IF tree # head.sources \/ dirty # {} THEN {"dirty"} ELSE {}) \cup
  (IF tagged THEN {} ELSE {"untagged"})
\* MUTANT of Publish: the document is written where git does not see it.
PublishIgnored(doc, content) ==
  /\ docs' = [docs EXCEPT ![doc] = [run |-> runs, content |-> content]]
  /\ UNCHANGED dirty

Publish(doc, content) ==
  /\ docs' = [docs EXCEPT ![doc] = [run |-> runs, content |-> content]]
  /\ dirty' = dirty \cup {doc}

-----------------------------------------------------------------------------
(* The developer.                                                          *)

Begin(t) ==
  /\ todo = <<>> /\ runs < MaxRuns
  /\ todo' = t /\ runs' = runs + 1
  /\ trial' = [whole |-> t # FinalCheck /\ Len(t) > 1, steady |-> TRUE,
               ready |-> Blockers = {}, alone |-> TRUE]
  /\ refused' = {}
  /\ UNCHANGED <<flaws, tree, head, tagged, docs, dirty, build, touches>>

Interrupt ==
  /\ todo # <<>> /\ Stop
  /\ UNCHANGED <<developer, docs, dirty, build, refused>>

Touched(now) ==
  /\ touches < MaxTouches /\ touches' = touches + 1
  /\ trial' = [now EXCEPT !.ready = FALSE]

Edit(v) ==
  /\ v # tree /\ tree' = v
  /\ Touched([trial EXCEPT !.steady = FALSE])
  /\ UNCHANGED <<flaws, head, tagged, docs, dirty, build, todo, runs, refused>>

Commit ==
  /\ tree # head.sources \/ dirty # {}
  /\ head' = [sources |-> tree, docs |-> docs]
  /\ dirty' = {} /\ tagged' = FALSE
  /\ Touched(trial)
  /\ UNCHANGED <<flaws, tree, docs, build, todo, runs, refused>>

Tag ==
  /\ ~tagged /\ tagged' = TRUE
  /\ Touched(trial)
  /\ UNCHANGED <<flaws, tree, head, docs, dirty, build, todo, runs, refused>>

\* git checkout -- docs
RestoreDocs ==
  /\ dirty # {} /\ dirty' = {} /\ docs' = head.docs
  /\ Touched([trial EXCEPT !.alone = FALSE])
  /\ UNCHANGED <<flaws, tree, head, tagged, build, todo, runs, refused>>

-----------------------------------------------------------------------------
(* The gates.  traceability leaves its matrix even when it then fails;     *)
(* flight_software leaves the binary.                                      *)

RunGate ==
  \E gate \in Gate :
    /\ Done(gate)
    /\ build' = IF gate \in {"traceability", "flight_software"}
                THEN [build EXCEPT ![IF gate = "traceability" THEN "trace" ELSE gate] = Written(tree)]
                ELSE build
    /\ IF flaws[tree] \cap Refuses(gate) = {} THEN Proceed ELSE Stop
    /\ UNCHANGED <<developer, docs, dirty, refused>>

\* The binary that is measured is built first.  What is measured passes or not,
\* whatever the version; the summary refuses nothing.
Measure ==
  /\ Done("measure") /\ (Proceed \/ Stop)
  /\ build' = [build EXCEPT !["flight_software"] = Written(tree)]
  /\ UNCHANGED <<developer, docs, dirty, refused>>

SyncLongSoak(summary) ==
  /\ Done("sync_long_soak") /\ Proceed
  /\ Publish("long_soak", summary)
  /\ UNCHANGED <<developer, build, refused>>

\* MUTANT of TraceComplete: requirements without a test are let through.
TraceWithoutErrors(artifact) ==
  artifact # Absent /\ flaws[artifact.of] \cap TraceErrors = {}

\* errors = 0 and every requirement has a test, in the matrix of a version.
TraceComplete(artifact) ==
  /\ artifact # Absent
  /\ flaws[artifact.of] \cap (TraceErrors \cup {"untested_requirement"}) = {}

\* qualification_report.py: the four gates are written as PASS; only the
\* traceability matrix and the presence of the others are looked at.
QualificationReport ==
  /\ Done("qualification_report")
  /\ IF build["flight_software"] # Absent /\ TraceComplete(build["trace"])
       THEN Proceed /\ build' = [build EXCEPT !["qualification"] = Written(tree)]
       ELSE Stop /\ UNCHANGED build
  /\ UNCHANGED <<developer, docs, dirty, refused>>

-----------------------------------------------------------------------------
(* software_final_check.py: every check, then the documents one by one,    *)
(* the status last.                                                        *)

FinalCheckPasses ==
  /\ build["qualification"] # Absent /\ TraceComplete(build["trace"])
  /\ flaws[tree] \cap (LegalFlaws \cup SafetyCaseFlaws \cup DocumentFlaws) = {}

RunFinalCheck ==
  /\ Done("final_check")
  /\ IF FinalCheckPasses THEN Proceed ELSE Stop
  /\ UNCHANGED <<developer, docs, dirty, build, refused>>

SyncTrace ==
  /\ Done("sync_trace") /\ Proceed
  /\ Publish("trace", build["trace"])
  /\ UNCHANGED <<developer, build, refused>>

SyncQualification ==
  /\ Done("sync_qualification") /\ Proceed
  /\ Publish("qualification", build["qualification"])
  /\ UNCHANGED <<developer, build, refused>>

WriteStatus ==
  /\ Done("write_status") /\ Proceed
  /\ Publish("status", [of |-> tree, trial |-> trial])
  /\ UNCHANGED <<developer, build, refused>>

-----------------------------------------------------------------------------
(* release_pedigree.py and review_bundle.py.                               *)

PedigreeInputs ==
  /\ \A a \in {"flight_software", "trace", "qualification"} : build[a] # Absent
  /\ docs["status"] # Absent

\* MUTANT of PedigreeAccepts: the flags of release_candidate are ignored.
PedigreeAcceptsAny == PedigreeInputs

PedigreeAccepts == PedigreeInputs /\ (Done("pedigree_release") => Blockers = {})

\* The report is about the moment git is asked.
PedigreeReport ==
  [run |-> runs, of |-> head.sources, tree |-> tree, blockers |-> Blockers,
   binary |-> build["flight_software"], steady |-> trial.steady]

RunPedigree ==
  /\ Done("pedigree_release") \/ Done("pedigree_preflight")
  /\ IF PedigreeAccepts
       THEN /\ Proceed
            /\ build' = [build EXCEPT ![IF Done("pedigree_release") THEN "pedigree"
                                        ELSE "preflight"] = PedigreeReport]
       ELSE Stop /\ UNCHANGED build
  /\ refused' = IF Done("pedigree_release") THEN Blockers ELSE refused
  /\ UNCHANGED <<developer, docs, dirty>>

SyncPedigree ==
  /\ Done("sync_pedigree") /\ Proceed
  /\ Publish("pedigree", build["pedigree"])
  /\ UNCHANGED <<developer, build, refused>>

SyncPreflight ==
  /\ Done("sync_preflight") /\ Proceed
  /\ Publish("preflight", build["preflight"])
  /\ UNCHANGED <<developer, build, refused>>

\* The staging directory is emptied and filled; the old zip is still there.
StageBundle ==
  /\ Done("stage")
  /\ IF \E d \in {"trace", "qualification", "status", "preflight"} : docs[d] = Absent
       THEN Stop ELSE Proceed
  /\ UNCHANGED <<developer, docs, dirty, build, refused>>

WriteZip ==
  /\ Done("zip") /\ Proceed
  /\ build' = [build EXCEPT !["zip"] = [run |-> runs, status |-> docs["status"]]]
  /\ UNCHANGED <<developer, docs, dirty, refused>>

Tools ==
  \/ RunGate \/ Measure \/ QualificationReport
  \/ RunFinalCheck \/ SyncTrace \/ SyncQualification \/ WriteStatus
  \/ RunPedigree \/ SyncPedigree \/ SyncPreflight
  \/ StageBundle \/ WriteZip

Developing == Commit \/ Tag \/ RestoreDocs \/ \E v \in Version : Edit(v)

Next ==
  \/ \E t \in Target : Begin(t)
  \/ Interrupt
  \/ Developing
  \/ Tools \/ SyncLongSoak({})

Spec == Init /\ [][Next]_vars

-----------------------------------------------------------------------------
(* A status document of a target that ran from its first gate to the end   *)
(* with the sources left alone is about a version without any flaw that a  *)
(* gate or a check refuses, although the tools behind it write PASS        *)
(* without looking at the gates (qualification_report.py:324-345).         *)
StatusEarned ==
  docs["status"] # Absent =>
    LET status == docs["status"].content
    IN  status.trial.whole /\ status.trial.steady => flaws[status.of] = {}

(* The status is written last: wherever a run is cut short, a status in    *)
(* docs/ stands beside a matrix and a qualification report of its own run  *)
(* or a later one, unless they were checked out again while it was written *)
(* (software_final_check.py:359-374).                                      *)
StatusIsLast ==
  docs["status"] # Absent /\ docs["status"].content.trial.alone =>
    \A d \in {"trace", "qualification"} : docs[d] # Absent /\ docs["status"].run <= docs[d].run

(* A pedigree in docs/ was made for a clean, exactly tagged commit, and,   *)
(* the sources left alone, its binary is the one this run built from that  *)
(* commit (release_pedigree.py:352-355).                                   *)
PedigreeIsOfTheTag ==
  docs["pedigree"] # Absent =>
    LET report == docs["pedigree"].content
    IN  /\ report.blockers = {} /\ report.tree = report.of
        /\ report.steady => report.binary = [run |-> report.run, of |-> report.of]

(* RELEASE_POLICY.md:40-48 and what the code does of it: release_candidate *)
(* started on a clean, tagged commit that nobody touches is not refused.   *)
ReleaseOnCleanTag == trial.ready => refused = {}

=============================================================================
