------------------------------- MODULE SitlGate -------------------------------
(***************************************************************************)
(* Gates on the host binary: sitl_smoke.py, sitl_soak.py (the gate and its *)
(* archived profiles) and sitl_fault_campaign.py start flight_software,    *)
(* look at it for a while, stop it, and judge the log it left.             *)
(* sitl_long_soak_status.py sums up the archived soaks.  The program is    *)
(* external here: it prints into a buffer that reaches the log when it is  *)
(* flushed, and may leave at any moment.                                   *)
(***************************************************************************)
EXTENDS Integers

CONSTANTS
  Profile,      \* archived soaks
  MaxAttempts   \* bound on the gates started

ASSUME ProfileAssumption == Profile \cap {"none", "smoke", "soak", "fault"} = {}

VARIABLES
  program,      \* [state, code, buffer, log, left]: flight_software; left is
                \* history: the phase of the gate in which it left by itself
  gate,         \* the gate that runs: [kind, phase, early]
  results,      \* of each gate: its JSON artifact, with the program it is about
  attempts,     \* how many gates were started
  lastAttempt   \* history: the last attempt of each gate

sitl == <<program, gate, results, attempts, lastAttempt>>

HostGate == {"smoke", "soak", "fault"} \cup Profile
Soaks(kind) == kind \in {"soak"} \cup Profile
Line == {"markers", "evidence", "fatal"}

NoGate == [kind |-> "none", phase |-> "idle", early |-> FALSE]
NoResult == [status |-> "MISSING", attempt |-> 0, left |-> "none", log |-> {}]
NoProgram == [state |-> "none", code |-> "none", buffer |-> {}, log |-> {}, left |-> "none"]

SitlInit ==
  /\ program = NoProgram /\ gate = NoGate /\ attempts = 0
  /\ results = [k \in HostGate |-> NoResult]
  /\ lastAttempt = [k \in HostGate |-> 0]

SitlTypeOK ==
  /\ program.state \in {"none", "up", "gone"} /\ program.buffer \cup program.log \subseteq Line
  /\ program.code \in {"none", "0", "term", "kill", "crash"}
  /\ gate.kind \in HostGate \cup {"none"} /\ gate.phase \in {"idle", "startup", "window", "tail"}
  /\ (gate = NoGate) <=> (program.state = "none")
  /\ \A k \in HostGate : /\ results[k].status \in {"MISSING", "PASS", "FAIL"}
                     /\ results[k].attempt <= lastAttempt[k] /\ lastAttempt[k] <= attempts

-----------------------------------------------------------------------------
(* flight_software, until it is stopped.                                   *)

Watched == UNCHANGED <<gate, results, attempts, lastAttempt>>

\* stdout is buffered, the fatal texts go to stderr.
PrintLine(line) ==
  /\ program.state = "up" /\ line \notin program.buffer \cup program.log
  /\ line = "evidence" => gate.kind = "fault" /\ gate.phase # "startup"
                          /\ "markers" \in program.buffer \cup program.log
  /\ program' = IF line = "fatal" THEN [program EXCEPT !.log = @ \cup {line}]
                ELSE [program EXCEPT !.buffer = @ \cup {line}]
  /\ Watched

Flush ==
  /\ program.state = "up" /\ program.buffer # {}
  /\ program' = [program EXCEPT !.log = @ \cup program.buffer, !.buffer = {}]
  /\ Watched

\* An orderly end flushes, a crash loses what is in the buffer.
Leave(code) ==
  /\ program.state = "up"
  /\ program' = [program EXCEPT !.state = "gone", !.code = code, !.left = gate.phase,
                                !.log = IF code = "0" THEN @ \cup program.buffer ELSE @,
                                !.buffer = {}]
  /\ Watched

-----------------------------------------------------------------------------
(* The gates.                                                              *)

Result(kind, code, p) ==
  IF code = 0
  THEN [status |-> "PASS", attempt |-> lastAttempt[kind], left |-> p.left, log |-> p.log]
  ELSE [NoResult EXCEPT !.status = "FAIL", !.attempt = lastAttempt[kind]]

Judged(code, p) ==
  /\ results' = [results EXCEPT ![gate.kind] = Result(gate.kind, code, p)]
  /\ gate' = NoGate /\ program' = NoProgram
  /\ UNCHANGED <<attempts, lastAttempt>>

Launch(kind, built) ==
  /\ gate = NoGate /\ attempts < MaxAttempts
  /\ attempts' = attempts + 1
  /\ lastAttempt' = [lastAttempt EXCEPT ![kind] = attempts + 1]
  /\ IF built
       THEN /\ program' = [NoProgram EXCEPT !.state = "up"]
            /\ gate' = [NoGate EXCEPT !.kind = kind,
                                      !.phase = IF kind = "fault" THEN "startup" ELSE "window"]
            /\ UNCHANGED results
       ELSE /\ results' = [results EXCEPT ![kind] =
                  [NoResult EXCEPT !.status = "FAIL", !.attempt = attempts + 1]]
            /\ UNCHANGED <<program, gate>>

\* The campaign waits for the bridge, or for as long as it allows, and sends.
SendTraffic ==
  /\ gate.phase = "startup"
  /\ IF program.state = "gone"
       THEN Judged(3, program)
       ELSE /\ gate' = [gate EXCEPT !.phase = "window"]
            /\ UNCHANGED <<program, results, attempts, lastAttempt>>

\* poll() every half second; the smoke test only sleeps.
Poll ==
  /\ Soaks(gate.kind) /\ gate.phase = "window" /\ program.state = "gone"
  /\ gate' = [gate EXCEPT !.phase = "tail", !.early = TRUE]
  /\ UNCHANGED <<program, results, attempts, lastAttempt>>

\* The last look before the time is up.
LastPoll ==
  /\ gate.kind # "smoke" /\ gate.phase = "window"
  /\ IF program.state = "up"
       THEN /\ gate' = [gate EXCEPT !.phase = "tail"]
            /\ UNCHANGED <<program, results, attempts, lastAttempt>>
       ELSE gate.kind = "fault" /\ Judged(5, program)

Over == gate.phase = "tail" \/ (gate.kind = "smoke" /\ gate.phase = "window")

\* terminate, wait, kill, wait: what may become of the program.
Stopped(p) ==
  IF p.state = "gone" THEN {p}
  ELSE {[p EXCEPT !.state = "gone", !.code = "0", !.log = @ \cup p.buffer],
        [p EXCEPT !.state = "gone", !.code = "term"],
        [p EXCEPT !.state = "gone", !.code = "kill"], p}

\* MUTANT of SmokeCode: who ended the program is not asked.
SmokeCodeAnyEnd(stopped, p) ==
  IF p.state = "up" THEN 5
  ELSE IF p.code \notin {"0", "term", "kill"} THEN 7
  ELSE IF "markers" \notin p.log THEN 3
  ELSE IF "fatal" \in p.log THEN 4
  ELSE 0

SmokeCode(stopped, p) ==
  IF p.state = "up" THEN 5
  ELSE IF ~stopped THEN 6
  ELSE IF p.code \notin {"0", "term", "kill"} THEN 7
  ELSE IF "markers" \notin p.log THEN 3
  ELSE IF "fatal" \in p.log THEN 4
  ELSE 0

\* The exit code of the program is not looked at.
HostSoakCode(early, p) ==
  IF p.state = "up" THEN 5
  ELSE IF early THEN 6
  ELSE IF "markers" \notin p.log THEN 3
  ELSE IF "fatal" \in p.log THEN 4
  ELSE 0

\* Code 8 stands for 9, the event log without its evidence, as well.
FaultCode(p) ==
  IF p.state = "up" THEN 6
  ELSE IF "markers" \notin p.log THEN 4
  ELSE IF "fatal" \in p.log THEN 7
  ELSE IF "evidence" \notin p.log THEN 8
  ELSE 0

StopAndJudge ==
  /\ Over
  /\ \E p \in Stopped(program) :
       Judged(CASE gate.kind = "smoke" -> SmokeCode(program.state = "up", p)
                [] gate.kind = "fault" -> FaultCode(p)
                [] Soaks(gate.kind)    -> HostSoakCode(gate.early, p), p)

\* Ctrl-C, which reaches the program as well: the campaign still writes the
\* FAIL it began with, the other two leave the artifact of before.
GateCancelled ==
  /\ gate # NoGate
  /\ IF gate.kind = "fault" THEN Judged(1, program)
     ELSE gate' = NoGate /\ program' = NoProgram /\ UNCHANGED <<results, attempts, lastAttempt>>

-----------------------------------------------------------------------------
(* sitl_long_soak_status.py: only an early end makes a soak too short.     *)

Evaluate(profile) == results[profile].status

LongSoakStatus == [p \in {"soak"} \cup Profile |-> Evaluate(p)]

SitlNext ==
  \/ \E line \in Line : PrintLine(line)
  \/ Flush
  \/ \E code \in {"0", "crash"} : Leave(code)
  \/ \E k \in HostGate, built \in BOOLEAN : Launch(k, built)
  \/ SendTraffic \/ Poll \/ LastPoll \/ StopAndJudge \/ GateCancelled

-----------------------------------------------------------------------------
(* A gate that passed had a program that was alive when it last looked at  *)
(* it, whose log holds what was asked for and no fatal text; the smoke     *)
(* test stopped it itself.  The artifact of the fault campaign is always   *)
(* that of the last attempt (sitl_smoke.py:114-176, sitl_soak.py:113-164,  *)
(* sitl_fault_campaign.py:219-386).                                        *)
PassOutlives ==
  /\ \A k \in HostGate : results[k].status = "PASS" =>
       /\ results[k].left \in (IF k = "smoke" THEN {"none"} ELSE {"none", "tail"})
       /\ "markers" \in results[k].log /\ "fatal" \notin results[k].log
       /\ k = "fault" => "evidence" \in results[k].log
  /\ gate = NoGate => results["fault"].attempt = lastAttempt["fault"]

=============================================================================
