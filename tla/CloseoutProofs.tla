---------------------------- MODULE CloseoutProofs ----------------------------
(***************************************************************************)
(* About the whole of CloseoutSpec, so for any use of the workspace.       *)
(* First what the evidence in it is worth, for any length of the soaks,    *)
(* any thresholds, number of cycles and of campaigns: PassOutlives of the  *)
(* gates on the host, EvidenceIsReal of the campaigns on the board,        *)
(* HourCoversHalf and TeamPassIsEvidence of the readiness report and the   *)
(* sequence that ends with it.  Then what a status and a pedigree in docs/ *)
(* stand for, whatever the versions and their flaws, for any number of     *)
(* targets, edits, commits and restores.  Last the types.                  *)
(***************************************************************************)
EXTENDS Closeout, SequenceTheorems, TLAPS

-----------------------------------------------------------------------------
(* The evidence.                                                           *)

\* The host gates are alone with their variables.
LEMMA CloseoutIsSitl ==
  [CloseoutNext]_<<vars, boards, sitl, budget>> => [SitlNext]_sitl
BY DEF CloseoutNext, Releasing, ByTheBoard, Reported, Reports, StartTeam, EndHostGates,
       InterruptTeam, Hosting, SumUpSoaks

Program == [state : {"none", "up", "gone"}, code : {"none", "0", "term", "kill", "crash"},
            buffer : SUBSET Line, log : SUBSET Line,
            left : {"none", "idle", "startup", "window", "tail"}]

SitlTyped ==
  /\ program \in Program
  /\ gate \in [kind : HostGate \cup {"none"}, phase : {"idle", "startup", "window", "tail"},
               early : BOOLEAN]
  /\ results \in [HostGate -> [status : {"MISSING", "PASS", "FAIL"}, attempt : Nat,
                               left : {"none", "idle", "startup", "window", "tail"},
                               log : SUBSET Line]]
  /\ attempts \in Nat
  /\ lastAttempt \in [HostGate -> Nat]

\* A program that runs has not left; one whose gate saw it alive at the last
\* look can only have left after it.
Watching ==
  /\ program.state = "up" => program.left = "none"
  /\ gate.phase = "tail" /\ ~gate.early => program.left \in {"none", "tail"}
  /\ gate.kind = "fault" => ~gate.early
  /\ gate.kind \in HostGate \/ (gate.phase = "idle" /\ program.state = "none")

PassIsSound(k) ==
  results[k].status = "PASS" =>
    /\ results[k].left \in (IF k = "smoke" THEN {"none"} ELSE {"none", "tail"})
    /\ "markers" \in results[k].log /\ "fatal" \notin results[k].log
    /\ k = "fault" => "evidence" \in results[k].log

FaultIsLatest ==
  gate.kind # "fault" => results["fault"].attempt = lastAttempt["fault"]

SitlInv ==
  /\ SitlTyped /\ Watching /\ FaultIsLatest
  /\ \A k \in HostGate : PassIsSound(k)

LEMMA SitlStarts == SitlInit => SitlInv
BY ProfileAssumption
   DEF SitlInit, SitlInv, SitlTyped, Watching, FaultIsLatest, PassIsSound, Program,
       NoProgram, NoGate, NoResult, HostGate, Line

\* What becomes of a program that is stopped.
LEMMA StoppedProgram ==
  ASSUME SitlTyped, NEW p \in Stopped(program)
  PROVE  /\ p \in Program /\ p.left = program.left
         /\ program.state = "gone" => p = program
<1> USE DEF SitlTyped, Program
<1>1. CASE program.state = "gone"
  BY <1>1 DEF Stopped
<1>2. CASE program.state # "gone"
  <2> DEFINE end(code, log) == [program EXCEPT !.state = "gone", !.code = code, !.log = log]
  <2>1. \E code \in {"0", "term", "kill"}, log \in {program.log, program.log \cup program.buffer} :
          p = program \/ p = end(code, log)
    <3>1. \/ p = program
          \/ p = end("0", program.log \cup program.buffer)
          \/ p = [program EXCEPT !.state = "gone", !.code = "term"]
          \/ p = [program EXCEPT !.state = "gone", !.code = "kill"]
      BY <1>2 DEF Stopped
    <3>2. \A code : [program EXCEPT !.state = "gone", !.code = code] = end(code, program.log)
      OBVIOUS
    <3> QED BY <3>1, <3>2
  <2>2. \A code \in {"0", "term", "kill"}, log \in SUBSET Line :
          end(code, log) \in Program /\ end(code, log).left = program.left
    OBVIOUS
  <2>3. {program.log, program.log \cup program.buffer} \subseteq SUBSET Line
    OBVIOUS
  <2> HIDE DEF end
  <2>4. PICK code \in {"0", "term", "kill"}, log \in {program.log, program.log \cup program.buffer} :
          p = program \/ p = end(code, log)
    BY <2>1
  <2>5. log \in SUBSET Line
    BY <2>3, <2>4
  <2> QED BY <1>2, <2>2, <2>4, <2>5
<1> QED BY <1>1, <1>2

\* A gate is judged: only a pass needs more than its type.
LEMMA JudgedKeeps ==
  ASSUME SitlInv, gate.kind \in HostGate, NEW p \in Program, NEW code,
         code = 0 =>
           /\ p.left \in (IF gate.kind = "smoke" THEN {"none"} ELSE {"none", "tail"})
           /\ "markers" \in p.log /\ "fatal" \notin p.log
           /\ gate.kind = "fault" => "evidence" \in p.log,
         Judged(code, p)
  PROVE  SitlInv'
<1> DEFINE r == Result(gate.kind, code, p)
<1>1. /\ r \in [status : {"MISSING", "PASS", "FAIL"}, attempt : Nat,
                left : {"none", "idle", "startup", "window", "tail"}, log : SUBSET Line]
      /\ r.attempt = lastAttempt[gate.kind]
      /\ r.status = "PASS" => code = 0 /\ r.left = p.left /\ r.log = p.log
  BY DEF Result, NoResult, SitlInv, SitlTyped, Program
<1>2. /\ results' = [results EXCEPT ![gate.kind] = r]
      /\ gate' = NoGate /\ program' = NoProgram /\ UNCHANGED <<attempts, lastAttempt>>
  BY DEF Judged
<1> HIDE DEF r
<1>3. SitlTyped'
  BY <1>1, <1>2 DEF SitlInv, SitlTyped, NoGate, NoProgram, Program
<1>4. Watching' /\ FaultIsLatest'
  BY <1>1, <1>2, ProfileAssumption
     DEF SitlInv, SitlTyped, Watching, FaultIsLatest, NoGate, NoProgram, HostGate
<1>5. ASSUME NEW k \in HostGate PROVE PassIsSound(k)'
  <2>1. CASE k = gate.kind
    BY <1>1, <1>2, <2>1 DEF SitlInv, SitlTyped, PassIsSound
  <2>2. CASE k # gate.kind
    BY <1>2, <2>2 DEF SitlInv, SitlTyped, PassIsSound
  <2> QED BY <2>1, <2>2
<1> QED BY <1>3, <1>4, <1>5 DEF SitlInv

\* The program moves: the gates keep their results.
LEMMA ProgramKeeps ==
  ASSUME SitlInv, program' \in Program, UNCHANGED <<gate, results, attempts, lastAttempt>>,
         program.state = "up",
         program'.left = program.left \/ (program'.state = "gone" /\ program'.left = gate.phase)
  PROVE  SitlInv'
BY DEF SitlInv, SitlTyped, Watching, FaultIsLatest, PassIsSound

LEMMA SitlKeeps == SitlInv /\ [SitlNext]_sitl => SitlInv'
<1> SUFFICES ASSUME SitlInv, [SitlNext]_sitl PROVE SitlInv'
  OBVIOUS
<1>0. SitlTyped /\ Watching /\ FaultIsLatest /\ \A k \in HostGate : PassIsSound(k)
  BY DEF SitlInv
<1>1. ASSUME NEW line \in Line, PrintLine(line) PROVE SitlInv'
  <2>1. program' \in Program /\ program'.left = program.left
    BY <1>1, <1>0 DEF PrintLine, SitlTyped, Program
  <2> QED BY <1>1, <1>0, <2>1, ProgramKeeps DEF PrintLine, Watched
<1>2. CASE Flush
  <2>1. program' \in Program /\ program'.left = program.left
    BY <1>2, <1>0 DEF Flush, SitlTyped, Program
  <2> QED BY <1>2, <1>0, <2>1, ProgramKeeps DEF Flush, Watched
<1>3. ASSUME NEW code \in {"0", "crash"}, Leave(code) PROVE SitlInv'
  <2>1. program' \in Program /\ program'.left = gate.phase /\ program'.state = "gone"
    BY <1>3, <1>0 DEF Leave, SitlTyped, Program
  <2> QED BY <1>3, <1>0, <2>1, ProgramKeeps DEF Leave, Watched, SitlTyped
<1>4. ASSUME NEW k \in HostGate, NEW built \in BOOLEAN, Launch(k, built) PROVE SitlInv'
  <2>1. CASE built
    <3>1. SitlTyped'
      <4>1. program' = [state |-> "up", code |-> "none", buffer |-> {}, log |-> {}, left |-> "none"]
        BY <1>4, <2>1 DEF Launch, NoProgram
      <4>2. gate' = [kind |-> k, phase |-> IF k = "fault" THEN "startup" ELSE "window", early |-> FALSE]
        BY <1>4, <2>1 DEF Launch, NoGate
      <4>3. attempts' \in Nat /\ lastAttempt' \in [HostGate -> Nat] /\ results' = results
        BY <1>4, <1>0, <2>1 DEF Launch, SitlTyped
      <4> QED BY <1>0, <4>1, <4>2, <4>3 DEF SitlTyped, Program
    <3>2. Watching' /\ FaultIsLatest'
      BY <1>4, <1>0, <2>1, ProfileAssumption
         DEF Launch, SitlTyped, Watching, FaultIsLatest, NoProgram, NoGate, HostGate
    <3> QED BY <1>4, <1>0, <2>1, <3>1, <3>2 DEF Launch, PassIsSound, SitlInv
  <2>2. CASE ~built
    <3> DEFINE r == [status |-> "FAIL", attempt |-> attempts + 1, left |-> "none", log |-> {}]
    <3>0. PICK f : f = [NoResult EXCEPT !.status = "FAIL", !.attempt = attempts + 1]
      OBVIOUS
    <3>a. f = r
      BY <3>0 DEF NoResult
    <3>1. /\ results' = [results EXCEPT ![k] = r]
          /\ r \in [status : {"MISSING", "PASS", "FAIL"}, attempt : Nat,
                    left : {"none", "idle", "startup", "window", "tail"}, log : SUBSET Line]
          /\ r.status = "FAIL" /\ r.attempt = attempts + 1
      <4>1. results' = [results EXCEPT ![k] = r]
        BY <1>4, <2>2, <3>0, <3>a DEF Launch
      <4> QED BY <1>0, <4>1 DEF SitlTyped
    <3> HIDE DEF r
    <3>2. SitlTyped'
      BY <1>4, <1>0, <2>2, <3>1 DEF Launch, SitlTyped
    <3>3. Watching' /\ FaultIsLatest'
      BY <1>4, <1>0, <2>2, <3>1, ProfileAssumption
         DEF Launch, SitlTyped, Watching, FaultIsLatest, HostGate
    <3>4. ASSUME NEW h \in HostGate PROVE PassIsSound(h)'
      BY <1>0, <3>1, <3>4 DEF SitlTyped, PassIsSound
    <3> QED BY <3>2, <3>3, <3>4 DEF SitlInv
  <2> QED BY <2>1, <2>2
<1>5. CASE SendTraffic
  <2>1. CASE program.state = "gone"
    <3>1. gate.kind \in HostGate
      BY <1>5, <1>0 DEF SendTraffic, SitlTyped, Watching
    <3>2. program \in Program /\ Judged(3, program)
      BY <1>5, <1>0, <2>1 DEF SendTraffic, SitlTyped
    <3>3. 3 # 0
      OBVIOUS
    <3> QED BY <3>1, <3>2, <3>3, JudgedKeeps, Zenon
  <2>2. CASE program.state # "gone"
    BY <1>5, <1>0, <2>2 DEF SendTraffic, SitlTyped, Watching, FaultIsLatest, PassIsSound, SitlInv
  <2> QED BY <2>1, <2>2
<1>6. CASE Poll
  BY <1>6, <1>0, ProfileAssumption
     DEF Poll, Soaks, SitlTyped, Watching, FaultIsLatest, PassIsSound, SitlInv
<1>7. CASE LastPoll
  <2>1. CASE program.state = "up"
    BY <1>7, <1>0, <2>1 DEF LastPoll, SitlTyped, Watching, FaultIsLatest, PassIsSound, SitlInv
  <2>2. CASE program.state # "up"
    <3>1. gate.kind \in HostGate
      BY <1>7, <1>0 DEF LastPoll, SitlTyped, Watching
    <3> QED BY <1>7, <1>0, <2>2, <3>1, JudgedKeeps DEF LastPoll, SitlTyped
  <2> QED BY <2>1, <2>2
<1>8. CASE StopAndJudge
  <2>1. gate.kind \in HostGate /\ Over
    BY <1>8, <1>0 DEF StopAndJudge, Over, SitlTyped, Watching
  <2> DEFINE Code(p) == CASE gate.kind = "smoke" -> SmokeCode(program.state = "up", p)
                          [] gate.kind = "fault" -> FaultCode(p)
                          [] Soaks(gate.kind)    -> HostSoakCode(gate.early, p)
  <2>2. PICK p \in Stopped(program) : Judged(Code(p), p)
    BY <1>8 DEF StopAndJudge
  <2>3. /\ p \in Program /\ p.left = program.left
        /\ program.state = "gone" => p = program
    BY <1>0, <2>2, StoppedProgram
  <2>4. /\ gate.kind = "smoke" => ~Soaks("smoke")
        /\ ~Soaks("fault")
        /\ gate.kind \notin {"smoke", "fault"} => Soaks(gate.kind)
    BY <2>1, ProfileAssumption DEF Soaks, HostGate
  <2>5. Code(p) = 0 => /\ p.left \in (IF gate.kind = "smoke" THEN {"none"} ELSE {"none", "tail"})
                       /\ "markers" \in p.log /\ "fatal" \notin p.log
                       /\ gate.kind = "fault" => "evidence" \in p.log
    <3>1. CASE gate.kind = "smoke"
      <4>1. Code(p) = SmokeCode(program.state = "up", p)
        BY <3>1, <2>4
      <4> QED BY <1>0, <2>3, <3>1, <4>1 DEF SmokeCode, Watching
    <3>2. CASE gate.kind = "fault"
      <4>1. Code(p) = FaultCode(p)
        BY <3>2, <2>4
      <4> QED BY <1>0, <2>1, <2>3, <3>2, <4>1 DEF FaultCode, Watching, Over
    <3>3. CASE gate.kind \notin {"smoke", "fault"}
      <4>1. Code(p) = HostSoakCode(gate.early, p)
        BY <3>3, <2>4
      <4> HIDE DEF Code
      <4>2. gate.phase = "tail" /\ program.left = p.left
        BY <2>1, <2>3, <3>3 DEF Over
      <4>3. Code(p) = 0 => ~gate.early /\ "markers" \in p.log /\ "fatal" \notin p.log
        BY <4>1 DEF HostSoakCode
      <4> QED BY <1>0, <3>3, <4>2, <4>3 DEF Watching
    <3> QED BY <3>1, <3>2, <3>3
  <2> HIDE DEF Code
  <2> QED BY <2>1, <2>2, <2>3, <2>5, JudgedKeeps
<1>9. CASE GateCancelled
  <2>2. CASE gate.kind = "fault"
    <3>1. program \in Program /\ Judged(1, program) /\ gate.kind \in HostGate
      BY <1>9, <1>0, <2>2 DEF GateCancelled, SitlTyped, HostGate
    <3>2. 1 # 0
      OBVIOUS
    <3> QED BY <3>1, <3>2, JudgedKeeps, Zenon
  <2>3. CASE gate.kind # "fault"
    <3>1. gate' = NoGate /\ program' = NoProgram /\ UNCHANGED <<results, attempts, lastAttempt>>
      BY <1>9, <2>3 DEF GateCancelled
    <3>2. SitlTyped' /\ Watching' /\ FaultIsLatest'
      BY <1>0, <2>3, <3>1 DEF SitlTyped, Watching, FaultIsLatest, NoGate, NoProgram, Program
    <3> QED BY <1>0, <3>1, <3>2 DEF SitlInv, PassIsSound
  <2> QED BY <2>2, <2>3
<1>10. CASE UNCHANGED sitl
  BY <1>10, <1>0 DEF sitl, SitlTyped, Watching, FaultIsLatest, PassIsSound, SitlInv
<1> QED
  BY <1>1, <1>0, <1>2, <1>3, <1>4, <1>5, <1>6, <1>7, <1>8, <1>9, <1>10 DEF SitlNext

(* A gate that passed had a program that was alive when it last looked at  *)
(* it (PassOutlives), for any number of gates run beside whatever else the *)
(* workspace is used for.                                                  *)
THEOREM PassesOutlive == CloseoutSpec => []PassOutlives
<1>1. CloseoutInit => SitlInv
  BY SitlStarts DEF CloseoutInit
<1>2. SitlInv /\ [CloseoutNext]_<<vars, boards, sitl, budget>> => SitlInv'
  BY SitlKeeps, CloseoutIsSitl
<1>3. SitlInv => PassOutlives
  BY ProfileAssumption DEF SitlInv, PassIsSound, FaultIsLatest, PassOutlives, NoGate
<1> QED BY <1>1, <1>2, <1>3, PTL DEF CloseoutSpec


-----------------------------------------------------------------------------
(* The campaigns.                                                          *)

Heard ==
  [kind : Kind, duration : Nat, marked : BOOLEAN, failed : BOOLEAN, banners : Nat,
   samples : Nat, slow : BOOLEAN, overruns : Nat, cycle : Nat, bad : Nat,
   boots : Nat, worst : Nat, spoilt : BOOLEAN]

CampaignTyped ==
  /\ board \in [phase : {"off", "boot", "run"}, overruns : Nat]
  /\ Open => session \in Heard
  /\ \A a \in artifacts : a.kind = "soak" => a.duration \in Nat

\* How what was heard relates to what happened.
HeardRight ==
  Open =>
    /\ session.boots >= 1 /\ session.boots <= session.banners + 1
    /\ session.spoilt => session.failed \/ session.bad > 0
    /\ session.kind # "reboot" => session.bad = 0
    /\ session.kind # "guard" => session.worst = 0
    /\ session.worst <= session.overruns
    /\ session.boots = 1 => session.worst <= board.overruns
    /\ session.boots # 1 => session.worst = 0

CampaignInv == CampaignTyped /\ HeardRight /\ EvidenceIsReal

\* What a step of the workspace may be to board, campaign and reports.
CampaignStep ==
  \/ Listen
  \/ \E kind \in Kind, duration \in Nat : Start(kind, duration)
  \/ UNCHANGED <<board, session, artifacts>>

LEMMA CampaignStarts == CampaignInit => CampaignInv
BY DEF CampaignInit, CampaignInv, CampaignTyped, HeardRight, EvidenceIsReal, Open, Closed

\* While nothing is filed and the campaign goes on, the reports stay as good.
LEMMA ListeningKeeps ==
  ASSUME CampaignInv, artifacts' = artifacts, session' \in Heard, HeardRight',
         board' \in [phase : {"off", "boot", "run"}, overruns : Nat]
  PROVE  CampaignInv'
BY DEF CampaignInv, CampaignTyped, EvidenceIsReal, GuardAccepted, RebootAccepted

\* A campaign closes, with a report or without.
LEMMA ClosingKeeps ==
  ASSUME CampaignInv, Open, session' = Closed, board' = [board EXCEPT !.phase = "off", !.overruns = 0],
         NEW a, a.kind = "soak" => a.duration \in Nat,
         artifacts' = artifacts \/ artifacts' = artifacts \cup {a},
         artifacts' # artifacts =>
           (\/ a.kind = "soak" /\ a.status = "PASS"
            \/ a.kind = "guard" /\ GuardAccepted(a)
            \/ a.kind = "reboot" /\ RebootAccepted(a)
            => a.troubles = {} /\ (a.kind = "reboot" => a.pass = Cycles))
  PROVE  CampaignInv'
<1>1. ~Open'
  BY DEF Open
<1>2. CampaignTyped' /\ HeardRight'
  BY <1>1 DEF CampaignInv, CampaignTyped, HeardRight
<1>3. EvidenceIsReal'
  <2>1. CASE artifacts' = artifacts
    BY <2>1 DEF CampaignInv, EvidenceIsReal, GuardAccepted, RebootAccepted
  <2>2. CASE artifacts' # artifacts
    <3>1. \A b \in artifacts' : b \in artifacts \/ b = a
      OBVIOUS
    <3> QED BY <2>2, <3>1 DEF CampaignInv, EvidenceIsReal, GuardAccepted, RebootAccepted
  <2> QED BY <2>1, <2>2
<1> QED BY <1>2, <1>3 DEF CampaignInv

\* The report of a campaign that was healthy by its own account has no troubles.
LEMMA ReportIsReal ==
  ASSUME CampaignInv, Open, NEW code,
         session.kind = "soak" => code = SoakCode \/ code # 0,
         session.kind = "guard" => code = GuardCode \/ ~GuardReports(code)
  PROVE  LET a == Report(code)
         IN  /\ a.kind = session.kind
             /\ a.kind = "soak" => a.duration \in Nat
             /\ Leaves(session.kind, code) =>
                 (\/ a.kind = "soak" /\ a.status = "PASS"
                  \/ a.kind = "guard" /\ GuardAccepted(a)
                  \/ a.kind = "reboot" /\ RebootAccepted(a)
                  => a.troubles = {} /\ (a.kind = "reboot" => a.pass = Cycles))
<1> DEFINE a == Report(code)
<1>0. session \in Heard /\ HeardRight /\ Limit \in Nat /\ MaxBanners \in Nat /\ Cycles \in Nat \ {0}
  BY CampaignAssumption DEF CampaignInv, CampaignTyped
<1>1. ~session.failed /\ session.bad = 0 /\ ~RebootLoop /\ session.worst <= Limit => Troubles = {}
  BY <1>0 DEF HeardRight, Troubles, RebootLoop, Heard
<1>2. CASE session.kind = "soak"
  <2>1. /\ a.kind = "soak" /\ a.duration = session.duration /\ a.troubles = Troubles
        /\ a.status = "PASS" => code = 0
    BY <1>2 DEF Report
  <2>2. code = 0 => ~session.failed /\ ~RebootLoop
    BY <1>2 DEF SoakCode
  <2>3. session.bad = 0 /\ session.worst = 0
    BY <1>0, <1>2 DEF HeardRight
  <2> QED BY <1>0, <1>1, <1>2, <2>1, <2>2, <2>3 DEF Heard
<1>3. CASE session.kind = "guard"
  <2>1. /\ a.kind = "guard" /\ a.overruns = session.overruns /\ a.troubles = Troubles
    BY <1>3 DEF Report
  <2>2. Leaves("guard", code) => ~session.failed /\ ~RebootLoop
    <3>1. Leaves("guard", code) => GuardCode \in {0, 8}
      BY <1>3 DEF GuardReports, Leaves
    <3>2. GuardCode \in {0, 8} => ~session.failed /\ ~RebootLoop
      BY DEF GuardCode
    <3> QED BY <3>1, <3>2
  <2>3. session.bad = 0 /\ (session.overruns <= Limit => session.worst <= Limit)
    BY <1>0, <1>3 DEF HeardRight, Heard
  <2> QED BY <1>0, <1>1, <1>3, <2>1, <2>2, <2>3 DEF GuardAccepted
<1>4. CASE session.kind = "reboot"
  <2> DEFINE now == IF CycleFails THEN 1 ELSE 0
  <2>1. /\ a.kind = "reboot" /\ a.fail = session.bad + now /\ a.pass = Cycles - session.bad - now
        /\ a.troubles = Troubles
    BY <1>4 DEF Report
  <2>2. a.fail = 0 => session.bad = 0 /\ ~CycleFails
    BY <1>0, <2>1 DEF Heard
  <2>3. session.worst = 0
    BY <1>0, <1>4 DEF HeardRight
  <2>4. a.fail = 0 => Troubles = {} /\ a.pass = Cycles
    <3>1. a.fail = 0 => ~session.failed /\ ~RebootLoop /\ now = 0
      BY <2>2 DEF CycleFails
    <3> HIDE DEF a
    <3> QED BY <1>0, <1>1, <2>1, <2>2, <2>3, <3>1 DEF Heard
  <2> HIDE DEF a
  <2>5. /\ a.kind = session.kind
        /\ RebootAccepted(a) => a.troubles = {} /\ a.pass = Cycles
    BY <1>4, <2>1, <2>4 DEF RebootAccepted
  <2> QED BY <1>4, <2>5 DEF a
<1> QED BY <1>0, <1>2, <1>3, <1>4 DEF Heard, Kind

\* The three records a campaign goes on with are of the type of what it hears.
LEMMA HeardUpdated ==
  ASSUME NEW s \in Heard, NEW r, NEW i \in Nat, NEW j \in Nat, NEW k \in Nat, NEW b \in BOOLEAN
  PROVE  /\ r = [s EXCEPT !.boots = i, !.banners = j, !.worst = k] => r \in Heard
         /\ r = [s EXCEPT !.samples = i, !.slow = b, !.overruns = j, !.worst = k] => r \in Heard
         /\ r = [s EXCEPT !.cycle = i, !.bad = j, !.spoilt = b] => r \in Heard
<1>1. ASSUME r = [s EXCEPT !.boots = i, !.banners = j, !.worst = k] PROVE r \in Heard
  BY <1>1 DEF Heard
<1>2. ASSUME r = [s EXCEPT !.samples = i, !.slow = b, !.overruns = j, !.worst = k]
      PROVE  r \in Heard
  BY <1>2 DEF Heard
<1>3. ASSUME r = [s EXCEPT !.cycle = i, !.bad = j, !.spoilt = b] PROVE r \in Heard
  BY <1>3 DEF Heard
<1> QED BY <1>1, <1>2, <1>3

LEMMA RestartedTyped ==
  ASSUME session \in Heard
  PROVE  Restarted \in Heard
<1> DEFINE i == session.boots + 1
           j == session.banners + 1
<1>1. i \in Nat /\ j \in Nat
  BY DEF Heard
<1>2. Restarted = [session EXCEPT !.boots = i, !.banners = j, !.worst = 0]
  BY DEF Restarted
<1> HIDE DEF i, j
<1> QED BY <1>1, <1>2, HeardUpdated

LEMMA CampaignKeeps ==
  ASSUME CampaignInv, CampaignStep
  PROVE  CampaignInv' /\ artifacts \subseteq artifacts'
<1>0. /\ board \in [phase : {"off", "boot", "run"}, overruns : Nat]
      /\ Open => session \in Heard
      /\ HeardRight
  BY DEF CampaignInv, CampaignTyped
<1>b. Booting \in [phase : {"off", "boot", "run"}, overruns : Nat]
  BY DEF Booting
<1>1. CASE Ready
  <2>1. session' \in Heard /\ board' \in [phase : {"off", "boot", "run"}, overruns : Nat]
    BY <1>0, <1>1 DEF Ready, Heard
  <2>2. HeardRight'
    BY <1>0, <1>1 DEF Ready, Heard, HeardRight, Open, Closed
  <2> QED BY <1>1, <2>1, <2>2, ListeningKeeps DEF Ready, Listened
<1>2. CASE Overrun
  <2>1. session' \in Heard /\ board' \in [phase : {"off", "boot", "run"}, overruns : Nat]
    BY <1>0, <1>2 DEF Overrun, Heard
  <2>2. HeardRight'
    BY <1>0, <1>2 DEF Overrun, Heard, HeardRight, Open, Closed
  <2> QED BY <1>2, <2>1, <2>2, ListeningKeeps DEF Overrun, Listened
<1>3. CASE Brownout
  <2>1. session' = Restarted /\ Open /\ board' = Booting /\ artifacts' = artifacts
    BY <1>3 DEF Brownout, Listened
  <2>2. session' \in Heard
    BY <1>0, <2>1, RestartedTyped
  <2>3. HeardRight'
    BY <1>0, <2>1 DEF Restarted, Heard, HeardRight
  <2> QED BY <1>b, <2>1, <2>2, <2>3, ListeningKeeps
<1>4. CASE Panic
  <2>1. /\ session' = [Restarted EXCEPT !.failed = TRUE, !.spoilt = TRUE]
        /\ Open /\ board' = Booting /\ artifacts' = artifacts
    BY <1>4 DEF Panic, Listened
  <2>2. session' \in Heard
    <3>1. PICK r : r = Restarted
      OBVIOUS
    <3>2. r \in Heard
      BY <1>0, <2>1, <3>1, RestartedTyped
    <3>3. session' = [r EXCEPT !.failed = TRUE, !.spoilt = TRUE]
      BY <2>1, <3>1
    <3> QED BY <3>2, <3>3 DEF Heard
  <2>3. HeardRight'
    BY <1>0, <2>1 DEF Restarted, Heard, HeardRight
  <2> QED BY <1>b, <2>1, <2>2, <2>3, ListeningKeeps
<1>5. ASSUME NEW slow \in BOOLEAN, Metric(slow)
      PROVE  CampaignInv' /\ artifacts \subseteq artifacts'
  <2>1. session' \in Heard /\ board' = board
    <3> DEFINE i == IF session.samples < MinSamples THEN session.samples + 1 ELSE session.samples
               k == IF session.boots = 1 /\ board.overruns > session.worst
                    THEN board.overruns ELSE session.worst
               b == session.slow \/ slow
    <3>1. i \in Nat /\ k \in Nat /\ b \in BOOLEAN /\ board.overruns \in Nat
      BY <1>0, <1>5, CampaignAssumption DEF Metric, Heard
    <3>2. session' = [session EXCEPT !.samples = i, !.slow = b, !.overruns = board.overruns, !.worst = k]
      BY <1>5 DEF Metric
    <3>3. session \in Heard /\ board' = board
      BY <1>0, <1>5 DEF Metric
    <3> HIDE DEF i, k, b
    <3> QED BY <3>1, <3>2, <3>3, HeardUpdated
  <2>2. HeardRight'
    BY <1>0, <1>5 DEF Metric, Heard, HeardRight
  <2> QED BY <1>0, <1>5, <2>1, <2>2, ListeningKeeps DEF Metric, Listened
<1>6. CASE NextCycle
  <2>1. PICK first \in {0, 1} :
          session' = [Silence("reboot", 0, first) EXCEPT
                        !.cycle = session.cycle + 1,
                        !.bad = session.bad + (IF CycleFails THEN 1 ELSE 0),
                        !.spoilt = session.spoilt]
    BY <1>6 DEF NextCycle
  <2>2. Open /\ board' = Booting /\ artifacts' = artifacts /\ session.kind = "reboot"
    BY <1>6 DEF NextCycle, Listened
  <2> DEFINE bad == session.bad + (IF CycleFails THEN 1 ELSE 0)
  <2>s. PICK s : s = Silence("reboot", 0, first)
    OBVIOUS
  <2>5. session' = [s EXCEPT !.cycle = session.cycle + 1, !.bad = bad, !.spoilt = session.spoilt]
    BY <2>1, <2>s
  <2>6. s \in Heard
    BY <2>s DEF Silence, Heard, Kind
  <2>7. session.cycle + 1 \in Nat /\ bad \in Nat /\ session.spoilt \in BOOLEAN
    BY <1>0, <2>2 DEF Heard
  <2>8. session.spoilt => bad > 0
    BY <1>0, <2>2 DEF Heard, HeardRight, CycleFails
  <2> HIDE DEF bad
  <2>3. session' \in Heard
    BY <2>5, <2>6, <2>7, HeardUpdated
  <2>4. HeardRight'
    <3>1. /\ session'.boots = 1 /\ session'.banners = first /\ session'.worst = 0
          /\ session'.kind = "reboot" /\ session'.overruns = 0
      BY <2>5, <2>s DEF Silence
    <3>2. session'.spoilt => session'.bad > 0
      BY <2>5, <2>6, <2>8 DEF Heard
    <3> QED BY <2>2, <3>1, <3>2 DEF HeardRight, Booting
  <2> QED BY <1>b, <2>2, <2>3, <2>4, ListeningKeeps
<1>7. ASSUME NEW code, Open, Close(code),
             session.kind = "soak" => code = SoakCode \/ code # 0,
             session.kind = "guard" => code = GuardCode \/ ~GuardReports(code)
      PROVE  CampaignInv' /\ artifacts \subseteq artifacts'
  <2>1. /\ session' = Closed /\ board' = [board EXCEPT !.phase = "off", !.overruns = 0]
        /\ artifacts' = IF Leaves(session.kind, code) THEN artifacts \cup {Report(code)} ELSE artifacts
    BY <1>7 DEF Close
  <2> QED BY <1>7, <2>1, ReportIsReal, ClosingKeeps
<1>8. CASE Deadline
  <2> DEFINE code == CASE session.kind = "soak"   -> SoakCode
                       [] session.kind = "guard"  -> GuardCode
                       [] session.kind = "reboot" -> IF session.bad > 0 \/ CycleFails THEN 4 ELSE 0
  <2>1. Open /\ Close(code)
    BY <1>8 DEF Deadline
  <2>2. session.kind = "soak" => code = SoakCode
    OBVIOUS
  <2>3. session.kind = "guard" => code = GuardCode
    OBVIOUS
  <2> HIDE DEF code
  <2> QED BY <1>7, <2>1, <2>2, <2>3
<1>9. CASE Unplugged
  <2>1. Open /\ Close(IF session.kind = "guard" THEN 4 ELSE 3)
    BY <1>9 DEF Unplugged
  <2>2. ~GuardReports(4) /\ 3 # 0
    BY DEF GuardReports
  <2> QED BY <1>7, <2>1, <2>2
<1>10. CASE Cancelled
  <2>1. ~Open' /\ artifacts' = artifacts /\ board' = [board EXCEPT !.phase = "off", !.overruns = 0]
    BY <1>10 DEF Cancelled, Open
  <2> QED
    BY <1>0, <2>1
       DEF CampaignInv, CampaignTyped, HeardRight, EvidenceIsReal, GuardAccepted, RebootAccepted
<1>11. ASSUME NEW kind \in Kind, NEW duration \in Nat, Start(kind, duration)
       PROVE  CampaignInv' /\ artifacts \subseteq artifacts'
  <2>1. PICK first \in {0, 1} : session' = Silence(kind, duration, first)
    BY <1>11 DEF Start
  <2>2. board' = Booting /\ artifacts' = artifacts
    BY <1>11 DEF Start
  <2>3. session' \in Heard
    BY <2>1 DEF Silence, Heard
  <2>4. HeardRight'
    BY <2>1, <2>2 DEF Silence, HeardRight, Booting
  <2> QED BY <1>b, <2>2, <2>3, <2>4, ListeningKeeps
<1>12. CASE UNCHANGED <<board, session, artifacts>>
  BY <1>12
     DEF CampaignInv, CampaignTyped, HeardRight, Open, EvidenceIsReal, GuardAccepted, RebootAccepted
<1> QED
  BY <1>1, <1>2, <1>3, <1>4, <1>5, <1>6, <1>8, <1>9, <1>10, <1>11, <1>12 DEF CampaignStep, Listen


-----------------------------------------------------------------------------
(* The report and the sequence, step by step of the workspace.             *)

TeamInterrupted ==
  /\ Teaming
  /\ team' = [team EXCEPT !.left = <<>>, !.failed = TRUE]
  /\ UNCHANGED <<campaign, papers, report>>

ReadinessStep ==
  \/ Collecting
  \/ \E software, manifest : Reporting(Readings({}, software, manifest))
  \/ Scoping
  \/ \E d \in Durations, goOn \in BOOLEAN, skip \in BOOLEAN : TeamStart(d, goOn, skip)
  \/ \E ok \in BOOLEAN : HostGates(ok)
  \/ TeamInterrupted
  \/ UNCHANGED readiness

LEMMA CloseoutIsReadiness ==
  [CloseoutNext]_<<vars, boards, sitl, budget>> => ReadinessStep
<1> SUFFICES ASSUME [CloseoutNext]_<<vars, boards, sitl, budget>> PROVE ReadinessStep
  OBVIOUS
<1>1. CASE Releasing \/ Hosting \/ SumUpSoaks \/ UNCHANGED <<vars, boards, sitl, budget>>
  BY <1>1 DEF Releasing, Hosting, SumUpSoaks, boards, ReadinessStep, readiness, campaign, papers
<1>2. CASE ByTheBoard
  BY <1>2 DEF ByTheBoard, ReadinessStep
<1>3. CASE Reports
  BY <1>3 DEF Reports, ReadinessStep
<1>4. CASE StartTeam
  BY <1>4 DEF StartTeam, ReadinessStep
<1>5. CASE EndHostGates
  <2>1. (docs["status"].run = runs) \in BOOLEAN
    OBVIOUS
  <2> QED BY <1>5, <2>1 DEF EndHostGates, ReadinessStep
<1>6. CASE InterruptTeam
  BY <1>6 DEF InterruptTeam, ReadinessStep, TeamInterrupted
<1> QED BY <1>1, <1>2, <1>3, <1>4, <1>5, <1>6 DEF CloseoutNext

StepName == {"software_final", "guard", "reboot", "soak", "report", "scope"}

\* What is left of a sequence is a suffix of its steps.
SequenceTyped(t) ==
  /\ t \in [left : Seq(StepName), duration : Nat, goOn : BOOLEAN, failed : BOOLEAN,
            result : {"none", "PASS", "FAIL"}]
  /\ Len(t.left) <= 6
  /\ \A i \in 1 .. Len(t.left) : t.left[i] = Step[6 - Len(t.left) + i]

TeamTyped == SequenceTyped(team)

LEMMA ReadinessIsCampaign ==
  TeamTyped /\ ReadinessStep => CampaignStep
<1> SUFFICES ASSUME TeamTyped, ReadinessStep PROVE CampaignStep
  OBVIOUS
<1>1. CASE Collecting
  <2>1. CASE Hearing \/ Interrupted
    BY <2>1 DEF Hearing, Interrupted, CampaignStep, Listen
  <2>2. CASE TeamCampaign
    <3>1. PICK kind \in Kind :
            Start(kind, IF kind = "soak" THEN team.duration ELSE 0) \/ NotStarted(kind)
      BY <2>2 DEF TeamCampaign
    <3>2. (IF kind = "soak" THEN team.duration ELSE 0) \in Nat
      BY DEF TeamTyped, SequenceTyped
    <3> QED BY <3>1, <3>2 DEF CampaignStep, NotStarted
  <2>3. ASSUME NEW k \in Kind, NEW d \in (IF k = "soak" THEN Durations ELSE {0}), ByHand(k, d)
        PROVE  CampaignStep
    <3>1. d \in Nat
      BY CampaignAssumption
    <3> QED BY <2>3, <3>1 DEF ByHand, CampaignStep, NotStarted
  <2>4. CASE TeamWaited \/ TeamReport(FALSE, NoReport) \/ TeamScope(FALSE)
    BY <2>4 DEF TeamWaited, TeamReport, TeamScope, CampaignStep, campaign
  <2> QED BY <1>1, <2>1, <2>2, <2>3, <2>4 DEF Collecting
<1>2. CASE ~Collecting
  BY <1>2 DEF ReadinessStep, Reporting, Scoping, MakeReport, MakeScoped, TeamReport, TeamScope,
             TeamStart, HostGates, TeamInterrupted, readiness, campaign, CampaignStep
<1> QED BY <1>1, <1>2

LEMMA LastTail ==
  ASSUME NEW S, NEW s \in Seq(S), Len(s) = 1
  PROVE  Tail(s) = <<>>
<1>1. s # <<>>
  OBVIOUS
<1>2. Tail(s) \in Seq(S) /\ Len(Tail(s)) = 0
  BY <1>1
<1> QED BY <1>2, EmptySeq

LEMMA UpToSix == ASSUME NEW n, n \in Nat, n <= 6 PROVE n \in {0, 1, 2, 3, 4, 5, 6}
OBVIOUS

\* The step a sequence is at follows from how many are left.
LEMMA StepsLeft ==
  ASSUME TeamTyped
  PROVE  /\ Len(team.left) \in {0, 1, 2, 3, 4, 5, 6}
         /\ Teaming <=> Len(team.left) > 0
         /\ Due("software_final") <=> Len(team.left) = 6
         /\ Due("guard") <=> Len(team.left) = 5
         /\ Due("reboot") <=> Len(team.left) = 4
         /\ Due("soak") <=> Len(team.left) = 3
         /\ Due("report") <=> Len(team.left) = 2
         /\ Due("scope") <=> Len(team.left) = 1
<1>1. Len(team.left) \in {0, 1, 2, 3, 4, 5, 6} /\ team.left \in Seq(StepName)
  <2>1. team.left \in Seq(StepName) /\ Len(team.left) <= 6
    BY DEF TeamTyped, SequenceTyped
  <2>2. Len(team.left) \in Nat
    BY <2>1
  <2> QED BY <2>1, <2>2, UpToSix
<1>2. Teaming <=> Len(team.left) > 0
  BY <1>1 DEF Teaming
<1>3. Teaming => Head(team.left) = Step[7 - Len(team.left)]
  <2>1. Teaming => Head(team.left) = team.left[1] /\ 6 - Len(team.left) + 1 = 7 - Len(team.left)
    BY <1>1, <1>2 DEF Teaming
  <2> QED BY <1>1, <1>2, <2>1 DEF TeamTyped, SequenceTyped
<1>4. /\ Step[1] = "software_final" /\ Step[2] = "guard" /\ Step[3] = "reboot"
      /\ Step[4] = "soak" /\ Step[5] = "report" /\ Step[6] = "scope"
  BY DEF Step
<1>5. CASE ~Teaming
  <2>1. \A step : ~Due(step)
    BY <1>5 DEF Due
  <2>2. Len(team.left) = 0
    BY <1>1, <1>2, <1>5
  <2> QED BY <1>1, <1>2, <1>5, <2>1, <2>2
<1>6. CASE Teaming
  <2>1. Len(team.left) \in {1, 2, 3, 4, 5, 6}
    BY <1>1, <1>2, <1>6
  <2>2. \A step : Due(step) <=> Head(team.left) = step
    BY <1>6 DEF Due
  <2>3. /\ Len(team.left) = 6 => Head(team.left) = "software_final"
        /\ Len(team.left) = 5 => Head(team.left) = "guard"
        /\ Len(team.left) = 4 => Head(team.left) = "reboot"
        /\ Len(team.left) = 3 => Head(team.left) = "soak"
        /\ Len(team.left) = 2 => Head(team.left) = "report"
        /\ Len(team.left) = 1 => Head(team.left) = "scope"
    <3>1. \A n : Len(team.left) = n => Head(team.left) = Step[7 - n]
      BY <1>3, <1>6
    <3>2. 7 - 6 = 1 /\ 7 - 5 = 2 /\ 7 - 4 = 3 /\ 7 - 3 = 4 /\ 7 - 2 = 5 /\ 7 - 1 = 6
      OBVIOUS
    <3>3. CASE Len(team.left) = 6
      BY <1>4, <3>1, <3>2, <3>3
    <3>4. CASE Len(team.left) = 5
      BY <1>4, <3>1, <3>2, <3>4
    <3>5. CASE Len(team.left) = 4
      BY <1>4, <3>1, <3>2, <3>5
    <3>6. CASE Len(team.left) = 3
      BY <1>4, <3>1, <3>2, <3>6
    <3>7. CASE Len(team.left) = 2
      BY <1>4, <3>1, <3>2, <3>7
    <3>8. CASE Len(team.left) = 1
      BY <1>4, <3>1, <3>2, <3>8
    <3> QED BY <2>1, <3>3, <3>4, <3>5, <3>6, <3>7, <3>8
  <2> QED BY <1>1, <1>2, <1>6, <2>1, <2>2, <2>3
<1> QED BY <1>1, <1>2, <1>5, <1>6

LEMMA StepDone ==
  ASSUME TeamTyped, Teaming, NEW ok \in BOOLEAN, NEW t, t = After(ok)
  PROVE  /\ SequenceTyped(t)
         /\ t.duration = team.duration
         /\ ~t.failed => /\ ok /\ ~team.failed /\ t.result = team.result
                         /\ Len(t.left) = Len(team.left) - 1
         /\ t.left # <<>> => t.result = team.result
         /\ t.result = "PASS" => team.result = "PASS"
<1>0. /\ team \in [left : Seq(StepName), duration : Nat, goOn : BOOLEAN, failed : BOOLEAN,
                   result : {"none", "PASS", "FAIL"}]
      /\ team.left # <<>> /\ Len(team.left) \in {1, 2, 3, 4, 5, 6}
  BY StepsLeft DEF TeamTyped, SequenceTyped, Teaming
<1>1. CASE ok \/ team.goOn \/ Head(team.left) \in {"report", "scope"}
  <2>1. t = [team EXCEPT !.left = Tail(team.left), !.failed = team.failed \/ ~ok]
    BY <1>1 DEF After
  <2>2. /\ Tail(team.left) \in Seq(StepName) /\ Len(Tail(team.left)) = Len(team.left) - 1
        /\ \A i \in 1 .. Len(team.left) - 1 : Tail(team.left)[i] = team.left[i + 1]
    BY <1>0
  <2>3. /\ t \in [left : Seq(StepName), duration : Nat, goOn : BOOLEAN, failed : BOOLEAN,
                  result : {"none", "PASS", "FAIL"}]
        /\ t.left = Tail(team.left) /\ t.duration = team.duration /\ t.result = team.result
        /\ t.failed = (team.failed \/ ~ok)
    BY <1>0, <2>1, <2>2
  <2>4. \A i \in 1 .. Len(t.left) : t.left[i] = Step[6 - Len(t.left) + i]
    <3> TAKE i \in 1 .. Len(t.left)
    <3>1. /\ i \in 1 .. Len(team.left) - 1 /\ i + 1 \in 1 .. Len(team.left)
          /\ 6 - Len(team.left) + (i + 1) = 6 - Len(t.left) + i
      BY <1>0, <2>2, <2>3
    <3>2. team.left[i + 1] = Step[6 - Len(team.left) + (i + 1)]
      BY <3>1 DEF TeamTyped, SequenceTyped
    <3> QED BY <2>2, <2>3, <3>1, <3>2
  <2> QED BY <1>0, <2>2, <2>3, <2>4 DEF SequenceTyped
<1>2. CASE ~(ok \/ team.goOn \/ Head(team.left) \in {"report", "scope"})
  <2>1. t = [team EXCEPT !.left = <<>>, !.failed = TRUE, !.result = "FAIL"]
    BY <1>2 DEF After
  <2>2. /\ t.left = <<>> /\ t.failed /\ t.result = "FAIL" /\ t.duration = team.duration
        /\ t \in [left : Seq(StepName), duration : Nat, goOn : BOOLEAN, failed : BOOLEAN,
                  result : {"none", "PASS", "FAIL"}]
    <3>1. <<>> \in Seq(StepName)
      OBVIOUS
    <3>2. PICK e \in Seq(StepName) : e = <<>>
      BY <3>1
    <3>3. t = [team EXCEPT !.left = e, !.failed = TRUE, !.result = "FAIL"]
      BY <2>1, <3>2
    <3>4. t.left = e /\ t.failed = TRUE /\ t.result = "FAIL" /\ t.duration = team.duration
      BY <1>0, <3>3
    <3>5. t \in [left : Seq(StepName), duration : Nat, goOn : BOOLEAN, failed : BOOLEAN,
                 result : {"none", "PASS", "FAIL"}]
      BY <1>0, <3>3
    <3> QED BY <3>2, <3>4, <3>5
  <2> QED BY <2>2 DEF SequenceTyped
<1> QED BY <1>1, <1>2

SoakDone(seconds) ==
  \E a \in artifacts : a.kind = "soak" /\ a.status = "PASS" /\ a.duration = seconds

\* What a report holds after a sequence with a soak of that length.
Holds(r, seconds) ==
  \A c \in BoardCheck :
    \/ r[c] = "PASS"
    \/ c = "esp32-soak-30m" /\ seconds < 1800
    \/ c = "esp32-soak-1h" /\ seconds < 3600

LEMMA ReadingsOfBoard ==
  ASSUME NEW software, NEW manifest
  PROVE  LET r == Readings({}, software, manifest)
         IN  /\ r["esp32-runtime-guard"] = PassIf(GuardPasses)
             /\ r["esp32-reboot-campaign"] = PassIf(RebootPasses)
             /\ r["esp32-soak-30m"] = PassIf(SoakPasses(1800))
             /\ r["esp32-soak-1h"] = PassIf(SoakPasses(3600))
BY DEF Readings, Verdict, Check, BoardCheck, SoftwareCheck, RecordCheck, FileCheck

LEMMA ReadingsHold ==
  ASSUME NEW software, NEW manifest, NEW seconds \in Nat,
         GuardPasses, RebootPasses, SoakDone(seconds)
  PROVE  Holds(Readings({}, software, manifest), seconds)
<1> DEFINE r == Readings({}, software, manifest)
<1>1. r["esp32-runtime-guard"] = "PASS" /\ r["esp32-reboot-campaign"] = "PASS"
  BY ReadingsOfBoard DEF PassIf
<1>2. ASSUME NEW n \in Nat, seconds >= n PROVE SoakPasses(n)
  BY <1>2 DEF SoakDone, SoakPasses, SoakReport, LongEnough
<1>3. seconds >= 1800 => r["esp32-soak-30m"] = "PASS"
  BY <1>2, ReadingsOfBoard DEF PassIf
<1>4. seconds >= 3600 => r["esp32-soak-1h"] = "PASS"
  BY <1>2, ReadingsOfBoard DEF PassIf
<1> HIDE DEF r
<1> QED BY <1>1, <1>3, <1>4 DEF Holds, BoardCheck, r

\* Reports only come to the artifacts.
LEMMA EvidenceStays ==
  ASSUME artifacts \subseteq artifacts'
  PROVE  /\ GuardPasses => GuardPasses'
         /\ RebootPasses => RebootPasses'
         /\ \A seconds : SoakDone(seconds) => SoakDone(seconds)'
BY DEF GuardPasses, RebootPasses, SoakDone, GuardAccepted, RebootAccepted


-----------------------------------------------------------------------------
(* The sequence: each campaign it has behind it left a report that counts. *)

\* An exit code of 0 stands for a report.
VerdictRight ==
  /\ verdict.kind \in Kind \cup {"none"}
  /\ verdict.code = 0 =>
       /\ verdict.kind = "guard" => GuardPasses
       /\ verdict.kind = "reboot" => RebootPasses
       /\ verdict.kind = "soak" /\ Teaming => SoakDone(team.duration)

SoakIsTheTeams ==
  Teaming /\ Open /\ session.kind = "soak" => session.duration = team.duration

Behind ==
  (Teaming \/ team.result = "PASS") /\ ~team.failed =>
    /\ Len(team.left) <= 4 => GuardPasses
    /\ Len(team.left) <= 3 => RebootPasses
    /\ Len(team.left) <= 2 => SoakDone(team.duration)
    /\ Len(team.left) <= 1 => Holds(report, team.duration)

TeamInv ==
  /\ TeamTyped
  /\ Teaming => team.result = "none"
  /\ team.result = "PASS" => ~team.failed
  /\ VerdictRight /\ SoakIsTheTeams /\ Behind

\* What a closing campaign proves of its kind.
LEMMA VerdictOfClose ==
  ASSUME CampaignInv, TeamInv, Deadline
  PROVE  verdict'.code = 0 =>
           /\ verdict'.kind = session.kind
           /\ session.kind = "guard" => GuardPasses'
           /\ session.kind = "reboot" => RebootPasses'
           /\ session.kind = "soak" => \A s : s = session.duration => SoakDone(s)'
<1> DEFINE code == CASE session.kind = "soak"   -> SoakCode
                     [] session.kind = "guard"  -> GuardCode
                     [] session.kind = "reboot" -> IF session.bad > 0 \/ CycleFails THEN 4 ELSE 0
<1>1. Open /\ Close(code)
  BY DEF Deadline
<1>2. session \in Heard /\ Limit \in Nat /\ MinSamples \in Nat /\ Cycles \in Nat \ {0}
  BY <1>1, CampaignAssumption DEF CampaignInv, CampaignTyped
<1>3. /\ session.kind = "soak" => code = SoakCode
      /\ session.kind = "guard" => code = GuardCode
      /\ session.kind = "reboot" => code = IF session.bad > 0 \/ CycleFails THEN 4 ELSE 0
  OBVIOUS
<1> HIDE DEF code
<1>4. /\ verdict' = [kind |-> session.kind, code |-> code]
      /\ artifacts' = IF Leaves(session.kind, code) THEN artifacts \cup {Report(code)} ELSE artifacts
  BY <1>1 DEF Close
<1>5. ASSUME code = 0 PROVE Report(0) \in artifacts'
  <2>1. Leaves(session.kind, 0)
    BY DEF Leaves, GuardReports
  <2> QED BY <1>4, <1>5, <2>1
<1>6. CASE code = 0 /\ session.kind = "soak"
  <2>1. /\ Report(0).kind = "soak" /\ Report(0).status = "PASS"
        /\ Report(0).duration = session.duration
    BY <1>6 DEF Report
  <2> QED BY <1>4, <1>5, <1>6, <2>1 DEF SoakDone
<1>7. CASE code = 0 /\ session.kind = "guard"
  <2>1. /\ Report(0).kind = "guard" /\ Report(0).samples = session.samples
        /\ Report(0).slow = session.slow /\ Report(0).overruns = session.overruns
    BY <1>7 DEF Report
  <2>2. session.samples >= MinSamples /\ ~session.slow /\ session.overruns <= Limit
    BY <1>2, <1>3, <1>7 DEF GuardCode, Heard
  <2>3. GuardPasses'
    BY <1>5, <1>7, <2>1, <2>2 DEF GuardPasses, GuardAccepted
  <2> QED BY <1>4, <1>7, <2>3
<1>8. CASE code = 0 /\ session.kind = "reboot"
  <2>1. session.bad = 0 /\ ~CycleFails
    BY <1>2, <1>3, <1>8 DEF Heard
  <2>2. Report(0).kind = "reboot" /\ Report(0).fail = 0 /\ Report(0).pass = Cycles
    BY <1>2, <1>8, <2>1 DEF Report
  <2>3. Report(0) \in artifacts' /\ RebootAccepted(Report(0))
    BY <1>2, <1>5, <1>8, <2>2 DEF RebootAccepted
  <2>4. RebootPasses'
    BY <2>2, <2>3 DEF RebootPasses, RebootAccepted
  <2> QED BY <1>4, <1>8, <2>4
<1> QED BY <1>2, <1>4, <1>6, <1>7, <1>8 DEF Heard, Kind

LEMMA TeamStarts == ReadinessInit => TeamInv
<1> SUFFICES ASSUME ReadinessInit PROVE TeamInv
  OBVIOUS
<1>1. team = [left |-> <<>>, duration |-> 0, goOn |-> FALSE, failed |-> FALSE, result |-> "none"]
  BY DEF ReadinessInit, Idle
<1>2. TeamTyped
  <2>0. <<>> \in Seq(StepName)
    OBVIOUS
  <2>1. PICK e \in Seq(StepName) : e = <<>>
    BY <2>0
  <2>2. team \in [left : Seq(StepName), duration : Nat, goOn : BOOLEAN, failed : BOOLEAN,
                  result : {"none", "PASS", "FAIL"}]
    BY <1>1, <2>1
  <2>3. Len(team.left) = 0
    BY <1>1
  <2> QED BY <2>2, <2>3 DEF TeamTyped, SequenceTyped
<1>3. ~Teaming /\ team.result = "none"
  BY <1>1 DEF Teaming
<1>4. verdict.kind = "none" /\ verdict.kind \in Kind \cup {"none"}
  BY DEF ReadinessInit, CampaignInit, None
<1> QED BY <1>2, <1>3, <1>4 DEF TeamInv, VerdictRight, SoakIsTheTeams, Behind

\* While the sequence stays where it is, new reports take nothing away.
LEMMA TeamWaits ==
  ASSUME TeamInv, artifacts \subseteq artifacts', UNCHANGED team, VerdictRight',
         SoakIsTheTeams', report' = report \/ (Behind => Behind')
  PROVE  TeamInv'
<1>1. TeamTyped' /\ (Teaming' <=> Teaming)
  BY DEF TeamInv, TeamTyped, SequenceTyped, Teaming
<1>2. CASE report' = report
  BY <1>1, <1>2, EvidenceStays DEF TeamInv, Behind, Holds
<1>3. CASE Behind => Behind'
  BY <1>1, <1>3 DEF TeamInv
<1> QED BY <1>2, <1>3

\* Without a new exit code an old one still stands for its report.
LEMMA VerdictStays ==
  ASSUME TeamInv, artifacts \subseteq artifacts', UNCHANGED <<verdict, team>>
  PROVE  VerdictRight'
BY EvidenceStays DEF TeamInv, VerdictRight, Teaming

LEMMA FromTwo ==
  ASSUME NEW n \in {2, 3, 4, 5, 6}
  PROVE  /\ n <= 5 => n = 5 \/ n <= 4
         /\ n <= 4 => n = 4 \/ n <= 3
         /\ n <= 3 => n = 3 \/ n <= 2
         /\ n <= 2 => n = 2
OBVIOUS

\* A step of the sequence ends, other than the last.
LEMMA SequenceMoves ==
  ASSUME TeamInv, Teaming, NEW ok \in BOOLEAN, team' = After(ok),
         UNCHANGED <<session, artifacts>>, verdict' = None \/ UNCHANGED verdict,
         Len(team.left) # 1,
         Len(team.left) # 2 => report' = report,
         ok /\ ~team.failed =>
           /\ Len(team.left) = 5 => GuardPasses
           /\ Len(team.left) = 4 => RebootPasses
           /\ Len(team.left) = 3 => SoakDone(team.duration)
           /\ Len(team.left) = 2 => Holds(report', team.duration)
  PROVE  TeamInv'
<1>0. TeamTyped /\ team.result = "none" /\ VerdictRight /\ SoakIsTheTeams /\ Behind
  BY DEF TeamInv
<1>1. /\ SequenceTyped(team')
      /\ team'.duration = team.duration
      /\ ~team'.failed => /\ ok /\ ~team.failed /\ team'.result = team.result
                          /\ Len(team'.left) = Len(team.left) - 1
      /\ team'.left # <<>> => team'.result = team.result
      /\ team'.result = "PASS" => team.result = "PASS"
  BY <1>0, StepDone
<1>2. artifacts \subseteq artifacts'
  OBVIOUS
<1>3. VerdictRight'
  <2>1. CASE verdict' = None
    BY <2>1 DEF VerdictRight, None
  <2>2. CASE UNCHANGED verdict
    BY <1>0, <1>1, <1>2, <2>2, EvidenceStays DEF VerdictRight
  <2> QED BY <2>1, <2>2
<1>4. SoakIsTheTeams'
  BY <1>0, <1>1 DEF SoakIsTheTeams, Open
<1>5. Behind'
  <2>1. SUFFICES ASSUME ~team'.failed PROVE Behind'
    BY DEF Behind
  <2>2. ok /\ ~team.failed /\ Len(team'.left) = Len(team.left) - 1
    BY <1>1, <2>1
  <2>3. Len(team.left) \in {2, 3, 4, 5, 6}
    BY <1>0, StepsLeft
  <2>4. /\ Len(team.left) <= 4 => GuardPasses
        /\ Len(team.left) <= 3 => RebootPasses
        /\ Len(team.left) <= 2 => SoakDone(team.duration)
    BY <1>0, <2>2 DEF Behind
  <2>5. /\ Len(team'.left) <= 4 => GuardPasses
        /\ Len(team'.left) <= 3 => RebootPasses
        /\ Len(team'.left) <= 2 => SoakDone(team.duration)
        /\ Len(team'.left) <= 1 => Holds(report', team.duration)
    <3>1. PICK n \in {2, 3, 4, 5, 6} : n = Len(team.left)
      BY <2>3
    <3>2. PICK m : m = Len(team'.left)
      OBVIOUS
    <3>3. m = n - 1
      BY <2>2, <3>1, <3>2
    <3>4. /\ n <= 5 => GuardPasses
          /\ n <= 4 => RebootPasses
          /\ n <= 3 => SoakDone(team.duration)
          /\ n <= 2 => Holds(report', team.duration)
      <4>1. /\ n <= 5 => n = 5 \/ n <= 4
            /\ n <= 4 => n = 4 \/ n <= 3
            /\ n <= 3 => n = 3 \/ n <= 2
            /\ n <= 2 => n = 2
        BY FromTwo
      <4>2. /\ n = 5 => GuardPasses
            /\ n = 4 => RebootPasses
            /\ n = 3 => SoakDone(team.duration)
            /\ n = 2 => Holds(report', team.duration)
        BY <2>2, <3>1
      <4>3. /\ n <= 4 => GuardPasses
            /\ n <= 3 => RebootPasses
            /\ n <= 2 => SoakDone(team.duration)
        BY <2>4, <3>1
      <4> QED BY <4>1, <4>2, <4>3, Zenon
    <3> QED BY <3>2, <3>3, <3>4
  <2> QED BY <1>1, <1>2, <2>5, EvidenceStays DEF Behind, Holds
<1>6. Teaming' => team'.result = "none"
  BY <1>0, <1>1 DEF Teaming
<1>7. team'.result # "PASS"
  BY <1>0, <1>1
<1> QED BY <1>1, <1>3, <1>4, <1>5, <1>6, <1>7 DEF TeamInv, TeamTyped

\* The last step of a sequence ends.
LEMMA SequenceEnds ==
  ASSUME TeamInv, NEW ok \in BOOLEAN, TeamScope(ok)
  PROVE  TeamInv'
<1>0. TeamTyped /\ team.result = "none" /\ VerdictRight /\ SoakIsTheTeams /\ Behind /\ Teaming
  BY DEF TeamInv, TeamScope, Due
<1>1. PICK t : t = After(ok)
  OBVIOUS
<1>2. /\ SequenceTyped(t)
      /\ t.duration = team.duration
      /\ ~t.failed => ok /\ ~team.failed
  BY <1>0, <1>1, StepDone
<1>3. /\ t.left = <<>> /\ t.result = "none"
  <2>1. Len(team.left) = 1 /\ Head(team.left) = "scope"
    BY <1>0, StepsLeft DEF TeamScope, Due
  <2>2. team.left \in Seq(StepName)
    BY <1>0 DEF TeamTyped, SequenceTyped
  <2>3. Tail(team.left) = <<>>
    BY <2>1, <2>2, LastTail
  <2>4. t = [team EXCEPT !.left = Tail(team.left), !.failed = team.failed \/ ~ok]
    BY <1>1, <2>1 DEF After
  <2>5. team \in [left : Seq(StepName), duration : Nat, goOn : BOOLEAN, failed : BOOLEAN,
                  result : {"none", "PASS", "FAIL"}]
    BY <1>0 DEF TeamTyped, SequenceTyped
  <2> QED BY <1>0, <2>3, <2>4, <2>5
<1>4. /\ team' = [t EXCEPT !.result = IF t.failed THEN "FAIL" ELSE "PASS"]
      /\ UNCHANGED <<campaign, papers, report>>
  BY <1>1, <1>3 DEF TeamScope, Concluded
<1>5. /\ SequenceTyped(team') /\ team'.left = <<>> /\ team'.duration = team.duration
      /\ team'.failed = t.failed
      /\ team'.result = "PASS" => ~t.failed
  BY <1>2, <1>3, <1>4 DEF SequenceTyped
<1>6. ~Teaming'
  BY <1>5 DEF Teaming
<1>7. artifacts \subseteq artifacts' /\ verdict' = verdict /\ report' = report
  BY <1>4 DEF campaign
<1>8. VerdictRight'
  BY <1>0, <1>5, <1>6, <1>7, EvidenceStays DEF VerdictRight
<1>9. Behind'
  <2>1. SUFFICES ASSUME ~team'.failed PROVE Behind'
    BY DEF Behind
  <2>2. Len(team.left) = 1 /\ ~team.failed
    BY <1>0, <1>2, <1>5, <2>1, StepsLeft DEF TeamScope
  <2>3. GuardPasses /\ RebootPasses /\ SoakDone(team.duration) /\ Holds(report, team.duration)
    BY <1>0, <2>2 DEF Behind
  <2> QED BY <1>5, <1>7, <2>3, EvidenceStays DEF Behind, Holds
<1> QED BY <1>5, <1>6, <1>8, <1>9 DEF TeamInv, TeamTyped, SoakIsTheTeams

\* A sequence that is interrupted.
LEMMA SequenceStops ==
  ASSUME TeamInv, Teaming, VerdictRight',
         team' = [team EXCEPT !.left = <<>>, !.failed = TRUE]
  PROVE  TeamInv'
<1>0. /\ team \in [left : Seq(StepName), duration : Nat, goOn : BOOLEAN, failed : BOOLEAN,
                   result : {"none", "PASS", "FAIL"}]
      /\ team.result = "none"
  BY DEF TeamInv, TeamTyped, SequenceTyped
<1>1. <<>> \in Seq(StepName)
  OBVIOUS
<1>2. PICK e \in Seq(StepName) : e = <<>>
  BY <1>1
<1>3. team' = [team EXCEPT !.left = e, !.failed = TRUE]
  BY <1>2
<1>4. /\ team' \in [left : Seq(StepName), duration : Nat, goOn : BOOLEAN, failed : BOOLEAN,
                    result : {"none", "PASS", "FAIL"}]
      /\ team'.left = e /\ team'.failed = TRUE /\ team'.result = "none"
  BY <1>0, <1>3
<1>5. TeamTyped'
  BY <1>2, <1>4 DEF TeamTyped, SequenceTyped
<1>6. ~Teaming'
  BY <1>2, <1>4 DEF Teaming
<1> QED BY <1>4, <1>5, <1>6 DEF TeamInv, SoakIsTheTeams, Behind

\* While a campaign listens it stays the one it is.
LEMMA SoakStays ==
  ASSUME CampaignInv, TeamInv, UNCHANGED team,
         \/ Ready \/ Overrun \/ Brownout \/ Panic \/ NextCycle
         \/ \E slow \in BOOLEAN : Metric(slow)
  PROVE  SoakIsTheTeams' /\ UNCHANGED verdict
<1>1. Open /\ UNCHANGED verdict
  BY DEF Ready, Overrun, Brownout, Panic, NextCycle, Metric, Listened
<1>2. session \in Heard
  BY <1>1 DEF CampaignInv, CampaignTyped
<1>3. session'.kind = "soak" => session.kind = "soak" /\ session'.duration = session.duration
  <2>1. CASE Ready
    BY <1>2, <2>1 DEF Ready, Heard
  <2>2. CASE Overrun
    BY <2>2 DEF Overrun
  <2>3. CASE Brownout \/ Panic
    BY <1>2, <2>3 DEF Brownout, Panic, Restarted, Heard
  <2>4. ASSUME NEW slow \in BOOLEAN, Metric(slow)
        PROVE  session'.kind = session.kind /\ session'.duration = session.duration
    BY <1>2, <2>4 DEF Metric, Heard
  <2>5. CASE NextCycle
    <3>1. PICK first \in {0, 1} :
            session' = [Silence("reboot", 0, first) EXCEPT
                          !.cycle = session.cycle + 1,
                          !.bad = session.bad + (IF CycleFails THEN 1 ELSE 0),
                          !.spoilt = session.spoilt]
      BY <2>5 DEF NextCycle
    <3>2. session'.kind = "reboot"
      BY <3>1 DEF Silence
    <3> QED BY <3>2
  <2> QED BY <2>1, <2>2, <2>3, <2>4, <2>5
<1> QED BY <1>1, <1>3 DEF TeamInv, SoakIsTheTeams, Teaming

LEMMA TeamHears ==
  ASSUME CampaignInv, TeamInv, Hearing, artifacts \subseteq artifacts'
  PROVE  TeamInv'
<1>0. UNCHANGED <<report, team>> /\ Listen /\ (Teaming' <=> Teaming)
  BY DEF Hearing, Teaming
<1>1. CASE \/ Ready \/ Overrun \/ Brownout \/ Panic \/ NextCycle
           \/ \E slow \in BOOLEAN : Metric(slow)
  <2>1. SoakIsTheTeams' /\ UNCHANGED verdict
    BY <1>0, <1>1, SoakStays
  <2>2. VerdictRight'
    BY <1>0, <2>1, VerdictStays
  <2> QED BY <1>0, <2>1, <2>2, TeamWaits
<1>2. ASSUME ~Open', VerdictRight' PROVE TeamInv'
  <2>1. SoakIsTheTeams'
    BY <1>2 DEF SoakIsTheTeams
  <2> QED BY <1>0, <1>2, <2>1, TeamWaits
<1>3. ASSUME Open, session' = Closed PROVE ~Open' /\ session.kind \in Kind
  BY <1>3 DEF Open, CampaignInv, CampaignTyped, Heard
<1>4. CASE Deadline
  <2>1. Open /\ session' = Closed /\ verdict'.kind = session.kind
    BY <1>4 DEF Deadline, Close
  <2>2. Teaming /\ session.kind = "soak" => team.duration = session.duration
    BY <2>1 DEF TeamInv, SoakIsTheTeams
  <2>3. VerdictRight'
    BY <1>0, <1>3, <1>4, <2>1, <2>2, VerdictOfClose DEF VerdictRight
  <2> QED BY <1>2, <1>3, <2>1, <2>3
<1>5. CASE Unplugged \/ Cancelled
  <2>1. /\ Open /\ session' = Closed
        /\ verdict'.kind = session.kind /\ verdict'.code # 0
    BY <1>5 DEF Unplugged, Close, Cancelled
  <2>2. VerdictRight'
    BY <1>3, <2>1 DEF VerdictRight
  <2> QED BY <1>2, <1>3, <2>1, <2>2
<1> QED BY <1>0, <1>1, <1>4, <1>5 DEF Listen

\* A campaign that is started, or not even that.
LEMMA TeamBegins ==
  ASSUME TeamInv, NEW kind \in Kind, NEW duration,
         Start(kind, duration) \/ NotStarted(kind),
         Teaming /\ kind = "soak" => duration = team.duration,
         UNCHANGED <<report, team>>
  PROVE  TeamInv'
<1>0. Teaming' <=> Teaming
  BY DEF Teaming
<1>1. CASE Start(kind, duration)
  <2>1. PICK first \in {0, 1} : session' = Silence(kind, duration, first)
    BY <1>1 DEF Start
  <2>2. session'.kind = kind /\ session'.duration = duration
    BY <2>1 DEF Silence
  <2>3. SoakIsTheTeams'
    BY <1>0, <2>2 DEF SoakIsTheTeams
  <2>4. UNCHANGED <<artifacts, verdict>>
    BY <1>1 DEF Start
  <2>5. VerdictRight'
    BY <2>4, VerdictStays
  <2> QED BY <2>3, <2>4, <2>5, TeamWaits
<1>2. CASE NotStarted(kind)
  <2>1. /\ verdict'.kind = kind /\ verdict'.code # 0
        /\ UNCHANGED <<session, artifacts>> /\ ~Open
    BY <1>2 DEF NotStarted
  <2>2. VerdictRight'
    BY <2>1 DEF VerdictRight
  <2>3. SoakIsTheTeams'
    BY <2>1 DEF SoakIsTheTeams, Open
  <2> QED BY <2>1, <2>2, <2>3, TeamWaits
<1> QED BY <1>1, <1>2

LEMMA TeamGoesOn ==
  ASSUME TeamInv, TeamWaited
  PROVE  TeamInv'
<1> DEFINE ok == verdict.code = 0
<1>1. /\ Teaming /\ Due(verdict.kind) /\ verdict' = None /\ team' = After(ok)
      /\ UNCHANGED <<session, artifacts, report>>
  BY DEF TeamWaited, Due
<1>2. /\ Len(team.left) # 1 /\ Len(team.left) # 2
      /\ Len(team.left) = 5 => verdict.kind = "guard"
      /\ Len(team.left) = 4 => verdict.kind = "reboot"
      /\ Len(team.left) = 3 => verdict.kind = "soak"
  <2>1. verdict.kind \in {"guard", "reboot", "soak", "none"}
    BY DEF TeamInv, VerdictRight, Kind
  <2>2. \A step : Due(step) => step = verdict.kind
    BY <1>1 DEF Due
  <2> QED BY <2>1, <2>2, StepsLeft DEF TeamInv
<1>3. ok => /\ Len(team.left) = 5 => GuardPasses
            /\ Len(team.left) = 4 => RebootPasses
            /\ Len(team.left) = 3 => SoakDone(team.duration)
  BY <1>1, <1>2 DEF TeamInv, VerdictRight
<1>4. ok \in BOOLEAN
  OBVIOUS
<1> HIDE DEF ok
<1> QED BY <1>1, <1>2, <1>3, <1>4, SequenceMoves

LEMMA TeamReports ==
  ASSUME TeamInv, NEW ok \in BOOLEAN, NEW readings, TeamReport(ok, readings),
         ok => \E software, manifest : readings = Readings({}, software, manifest)
  PROVE  TeamInv'
<1>1. /\ Teaming /\ Due("report") /\ team' = After(ok)
      /\ report' = IF ok THEN readings ELSE report
      /\ UNCHANGED <<session, artifacts, verdict>>
  BY DEF TeamReport, Due, campaign
<1>2. Len(team.left) = 2
  BY <1>1, StepsLeft DEF TeamInv
<1>3. ASSUME ok, ~team.failed PROVE Holds(report', team.duration)
  <2>1. PICK software, manifest : report' = Readings({}, software, manifest)
    BY <1>1, <1>3
  <2>2. GuardPasses /\ RebootPasses /\ SoakDone(team.duration)
    BY <1>1, <1>2, <1>3 DEF TeamInv, Behind
  <2>3. team.duration \in Nat
    BY DEF TeamInv, TeamTyped, SequenceTyped
  <2> QED BY <2>1, <2>2, <2>3, ReadingsHold
<1> QED BY <1>1, <1>2, <1>3, SequenceMoves

LEMMA FullReport ==
  ASSUME TeamInv, NEW software, NEW manifest, MakeReport(Readings({}, software, manifest))
  PROVE  TeamInv'
<1>1. /\ ~Teaming /\ ~Open /\ report' = Readings({}, software, manifest)
      /\ UNCHANGED <<session, artifacts, verdict, team>>
  BY DEF MakeReport, campaign
<1>2. VerdictRight'
  BY <1>1, VerdictStays
<1>3. SoakIsTheTeams'
  BY <1>1 DEF SoakIsTheTeams, Teaming
<1>4. Behind => Behind'
  <2>1. SUFFICES ASSUME Behind, team.result = "PASS", ~team.failed
                 PROVE  Behind'
    BY <1>1 DEF Behind, Teaming
  <2>2. GuardPasses /\ RebootPasses /\ SoakDone(team.duration)
    <3>1. Len(team.left) = 0
      BY <1>1, StepsLeft DEF TeamInv
    <3> QED BY <2>1, <3>1 DEF Behind
  <2>3. team.duration \in Nat
    BY DEF TeamInv, TeamTyped, SequenceTyped
  <2>4. Holds(report', team.duration)
    BY <1>1, <2>2, <2>3, ReadingsHold
  <2> QED BY <1>1, <2>2, <2>4, EvidenceStays DEF Behind
<1> QED BY <1>1, <1>2, <1>3, <1>4, TeamWaits

LEMMA TailOfSix ==
  ASSUME NEW S, NEW s \in Seq(S), Len(s) = 6
  PROVE  /\ Tail(s) \in Seq(S) /\ Len(Tail(s)) = 5
         /\ \A i \in 1 .. 5 : Tail(s)[i] = s[i + 1]
<1>1. s # <<>>
  OBVIOUS
<1>2. Tail(s) \in Seq(S) /\ Len(Tail(s)) = 5
  BY <1>1
<1> QED BY <1>1, <1>2, HeadTailProperties

LEMMA FiveOrSix ==
  ASSUME NEW n \in {5, 6}
  PROVE  n <= 6 /\ ~(n <= 4) /\ ~(n <= 3) /\ ~(n <= 2) /\ ~(n <= 1)
OBVIOUS

LEMMA TeamSetsOut ==
  ASSUME TeamInv, NEW d \in Durations, NEW goOn \in BOOLEAN, NEW skip \in BOOLEAN,
         TeamStart(d, goOn, skip)
  PROVE  TeamInv'
<1>1. PICK l : l = IF skip THEN Tail(Step) ELSE Step
  OBVIOUS
<1>2. /\ team' = [Idle EXCEPT !.left = l, !.duration = d, !.goOn = goOn]
      /\ verdict' = None /\ ~Open /\ UNCHANGED <<session, artifacts, report>>
  BY <1>1 DEF TeamStart
<1>3. /\ l \in Seq(StepName) /\ Len(l) \in {5, 6}
      /\ \A i \in 1 .. Len(l) : l[i] = Step[6 - Len(l) + i]
  <2>1. Step \in Seq(StepName) /\ Len(Step) = 6 /\ Step # <<>>
    <3>1. Len(Step) = 6
      BY DEF Step
    <3>2. Step \in Seq(StepName)
      BY DEF Step, StepName
    <3> QED BY <3>1, <3>2, EmptySeq
  <2>2. /\ Tail(Step) \in Seq(StepName) /\ Len(Tail(Step)) = 5
        /\ \A i \in 1 .. 5 : Tail(Step)[i] = Step[i + 1]
    BY <2>1, TailOfSix
  <2>3. CASE skip
    <3>1. \A i \in 1 .. 5 : 6 - 5 + i = i + 1
      OBVIOUS
    <3> QED BY <1>1, <2>2, <2>3, <3>1
  <2>4. CASE ~skip
    <3>1. \A i \in 1 .. 6 : 6 - 6 + i = i
      OBVIOUS
    <3> QED BY <1>1, <2>1, <2>4, <3>1
  <2> QED BY <2>3, <2>4
<1>4. d \in Nat
  BY CampaignAssumption
<1>5. team' = [left |-> l, duration |-> d, goOn |-> goOn, failed |-> FALSE, result |-> "none"]
  BY <1>2 DEF Idle
<1>6. /\ team' \in [left : Seq(StepName), duration : Nat, goOn : BOOLEAN, failed : BOOLEAN,
                    result : {"none", "PASS", "FAIL"}]
      /\ team'.left = l /\ team'.result = "none"
  BY <1>3, <1>4, <1>5
<1>7. TeamTyped'
  <2>1. Len(l) <= 6
    BY <1>3
  <2> QED BY <1>3, <1>6, <2>1 DEF TeamTyped, SequenceTyped
<1>8. VerdictRight' /\ SoakIsTheTeams'
  BY <1>2 DEF VerdictRight, None, SoakIsTheTeams, Open
<1>9. Behind'
  <2>1. ~(Len(l) <= 4) /\ ~(Len(l) <= 3) /\ ~(Len(l) <= 2) /\ ~(Len(l) <= 1)
    BY <1>3, FiveOrSix
  <2> QED BY <1>6, <2>1, Zenon DEF Behind
<1> QED BY <1>6, <1>7, <1>8, <1>9 DEF TeamInv

LEMMA TeamKeeps ==
  ASSUME CampaignInv, TeamInv, ReadinessStep
  PROVE  TeamInv'
<1>0. artifacts \subseteq artifacts' /\ TeamTyped
  BY ReadinessIsCampaign, CampaignKeeps DEF TeamInv
<1>1. CASE Collecting
  <2>1. CASE TeamReport(FALSE, NoReport)
    BY <2>1, TeamReports
  <2>2. CASE TeamScope(FALSE)
    BY <2>2, SequenceEnds
  <2>3. CASE Hearing
    BY <1>0, <2>3, TeamHears
  <2>4. CASE Interrupted
    <3>1. CASE Teaming
      <4>1. /\ team' = [team EXCEPT !.left = <<>>, !.failed = TRUE]
            /\ verdict'.kind = session.kind /\ verdict'.code # 0 /\ Open
        BY <2>4, <3>1 DEF Interrupted, Cancelled
      <4>2. session.kind \in Kind
        BY <4>1 DEF CampaignInv, CampaignTyped, Heard
      <4>3. VerdictRight'
        BY <4>1, <4>2 DEF VerdictRight
      <4> QED BY <3>1, <4>1, <4>3, SequenceStops
    <3>2. CASE ~Teaming
      <4>1. Hearing
        BY <2>4, <3>2 DEF Interrupted, Hearing, Listen
      <4> QED BY <1>0, <4>1, TeamHears
    <3> QED BY <3>1, <3>2
  <2>5. CASE TeamCampaign
    <3>1. PICK kind \in Kind :
            Start(kind, IF kind = "soak" THEN team.duration ELSE 0) \/ NotStarted(kind)
      BY <2>5 DEF TeamCampaign
    <3>2. UNCHANGED <<report, team>>
      BY <2>5 DEF TeamCampaign
    <3>3. PICK duration : duration = IF kind = "soak" THEN team.duration ELSE 0
      OBVIOUS
    <3> QED BY <3>1, <3>2, <3>3, TeamBegins
  <2>6. CASE TeamWaited
    BY <2>6, TeamGoesOn
  <2>7. ASSUME NEW k \in Kind, NEW d \in (IF k = "soak" THEN Durations ELSE {0}), ByHand(k, d)
        PROVE  TeamInv'
    <3>1. ~Teaming /\ (Start(k, d) \/ NotStarted(k)) /\ UNCHANGED <<report, team>>
      BY <2>7 DEF ByHand
    <3> QED BY <3>1, TeamBegins
  <2> QED BY <1>1, <2>1, <2>2, <2>3, <2>4, <2>5, <2>6, <2>7 DEF Collecting
<1>2. ASSUME NEW software, NEW manifest, Reporting(Readings({}, software, manifest))
      PROVE  TeamInv'
  BY <1>2, TeamReports, FullReport DEF Reporting
<1>3. ASSUME UNCHANGED readiness PROVE TeamInv'
  <2>1. UNCHANGED <<session, artifacts, verdict, report, team>>
    BY <1>3 DEF readiness, campaign
  <2>2. VerdictRight' /\ SoakIsTheTeams'
    BY <2>1, VerdictStays DEF TeamInv, SoakIsTheTeams, Open, Teaming
  <2> QED BY <2>1, <2>2, TeamWaits
<1>4. CASE Scoping
  <2>1. MakeScoped => UNCHANGED readiness
    BY DEF MakeScoped, readiness
  <2> QED BY <1>3, <1>4, <2>1, SequenceEnds DEF Scoping
<1>5. ASSUME NEW d \in Durations, NEW goOn \in BOOLEAN, NEW skip \in BOOLEAN,
             TeamStart(d, goOn, skip)
      PROVE  TeamInv'
  BY <1>5, TeamSetsOut
<1>6. ASSUME NEW ok \in BOOLEAN, HostGates(ok) PROVE TeamInv'
  <2>1. /\ Teaming /\ Due("software_final") /\ team' = After(ok)
        /\ UNCHANGED <<session, artifacts, verdict, report>>
    BY <1>6 DEF HostGates, Due, campaign
  <2>2. Len(team.left) = 6
    BY <1>0, <2>1, StepsLeft
  <2> QED BY <2>1, <2>2, SequenceMoves
<1>7. CASE TeamInterrupted
  <2>1. VerdictRight'
    <3>1. UNCHANGED <<artifacts, verdict>> /\ Teaming /\ UNCHANGED campaign
      BY <1>7 DEF TeamInterrupted, campaign
    <3>2. ~Teaming'
      BY <1>0, <1>7 DEF TeamInterrupted, Teaming, TeamTyped, SequenceTyped
    <3> QED BY <3>1, <3>2, EvidenceStays DEF TeamInv, VerdictRight
  <2> QED BY <1>7, <2>1, SequenceStops DEF TeamInterrupted
<1> QED BY <1>1, <1>2, <1>3, <1>4, <1>5, <1>6, <1>7 DEF ReadinessStep

\* Only the full report is kept, and one that is made has all its checks.
LEMMA ReportMoves ==
  ASSUME ReadinessStep
  PROVE  \/ report' = report
         \/ \E software, manifest : report' = Readings({}, software, manifest)
<1>1. CASE Collecting
  BY <1>1 DEF Collecting, TeamReport, TeamScope, Hearing, Interrupted, TeamCampaign, TeamWaited,
              ByHand
<1>2. CASE \E software, manifest : Reporting(Readings({}, software, manifest))
  BY <1>2 DEF Reporting, MakeReport, TeamReport
<1>3. CASE ~Collecting /\ ~(\E software, manifest : Reporting(Readings({}, software, manifest)))
  BY <1>3 DEF ReadinessStep, Scoping, MakeScoped, TeamScope, TeamStart, HostGates,
              TeamInterrupted, readiness
<1> QED BY <1>1, <1>2, <1>3

LEMMA ReportKeeps ==
  ASSUME CampaignInv, HourCoversHalf, ReadinessStep
  PROVE  HourCoversHalf'
<1>1. CASE report' = report
  BY <1>1 DEF HourCoversHalf, IsReport
<1>2. ASSUME NEW software, NEW manifest, report' = Readings({}, software, manifest)
      PROVE  HourCoversHalf'
  <2>1. /\ report'["esp32-soak-30m"] = PassIf(SoakPasses(1800))
        /\ report'["esp32-soak-1h"] = PassIf(SoakPasses(3600))
    BY <1>2, ReadingsOfBoard
  <2>2. SoakPasses(3600) => SoakPasses(1800)
    <3>1. \A a \in artifacts : a.kind = "soak" => a.duration \in Nat
      BY DEF CampaignInv, CampaignTyped
    <3>2. SoakReport(3600) => SoakReport(1800)
      BY <3>1 DEF SoakReport, LongEnough
    <3> QED BY <3>2 DEF SoakPasses
  <2> QED BY <2>1, <2>2 DEF HourCoversHalf, PassIf
<1> QED BY <1>1, <1>2, ReportMoves


-----------------------------------------------------------------------------
(* Campaigns, report and sequence together.                                *)

EvidenceInv == CampaignInv /\ TeamInv /\ HourCoversHalf

LEMMA EvidenceInvariant == CloseoutSpec => []EvidenceInv
<1>1. CloseoutInit => EvidenceInv
  <2>1. ReadinessInit => HourCoversHalf
    BY DEF ReadinessInit, HourCoversHalf, IsReport
  <2> QED
    BY <2>1, CampaignStarts, TeamStarts DEF CloseoutInit, ReadinessInit, EvidenceInv
<1>2. EvidenceInv /\ [CloseoutNext]_<<vars, boards, sitl, budget>> => EvidenceInv'
  <2>1. SUFFICES ASSUME EvidenceInv, ReadinessStep PROVE EvidenceInv'
    BY CloseoutIsReadiness
  <2>2. CampaignStep
    BY <2>1, ReadinessIsCampaign DEF EvidenceInv, TeamInv
  <2> QED BY <2>1, <2>2, CampaignKeeps, TeamKeeps, ReportKeeps DEF EvidenceInv
<1> QED BY <1>1, <1>2, PTL DEF CloseoutSpec

(* No report of a campaign that the readiness report takes for passing is  *)
(* of a board that was heard to fail, that restarted too often, or that    *)
(* went wrong in a cycle (EvidenceIsReal).                                 *)
THEOREM EvidenceReal == CloseoutSpec => []EvidenceIsReal
<1>1. EvidenceInv => EvidenceIsReal
  BY DEF EvidenceInv, CampaignInv
<1> QED BY <1>1, EvidenceInvariant, PTL

(* The readiness report never has the soak of an hour without that of half *)
(* an hour (HourCoversHalf), whatever the lengths of the soaks that were   *)
(* run and whatever the documents say.                                     *)
THEOREM HalfIsCovered == CloseoutSpec => []HourCoversHalf
<1>1. EvidenceInv => HourCoversHalf
  BY DEF EvidenceInv
<1> QED BY <1>1, EvidenceInvariant, PTL

(* A sequence of team_ready_esp32.py that ended in PASS has in the report  *)
(* every board check its soak was long enough for (TeamPassIsEvidence),    *)
(* for a soak of any length, whoever runs campaigns or makes the report    *)
(* anew afterwards.                                                        *)
THEOREM TeamEvidence == CloseoutSpec => []TeamPassIsEvidence
<1>1. EvidenceInv => TeamPassIsEvidence
  <2>1. SUFFICES ASSUME EvidenceInv, team.result = "PASS" PROVE Holds(report, team.duration)
    BY DEF TeamPassIsEvidence, Holds
  <2>2. ~Teaming /\ TeamTyped /\ ~team.failed /\ Behind
    BY <2>1 DEF EvidenceInv, TeamInv
  <2>3. Len(team.left) = 0
    BY <2>2, StepsLeft
  <2> QED BY <2>1, <2>2, <2>3 DEF Behind
<1> QED BY <1>1, EvidenceInvariant, PTL

-----------------------------------------------------------------------------
(* What a target runs, and in which order.                                 *)

Command ==
  {"autocoder_check", "legal_compliance", "safety_case_check", "run_tests",
   "run_system_tests", "ctest", "vnv_stress", "tidy_safety", "traceability",
   "flight_software", "qualification_report", "measure", "sync_long_soak", "final_check",
   "sync_trace", "sync_qualification", "write_status", "pedigree_release", "sync_pedigree",
   "pedigree_preflight", "sync_preflight", "stage", "zip"}

\* No target comes back to an earlier level.
Level(c) ==
  IF c = "final_check" THEN 1
  ELSE IF c \in {"sync_trace", "sync_qualification"} THEN 2
  ELSE IF c = "write_status" THEN 3
  ELSE IF c = "pedigree_release" THEN 4
  ELSE IF c \in {"sync_pedigree", "pedigree_preflight", "sync_preflight", "stage", "zip"} THEN 5
  ELSE 0

Has(s, c) == \E i \in 1 .. Len(s) : s[i] = c

Plan(s) ==
  /\ s \in Seq(Command)
  /\ \A i, j \in 1 .. Len(s) : i < j => Level(s[i]) <= Level(s[j])

LEMMA LevelIsNat == \A c : Level(c) \in Nat
BY DEF Level

LEMMA HasConcat ==
  ASSUME NEW a \in Seq(Command), NEW b \in Seq(Command), NEW c
  PROVE  Has(a \o b, c) <=> Has(a, c) \/ Has(b, c)
<1>1. /\ Len(a \o b) = Len(a) + Len(b) /\ Len(a) \in Nat /\ Len(b) \in Nat
      /\ \A i \in 1 .. Len(a) + Len(b) : (a \o b)[i] = IF i <= Len(a) THEN a[i] ELSE b[i - Len(a)]
  BY ConcatProperties
<1>2. Has(a \o b, c) => Has(a, c) \/ Has(b, c)
  BY <1>1 DEF Has
<1>3. Has(a, c) => Has(a \o b, c)
  BY <1>1 DEF Has
<1>4. ASSUME NEW i \in 1 .. Len(b), b[i] = c PROVE Has(a \o b, c)
  <2>1. Len(a) + i \in 1 .. Len(a) + Len(b) /\ ~(Len(a) + i <= Len(a)) /\ Len(a) + i - Len(a) = i
    BY <1>1
  <2> QED BY <1>1, <1>4, <2>1 DEF Has
<1> QED BY <1>2, <1>3, <1>4 DEF Has

LEMMA PlanConcat ==
  ASSUME NEW a, Plan(a), NEW b, Plan(b), NEW n \in Nat,
         \A c : Has(a, c) => Level(c) <= n, \A c : Has(b, c) => n <= Level(c)
  PROVE  Plan(a \o b) /\ \A c : Has(a \o b, c) <=> Has(a, c) \/ Has(b, c)
<1>0. a \in Seq(Command) /\ b \in Seq(Command)
  BY DEF Plan
<1>1. /\ Len(a \o b) = Len(a) + Len(b) /\ Len(a) \in Nat /\ Len(b) \in Nat
      /\ \A i \in 1 .. Len(a) + Len(b) : (a \o b)[i] = IF i <= Len(a) THEN a[i] ELSE b[i - Len(a)]
      /\ a \o b \in Seq(Command)
  BY <1>0, ConcatProperties
<1>2. ASSUME NEW i \in 1 .. Len(a \o b), NEW j \in 1 .. Len(a \o b), i < j
      PROVE  Level((a \o b)[i]) <= Level((a \o b)[j])
  <2>1. CASE j <= Len(a)
    <3>1. i \in 1 .. Len(a) /\ j \in 1 .. Len(a)
      BY <1>1, <1>2, <2>1
    <3>2. (a \o b)[i] = a[i] /\ (a \o b)[j] = a[j]
      BY <1>1, <3>1
    <3> QED BY <1>2, <3>1, <3>2 DEF Plan
  <2>2. CASE i <= Len(a) /\ ~(j <= Len(a))
    <3>1. i \in 1 .. Len(a) /\ j - Len(a) \in 1 .. Len(b)
      BY <1>1, <1>2, <2>2
    <3>2. (a \o b)[i] = a[i] /\ (a \o b)[j] = b[j - Len(a)]
      BY <1>1, <2>2
    <3>3. Level(a[i]) <= n /\ n <= Level(b[j - Len(a)])
      BY <3>1 DEF Has
    <3>4. PICK x \in Nat, y \in Nat : x = Level(a[i]) /\ y = Level(b[j - Len(a)])
      BY LevelIsNat
    <3> QED BY <3>2, <3>3, <3>4
  <2>3. CASE ~(i <= Len(a))
    <3>1. /\ i - Len(a) \in 1 .. Len(b) /\ j - Len(a) \in 1 .. Len(b)
          /\ ~(j <= Len(a)) /\ i - Len(a) < j - Len(a)
      BY <1>1, <1>2, <2>3
    <3>2. (a \o b)[i] = b[i - Len(a)] /\ (a \o b)[j] = b[j - Len(a)]
      BY <1>1, <2>3, <3>1
    <3> QED BY <3>1, <3>2 DEF Plan
  <2> QED BY <1>1, <2>1, <2>2, <2>3
<1>3. Plan(a \o b)
  BY <1>1, <1>2 DEF Plan
<1> QED BY <1>0, <1>3, HasConcat

LEMMA PlanTail ==
  ASSUME NEW s, Plan(s), s # <<>>
  PROVE  /\ Plan(Tail(s)) /\ Head(s) \in Command
         /\ \A c : Has(s, c) <=> c = Head(s) \/ Has(Tail(s), c)
         /\ \A c : Has(s, c) => Level(Head(s)) <= Level(c)
<1>1. s \in Seq(Command) /\ Len(s) \in Nat /\ Len(s) >= 1
  BY EmptySeq DEF Plan
<1>2. /\ Tail(s) \in Seq(Command) /\ Len(Tail(s)) = Len(s) - 1 /\ Head(s) = s[1]
      /\ \A i \in 1 .. Len(s) - 1 : Tail(s)[i] = s[i + 1]
      /\ Head(s) \in Command
  BY <1>1
<1>3. ASSUME NEW i \in 1 .. Len(Tail(s)), NEW j \in 1 .. Len(Tail(s)), i < j
      PROVE  Level(Tail(s)[i]) <= Level(Tail(s)[j])
  <2>1. i + 1 \in 1 .. Len(s) /\ j + 1 \in 1 .. Len(s) /\ i + 1 < j + 1
    BY <1>1, <1>2, <1>3
  <2> QED BY <1>2, <2>1 DEF Plan
<1>4. Plan(Tail(s))
  BY <1>2, <1>3 DEF Plan
<1>5. ASSUME NEW c PROVE Has(s, c) <=> c = Head(s) \/ Has(Tail(s), c)
  <2>1. ASSUME NEW i \in 1 .. Len(s), s[i] = c PROVE c = Head(s) \/ Has(Tail(s), c)
    <3>1. CASE i = 1
      BY <1>2, <2>1, <3>1
    <3>2. CASE i # 1
      <4>1. i - 1 \in 1 .. Len(Tail(s)) /\ (i - 1) + 1 = i
        BY <1>1, <1>2, <3>2
      <4> QED BY <1>2, <2>1, <4>1 DEF Has
    <3> QED BY <3>1, <3>2
  <2>2. Has(s, Head(s))
    BY <1>1, <1>2 DEF Has
  <2>3. ASSUME NEW i \in 1 .. Len(Tail(s)), Tail(s)[i] = c PROVE Has(s, c)
    <3>1. i + 1 \in 1 .. Len(s)
      BY <1>1, <1>2
    <3> QED BY <1>2, <2>3, <3>1 DEF Has
  <2> QED BY <2>1, <2>2, <2>3 DEF Has
<1>6. ASSUME NEW c, Has(s, c) PROVE Level(Head(s)) <= Level(c)
  <2>1. PICK i \in 1 .. Len(s) : s[i] = c
    BY <1>6 DEF Has
  <2>2. CASE i = 1
    BY <1>2, <2>1, <2>2, LevelIsNat
  <2>3. CASE i # 1
    <3>1. 1 \in 1 .. Len(s) /\ 1 < i
      BY <1>1, <2>3
    <3> QED BY <1>2, <2>1, <3>1 DEF Plan
  <2> QED BY <2>2, <2>3
<1> QED BY <1>2, <1>4, <1>5, <1>6

\* The checks before the final one have no order that matters here.
LEMMA LowPlan ==
  ASSUME NEW s \in Seq(Command), \A c : Has(s, c) => Level(c) = 0
  PROVE  Plan(s)
<1>1. \A i \in 1 .. Len(s) : Level(s[i]) = 0
  BY DEF Has
<1> QED BY <1>1 DEF Plan

LEMMA Gates ==
  /\ FlightReadiness \in Seq(Command)
  /\ \A c : Has(FlightReadiness, c) <=> c \in Gate
  /\ Gate = {"autocoder_check", "legal_compliance", "safety_case_check", "run_tests",
             "run_system_tests", "ctest", "vnv_stress", "tidy_safety", "traceability",
             "flight_software"}
<1>1. FlightReadiness \in Seq(Command) /\ Len(FlightReadiness) = 10
  BY DEF FlightReadiness, Command
<1>2. \A c : Has(FlightReadiness, c) <=> c \in Gate
  BY DEF Has, Gate
<1>3. \A i \in 1 .. 10 : i \in {1, 2, 3, 4, 5, 6, 7, 8, 9, 10}
  OBVIOUS
<1>4. /\ FlightReadiness[1] = "autocoder_check" /\ FlightReadiness[2] = "legal_compliance"
      /\ FlightReadiness[3] = "safety_case_check" /\ FlightReadiness[4] = "run_tests"
      /\ FlightReadiness[5] = "run_system_tests" /\ FlightReadiness[6] = "ctest"
      /\ FlightReadiness[7] = "vnv_stress" /\ FlightReadiness[8] = "tidy_safety"
      /\ FlightReadiness[9] = "traceability" /\ FlightReadiness[10] = "flight_software"
  BY DEF FlightReadiness
<1>5. Gate = {FlightReadiness[i] : i \in {1, 2, 3, 4, 5, 6, 7, 8, 9, 10}}
  BY <1>1 DEF Gate
<1> QED BY <1>1, <1>2, <1>4, <1>5

LEMMA Singles ==
  ASSUME NEW c \in Command
  PROVE  <<c>> \in Seq(Command) /\ Len(<<c>>) = 1 /\ \A d : Has(<<c>>, d) <=> d = c
BY DEF Has

LEMMA Pairs ==
  ASSUME NEW c \in Command, NEW d \in Command
  PROVE  <<c, d>> \in Seq(Command) /\ \A e : Has(<<c, d>>, e) <=> e \in {c, d}
BY DEF Has

LEMMA Fours ==
  ASSUME NEW a \in Command, NEW b \in Command, NEW c \in Command, NEW d \in Command,
         Level(a) <= Level(b), Level(b) <= Level(c), Level(c) <= Level(d)
  PROVE  /\ Plan(<<a, b, c, d>>)
         /\ \A e : Has(<<a, b, c, d>>, e) <=> e \in {a, b, c, d}
<1> DEFINE s == <<a, b, c, d>>
<1>1. s \in Seq(Command) /\ Len(s) = 4 /\ s[1] = a /\ s[2] = b /\ s[3] = c /\ s[4] = d
  OBVIOUS
<1> HIDE DEF s
<1>2. \A i \in 1 .. 4 : i \in {1, 2, 3, 4}
  OBVIOUS
<1>3. \A e : Has(s, e) <=> e \in {a, b, c, d}
  BY <1>1, <1>2 DEF Has
<1>4. PICK x \in Nat, y \in Nat, z \in Nat, w \in Nat :
        x = Level(a) /\ y = Level(b) /\ z = Level(c) /\ w = Level(d)
  BY LevelIsNat
<1>5. ASSUME NEW i \in 1 .. Len(s), NEW j \in 1 .. Len(s), i < j
      PROVE  Level(s[i]) <= Level(s[j])
  <2>1. i \in {1, 2, 3, 4} /\ j \in {1, 2, 3, 4}
    BY <1>1, <1>2
  <2> QED BY <1>1, <1>4, <1>5, <2>1
<1> QED BY <1>1, <1>3, <1>5 DEF Plan, s

Checking == {Qualification, Measured \o Qualification, Qualification \o Measured}

LEMMA Checks ==
  ASSUME NEW s \in Checking
  PROVE  /\ Plan(s)
         /\ \A c : Has(s, c) => Level(c) = 0
         /\ \A g \in Gate : Has(s, g)
<1>1. /\ Qualification = FlightReadiness \o <<"qualification_report">>
      /\ Measured = <<"measure", "sync_long_soak">>
  BY Gates DEF Qualification, Measured
<1>2. /\ <<"qualification_report">> \in Seq(Command) /\ Measured \in Seq(Command)
      /\ \A c : Has(<<"qualification_report">>, c) <=> c = "qualification_report"
      /\ \A c : Has(Measured, c) <=> c \in {"measure", "sync_long_soak"}
  <2>1. {"qualification_report", "measure", "sync_long_soak"} \subseteq Command
    BY DEF Command
  <2>2. /\ <<"qualification_report">> \in Seq(Command)
        /\ \A c : Has(<<"qualification_report">>, c) <=> c = "qualification_report"
    BY <2>1, Singles
  <2>3. Measured \in Seq(Command) /\ \A c : Has(Measured, c) <=> c \in {"measure", "sync_long_soak"}
    BY <1>1, <2>1, Pairs
  <2> QED BY <2>2, <2>3
<1>3. /\ Qualification \in Seq(Command)
      /\ \A c : Has(Qualification, c) <=> c \in Gate \/ c = "qualification_report"
  BY <1>1, <1>2, Gates, HasConcat, ConcatProperties
<1>4. /\ s \in Seq(Command)
      /\ \A c : Has(s, c) => c \in Gate \cup {"qualification_report", "measure", "sync_long_soak"}
      /\ \A g \in Gate : Has(s, g)
  <2>1. /\ Measured \o Qualification \in Seq(Command) /\ Qualification \o Measured \in Seq(Command)
    BY <1>2, <1>3, ConcatProperties
  <2>2. \A c : /\ Has(Measured \o Qualification, c) <=> Has(Measured, c) \/ Has(Qualification, c)
               /\ Has(Qualification \o Measured, c) <=> Has(Measured, c) \/ Has(Qualification, c)
    BY <1>2, <1>3, HasConcat
  <2> QED BY <1>2, <1>3, <2>1, <2>2 DEF Checking
<1>5. \A c \in Gate \cup {"qualification_report", "measure", "sync_long_soak"} : Level(c) = 0
  BY Gates DEF Level
<1> QED BY <1>4, <1>5, LowPlan

Final == {"final_check", "sync_trace", "sync_qualification", "write_status"}

LEMMA Endings ==
  /\ Plan(FinalCheck) /\ \A c : Has(FinalCheck, c) <=> c \in Final
  /\ Plan(<<"pedigree_release", "sync_pedigree">>)
  /\ \A c : Has(<<"pedigree_release", "sync_pedigree">>, c) <=>
            c \in {"pedigree_release", "sync_pedigree"}
  /\ Plan(<<"pedigree_preflight", "sync_preflight", "stage", "zip">>)
  /\ \A c : Has(<<"pedigree_preflight", "sync_preflight", "stage", "zip">>, c) <=>
            c \in {"pedigree_preflight", "sync_preflight", "stage", "zip"}
<1>1. Plan(FinalCheck) /\ \A c : Has(FinalCheck, c) <=> c \in Final
  <2>1. Final \subseteq Command
    BY DEF Command, Final
  <2>2. /\ Level("final_check") = 1 /\ Level("sync_trace") = 2
        /\ Level("sync_qualification") = 2 /\ Level("write_status") = 3
    BY DEF Level
  <2> QED BY <2>1, <2>2, Fours DEF FinalCheck, Final
<1>2. /\ Plan(<<"pedigree_preflight", "sync_preflight", "stage", "zip">>)
      /\ \A c : Has(<<"pedigree_preflight", "sync_preflight", "stage", "zip">>, c) <=>
                c \in {"pedigree_preflight", "sync_preflight", "stage", "zip"}
  <2>1. {"pedigree_preflight", "sync_preflight", "stage", "zip"} \subseteq Command
    BY DEF Command
  <2>2. /\ Level("pedigree_preflight") = 5 /\ Level("sync_preflight") = 5
        /\ Level("stage") = 5 /\ Level("zip") = 5
    BY DEF Level
  <2> QED BY <2>1, <2>2, Fours
<1>3. /\ Plan(<<"pedigree_release", "sync_pedigree">>)
      /\ \A c : Has(<<"pedigree_release", "sync_pedigree">>, c) <=>
                c \in {"pedigree_release", "sync_pedigree"}
  <2> DEFINE s == <<"pedigree_release", "sync_pedigree">>
  <2>1. s \in Seq(Command) /\ \A e : Has(s, e) <=> e \in {"pedigree_release", "sync_pedigree"}
    <3>1. "pedigree_release" \in Command /\ "sync_pedigree" \in Command
      BY DEF Command
    <3> QED BY <3>1, Pairs
  <2>2. /\ Len(s) = 2 /\ s[1] = "pedigree_release" /\ s[2] = "sync_pedigree"
        /\ Level("pedigree_release") = 4 /\ Level("sync_pedigree") = 5
    BY DEF Level
  <2> HIDE DEF s
  <2>3. \A i, j \in 1 .. Len(s) : i < j => Level(s[i]) <= Level(s[j])
    <3>1. \A i \in 1 .. 2 : i \in {1, 2}
      OBVIOUS
    <3> QED BY <2>2, <3>1
  <2>4. Plan(s)
    BY <2>1, <2>3 DEF Plan
  <2> QED BY <2>1, <2>4 DEF s
<1> QED BY <1>1, <1>2, <1>3

\* What every target promises when it begins.
Planned(t) ==
  /\ Plan(t) /\ t # <<>>
  /\ Has(t, "write_status") =>
       Has(t, "final_check") /\ Has(t, "sync_trace") /\ Has(t, "sync_qualification")
  /\ Has(t, "sync_pedigree") => Has(t, "pedigree_release")
  /\ Has(t, "pedigree_release") => Has(t, "flight_software") /\ Has(t, "write_status")
  /\ t # FinalCheck /\ Len(t) > 1 => \A g \in Gate : Has(t, g)

LEMMA TargetsPlanned == \A t \in Target : Planned(t)
<1>1. ASSUME NEW s \in Checking
      PROVE  /\ Plan(s \o FinalCheck)
             /\ \A c : Has(s \o FinalCheck, c) <=> Has(s, c) \/ c \in Final
             /\ \A c : Has(s \o FinalCheck, c) => Level(c) <= 3
             /\ \A g \in Gate : Has(s \o FinalCheck, g)
  <2>1. \A c : Has(s, c) => Level(c) <= 0
    <3>1. \A c : Has(s, c) => Level(c) = 0
      BY <1>1, Checks
    <3> QED BY <3>1
  <2>2. \A c \in Final : 0 <= Level(c) /\ Level(c) <= 3
    BY DEF Level, Final
  <2>3. Plan(s \o FinalCheck) /\ \A c : Has(s \o FinalCheck, c) <=> Has(s, c) \/ c \in Final
    <3>1. Plan(s) /\ Plan(FinalCheck) /\ \A c : Has(FinalCheck, c) <=> c \in Final
      BY <1>1, Checks, Endings
    <3>2. \A c : Has(FinalCheck, c) => 0 <= Level(c)
      BY <2>2, <3>1
    <3> QED BY <2>1, <3>1, <3>2, PlanConcat
  <2>4. \A c : Has(s, c) => Level(c) <= 3
    <3>1. \A c : Has(s, c) => Level(c) = 0
      BY <1>1, Checks
    <3> QED BY <3>1
  <2> QED BY <1>1, <2>2, <2>3, <2>4, Checks
<1> DEFINE release == <<"pedigree_release", "sync_pedigree">>
           bundle == <<"pedigree_preflight", "sync_preflight", "stage", "zip">>
<1>2. /\ "flight_software" \in Gate
      /\ "final_check" \in Final /\ "sync_trace" \in Final /\ "sync_qualification" \in Final
      /\ "write_status" \in Final
      /\ "pedigree_release" \notin Final /\ "sync_pedigree" \notin Final
      /\ Level("pedigree_release") = 4 /\ Level("sync_pedigree") = 5
  BY Gates DEF Final, Level
<1>3. \A t : (\E c : Has(t, c)) => t # <<>>
  BY DEF Has
<1>4. ASSUME NEW s \in Checking PROVE Planned(s \o FinalCheck)
  <2>1. ~Has(s \o FinalCheck, "pedigree_release") /\ ~Has(s \o FinalCheck, "sync_pedigree")
    BY <1>1, <1>2, <1>4
  <2> QED BY <1>1, <1>2, <1>3, <1>4, <2>1 DEF Planned
<1>5. /\ Plan(release) /\ \A c : Has(release, c) <=> c \in {"pedigree_release", "sync_pedigree"}
      /\ \A c : Has(release, c) => 3 <= Level(c)
  BY Endings DEF Level
<1>6. /\ Plan(bundle)
      /\ \A c : Has(bundle, c) <=> c \in {"pedigree_preflight", "sync_preflight", "stage", "zip"}
      /\ \A c : Has(bundle, c) => 3 <= Level(c)
  BY Endings DEF Level
<1> HIDE DEF release, bundle
<1>7. ASSUME NEW s \in Checking PROVE Planned((s \o FinalCheck) \o release)
  <2>1. /\ Plan((s \o FinalCheck) \o release)
        /\ \A c : Has((s \o FinalCheck) \o release, c) <=>
                  Has(s \o FinalCheck, c) \/ c \in {"pedigree_release", "sync_pedigree"}
    BY <1>1, <1>5, <1>7, PlanConcat
  <2> QED BY <1>1, <1>2, <1>3, <1>7, <2>1 DEF Planned
<1>8. ASSUME NEW s \in Checking PROVE Planned((s \o FinalCheck) \o bundle)
  <2>1. /\ Plan((s \o FinalCheck) \o bundle)
        /\ \A c : Has((s \o FinalCheck) \o bundle, c) <=>
                  \/ Has(s \o FinalCheck, c)
                  \/ c \in {"pedigree_preflight", "sync_preflight", "stage", "zip"}
    BY <1>1, <1>6, <1>8, PlanConcat
  <2>2. ~Has(s \o FinalCheck, "pedigree_release") /\ ~Has(s \o FinalCheck, "sync_pedigree")
    BY <1>1, <1>2, <1>8
  <2>3. PICK t : t = (s \o FinalCheck) \o bundle
    OBVIOUS
  <2>4. ~Has(t, "pedigree_release") /\ ~Has(t, "sync_pedigree")
    BY <2>1, <2>2, <2>3
  <2>5. /\ \A g \in Gate : Has(t, g)
        /\ Has(t, "final_check") /\ Has(t, "sync_trace") /\ Has(t, "sync_qualification")
    BY <1>1, <1>2, <1>8, <2>1, <2>3
  <2>6. Plan(t) /\ t # <<>>
    BY <1>3, <2>1, <2>3, <2>5
  <2> QED BY <2>3, <2>4, <2>5, <2>6 DEF Planned
<1>9. Planned(<<"qualification_report">>)
  <2>1. "qualification_report" \in Command /\ Level("qualification_report") = 0
    BY DEF Command, Level
  <2>2. /\ <<"qualification_report">> \in Seq(Command) /\ Len(<<"qualification_report">>) = 1
        /\ \A c : Has(<<"qualification_report">>, c) <=> c = "qualification_report"
    BY <2>1, Singles
  <2>3. Plan(<<"qualification_report">>)
    BY <2>1, <2>2, LowPlan
  <2> QED BY <2>2, <2>3 DEF Planned
<1>10. Planned(FinalCheck)
  BY <1>2, <1>3, Endings DEF Planned, Final
<1>11. \A t \in SoftwareFinals : \E s \in Checking : t = s \o FinalCheck
  BY DEF SoftwareFinals, Checking
<1>12. Qualification \in Checking
  BY DEF Checking
<1>13. ASSUME NEW t \in Target PROVE Planned(t)
  <2>1. \/ \E f \in SoftwareFinals : t = f \o release
        \/ t = (Qualification \o FinalCheck) \o bundle
        \/ t = <<"qualification_report">> \/ t = FinalCheck \/ t \in SoftwareFinals
    BY DEF Target, release, bundle
  <2> QED BY <1>4, <1>7, <1>8, <1>9, <1>10, <1>11, <1>12, <2>1
<1> QED BY <1>13


-----------------------------------------------------------------------------
(* What the workspace does to the variables of Release.                    *)

\* The readiness reports and the summary of soaks, beside any target.
Aside(doc, content) ==
  /\ Publish(doc, content)
  /\ trial' = [trial EXCEPT !.ready = FALSE]
  /\ UNCHANGED <<flaws, tree, head, tagged, build, todo, runs, refused>>

ReleaseStep ==
  \/ \E t \in Target : Begin(t)
  \/ Interrupt \/ Developing \/ Tools
  \/ \E summary : SyncLongSoak(summary)
  \/ \E doc \in {"readiness", "scope", "long_soak"} : \E content : Aside(doc, content)
  \/ UNCHANGED vars

LEMMA CloseoutIsRelease ==
  [CloseoutNext]_<<vars, boards, sitl, budget>> => ReleaseStep
<1> SUFFICES ASSUME [CloseoutNext]_<<vars, boards, sitl, budget>> PROVE ReleaseStep
  OBVIOUS
<1>0. ASSUME NEW doc \in {"readiness", "scope", "long_soak"}, NEW content, Reported(doc, content)
      PROVE  ReleaseStep
  BY <1>0 DEF Reported, Aside, ReleaseStep
<1>1. CASE Releasing
  BY <1>1 DEF Releasing, ReleaseStep
<1>2. CASE ByTheBoard \/ EndHostGates \/ Hosting \/ UNCHANGED <<vars, boards, sitl, budget>>
  BY <1>2 DEF ByTheBoard, EndHostGates, Hosting, ReleaseStep
<1>3. CASE Reports
  BY <1>0, <1>3 DEF Reports
<1>4. CASE StartTeam
  <2>1. SoftwareFinals \subseteq Target
    BY DEF Target
  <2> QED BY <1>4, <2>1 DEF StartTeam, ReleaseStep
<1>5. CASE InterruptTeam
  BY <1>5 DEF InterruptTeam, ReleaseStep
<1>6. CASE SumUpSoaks
  BY <1>0, <1>6 DEF SumUpSoaks
<1> QED BY <1>1, <1>2, <1>3, <1>4, <1>5, <1>6 DEF CloseoutNext

-----------------------------------------------------------------------------
(* The invariant.  What a target has not to do anymore, it has done.       *)

PedigreeRight(page) ==
  /\ page.blockers = {} /\ page.tree = page.of
  /\ page.steady => page.binary = [run |-> page.run, of |-> page.of]

StatusRight(status) == status.trial.whole /\ status.trial.steady => flaws[status.of] = {}

DocsRight(D) ==
  /\ D = [d \in Doc |-> D[d]]
  /\ \A d \in Doc : D[d].run \in Nat /\ D[d].run <= runs
  /\ D["status"] # Absent =>
       /\ StatusRight(D["status"].content)
       /\ D["status"].content.trial.alone =>
            \A d \in {"trace", "qualification"} : D[d] # Absent /\ D["status"].run <= D[d].run
  /\ D["pedigree"] # Absent => PedigreeRight(D["pedigree"].content)

ReleaseTyped ==
  /\ flaws \in [Version -> SUBSET Flaw] /\ tree \in Version
  /\ trial \in [whole : BOOLEAN, steady : BOOLEAN, ready : BOOLEAN, alone : BOOLEAN]
  /\ build = [a \in Artifact |-> build[a]]
  /\ runs \in Nat
  /\ Plan(todo) /\ (todo # <<>> => runs # 0)

Synced ==
  trial.alone /\ Has(todo, "write_status") =>
    /\ Has(todo, "sync_trace") \/ docs["trace"].run = runs
    /\ Has(todo, "sync_qualification") \/ docs["qualification"].run = runs

PedigreeMade ==
  Has(todo, "sync_pedigree") =>
    Has(todo, "pedigree_release") \/ PedigreeRight(build["pedigree"])

BinaryBuilt ==
  trial.steady /\ Has(todo, "pedigree_release") =>
    Has(todo, "flight_software") \/ build["flight_software"] = Written(tree)

GatesPassed ==
  trial.steady /\ trial.whole /\ Has(todo, "final_check") =>
    /\ \A g \in Gate : Has(todo, g) \/ flaws[tree] \cap Refuses(g) = {}
    /\ Has(todo, "traceability") \/ build["trace"] = Written(tree)

Flawless ==
  trial.steady /\ trial.whole /\ Has(todo, "write_status") =>
    Has(todo, "final_check") \/ flaws[tree] = {}

TodoRight == Synced /\ PedigreeMade /\ BinaryBuilt /\ GatesPassed /\ Flawless

ReleaseInv == ReleaseTyped /\ DocsRight(docs) /\ DocsRight(head.docs) /\ TodoRight

LEMMA NothingLeft == Plan(<<>>) /\ \A c : ~Has(<<>>, c)
<1>1. <<>> \in Seq(Command) /\ Len(<<>>) = 0
  OBVIOUS
<1> QED BY <1>1 DEF Plan, Has

LEMMA Advance ==
  ASSUME ReleaseTyped, NEW c, Done(c), Proceed, UNCHANGED runs
  PROVE  /\ Plan(todo)' /\ (todo # <<>> => runs # 0)' /\ runs # 0
         /\ \A d : Has(todo, d) <=> d = c \/ Has(todo', d)
         /\ \A d : Has(todo, d) => Level(c) <= Level(d)
<1>1. todo # <<>> /\ Head(todo) = c /\ todo' = Tail(todo) /\ Plan(todo)
  BY DEF Done, Proceed, ReleaseTyped
<1> QED BY <1>1, PlanTail DEF ReleaseTyped

\* A target that stops leaves nothing to ask of it.
LEMMA StopKeeps ==
  ASSUME ReleaseInv, Stop, UNCHANGED <<developer, docs>>,
         (build = [a \in Artifact |-> build[a]])'
  PROVE  ReleaseInv'
<1>1. UNCHANGED <<flaws, tree, head, runs, trial, docs>> /\ todo' = <<>>
  BY DEF developer, Stop
<1>2. Plan(todo)' /\ \A c : ~Has(todo', c)
  BY <1>1, NothingLeft
<1>3. ReleaseTyped'
  BY <1>1, <1>2 DEF ReleaseInv, ReleaseTyped
<1>4. DocsRight(docs)' /\ DocsRight(head.docs)'
  BY <1>1 DEF ReleaseInv, DocsRight, StatusRight
<1>5. TodoRight'
  BY <1>2 DEF TodoRight, Synced, PedigreeMade, BinaryBuilt, GatesPassed, Flawless
<1> QED BY <1>3, <1>4, <1>5 DEF ReleaseInv

LEMMA Published ==
  ASSUME DocsRight(docs), UNCHANGED <<flaws, runs>>, runs \in Nat,
         NEW doc \in Doc, NEW content, Publish(doc, content),
         doc \in {"trace", "qualification", "status"} => runs # 0,
         doc = "status" =>
           /\ StatusRight(content)
           /\ content.trial.alone => docs["trace"].run = runs /\ docs["qualification"].run = runs,
         doc = "pedigree" => PedigreeRight(content)
  PROVE  /\ DocsRight(docs)'
         /\ docs'[doc].run = runs
         /\ \A d \in Doc \ {doc} : docs'[d] = docs[d]
<1>1. docs' = [docs EXCEPT ![doc] = [run |-> runs, content |-> content]]
  BY DEF Publish
<1>2. PICK page : page = [run |-> runs, content |-> content]
  OBVIOUS
<1>3. /\ docs' = [d \in Doc |-> IF d = doc THEN page ELSE docs[d]]
      /\ page.run = runs /\ page.content = content
  BY <1>1, <1>2 DEF DocsRight
<1>4. docs'[doc] = page /\ \A d \in Doc \ {doc} : docs'[d] = docs[d]
  BY <1>3
<1>5. docs' = [d \in Doc |-> docs'[d]]
  BY <1>3
<1>6. \A d \in Doc : docs'[d].run \in Nat /\ docs'[d].run <= runs'
  BY <1>3, <1>4 DEF DocsRight
<1>7. {"trace", "qualification", "status", "pedigree"} \subseteq Doc
  BY DEF Doc
<1>8. runs # 0 => page # Absent
  BY <1>3 DEF Absent
<1>9. docs'["pedigree"] # Absent => PedigreeRight(docs'["pedigree"].content)
  BY <1>3, <1>4, <1>7 DEF DocsRight
<1>10. docs'["status"] # Absent =>
         /\ StatusRight(docs'["status"].content)
         /\ docs'["status"].content.trial.alone =>
              \A d \in {"trace", "qualification"} :
                docs'[d] # Absent /\ docs'["status"].run <= docs'[d].run
  <2>1. CASE doc = "status"
    <3>1. /\ docs'["status"] = page
          /\ docs'["trace"] = docs["trace"] /\ docs'["qualification"] = docs["qualification"]
      BY <1>4, <1>7, <2>1
    <3>2. runs # 0 /\ (docs["trace"].run = runs => docs["trace"] # Absent)
          /\ (docs["qualification"].run = runs => docs["qualification"] # Absent)
      BY <2>1 DEF Absent
    <3> QED BY <1>3, <2>1, <3>1, <3>2
  <2>2. CASE doc # "status"
    <3>1. docs'["status"] = docs["status"]
      BY <1>4, <1>7, <2>2
    <3>2. \A d \in {"trace", "qualification"} : docs'[d] = docs[d] \/ (docs'[d] = page /\ runs # 0)
      BY <1>4, <1>7
    <3>3. docs["status"].run <= runs
      BY <1>7 DEF DocsRight
    <3> QED BY <1>3, <1>8, <3>1, <3>2, <3>3 DEF DocsRight
  <2> QED BY <2>1, <2>2
<1> QED BY <1>3, <1>4, <1>5, <1>6, <1>9, <1>10 DEF DocsRight, StatusRight

\* A command done that publishes nothing: what it leaves in build/ and what it
\* allows to follow is for each command to say.
LEMMA QuietKeeps ==
  ASSUME ReleaseInv, NEW c, Done(c), Proceed, UNCHANGED <<developer, docs>>,
         (build = [a \in Artifact |-> build[a]])',
         PedigreeMade', BinaryBuilt', GatesPassed', Flawless', Level(c) # 2
  PROVE  ReleaseInv'
<1>1. UNCHANGED <<flaws, tree, head, runs, trial, docs>>
  BY DEF developer
<1>2. /\ ReleaseTyped
      /\ Plan(todo)' /\ (todo # <<>> => runs # 0)'
      /\ \A d : Has(todo, d) <=> d = c \/ Has(todo', d)
  BY <1>1, Advance DEF ReleaseInv
<1>3. ReleaseTyped'
  BY <1>1, <1>2 DEF ReleaseTyped
<1>4. DocsRight(docs)' /\ DocsRight(head.docs)'
  BY <1>1 DEF ReleaseInv, DocsRight, StatusRight
<1>5. c # "sync_trace" /\ c # "sync_qualification"
  BY DEF Level
<1>6. Synced'
  BY <1>1, <1>2, <1>5 DEF ReleaseInv, TodoRight, Synced
<1> QED BY <1>3, <1>4, <1>6 DEF ReleaseInv, TodoRight

\* A command done that leaves build/ alone, other than those that publish and
\* the final check.
LEMMA IdleKeeps ==
  ASSUME ReleaseInv, NEW c, Done(c), Proceed, UNCHANGED <<developer, docs, build>>,
         Level(c) \in {0, 5}, c \notin Gate
  PROVE  ReleaseInv'
<1>1. UNCHANGED <<flaws, tree, head, runs, trial, build>>
  BY DEF developer
<1>2. ReleaseTyped /\ \A d : Has(todo, d) <=> d = c \/ Has(todo', d)
  BY <1>1, Advance DEF ReleaseInv
<1>3. /\ c # "pedigree_release" /\ c # "final_check" /\ c # "flight_software"
      /\ c # "traceability" /\ Level(c) # 2
  BY Gates DEF Level
<1>4. PedigreeMade' /\ BinaryBuilt' /\ GatesPassed' /\ Flawless'
  BY <1>1, <1>2, <1>3
     DEF ReleaseInv, TodoRight, PedigreeMade, BinaryBuilt, GatesPassed, Flawless, Written
<1>5. (build = [a \in Artifact |-> build[a]])'
  BY <1>1, <1>2 DEF ReleaseTyped
<1> QED BY <1>3, <1>4, <1>5, QuietKeeps

\* A command done that publishes a document.
LEMMA SyncKeeps ==
  ASSUME ReleaseInv, NEW c, Done(c), Proceed, UNCHANGED <<developer, build>>,
         NEW doc \in Doc, NEW content, Publish(doc, content),
         <<c, doc>> \in {<<"sync_long_soak", "long_soak">>, <<"sync_trace", "trace">>,
                         <<"sync_qualification", "qualification">>,
                         <<"write_status", "status">>, <<"sync_pedigree", "pedigree">>,
                         <<"sync_preflight", "preflight">>},
         doc = "status" => content = [of |-> tree, trial |-> trial],
         doc = "pedigree" => content = build["pedigree"]
  PROVE  ReleaseInv'
<1>1. UNCHANGED <<flaws, tree, head, runs, trial, build>>
  BY DEF developer
<1>2. /\ ReleaseTyped /\ runs # 0
      /\ Plan(todo)' /\ (todo # <<>> => runs # 0)'
      /\ \A d : Has(todo, d) <=> d = c \/ Has(todo', d)
      /\ \A d : Has(todo, d) => Level(c) <= Level(d)
  BY <1>1, Advance DEF ReleaseInv
<1>3. /\ c \notin Gate /\ c # "pedigree_release" /\ c # "final_check"
      /\ c # "flight_software" /\ c # "traceability"
      /\ c = "sync_trace" => doc = "trace"
      /\ c = "sync_qualification" => doc = "qualification"
      /\ doc = "status" => c = "write_status"
      /\ doc = "pedigree" => c = "sync_pedigree"
  BY Gates
<1>4. Has(todo, c) /\ \A d : Has(todo, d) => Level(c) <= Level(d)
  BY <1>2
<1>5. doc = "status" =>
        /\ StatusRight(content)
        /\ content.trial.alone => docs["trace"].run = runs /\ docs["qualification"].run = runs
  <2>1. SUFFICES ASSUME doc = "status"
                 PROVE  /\ StatusRight(content)
                        /\ content.trial.alone =>
                             docs["trace"].run = runs /\ docs["qualification"].run = runs
    OBVIOUS
  <2>2. content.of = tree /\ content.trial = trial /\ c = "write_status"
    BY <1>3, <2>1
  <2>3. ~Has(todo, "sync_trace") /\ ~Has(todo, "sync_qualification") /\ ~Has(todo, "final_check")
    BY <1>4, <2>2 DEF Level
  <2> QED BY <1>4, <2>2, <2>3 DEF ReleaseInv, TodoRight, Synced, Flawless, StatusRight
<1>6. doc = "pedigree" => PedigreeRight(content)
  <2>1. SUFFICES ASSUME doc = "pedigree" PROVE PedigreeRight(build["pedigree"])
    OBVIOUS
  <2>2. c = "sync_pedigree" /\ ~Has(todo, "pedigree_release")
    BY <1>3, <1>4, <2>1 DEF Level
  <2> QED BY <1>4, <2>2 DEF ReleaseInv, TodoRight, PedigreeMade
<1>7. /\ DocsRight(docs)' /\ docs'[doc].run = runs
      /\ \A d \in Doc \ {doc} : docs'[d] = docs[d]
  BY <1>1, <1>2, <1>5, <1>6, Published DEF ReleaseInv, ReleaseTyped
<1>8. DocsRight(head.docs)'
  BY <1>1 DEF ReleaseInv, DocsRight, StatusRight
<1>9. ReleaseTyped'
  BY <1>1, <1>2 DEF ReleaseTyped
<1>10. PedigreeMade' /\ BinaryBuilt' /\ GatesPassed' /\ Flawless'
  BY <1>1, <1>2, <1>3
     DEF ReleaseInv, TodoRight, PedigreeMade, BinaryBuilt, GatesPassed, Flawless, Written
<1>11. Synced'
  <2>1. "trace" \in Doc /\ "qualification" \in Doc
    BY DEF Doc
  <2>2. /\ docs["trace"].run = runs => docs'["trace"].run = runs
        /\ docs["qualification"].run = runs => docs'["qualification"].run = runs
        /\ c = "sync_trace" => docs'["trace"].run = runs
        /\ c = "sync_qualification" => docs'["qualification"].run = runs
    BY <1>3, <1>7, <2>1
  <2> QED BY <1>1, <1>2, <2>2 DEF ReleaseInv, TodoRight, Synced
<1> QED BY <1>7, <1>8, <1>9, <1>10, <1>11 DEF ReleaseInv, TodoRight

LEMMA GateKeeps ==
  ASSUME ReleaseInv, RunGate
  PROVE  ReleaseInv'
<1>1. PICK g \in Gate :
        /\ Done(g)
        /\ build' = IF g \in {"traceability", "flight_software"}
                    THEN [build EXCEPT ![IF g = "traceability" THEN "trace" ELSE g]
                            = Written(tree)]
                    ELSE build
        /\ IF flaws[tree] \cap Refuses(g) = {} THEN Proceed ELSE Stop
        /\ UNCHANGED <<developer, docs>>
  BY DEF RunGate
<1>2. UNCHANGED <<flaws, tree, head, runs, trial>>
  BY <1>1 DEF developer
<1>3. PICK made : made = Written(tree)
  OBVIOUS
<1>4. /\ build = [a \in Artifact |-> build[a]]
      /\ {"trace", "flight_software", "pedigree"} \subseteq Artifact
  BY DEF ReleaseInv, ReleaseTyped, Artifact
<1>5. /\ (build = [a \in Artifact |-> build[a]])'
      /\ build'["pedigree"] = build["pedigree"]
      /\ build'["flight_software"] = IF g = "flight_software" THEN made ELSE build["flight_software"]
      /\ build'["trace"] = IF g = "traceability" THEN made ELSE build["trace"]
  <2>1. CASE g = "traceability"
    <3>1. build' = [build EXCEPT !["trace"] = made]
      BY <1>1, <1>3, <2>1
    <3> QED BY <1>4, <2>1, <3>1
  <2>2. CASE g = "flight_software"
    <3>1. build' = [build EXCEPT !["flight_software"] = made]
      BY <1>1, <1>3, <2>2
    <3> QED BY <1>4, <2>2, <3>1
  <2>3. CASE g \notin {"traceability", "flight_software"}
    <3>1. build' = build
      BY <1>1, <2>3
    <3> QED BY <1>4, <2>3, <3>1
  <2> QED BY <2>1, <2>2, <2>3
<1>6. made = Written(tree)'
  BY <1>2, <1>3 DEF Written
<1>7. CASE Stop
  BY <1>1, <1>5, <1>7, StopKeeps
<1>8. CASE Proceed /\ flaws[tree] \cap Refuses(g) = {}
  <2>1. ReleaseTyped /\ \A d : Has(todo, d) <=> d = g \/ Has(todo', d)
    BY <1>1, <1>2, <1>8, Advance DEF ReleaseInv
  <2>2. Level(g) # 2 /\ g # "pedigree_release" /\ g # "final_check"
    <3>1. Level(g) = 0 /\ g # "pedigree_release" /\ g # "final_check"
      BY Gates DEF Level
    <3> QED BY <3>1
  <2>3. PedigreeMade'
    BY <1>5, <2>1, <2>2 DEF ReleaseInv, TodoRight, PedigreeMade
  <2>4. BinaryBuilt'
    BY <1>2, <1>3, <1>5, <1>6, <2>1 DEF ReleaseInv, TodoRight, BinaryBuilt
  <2>5. GatesPassed'
    BY <1>2, <1>3, <1>5, <1>6, <1>8, <2>1 DEF ReleaseInv, TodoRight, GatesPassed
  <2>6. Flawless'
    BY <1>2, <2>1, <2>2 DEF ReleaseInv, TodoRight, Flawless
  <2>7. Done(g) /\ Proceed /\ UNCHANGED <<developer, docs>>
    BY <1>1, <1>8
  <2>8. (build = [a \in Artifact |-> build[a]])'
    BY <1>5
  <2> QED BY <2>2, <2>3, <2>4, <2>5, <2>6, <2>7, <2>8, QuietKeeps
<1> QED BY <1>1, <1>7, <1>8

\* A tool that stops or goes on, whatever it leaves in one artifact.
LEMMA ArtifactWritten ==
  ASSUME build = [a \in Artifact |-> build[a]], NEW a \in Artifact, NEW made,
         build' = [build EXCEPT ![a] = made]
  PROVE  /\ (build = [b \in Artifact |-> build[b]])'
         /\ build'[a] = made /\ \A b \in Artifact \ {a} : build'[b] = build[b]
OBVIOUS

LEMMA MeasureKeeps ==
  ASSUME ReleaseInv, Measure
  PROVE  ReleaseInv'
<1>1. /\ Done("measure") /\ (Proceed \/ Stop) /\ UNCHANGED <<developer, docs>>
      /\ UNCHANGED <<flaws, tree, head, runs, trial>>
  BY DEF Measure, developer
<1>2. PICK made : made = Written(tree)
  OBVIOUS
<1>3. /\ build = [a \in Artifact |-> build[a]]
      /\ build' = [build EXCEPT !["flight_software"] = made]
      /\ "flight_software" \in Artifact /\ "trace" \in Artifact /\ "pedigree" \in Artifact
      /\ made = Written(tree)'
  BY <1>1, <1>2 DEF ReleaseInv, ReleaseTyped, Measure, Artifact, Written
<1>4. /\ (build = [a \in Artifact |-> build[a]])'
      /\ build'["flight_software"] = made /\ build'["trace"] = build["trace"]
      /\ build'["pedigree"] = build["pedigree"]
  BY <1>3, ArtifactWritten
<1>5. CASE Stop
  BY <1>1, <1>4, <1>5, StopKeeps
<1>6. CASE Proceed
  <2>1. ReleaseTyped /\ \A d : Has(todo, d) <=> d = "measure" \/ Has(todo', d)
    BY <1>1, <1>6, Advance DEF ReleaseInv
  <2>2. "measure" \notin Gate /\ Level("measure") # 2
    BY Gates DEF Level
  <2>3. PedigreeMade' /\ BinaryBuilt' /\ GatesPassed' /\ Flawless'
    BY <1>1, <1>2, <1>3, <1>4, <2>1, <2>2
       DEF ReleaseInv, TodoRight, PedigreeMade, BinaryBuilt, GatesPassed, Flawless
  <2> QED BY <1>1, <1>4, <1>6, <2>2, <2>3, QuietKeeps
<1> QED BY <1>1, <1>5, <1>6

LEMMA QualificationKeeps ==
  ASSUME ReleaseInv, QualificationReport
  PROVE  ReleaseInv'
<1>1. /\ Done("qualification_report") /\ UNCHANGED <<developer, docs>>
      /\ UNCHANGED <<flaws, tree, head, runs, trial>>
      /\ \/ Stop /\ UNCHANGED build
         \/ Proceed /\ build' = [build EXCEPT !["qualification"] = Written(tree)]
  BY DEF QualificationReport, developer
<1>2. build = [a \in Artifact |-> build[a]]
  BY DEF ReleaseInv, ReleaseTyped
<1>3. CASE Stop /\ UNCHANGED build
  BY <1>1, <1>2, <1>3, StopKeeps
<1>4. CASE Proceed /\ build' = [build EXCEPT !["qualification"] = Written(tree)]
  <2>1. PICK made : made = Written(tree)
    OBVIOUS
  <2>2. {"qualification", "flight_software", "trace", "pedigree"} \subseteq Artifact
    BY DEF Artifact
  <2>3. /\ (build = [a \in Artifact |-> build[a]])'
        /\ build'["flight_software"] = build["flight_software"]
        /\ build'["trace"] = build["trace"] /\ build'["pedigree"] = build["pedigree"]
    BY <1>2, <1>4, <2>1, <2>2, ArtifactWritten
  <2>4. ReleaseTyped /\ \A d : Has(todo, d) <=> d = "qualification_report" \/ Has(todo', d)
    BY <1>1, <1>4, Advance DEF ReleaseInv
  <2>5. "qualification_report" \notin Gate /\ Level("qualification_report") # 2
    BY Gates DEF Level
  <2>6. Written(tree)' = Written(tree)
    BY <1>1 DEF Written
  <2>7. PedigreeMade' /\ BinaryBuilt' /\ GatesPassed' /\ Flawless'
    BY <1>1, <2>3, <2>4, <2>5, <2>6
       DEF ReleaseInv, TodoRight, PedigreeMade, BinaryBuilt, GatesPassed, Flawless
  <2> QED BY <1>1, <1>4, <2>3, <2>5, <2>7, QuietKeeps
<1> QED BY <1>1, <1>3, <1>4

\* At the final check of a whole target every gate has been passed.
LEMMA FinalCheckKeeps ==
  ASSUME ReleaseInv, RunFinalCheck
  PROVE  ReleaseInv'
<1>1. /\ Done("final_check") /\ UNCHANGED <<developer, docs, build>>
      /\ UNCHANGED <<flaws, tree, head, runs, trial, build>>
      /\ Stop \/ (Proceed /\ FinalCheckPasses)
  BY DEF RunFinalCheck, developer
<1>2. ReleaseTyped /\ (build = [a \in Artifact |-> build[a]])'
  BY <1>1 DEF ReleaseInv, ReleaseTyped
<1>3. CASE Stop
  BY <1>1, <1>2, <1>3, StopKeeps
<1>4. CASE Proceed /\ FinalCheckPasses
  <2>1. /\ \A d : Has(todo, d) <=> d = "final_check" \/ Has(todo', d)
        /\ \A d : Has(todo, d) => Level("final_check") <= Level(d)
    BY <1>1, <1>2, <1>4, Advance
  <2>2. Level("final_check") = 1 /\ "traceability" \in Gate /\ \A g \in Gate : Level(g) = 0
    BY Gates DEF Level
  <2>3. \A g \in Gate : ~Has(todo, g)
    <3>1. ~(1 <= 0)
      OBVIOUS
    <3> QED BY <2>1, <2>2, <3>1
  <2>4. ASSUME trial.steady, trial.whole PROVE flaws[tree] = {}
    <3>1. /\ \A g \in Gate : flaws[tree] \cap Refuses(g) = {}
          /\ build["trace"] = Written(tree)
      BY <2>1, <2>2, <2>3, <2>4 DEF ReleaseInv, TodoRight, GatesPassed
    <3>2. build["trace"].of = tree
      BY <3>1 DEF Written
    <3>3. /\ flaws[tree] \cap {"untested_requirement"} = {}
          /\ flaws[tree] \cap DocumentFlaws = {}
      BY <1>4, <3>2 DEF FinalCheckPasses, TraceComplete
    <3>4. flaws[tree] \subseteq Flaw
      BY <1>2 DEF ReleaseTyped
    <3>5. \A x \in Flaw : \/ \E g \in Gate : x \in Refuses(g)
                          \/ x \in DocumentFlaws \/ x = "untested_requirement"
      BY DEF Flaw
    <3>6. ASSUME NEW x \in flaws[tree] PROVE FALSE
      BY <3>1, <3>3, <3>4, <3>5
    <3> QED BY <3>6
  <2>5. /\ "final_check" # "sync_pedigree" /\ "final_check" # "pedigree_release"
        /\ "final_check" # "flight_software" /\ Level("final_check") # 2
    BY <2>2
  <2>6. PedigreeMade' /\ BinaryBuilt' /\ GatesPassed'
    BY <1>1, <2>1, <2>5, <2>3, <2>2
       DEF ReleaseInv, TodoRight, PedigreeMade, BinaryBuilt, GatesPassed, Written
  <2>7. Flawless'
    BY <1>1, <2>4 DEF Flawless
  <2> QED BY <1>1, <1>2, <1>4, <2>5, <2>6, <2>7, QuietKeeps
<1> QED BY <1>1, <1>3, <1>4

\* The binary of a pedigree is that of its run when the sources stay.
LEMMA PedigreeKeeps ==
  ASSUME ReleaseInv, RunPedigree
  PROVE  ReleaseInv'
<1>1. /\ UNCHANGED <<developer, docs>> /\ UNCHANGED <<flaws, tree, head, runs, trial>>
      /\ ReleaseTyped
  BY DEF RunPedigree, developer, ReleaseInv
<1>2. CASE Stop /\ UNCHANGED build
  BY <1>1, <1>2, StopKeeps DEF ReleaseTyped
<1>3. CASE Done("pedigree_release") /\ Proceed /\ PedigreeAccepts
           /\ build' = [build EXCEPT !["pedigree"] = PedigreeReport]
  <2>1. PICK made : made = PedigreeReport
    OBVIOUS
  <2>2. {"flight_software", "trace", "pedigree"} \subseteq Artifact
    BY DEF Artifact
  <2>3. /\ (build = [a \in Artifact |-> build[a]])'
        /\ build'["flight_software"] = build["flight_software"]
        /\ build'["trace"] = build["trace"] /\ build'["pedigree"] = made
    BY <1>1, <1>3, <2>1, <2>2, ArtifactWritten DEF ReleaseTyped
  <2>4. /\ Has(todo, "pedigree_release")
        /\ \A d : Has(todo, d) <=> d = "pedigree_release" \/ Has(todo', d)
        /\ \A d : Has(todo, d) => Level("pedigree_release") <= Level(d)
    BY <1>1, <1>3, Advance
  <2>5. ~Has(todo, "flight_software") /\ Level("pedigree_release") # 2
    BY <2>4 DEF Level
  <2>6. Blockers = {} /\ tree = head.sources
    BY <1>3 DEF PedigreeAccepts, Blockers
  <2>7. trial.steady => build["flight_software"] = Written(tree)
    BY <2>4, <2>5 DEF ReleaseInv, TodoRight, BinaryBuilt
  <2>8. PedigreeRight(made)
    <3>1. /\ made.run = runs /\ made.of = head.sources /\ made.tree = tree
          /\ made.blockers = Blockers /\ made.binary = build["flight_software"]
          /\ made.steady = trial.steady
      BY <2>1 DEF PedigreeReport
    <3> QED BY <2>6, <2>7, <3>1 DEF PedigreeRight, Written
  <2>9. "pedigree_release" \notin Gate
    BY Gates
  <2>10. PedigreeMade' /\ BinaryBuilt' /\ GatesPassed' /\ Flawless'
    BY <1>1, <2>3, <2>4, <2>8, <2>9
       DEF ReleaseInv, TodoRight, PedigreeMade, BinaryBuilt, GatesPassed, Flawless, Written,
           PedigreeRight
  <2> QED BY <1>1, <1>3, <2>3, <2>5, <2>10, QuietKeeps
<1>4. CASE Done("pedigree_preflight") /\ Proceed
           /\ build' = [build EXCEPT !["preflight"] = PedigreeReport]
  <2>1. PICK made : made = PedigreeReport
    OBVIOUS
  <2>2. {"preflight", "flight_software", "trace", "pedigree"} \subseteq Artifact
    BY DEF Artifact
  <2>3. /\ (build = [a \in Artifact |-> build[a]])'
        /\ build'["flight_software"] = build["flight_software"]
        /\ build'["trace"] = build["trace"] /\ build'["pedigree"] = build["pedigree"]
    BY <1>1, <1>4, <2>1, <2>2, ArtifactWritten DEF ReleaseTyped
  <2>4. \A d : Has(todo, d) <=> d = "pedigree_preflight" \/ Has(todo', d)
    BY <1>1, <1>4, Advance
  <2>5. "pedigree_preflight" \notin Gate /\ Level("pedigree_preflight") # 2
    BY Gates DEF Level
  <2>6. PedigreeMade' /\ BinaryBuilt' /\ GatesPassed' /\ Flawless'
    BY <1>1, <2>3, <2>4, <2>5
       DEF ReleaseInv, TodoRight, PedigreeMade, BinaryBuilt, GatesPassed, Flawless, Written
  <2> QED BY <1>1, <1>4, <2>3, <2>5, <2>6, QuietKeeps
<1>5. \/ Stop /\ UNCHANGED build
      \/ Done("pedigree_release") /\ Proceed /\ PedigreeAccepts
         /\ build' = [build EXCEPT !["pedigree"] = PedigreeReport]
      \/ Done("pedigree_preflight") /\ Proceed
         /\ build' = [build EXCEPT !["preflight"] = PedigreeReport]
  BY DEF RunPedigree, Done
<1> QED BY <1>2, <1>3, <1>4, <1>5

LEMMA ToolsKeep ==
  ASSUME ReleaseInv, Tools \/ \E summary : SyncLongSoak(summary)
  PROVE  ReleaseInv'
<1>0. {"long_soak", "trace", "qualification", "status", "pedigree", "preflight"} \subseteq Doc
  BY DEF Doc
<1>1. ASSUME NEW summary, SyncLongSoak(summary) PROVE ReleaseInv'
  <2>1. /\ Done("sync_long_soak") /\ Proceed /\ Publish("long_soak", summary)
        /\ UNCHANGED <<developer, build>>
    BY <1>1 DEF SyncLongSoak
  <2> QED BY <1>0, <2>1, SyncKeeps
<1>2. CASE SyncTrace
  <2>1. /\ Done("sync_trace") /\ Proceed /\ Publish("trace", build["trace"])
        /\ UNCHANGED <<developer, build>>
    BY <1>2 DEF SyncTrace
  <2> QED BY <1>0, <2>1, SyncKeeps
<1>3. CASE SyncQualification
  <2>1. /\ Done("sync_qualification") /\ Proceed
        /\ Publish("qualification", build["qualification"]) /\ UNCHANGED <<developer, build>>
    BY <1>3 DEF SyncQualification
  <2> QED BY <1>0, <2>1, SyncKeeps
<1>4. CASE WriteStatus
  <2>1. /\ Done("write_status") /\ Proceed
        /\ Publish("status", [of |-> tree, trial |-> trial]) /\ UNCHANGED <<developer, build>>
    BY <1>4 DEF WriteStatus
  <2> QED BY <1>0, <2>1, SyncKeeps
<1>5. CASE SyncPedigree
  <2>1. /\ Done("sync_pedigree") /\ Proceed /\ Publish("pedigree", build["pedigree"])
        /\ UNCHANGED <<developer, build>>
    BY <1>5 DEF SyncPedigree
  <2> QED BY <1>0, <2>1, SyncKeeps
<1>6. CASE SyncPreflight
  <2>1. /\ Done("sync_preflight") /\ Proceed /\ Publish("preflight", build["preflight"])
        /\ UNCHANGED <<developer, build>>
    BY <1>6 DEF SyncPreflight
  <2> QED BY <1>0, <2>1, SyncKeeps
<1>7. CASE StageBundle
  <2>1. Done("stage") /\ (Stop \/ Proceed) /\ UNCHANGED <<developer, docs, build>>
    BY <1>7 DEF StageBundle
  <2>2. "stage" \notin Gate /\ Level("stage") \in {0, 5}
    BY Gates DEF Level
  <2>3. (build = [a \in Artifact |-> build[a]])'
    BY <2>1 DEF ReleaseInv, ReleaseTyped
  <2> QED BY <2>1, <2>2, <2>3, StopKeeps, IdleKeeps
<1>8. CASE WriteZip
  <2>1. PICK made : build' = [build EXCEPT !["zip"] = made]
    BY <1>8 DEF WriteZip
  <2>2. /\ Done("zip") /\ Proceed /\ UNCHANGED <<developer, docs>>
        /\ UNCHANGED <<flaws, tree, head, runs, trial>>
    BY <1>8 DEF WriteZip, developer
  <2>3. {"zip", "flight_software", "trace", "pedigree"} \subseteq Artifact
    BY DEF Artifact
  <2>4. /\ (build = [a \in Artifact |-> build[a]])'
        /\ build'["flight_software"] = build["flight_software"]
        /\ build'["trace"] = build["trace"] /\ build'["pedigree"] = build["pedigree"]
    BY <2>1, <2>3, ArtifactWritten DEF ReleaseInv, ReleaseTyped
  <2>5. \A d : Has(todo, d) <=> d = "zip" \/ Has(todo', d)
    BY <2>2, Advance DEF ReleaseInv
  <2>6. "zip" \notin Gate /\ Level("zip") # 2
    BY Gates DEF Level
  <2>7. PedigreeMade' /\ BinaryBuilt' /\ GatesPassed' /\ Flawless'
    BY <2>2, <2>4, <2>5, <2>6
       DEF ReleaseInv, TodoRight, PedigreeMade, BinaryBuilt, GatesPassed, Flawless, Written
  <2> QED BY <2>2, <2>4, <2>6, <2>7, QuietKeeps
<1> QED
  BY <1>1, <1>2, <1>3, <1>4, <1>5, <1>6, <1>7, <1>8, GateKeeps, MeasureKeeps, QualificationKeeps,
     FinalCheckKeeps, PedigreeKeeps DEF Tools

LEMMA BeginKeeps ==
  ASSUME ReleaseInv, NEW t \in Target, Begin(t)
  PROVE  ReleaseInv'
<1>1. /\ todo' = t /\ runs' = runs + 1 /\ runs' # 0 /\ runs' \in Nat /\ runs < runs'
      /\ trial' = [whole |-> t # FinalCheck /\ Len(t) > 1, steady |-> TRUE,
                   ready |-> Blockers = {}, alone |-> TRUE]
      /\ UNCHANGED <<flaws, tree, head, docs, build>>
  BY DEF Begin, ReleaseInv, ReleaseTyped
<1>2. Planned(t)
  BY TargetsPlanned
<1>3. ReleaseTyped'
  BY <1>1, <1>2 DEF ReleaseInv, ReleaseTyped, Planned
<1>4. DocsRight(docs)' /\ DocsRight(head.docs)'
  <2>1. runs \in Nat /\ DocsRight(docs) /\ DocsRight(head.docs)
    BY DEF ReleaseInv, ReleaseTyped
  <2>2. ASSUME NEW n \in Nat, n <= runs PROVE n <= runs'
    BY <1>1, <2>1, <2>2
  <2>3. /\ \A d \in Doc : docs[d].run \in Nat /\ docs[d].run <= runs'
        /\ \A d \in Doc : head.docs[d].run \in Nat /\ head.docs[d].run <= runs'
    BY <2>1, <2>2 DEF DocsRight
  <2> QED BY <1>1, <2>1, <2>3 DEF DocsRight, StatusRight
<1>5. trial'.whole => t # FinalCheck /\ Len(t) > 1
  BY <1>1
<1>6. "traceability" \in Gate
  BY Gates
<1>7. TodoRight'
  BY <1>1, <1>2, <1>5, <1>6
     DEF Planned, TodoRight, Synced, PedigreeMade, BinaryBuilt, GatesPassed, Flawless
<1> QED BY <1>3, <1>4, <1>7 DEF ReleaseInv

LEMMA DeveloperKeeps ==
  ASSUME ReleaseInv, Developing
  PROVE  ReleaseInv'
<1>0. trial \in [whole : BOOLEAN, steady : BOOLEAN, ready : BOOLEAN, alone : BOOLEAN]
  BY DEF ReleaseInv, ReleaseTyped
<1>1. CASE Commit \/ Tag
  <2>1. /\ UNCHANGED <<flaws, tree, docs, build, todo, runs>>
        /\ trial' = [trial EXCEPT !.ready = FALSE] /\ head'.docs \in {docs, head.docs}
    BY <1>1 DEF Commit, Tag, Touched
  <2>2. /\ trial'.alone = trial.alone /\ trial'.steady = trial.steady
        /\ trial'.whole = trial.whole
        /\ trial' \in [whole : BOOLEAN, steady : BOOLEAN, ready : BOOLEAN, alone : BOOLEAN]
    BY <1>0, <2>1
  <2>3. ReleaseTyped'
    BY <2>1, <2>2 DEF ReleaseInv, ReleaseTyped
  <2>4. DocsRight(docs)' /\ DocsRight(head.docs)'
    BY <2>1 DEF ReleaseInv, DocsRight, StatusRight
  <2>5. TodoRight'
    BY <2>1, <2>2 DEF ReleaseInv, TodoRight, Synced, PedigreeMade, BinaryBuilt, GatesPassed,
                      Flawless, Written
  <2> QED BY <2>3, <2>4, <2>5 DEF ReleaseInv
<1>2. CASE RestoreDocs
  <2>1. /\ UNCHANGED <<flaws, tree, head, build, todo, runs>> /\ docs' = head.docs
        /\ trial' = [[trial EXCEPT !.alone = FALSE] EXCEPT !.ready = FALSE]
    BY <1>2 DEF RestoreDocs, Touched
  <2>2. /\ trial'.alone = FALSE /\ trial'.steady = trial.steady
        /\ trial'.whole = trial.whole
        /\ trial' \in [whole : BOOLEAN, steady : BOOLEAN, ready : BOOLEAN, alone : BOOLEAN]
    BY <1>0, <2>1
  <2>3. ReleaseTyped'
    BY <2>1, <2>2 DEF ReleaseInv, ReleaseTyped
  <2>4. DocsRight(docs)' /\ DocsRight(head.docs)'
    BY <2>1 DEF ReleaseInv, DocsRight, StatusRight
  <2>5. TodoRight'
    BY <2>1, <2>2 DEF ReleaseInv, TodoRight, Synced, PedigreeMade, BinaryBuilt, GatesPassed,
                      Flawless, Written
  <2> QED BY <2>3, <2>4, <2>5 DEF ReleaseInv
<1>3. ASSUME NEW v \in Version, Edit(v) PROVE ReleaseInv'
  <2>1. /\ UNCHANGED <<flaws, head, docs, build, todo, runs>> /\ tree' = v
        /\ trial' = [[trial EXCEPT !.steady = FALSE] EXCEPT !.ready = FALSE]
    BY <1>3 DEF Edit, Touched
  <2>2. /\ trial'.alone = trial.alone /\ trial'.steady = FALSE
        /\ trial' \in [whole : BOOLEAN, steady : BOOLEAN, ready : BOOLEAN, alone : BOOLEAN]
    BY <1>0, <2>1
  <2>3. ReleaseTyped'
    BY <2>1, <2>2 DEF ReleaseInv, ReleaseTyped
  <2>4. DocsRight(docs)' /\ DocsRight(head.docs)'
    BY <2>1 DEF ReleaseInv, DocsRight, StatusRight
  <2>5. TodoRight'
    BY <2>1, <2>2 DEF ReleaseInv, TodoRight, Synced, PedigreeMade, BinaryBuilt, GatesPassed,
                      Flawless
  <2> QED BY <2>3, <2>4, <2>5 DEF ReleaseInv
<1> QED BY <1>1, <1>2, <1>3 DEF Developing

LEMMA AsideKeeps ==
  ASSUME ReleaseInv, NEW doc \in {"readiness", "scope", "long_soak"}, NEW content,
         Aside(doc, content)
  PROVE  ReleaseInv'
<1>1. /\ UNCHANGED <<flaws, tree, head, build, todo, runs>> /\ Publish(doc, content)
      /\ trial' = [trial EXCEPT !.ready = FALSE]
  BY DEF Aside
<1>2. /\ trial'.alone = trial.alone /\ trial'.steady = trial.steady
      /\ trial'.whole = trial.whole
      /\ trial' \in [whole : BOOLEAN, steady : BOOLEAN, ready : BOOLEAN, alone : BOOLEAN]
  BY <1>1 DEF ReleaseInv, ReleaseTyped
<1>3. /\ DocsRight(docs)'
      /\ docs'["trace"] = docs["trace"] /\ docs'["qualification"] = docs["qualification"]
  <2>1. doc \in Doc /\ doc \notin {"trace", "qualification", "status", "pedigree"}
        /\ "trace" \in Doc \ {doc} /\ "qualification" \in Doc \ {doc}
    BY DEF Doc
  <2> QED BY <1>1, <2>1, Published DEF ReleaseInv, ReleaseTyped
<1>4. ReleaseTyped'
  BY <1>1, <1>2 DEF ReleaseInv, ReleaseTyped
<1>5. DocsRight(head.docs)'
  BY <1>1 DEF ReleaseInv, DocsRight, StatusRight
<1>6. TodoRight'
  BY <1>1, <1>2, <1>3 DEF ReleaseInv, TodoRight, Synced, PedigreeMade, BinaryBuilt, GatesPassed,
                          Flawless, Written
<1> QED BY <1>3, <1>4, <1>5, <1>6 DEF ReleaseInv

LEMMA ReleaseStarts == Init => ReleaseInv
<1> SUFFICES ASSUME Init PROVE ReleaseInv
  OBVIOUS
<1>1. tree \in Version /\ flaws \in [Version -> SUBSET Flaw]
  BY ReleaseAssumption DEF Init
<1>2. /\ trial = [whole |-> FALSE, steady |-> FALSE, ready |-> FALSE, alone |-> FALSE]
      /\ runs = 0 /\ todo = <<>> /\ docs = [d \in Doc |-> Absent]
      /\ head.docs = docs /\ build = [a \in Artifact |-> Absent]
  BY DEF Init
<1>3. ReleaseTyped
  BY <1>1, <1>2, NothingLeft DEF ReleaseTyped
<1>4. DocsRight(docs) /\ DocsRight(head.docs)
  <2>1. "status" \in Doc /\ "pedigree" \in Doc /\ Absent.run = 0
    BY DEF Doc, Absent
  <2> QED BY <1>2, <2>1 DEF DocsRight
<1>5. TodoRight
  BY <1>2, NothingLeft
     DEF TodoRight, Synced, PedigreeMade, BinaryBuilt, GatesPassed, Flawless
<1> QED BY <1>3, <1>4, <1>5 DEF ReleaseInv

LEMMA ReleaseKeeps ==
  ASSUME ReleaseInv, ReleaseStep
  PROVE  ReleaseInv'
<1>1. CASE Interrupt
  <2>1. Stop /\ UNCHANGED <<developer, docs, build>>
    BY <1>1 DEF Interrupt
  <2> QED BY <2>1, StopKeeps DEF ReleaseInv, ReleaseTyped
<1>2. CASE UNCHANGED vars
  <2>1. UNCHANGED <<flaws, tree, head, docs, build, todo, runs, trial>>
    BY <1>2 DEF vars
  <2>2. ReleaseTyped'
    BY <2>1 DEF ReleaseInv, ReleaseTyped
  <2>3. DocsRight(docs)' /\ DocsRight(head.docs)'
    BY <2>1 DEF ReleaseInv, DocsRight, StatusRight
  <2>4. TodoRight'
    BY <2>1 DEF ReleaseInv, TodoRight, Synced, PedigreeMade, BinaryBuilt, GatesPassed, Flawless,
                Written
  <2> QED BY <2>2, <2>3, <2>4 DEF ReleaseInv
<1> QED
  BY <1>1, <1>2, BeginKeeps, DeveloperKeeps, ToolsKeep, AsideKeeps DEF ReleaseStep

-----------------------------------------------------------------------------

LEMMA ReleaseInvariant == CloseoutSpec => []ReleaseInv
<1>1. CloseoutInit => ReleaseInv
  BY ReleaseStarts DEF CloseoutInit
<1>2. ReleaseInv /\ [CloseoutNext]_<<vars, boards, sitl, budget>> => ReleaseInv'
  BY CloseoutIsRelease, ReleaseKeeps
<1> QED BY <1>1, <1>2, PTL DEF CloseoutSpec

(* A status written at the end of a whole target over sources that stayed  *)
(* is about a version without any flaw a gate or a check refuses           *)
(* (StatusEarned), whatever the flaws of the versions, however often the   *)
(* developer commits, tags or restores documents in between.               *)
THEOREM StatusIsEarned == CloseoutSpec => []StatusEarned
<1>1. ReleaseInv => StatusEarned
  BY DEF ReleaseInv, DocsRight, StatusRight, StatusEarned
<1> QED BY <1>1, ReleaseInvariant, PTL

(* Wherever a target is cut short, a status in docs/ has a matrix and a    *)
(* qualification report of its own run or a later one beside it            *)
(* (StatusIsLast).                                                         *)
THEOREM StatusLast == CloseoutSpec => []StatusIsLast
<1>1. ReleaseInv => StatusIsLast
  BY DEF ReleaseInv, DocsRight, StatusIsLast
<1> QED BY <1>1, ReleaseInvariant, PTL

(* A pedigree in docs/ is of a clean, tagged commit, and the binary in it  *)
(* is the one its run built from that commit (PedigreeIsOfTheTag).         *)
THEOREM PedigreeOfTheTag == CloseoutSpec => []PedigreeIsOfTheTag
<1>1. ReleaseInv => PedigreeIsOfTheTag
  BY DEF ReleaseInv, DocsRight, PedigreeRight, PedigreeIsOfTheTag
<1> QED BY <1>1, ReleaseInvariant, PTL

-----------------------------------------------------------------------------
(* A release candidate on its own.                                         *)

\* What the commands of a target may do: at most one document and one artifact.
LEMMA ToolsMove ==
  ASSUME Tools \/ \E summary : SyncLongSoak(summary)
  PROVE  /\ UNCHANGED <<head, tagged, runs>>
         /\ Stop \/ (todo # <<>> /\ Proceed)
         /\ UNCHANGED <<docs, dirty>> \/ \E doc \in Doc : \E content : Publish(doc, content)
         /\ \/ UNCHANGED build
            \/ \E a \in Artifact : \E made : build' = [build EXCEPT ![a] = made] /\ made.run = runs
         /\ refused' \in {refused, Blockers}
<1> USE DEF developer, Done
<1>d. {"long_soak", "trace", "qualification", "status", "pedigree", "preflight"} \subseteq Doc
  BY DEF Doc
<1>a. {"trace", "flight_software", "qualification", "pedigree", "preflight", "zip"} \subseteq Artifact
  BY DEF Artifact
<1>w. \A of : Written(of).run = runs
  BY DEF Written
<1>1. CASE RunGate
  BY <1>1, <1>a, <1>w DEF RunGate
<1>2. CASE Measure
  BY <1>2, <1>a, <1>w DEF Measure
<1>3. CASE QualificationReport
  BY <1>3, <1>a, <1>w DEF QualificationReport
<1>4. CASE RunFinalCheck \/ StageBundle
  BY <1>4 DEF RunFinalCheck, StageBundle
<1>5. CASE \/ SyncTrace \/ SyncQualification \/ WriteStatus \/ SyncPedigree \/ SyncPreflight
           \/ \E summary : SyncLongSoak(summary)
  <2>1. \E doc \in Doc : \E content : Publish(doc, content)
    BY <1>5, <1>d
       DEF SyncTrace, SyncQualification, WriteStatus, SyncPedigree, SyncPreflight, SyncLongSoak
  <2> QED
    BY <1>5, <2>1
       DEF SyncTrace, SyncQualification, WriteStatus, SyncPedigree, SyncPreflight, SyncLongSoak
<1>6. CASE RunPedigree
  <2>1. PedigreeReport.run = runs
    BY DEF PedigreeReport
  <2>2. /\ UNCHANGED <<head, tagged, runs, docs, dirty>>
        /\ Stop \/ (todo # <<>> /\ Proceed)
        /\ refused' \in {refused, Blockers}
        /\ UNCHANGED build
           \/ \E a \in {"pedigree", "preflight"} : build' = [build EXCEPT ![a] = PedigreeReport]
    BY <1>6 DEF RunPedigree
  <2> QED BY <1>a, <2>1, <2>2
<1>7. CASE WriteZip
  <2>1. PICK made : made = [run |-> runs, status |-> docs["status"]]
    OBVIOUS
  <2>2. made.run = runs /\ build' = [build EXCEPT !["zip"] = made]
    BY <1>7, <2>1 DEF WriteZip
  <2> QED BY <1>7, <1>a, <2>2 DEF WriteZip
<1> QED BY <1>1, <1>2, <1>3, <1>4, <1>5, <1>6, <1>7 DEF Tools

\* Nobody has cleaned up behind the status document.
Soiled ==
  trial.ready /\ Has(todo, "pedigree_release") => Has(todo, "write_status") \/ dirty # {}

LEMMA SoiledKeeps ==
  ASSUME ReleaseInv, Soiled, ReleaseStep
  PROVE  Soiled'
<1>0. /\ ReleaseTyped
      /\ trial \in [whole : BOOLEAN, steady : BOOLEAN, ready : BOOLEAN, alone : BOOLEAN]
  BY DEF ReleaseInv, ReleaseTyped
<1>1. ASSUME NEW t \in Target, Begin(t) PROVE Soiled'
  BY <1>1, TargetsPlanned DEF Begin, Planned, Soiled
<1>2. CASE Interrupt
  BY <1>2, NothingLeft DEF Interrupt, Stop, Soiled
<1>3. CASE Developing \/ \E doc, content : Aside(doc, content)
  <2>1. trial'.ready = FALSE
    BY <1>0, <1>3 DEF Developing, Commit, Tag, RestoreDocs, Edit, Touched, Aside
  <2> QED BY <2>1 DEF Soiled
<1>4. CASE Tools \/ \E summary : SyncLongSoak(summary)
  <2>1. /\ UNCHANGED runs
        /\ Stop \/ (todo # <<>> /\ Proceed)
        /\ UNCHANGED <<docs, dirty>> \/ \E doc \in Doc : \E content : Publish(doc, content)
    BY <1>4, ToolsMove
  <2>2. UNCHANGED trial
    BY <1>4 DEF Tools, RunGate, Measure, QualificationReport, RunFinalCheck, SyncTrace,
                SyncQualification, WriteStatus, RunPedigree, SyncPedigree, SyncPreflight,
                StageBundle, WriteZip, SyncLongSoak, developer
  <2>3. CASE Stop
    BY <2>3, NothingLeft DEF Stop, Soiled
  <2>4. CASE todo # <<>> /\ Proceed
    <3>1. \A d : Has(todo, d) <=> d = Head(todo) \/ Has(todo', d)
      BY <1>0, <2>4, PlanTail DEF ReleaseTyped, Proceed
    <3>2. dirty # {} => dirty' # {}
      BY <2>1 DEF Publish
    <3>3. ASSUME Head(todo) = "write_status" PROVE dirty' # {}
      <4>1. ASSUME NEW c, Done(c) PROVE c = "write_status"
        BY <3>3, <4>1 DEF Done
      <4>2. ~RunGate /\ ~RunPedigree
        BY <4>1, Gates DEF RunGate, RunPedigree
      <4>3. WriteStatus
        BY <1>4, <4>1, <4>2
           DEF Tools, Measure, QualificationReport, RunFinalCheck, SyncTrace, SyncQualification,
               SyncPedigree, SyncPreflight, StageBundle, WriteZip, SyncLongSoak
      <4> QED BY <4>3 DEF WriteStatus, Publish
    <3> QED BY <2>2, <3>1, <3>2, <3>3 DEF Soiled
  <2> QED BY <2>1, <2>3, <2>4
<1>5. CASE UNCHANGED vars
  BY <1>5 DEF vars, Soiled
<1> QED BY <1>1, <1>2, <1>3, <1>4, <1>5 DEF ReleaseStep

(* Why no release_candidate gets through by itself: one that was started   *)
(* on a clean, tagged commit and left alone has written tracked documents  *)
(* before it asks git, so that --require-clean-worktree refuses it         *)
(* (CMakeLists.txt:528-536, software_final_check.py:359-374,               *)
(* release_pedigree.py:352-355).                                           *)
CandidateSoilsItself == trial.ready /\ Done("pedigree_release") => ~PedigreeAccepts

(* A release_candidate that starts on a clean, tagged commit and that      *)
(* nobody touches is refused when it gets to its pedigree                  *)
(* (CandidateSoilsItself), whatever the versions, their flaws and what ran *)
(* before: the documents it has to write are tracked ones.  The violated   *)
(* ReleaseOnCleanTag is this for one instance.                             *)
THEOREM CandidateNeverSelfAccepted == CloseoutSpec => []CandidateSoilsItself
<1>1. CloseoutInit => Soiled
  BY NothingLeft DEF CloseoutInit, Init, Soiled
<1>2. ReleaseInv /\ Soiled /\ [CloseoutNext]_<<vars, boards, sitl, budget>> => Soiled'
  BY CloseoutIsRelease, SoiledKeeps
<1>3. ReleaseInv /\ Soiled => CandidateSoilsItself
  <2> SUFFICES ASSUME ReleaseInv, Soiled, trial.ready, Done("pedigree_release"), PedigreeAccepts
               PROVE FALSE
    BY DEF CandidateSoilsItself
  <2>1. Plan(todo) /\ todo # <<>> /\ Head(todo) = "pedigree_release"
    BY DEF Done, ReleaseInv, ReleaseTyped
  <2>2. /\ Has(todo, "pedigree_release")
        /\ Has(todo, "write_status") => Level("pedigree_release") <= Level("write_status")
    BY <2>1, PlanTail
  <2>3. dirty # {}
    BY <2>2 DEF Soiled, Level
  <2> QED BY <2>3 DEF PedigreeAccepts, Blockers
<1> QED BY <1>1, <1>2, <1>3, ReleaseInvariant, PTL DEF CloseoutSpec

-----------------------------------------------------------------------------
(* The types.                                                              *)

\* A program is there while a gate runs, and no artifact is of an attempt
\* that was not made.
SitlDetail ==
  /\ gate.kind = "none" => gate = NoGate
  /\ gate.kind = "none" <=> program.state = "none"
  /\ \A k \in HostGate : results[k].attempt <= lastAttempt[k] /\ lastAttempt[k] <= attempts

LEMMA JudgedDetail ==
  ASSUME SitlInv, SitlDetail, NEW code, NEW p, Judged(code, p)
  PROVE  SitlDetail'
<1> DEFINE r == Result(gate.kind, code, p)
<1>1. r.attempt = lastAttempt[gate.kind]
  BY DEF Result, NoResult
<1>2. /\ results' = [results EXCEPT ![gate.kind] = r]
      /\ gate' = NoGate /\ program' = NoProgram /\ UNCHANGED <<attempts, lastAttempt>>
  BY DEF Judged
<1> HIDE DEF r
<1>3. \A k \in HostGate : results'[k].attempt <= lastAttempt[k]
  BY <1>1, <1>2 DEF SitlInv, SitlTyped, SitlDetail
<1> QED BY <1>2, <1>3 DEF SitlDetail, NoGate, NoProgram

LEMMA SitlDetailKeeps ==
  ASSUME SitlInv, SitlDetail, [SitlNext]_sitl
  PROVE  SitlDetail'
<1>0. SitlTyped /\ Watching
  BY DEF SitlInv
<1>1. ASSUME Watched, program.state = "up", program'.state \in {"up", "gone"}
      PROVE  SitlDetail'
  BY <1>1 DEF Watched, SitlDetail
<1>2. CASE \/ \E line \in Line : PrintLine(line)
           \/ Flush
           \/ \E code \in {"0", "crash"} : Leave(code)
  <2>1. Watched /\ program.state = "up" /\ program'.state \in {"up", "gone"}
    BY <1>0, <1>2 DEF PrintLine, Flush, Leave, SitlTyped, Program
  <2> QED BY <1>1, <2>1
<1>3. ASSUME NEW k \in HostGate, NEW built \in BOOLEAN, Launch(k, built) PROVE SitlDetail'
  <2>0. /\ gate = NoGate /\ attempts \in Nat /\ attempts' = attempts + 1 /\ k # "none"
        /\ lastAttempt' = [lastAttempt EXCEPT ![k] = attempts + 1]
    BY <1>0, <1>3, ProfileAssumption DEF Launch, SitlTyped, HostGate
  <2>1. \A h \in HostGate : results[h].attempt <= lastAttempt'[h] /\ lastAttempt'[h] <= attempts'
    BY <1>0, <2>0 DEF SitlTyped, SitlDetail
  <2>2. CASE built
    <3>1. gate'.kind = k /\ program'.state = "up" /\ results' = results
      BY <1>3, <2>2 DEF Launch, NoGate, NoProgram
    <3> QED BY <2>0, <2>1, <3>1 DEF SitlDetail
  <2>3. CASE ~built
    <3>1. PICK r : r = [NoResult EXCEPT !.status = "FAIL", !.attempt = attempts + 1]
      OBVIOUS
    <3>2. r.attempt = attempts + 1
      BY <3>1 DEF NoResult
    <3>3. results' = [results EXCEPT ![k] = r] /\ UNCHANGED <<program, gate>>
      BY <1>3, <2>3, <3>1 DEF Launch
    <3>4. \A h \in HostGate : results'[h].attempt <= lastAttempt'[h]
      BY <1>0, <2>0, <2>1, <3>2, <3>3 DEF SitlTyped
    <3> QED BY <2>1, <3>3, <3>4 DEF SitlDetail
  <2> QED BY <2>2, <2>3
<1>4. CASE SendTraffic \/ Poll \/ LastPoll
  <2>1. gate.kind # "none"
    BY <1>0, <1>4 DEF SendTraffic, Poll, LastPoll, Watching, HostGate, SitlDetail, NoGate
  <2>2. CASE \E code, p : Judged(code, p)
    BY <2>2, JudgedDetail
  <2>3. CASE UNCHANGED <<program, results, attempts, lastAttempt>> /\ gate'.kind = gate.kind
    BY <2>1, <2>3 DEF SitlDetail
  <2> QED BY <1>0, <1>4, <2>2, <2>3 DEF SendTraffic, Poll, LastPoll, SitlTyped
<1>5. CASE StopAndJudge
  <2>1. \E code, p : Judged(code, p)
    BY <1>5 DEF StopAndJudge
  <2> QED BY <2>1, JudgedDetail
<1>6. CASE GateCancelled
  <2>1. CASE gate.kind = "fault"
    BY <1>6, <2>1, JudgedDetail DEF GateCancelled
  <2>2. CASE gate.kind # "fault"
    BY <1>6, <2>2 DEF GateCancelled, SitlDetail, NoGate, NoProgram
  <2> QED BY <2>1, <2>2
<1>7. CASE UNCHANGED sitl
  BY <1>7 DEF sitl, SitlDetail
<1> QED BY <1>2, <1>3, <1>4, <1>5, <1>6, <1>7 DEF SitlNext

LEMMA SitlTypeInvariant == CloseoutSpec => []SitlTypeOK
<1>1. CloseoutInit => SitlInv /\ SitlDetail
  <2>1. SitlInit => SitlDetail
    BY DEF SitlInit, SitlDetail, NoGate, NoProgram, NoResult
  <2> QED BY <2>1, SitlStarts DEF CloseoutInit
<1>2. SitlInv /\ SitlDetail /\ [CloseoutNext]_<<vars, boards, sitl, budget>>
        => (SitlInv /\ SitlDetail)'
  BY SitlKeeps, SitlDetailKeeps, CloseoutIsSitl
<1>3. SitlInv /\ SitlDetail => SitlTypeOK
  <2> SUFFICES ASSUME SitlInv, SitlDetail PROVE SitlTypeOK
    OBVIOUS
  <2>1. SitlTyped /\ Watching
    BY DEF SitlInv
  <2>2. gate = NoGate <=> program.state = "none"
    BY DEF SitlDetail, NoGate
  <2>3. \A k \in HostGate : results[k].status \in {"MISSING", "PASS", "FAIL"}
    BY <2>1 DEF SitlTyped
  <2> QED BY <2>1, <2>2, <2>3 DEF SitlTyped, Program, SitlDetail, SitlTypeOK
<1> QED BY <1>1, <1>2, <1>3, PTL DEF CloseoutSpec

-----------------------------------------------------------------------------
\* Besides what is heard, a step has an exit code or one more campaign by hand.
LEMMA CampaignMoves ==
  ASSUME TeamTyped, ReadinessStep
  PROVE  /\ \/ Listen
            \/ \E kind \in Kind, duration \in Nat : Start(kind, duration)
            \/ \E kind \in Kind : NotStarted(kind)
            \/ UNCHANGED <<board, session, artifacts>> /\ verdict' \in {verdict, None}
         /\ sessions' = sessions \/ (sessions < MaxSessions /\ sessions' = sessions + 1)
<1>1. CASE Collecting
  <2>1. CASE Hearing \/ Interrupted
    <3>1. Listen
      BY <2>1 DEF Hearing, Interrupted, Listen
    <3>2. Listen => sessions' = sessions
      BY DEF Listen, Ready, Overrun, Brownout, Panic, Metric, NextCycle, Deadline, Unplugged,
             Close, Cancelled, Listened
    <3> QED BY <3>1, <3>2
  <2>2. CASE TeamCampaign
    <3>1. PICK kind \in Kind :
            Start(kind, IF kind = "soak" THEN team.duration ELSE 0) \/ NotStarted(kind)
      BY <2>2 DEF TeamCampaign
    <3>2. (IF kind = "soak" THEN team.duration ELSE 0) \in Nat
      BY DEF TeamTyped, SequenceTyped
    <3> QED BY <2>2, <3>1, <3>2 DEF TeamCampaign
  <2>3. ASSUME NEW k \in Kind, NEW d \in (IF k = "soak" THEN Durations ELSE {0}), ByHand(k, d)
        PROVE  /\ (\E kind \in Kind, duration \in Nat : Start(kind, duration))
                  \/ \E kind \in Kind : NotStarted(kind)
               /\ sessions < MaxSessions /\ sessions' = sessions + 1
    <3>1. d \in Nat
      BY CampaignAssumption
    <3> QED BY <2>3, <3>1 DEF ByHand
  <2>4. CASE TeamWaited \/ TeamReport(FALSE, NoReport) \/ TeamScope(FALSE)
    BY <2>4 DEF TeamWaited, TeamReport, TeamScope, campaign
  <2> QED BY <1>1, <2>1, <2>2, <2>3, <2>4 DEF Collecting
<1>2. CASE ~Collecting
  BY <1>2 DEF ReadinessStep, Reporting, Scoping, MakeReport, MakeScoped, TeamReport, TeamScope,
             TeamStart, HostGates, TeamInterrupted, readiness, campaign
<1> QED BY <1>1, <1>2

\* A campaign that goes on.
LEMMA ListenedTyped ==
  ASSUME CampaignTypeOK, artifacts' = artifacts, verdict' = verdict, UNCHANGED sessions,
         board' \in [phase : {"off", "boot", "run"}, overruns : 0 .. MaxOverruns],
         session'.kind \in Kind /\ session'.cycle \in 1 .. Cycles,
         session'.bad < session'.cycle /\ session'.samples \in 0 .. MinSamples,
         session'.banners <= session'.boots
  PROVE  CampaignTypeOK'
BY DEF CampaignTypeOK

\* One that ends.
LEMMA ClosedTyped ==
  ASSUME CampaignTypeOK, Open, session' = Closed, UNCHANGED sessions, NEW code \in 0 .. 8,
         board' = [board EXCEPT !.phase = "off", !.overruns = 0],
         verdict' = [kind |-> session.kind, code |-> code],
         artifacts' = artifacts \/ artifacts' = artifacts \cup {Report(code)}
  PROVE  CampaignTypeOK'
<1>1. ~Open'
  BY DEF Open
<1>2. session.kind \in Kind /\ Report(code).kind = session.kind
  BY DEF CampaignTypeOK, Report, Kind
<1>3. board' \in [phase : {"off", "boot", "run"}, overruns : 0 .. MaxOverruns]
  <2>1. board \in [phase : {"off", "boot", "run"}, overruns : 0 .. MaxOverruns]
    BY DEF CampaignTypeOK
  <2>2. 0 \in 0 .. MaxOverruns
    BY CampaignAssumption
  <2> QED BY <2>1, <2>2
<1>4. \A a \in artifacts' : a.kind \in Kind
  BY <1>2 DEF CampaignTypeOK
<1>5. verdict'.kind \in Kind /\ verdict'.code \in 0 .. 8
  BY <1>2
<1> QED BY <1>1, <1>3, <1>4, <1>5 DEF CampaignTypeOK

LEMMA ListenTyped ==
  ASSUME CampaignInv, CampaignTypeOK, Listen
  PROVE  CampaignTypeOK'
<1>0. /\ Open => session \in Heard
      /\ Open => /\ session.kind \in Kind /\ session.cycle \in 1 .. Cycles
                 /\ session.bad < session.cycle /\ session.samples \in 0 .. MinSamples
                 /\ session.banners <= session.boots
      /\ board \in [phase : {"off", "boot", "run"}, overruns : 0 .. MaxOverruns]
      /\ Cycles \in Nat \ {0} /\ MinSamples \in Nat /\ MaxOverruns \in Nat
  BY CampaignAssumption DEF CampaignInv, CampaignTyped, CampaignTypeOK
<1>b. Booting \in [phase : {"off", "boot", "run"}, overruns : 0 .. MaxOverruns]
  BY <1>0 DEF Booting
<1>1. CASE Ready
  <2>1. /\ Open /\ board' = [board EXCEPT !.phase = "run"] /\ Listened
        /\ session' = [session EXCEPT !.marked = TRUE]
    BY <1>1 DEF Ready
  <2>2. board' \in [phase : {"off", "boot", "run"}, overruns : 0 .. MaxOverruns]
    BY <1>0, <2>1
  <2>3. /\ session'.kind = session.kind /\ session'.cycle = session.cycle
        /\ session'.bad = session.bad /\ session'.samples = session.samples
        /\ session'.banners = session.banners /\ session'.boots = session.boots
    BY <1>0, <2>1 DEF Heard
  <2> QED BY <1>0, <2>1, <2>2, <2>3, ListenedTyped DEF Listened
<1>2. CASE Overrun
  <2>1. /\ Open /\ board' = [board EXCEPT !.overruns = board.overruns + 1] /\ Listened
        /\ session' = session /\ board.overruns < MaxOverruns
    BY <1>2 DEF Overrun
  <2>2. board' \in [phase : {"off", "boot", "run"}, overruns : 0 .. MaxOverruns]
    BY <1>0, <2>1
  <2> QED BY <1>0, <2>1, <2>2, ListenedTyped DEF Listened
<1>3. CASE Brownout \/ Panic
  <2>1. PICK r : r = Restarted
    OBVIOUS
  <2>2. /\ r.kind = session.kind /\ r.cycle = session.cycle /\ r.bad = session.bad
        /\ r.samples = session.samples
        /\ r.banners = session.banners + 1 /\ r.boots = session.boots + 1 /\ r \in Heard
    BY <1>0, <1>3, <2>1, RestartedTyped DEF Restarted, Heard, Brownout, Panic
  <2>3. /\ Open /\ board' = Booting /\ Listened
        /\ session' = r \/ session' = [r EXCEPT !.failed = TRUE, !.spoilt = TRUE]
    BY <1>3, <2>1 DEF Brownout, Panic
  <2>4. /\ session'.kind = session.kind /\ session'.cycle = session.cycle
        /\ session'.bad = session.bad /\ session'.samples = session.samples
        /\ session'.banners = session.banners + 1 /\ session'.boots = session.boots + 1
    BY <2>2, <2>3 DEF Heard
  <2>5. session'.banners <= session'.boots
    BY <1>0, <2>3, <2>4 DEF Heard
  <2> QED BY <1>0, <1>b, <2>3, <2>4, <2>5, ListenedTyped DEF Listened
<1>4. ASSUME NEW slow \in BOOLEAN, Metric(slow) PROVE CampaignTypeOK'
  <2> DEFINE i == IF session.samples < MinSamples THEN session.samples + 1 ELSE session.samples
             k == IF session.boots = 1 /\ board.overruns > session.worst
                  THEN board.overruns ELSE session.worst
             b == session.slow \/ slow
  <2>1. /\ Open /\ UNCHANGED board /\ Listened
        /\ session' = [session EXCEPT !.samples = i, !.slow = b, !.overruns = board.overruns,
                                      !.worst = k]
    BY <1>4 DEF Metric
  <2>2. i \in 0 .. MinSamples
    BY <1>0, <2>1 DEF Heard
  <2> HIDE DEF i, k, b
  <2>3. /\ session'.kind = session.kind /\ session'.cycle = session.cycle
        /\ session'.bad = session.bad /\ session'.samples = i
        /\ session'.banners = session.banners /\ session'.boots = session.boots
    BY <1>0, <2>1 DEF Heard
  <2> QED BY <1>0, <2>1, <2>2, <2>3, ListenedTyped DEF Listened
<1>5. CASE NextCycle
  <2>1. PICK first \in {0, 1} :
          session' = [Silence("reboot", 0, first) EXCEPT
                        !.cycle = session.cycle + 1,
                        !.bad = session.bad + (IF CycleFails THEN 1 ELSE 0),
                        !.spoilt = session.spoilt]
    BY <1>5 DEF NextCycle
  <2>2. /\ Open /\ board' = Booting /\ Listened /\ session.cycle < Cycles
    BY <1>5 DEF NextCycle
  <2>3. /\ session'.kind = "reboot" /\ session'.cycle = session.cycle + 1
        /\ session'.bad = session.bad + (IF CycleFails THEN 1 ELSE 0)
        /\ session'.samples = 0 /\ session'.banners = first /\ session'.boots = 1
    BY <2>1 DEF Silence
  <2>4. /\ session'.cycle \in 1 .. Cycles /\ session'.bad < session'.cycle
        /\ session'.samples \in 0 .. MinSamples /\ session'.banners <= session'.boots
    BY <1>0, <2>2, <2>3 DEF Heard
  <2> QED BY <1>b, <2>2, <2>3, <2>4, ListenedTyped DEF Listened, Kind
<1>6. ASSUME NEW code \in 0 .. 8, Open, Close(code) PROVE CampaignTypeOK'
  BY <1>6, ClosedTyped DEF Close
<1>7. CASE Deadline
  <2> DEFINE code == CASE session.kind = "soak"   -> SoakCode
                       [] session.kind = "guard"  -> GuardCode
                       [] session.kind = "reboot" -> IF session.bad > 0 \/ CycleFails THEN 4 ELSE 0
  <2>1. Open /\ Close(code)
    BY <1>7 DEF Deadline
  <2>2. code \in 0 .. 8
    BY <1>0, <2>1 DEF SoakCode, GuardCode, Kind
  <2> HIDE DEF code
  <2> QED BY <1>6, <2>1, <2>2
<1>8. CASE Unplugged
  <2>1. Open /\ Close(IF session.kind = "guard" THEN 4 ELSE 3)
    BY <1>8 DEF Unplugged
  <2>2. (IF session.kind = "guard" THEN 4 ELSE 3) \in 0 .. 8
    OBVIOUS
  <2> QED BY <1>6, <2>1, <2>2
<1>9. CASE Cancelled
  BY <1>9, ClosedTyped DEF Cancelled
<1> QED BY <1>1, <1>2, <1>3, <1>4, <1>5, <1>7, <1>8, <1>9 DEF Listen

LEMMA CampaignTypeKeeps ==
  ASSUME EvidenceInv, CampaignTypeOK, ReadinessStep
  PROVE  CampaignTypeOK'
<1>0. CampaignInv /\ TeamTyped
  BY DEF EvidenceInv, TeamInv
<1>1. sessions' \in 0 .. MaxSessions
  BY <1>0, CampaignMoves, CampaignAssumption DEF CampaignTypeOK
<1>2. CASE Listen
  BY <1>0, <1>2, ListenTyped
<1>3. ASSUME NEW kind \in Kind, NEW duration \in Nat, Start(kind, duration)
      PROVE  CampaignTypeOK'
  <2>1. PICK first \in {0, 1} : session' = Silence(kind, duration, first)
    BY <1>3 DEF Start
  <2>2. board' = Booting /\ UNCHANGED <<artifacts, verdict>>
    BY <1>3 DEF Start
  <2>3. /\ session'.kind = kind /\ session'.cycle = 1 /\ session'.bad = 0
        /\ session'.samples = 0 /\ session'.banners = first /\ session'.boots = 1
    BY <2>1 DEF Silence
  <2>4. /\ session'.cycle \in 1 .. Cycles /\ session'.bad < session'.cycle
        /\ session'.samples \in 0 .. MinSamples /\ session'.banners <= session'.boots
        /\ board' \in [phase : {"off", "boot", "run"}, overruns : 0 .. MaxOverruns]
    BY <2>2, <2>3, CampaignAssumption DEF Booting
  <2> QED BY <1>1, <2>2, <2>3, <2>4 DEF CampaignTypeOK
<1>4. ASSUME NEW kind \in Kind, NotStarted(kind) PROVE CampaignTypeOK'
  <2>1. verdict'.kind = kind /\ verdict'.code \in {2, 3} /\ UNCHANGED <<board, session, artifacts>>
    BY <1>4 DEF NotStarted
  <2>2. verdict'.code \in 0 .. 8
    BY <2>1
  <2> QED BY <1>1, <2>1, <2>2 DEF CampaignTypeOK, Open
<1>5. CASE UNCHANGED <<board, session, artifacts>> /\ verdict' \in {verdict, None}
  <2>1. None.kind \in Kind \cup {"none"} /\ None.code \in 0 .. 8
    BY DEF None
  <2> QED BY <1>1, <1>5, <2>1 DEF CampaignTypeOK, Open
<1> QED BY <1>0, <1>2, <1>3, <1>4, <1>5, CampaignMoves

\* Nothing is waived in the full report.
LEMMA ReadingsTyped ==
  ASSUME NEW software, NEW manifest
  PROVE  Readings({}, software, manifest) \in [Check -> {"PASS", "FAIL", "MANUAL"}]
<1>1. \A text : RecordVerdict(text) \in {"PASS", "FAIL", "MANUAL"}
  <2>1. \A words : Classified(words) \in {"PASS", "FAIL", "MANUAL", "none"}
    BY DEF Classified
  <2>2. \A cells : TableVerdict(cells) \in {"PASS", "FAIL", "MANUAL"}
    BY DEF TableVerdict
  <2> QED BY <2>1, <2>2 DEF RecordVerdict
<1>2. \A check \in Check : Verdict(check, software, manifest) \in {"PASS", "FAIL", "MANUAL"}
  BY <1>1 DEF Verdict, PassIf, Check, BoardCheck
<1> QED BY <1>2 DEF Readings

LEMMA SuffixOfStep ==
  ASSUME TeamTyped
  PROVE  /\ \E n \in 0 .. Len(Step) : team.left = SubSeq(Step, n + 1, Len(Step))
         /\ team.result \in {"none", "PASS", "FAIL"}
<1>0. /\ team.left \in Seq(StepName) /\ Len(team.left) \in 0 .. 6
      /\ \A i \in 1 .. Len(team.left) : team.left[i] = Step[6 - Len(team.left) + i]
      /\ team.result \in {"none", "PASS", "FAIL"}
  <2>1. team.left \in Seq(StepName) /\ Len(team.left) <= 6
    BY DEF TeamTyped, SequenceTyped
  <2>2. Len(team.left) \in 0 .. 6
    <3>1. Len(team.left) \in {0, 1, 2, 3, 4, 5, 6}
      BY StepsLeft
    <3> QED BY <3>1
  <2> QED BY <2>1, <2>2 DEF TeamTyped, SequenceTyped
<1>1. Step \in Seq(StepName) /\ Len(Step) = 6
  BY DEF Step, StepName
<1> DEFINE n == 6 - Len(team.left)
<1>2. n \in 0 .. 6 /\ 6 - (n + 1) + 1 = Len(team.left)
  <2>1. PICK l \in 0 .. 6 : l = Len(team.left)
    BY <1>0
  <2>2. 6 - l \in 0 .. 6 /\ 6 - (6 - l + 1) + 1 = l
    OBVIOUS
  <2> QED BY <2>1, <2>2
<1>3. \A i \in n + 1 .. 6 : Step[i] \in StepName
  <2>1. DOMAIN Step = 1 .. 6
    BY <1>1, LenProperties
  <2>2. \A i \in 1 .. 6 : Step[i] \in StepName
    BY <1>1, <2>1, LenProperties
  <2> HIDE DEF n
  <2> QED BY <1>2, <2>2
<1>4. /\ SubSeq(Step, n + 1, 6) \in Seq(StepName)
      /\ Len(SubSeq(Step, n + 1, 6)) = IF n + 1 <= 6 THEN 6 - (n + 1) + 1 ELSE 0
      /\ \A i \in 1 .. 6 - (n + 1) + 1 : SubSeq(Step, n + 1, 6)[i] = Step[n + 1 + i - 1]
  <2>1. n + 1 \in Int /\ 6 \in Int
    BY <1>2
  <2> HIDE DEF n
  <2> QED BY <1>3, <2>1, SubSeqProperties
<1>5. Len(SubSeq(Step, n + 1, 6)) = Len(team.left)
  BY <1>0, <1>2, <1>4
<1>6. \A i \in 1 .. Len(team.left) : team.left[i] = SubSeq(Step, n + 1, 6)[i]
  <2> TAKE i \in 1 .. Len(team.left)
  <2>1. n + 1 + i - 1 = 6 - Len(team.left) + i
    BY <1>0
  <2> QED BY <1>0, <1>2, <1>4, <2>1
<1>7. team.left = SubSeq(Step, n + 1, 6)
  <2> HIDE DEF n
  <2> QED BY <1>0, <1>4, <1>5, <1>6, SeqEqual
<1> HIDE DEF n
<1> QED BY <1>0, <1>1, <1>2, <1>7

ReportTyped == IsReport(report) => report \in [Check -> {"PASS", "FAIL", "MANUAL"}]

LEMMA ReadinessTypeInvariant == CloseoutSpec => []ReadinessTypeOK
<1>1. CloseoutInit => CampaignTypeOK /\ ReportTyped
  <2>1. CampaignInit => CampaignTypeOK
    BY CampaignAssumption DEF CampaignInit, CampaignTypeOK, Open, None
  <2> QED BY <2>1 DEF CloseoutInit, ReadinessInit, ReportTyped, IsReport
<1>2. EvidenceInv /\ (CampaignTypeOK /\ ReportTyped)
        /\ [CloseoutNext]_<<vars, boards, sitl, budget>> => (CampaignTypeOK /\ ReportTyped)'
  <2>1. SUFFICES ASSUME EvidenceInv, CampaignTypeOK, ReportTyped, ReadinessStep
                 PROVE  CampaignTypeOK' /\ ReportTyped'
    BY CloseoutIsReadiness
  <2>2. ReportTyped'
    BY <2>1, ReportMoves, ReadingsTyped DEF ReportTyped, IsReport
  <2> QED BY <2>1, <2>2, CampaignTypeKeeps
<1>3. EvidenceInv /\ CampaignTypeOK /\ ReportTyped => ReadinessTypeOK
  BY SuffixOfStep DEF EvidenceInv, TeamInv, ReportTyped, ReadinessTypeOK
<1> QED BY <1>1, <1>2, <1>3, EvidenceInvariant, PTL DEF CloseoutSpec

-----------------------------------------------------------------------------
\* What is left of a target is a suffix of it.
SuffixOf(t, s) == \E n \in 0 .. Len(t) : s = SubSeq(t, n + 1, Len(t))

LEMMA Suffixes ==
  ASSUME NEW S, NEW t \in Seq(S)
  PROVE  /\ SuffixOf(t, t)
         /\ \A s : SuffixOf(t, s) /\ s # <<>> => SuffixOf(t, Tail(s))
<1>1. Len(t) \in Nat
  BY LenProperties
<1>2. SuffixOf(t, t)
  <2>1. t = SubSeq(t, 0 + 1, Len(t))
    BY SubSeqFull
  <2> QED BY <1>1, <2>1 DEF SuffixOf
<1>3. ASSUME NEW s, SuffixOf(t, s), s # <<>> PROVE SuffixOf(t, Tail(s))
  <2>1. PICK n \in 0 .. Len(t) : s = SubSeq(t, n + 1, Len(t))
    BY <1>3 DEF SuffixOf
  <2>2. n # Len(t)
    BY <1>1, <1>3, <2>1, SubSeqEmpty
  <2>3. n + 1 \in 1 .. Len(t) /\ Len(t) \in n + 1 .. Len(t) /\ n + 1 \in 0 .. Len(t)
    BY <1>1, <2>2
  <2>4. Tail(s) = SubSeq(t, (n + 1) + 1, Len(t))
    BY <2>1, <2>3, HeadTailOfSubSeq
  <2> QED BY <2>3, <2>4 DEF SuffixOf
<1> QED BY <1>2, <1>3

ReleaseDetail ==
  /\ head.sources \in Version /\ tagged \in BOOLEAN
  /\ dirty \subseteq Doc
  /\ \A d \in Doc \ dirty : docs[d] = head.docs[d]
  /\ \A a \in Artifact : build[a].run \in Nat /\ build[a].run <= runs
  /\ todo = <<>> \/ \E t \in Target : SuffixOf(t, todo)
  /\ runs \in 0 .. MaxRuns
  /\ refused \subseteq {"dirty", "untagged"}

LEMMA BlockersTyped == Blockers \subseteq {"dirty", "untagged"}
BY DEF Blockers

\* A document that is written differs from HEAD or is marked as if it did.
LEMMA PublishTyped ==
  ASSUME ReleaseInv, ReleaseDetail, UNCHANGED head,
         UNCHANGED <<docs, dirty>> \/ \E doc \in Doc : \E content : Publish(doc, content)
  PROVE  /\ dirty' \subseteq Doc
         /\ \A d \in Doc \ dirty' : docs'[d] = head'.docs[d]
<1>1. docs = [d \in Doc |-> docs[d]]
  BY DEF ReleaseInv, DocsRight
<1>2. ASSUME NEW doc \in Doc, NEW content, Publish(doc, content)
      PROVE  /\ dirty' = dirty \cup {doc}
             /\ \A d \in Doc \ {doc} : docs'[d] = docs[d]
  BY <1>1, <1>2 DEF Publish
<1> QED BY <1>2 DEF ReleaseDetail

LEMMA ReleaseDetailKeeps ==
  ASSUME ReleaseInv, ReleaseDetail, ReleaseStep
  PROVE  ReleaseDetail'
<1>0. /\ tree \in Version /\ runs \in Nat /\ build = [a \in Artifact |-> build[a]]
      /\ docs = [d \in Doc |-> docs[d]]
  BY DEF ReleaseInv, ReleaseTyped, DocsRight
<1>t. \A t \in Target : t \in Seq(Command)
  BY TargetsPlanned DEF Planned, Plan
<1>1. ASSUME NEW t \in Target, Begin(t) PROVE ReleaseDetail'
  <2>1. /\ runs < MaxRuns /\ runs' = runs + 1 /\ todo' = t /\ refused' = {}
        /\ UNCHANGED <<head, tagged, docs, dirty, build>>
    BY <1>1 DEF Begin
  <2>2. runs' \in 0 .. MaxRuns /\ \A n \in Nat : n <= runs => n <= runs'
    BY <1>0, <2>1, ReleaseAssumption
  <2>3. SuffixOf(t, todo')
    BY <1>t, <2>1, Suffixes
  <2> QED BY <2>1, <2>2, <2>3 DEF ReleaseDetail
<1>2. CASE Interrupt
  BY <1>2 DEF Interrupt, Stop, developer, ReleaseDetail
<1>3. CASE Developing
  <2>1. UNCHANGED <<build, todo, runs, refused>>
    BY <1>3 DEF Developing, Commit, Tag, RestoreDocs, Edit
  <2>2. /\ head'.sources \in Version /\ tagged' \in BOOLEAN /\ dirty' \subseteq Doc
        /\ \A d \in Doc \ dirty' : docs'[d] = head'.docs[d]
    <3>1. CASE Commit
      BY <1>0, <3>1 DEF Commit, ReleaseDetail
    <3>2. CASE Tag \/ RestoreDocs \/ \E v \in Version : Edit(v)
      BY <3>2 DEF Tag, RestoreDocs, Edit, ReleaseDetail
    <3> QED BY <1>3, <3>1, <3>2 DEF Developing
  <2> QED BY <2>1, <2>2 DEF ReleaseDetail
<1>4. CASE Tools \/ \E summary : SyncLongSoak(summary)
  <2>1. /\ UNCHANGED <<head, tagged, runs>>
        /\ Stop \/ (todo # <<>> /\ Proceed)
        /\ UNCHANGED <<docs, dirty>> \/ \E doc \in Doc : \E content : Publish(doc, content)
        /\ \/ UNCHANGED build
           \/ \E a \in Artifact : \E made : build' = [build EXCEPT ![a] = made] /\ made.run = runs
        /\ refused' \in {refused, Blockers}
    BY <1>4, ToolsMove
  <2>2. dirty' \subseteq Doc /\ \A d \in Doc \ dirty' : docs'[d] = head'.docs[d]
    BY <2>1, PublishTyped
  <2>3. todo' = <<>> \/ \E t \in Target : SuffixOf(t, todo')
    <3>1. CASE Stop
      BY <3>1 DEF Stop
    <3>2. CASE todo # <<>> /\ Proceed
      <4>1. PICK t \in Target : SuffixOf(t, todo)
        BY <3>2 DEF ReleaseDetail
      <4> QED BY <1>t, <3>2, <4>1, Suffixes DEF Proceed
    <3> QED BY <2>1, <3>1, <3>2
  <2>4. \A a \in Artifact : build'[a].run \in Nat /\ build'[a].run <= runs'
    BY <1>0, <2>1 DEF ReleaseDetail
  <2> QED BY <2>1, <2>2, <2>3, <2>4, BlockersTyped DEF ReleaseDetail
<1>5. ASSUME NEW doc \in {"readiness", "scope", "long_soak"}, NEW content, Aside(doc, content)
      PROVE  ReleaseDetail'
  <2>1. doc \in Doc /\ Publish(doc, content) /\ UNCHANGED <<head, tagged, build, todo, runs, refused>>
    BY <1>5 DEF Aside, Doc
  <2> QED BY <2>1, PublishTyped DEF ReleaseDetail
<1>6. CASE UNCHANGED vars
  BY <1>6 DEF vars, ReleaseDetail
<1> QED BY <1>1, <1>2, <1>3, <1>4, <1>5, <1>6 DEF ReleaseStep

\* Who touches anything counts it, within the bounds of the behaviour.
TouchesTyped == budget \in Budgets /\ touches \in 0 .. MaxTouches

LEMMA TouchesKeep ==
  ASSUME TouchesTyped, [CloseoutNext]_<<vars, boards, sitl, budget>>
  PROVE  TouchesTyped'
<1>1. /\ touches \in Nat /\ MaxTouches \in Nat
      /\ budget.touches \in Nat /\ budget.touches <= MaxTouches
  BY ReleaseAssumption, BudgetAssumption DEF TouchesTyped
<1>2. /\ budget' = budget
      /\ \/ touches' = touches
         \/ touches < MaxTouches /\ touches' = touches + 1
         \/ touches < budget.touches /\ touches' = touches + 1
  <2>1. CASE Releasing
    <3>1. CASE Developing
      BY <2>1, <3>1 DEF Releasing, Developing, Commit, Tag, RestoreDocs, Edit, Touched
    <3>2. CASE ~Developing
      <4>1. Tools => touches' = touches
        BY DEF Tools, RunGate, Measure, QualificationReport, RunFinalCheck, SyncTrace,
               SyncQualification, WriteStatus, RunPedigree, SyncPedigree, SyncPreflight,
               StageBundle, WriteZip, developer
      <4> QED BY <2>1, <3>2, <4>1 DEF Releasing, Interrupt, Begin, SyncLongSoak, developer
    <3> QED BY <3>1, <3>2
  <2>2. CASE Reports \/ SumUpSoaks
    BY <2>2 DEF Reports, SumUpSoaks, Reported
  <2>3. CASE StartTeam \/ InterruptTeam
    BY <2>3 DEF StartTeam, InterruptTeam, Begin, Interrupt, vars, developer
  <2>4. CASE ByTheBoard \/ EndHostGates \/ Hosting \/ UNCHANGED <<vars, boards, sitl, budget>>
    BY <2>4 DEF ByTheBoard, EndHostGates, Hosting, vars
  <2> QED BY <2>1, <2>2, <2>3, <2>4 DEF CloseoutNext
<1>3. touches' \in 0 .. MaxTouches
  <2>1. PICK n \in Nat, b \in Nat, m \in Nat : n = touches /\ b = budget.touches /\ m = MaxTouches
    BY <1>1
  <2>2. b <= m /\ n <= m
    BY <1>1, <2>1 DEF TouchesTyped
  <2>3. touches' = n \/ (touches' = n + 1 /\ (n < m \/ n < b))
    BY <1>2, <2>1
  <2> QED BY <2>1, <2>2, <2>3
<1> QED BY <1>2, <1>3 DEF TouchesTyped

LEMMA ReleaseTypeInvariant == CloseoutSpec => []TypeOK
<1>1. CloseoutInit => ReleaseDetail /\ TouchesTyped
  <2> SUFFICES ASSUME CloseoutInit PROVE ReleaseDetail /\ TouchesTyped
    OBVIOUS
  <2>1. /\ tree \in Version /\ docs = [d \in Doc |-> Absent]
        /\ head = [sources |-> tree, docs |-> docs] /\ tagged = FALSE /\ dirty = {}
        /\ build = [a \in Artifact |-> Absent] /\ todo = <<>> /\ runs = 0 /\ touches = 0
        /\ refused = {} /\ budget \in Budgets
    BY ReleaseStarts DEF CloseoutInit, Init, ReleaseInv, ReleaseTyped
  <2>2. 0 \in 0 .. MaxRuns /\ 0 \in 0 .. MaxTouches /\ Absent.run = 0
    BY ReleaseAssumption DEF Absent
  <2>3. /\ head.sources = tree /\ head.docs = docs /\ \A a \in Artifact : build[a] = Absent
    BY <2>1
  <2>4. \A a \in Artifact : build[a].run = 0
    BY <2>2, <2>3
  <2>5. TouchesTyped /\ runs \in 0 .. MaxRuns
    BY <2>1, <2>2 DEF TouchesTyped
  <2>6. \A a \in Artifact : build[a].run \in Nat /\ build[a].run <= runs
    BY <2>1, <2>4
  <2>7. /\ head.sources \in Version /\ tagged \in BOOLEAN /\ dirty \subseteq Doc
        /\ \A d \in Doc \ dirty : docs[d] = head.docs[d]
        /\ todo = <<>> /\ refused \subseteq {"dirty", "untagged"}
    BY <2>1, <2>3
  <2> QED BY <2>5, <2>6, <2>7 DEF ReleaseDetail
<1>2. ReleaseInv /\ (ReleaseDetail /\ TouchesTyped)
        /\ [CloseoutNext]_<<vars, boards, sitl, budget>> => (ReleaseDetail /\ TouchesTyped)'
  BY CloseoutIsRelease, ReleaseDetailKeeps, TouchesKeep
<1>3. ReleaseInv /\ ReleaseDetail /\ TouchesTyped => TypeOK
  <2> SUFFICES ASSUME ReleaseInv, ReleaseDetail, TouchesTyped PROVE TypeOK
    OBVIOUS
  <2>1. \A d \in Doc : docs[d].run <= runs /\ head.docs[d].run <= runs
    BY DEF ReleaseInv, DocsRight
  <2> QED
    BY <2>1 DEF ReleaseInv, ReleaseTyped, ReleaseDetail, TouchesTyped, SuffixOf, TypeOK
<1> QED BY <1>1, <1>2, <1>3, ReleaseInvariant, PTL DEF CloseoutSpec

(* Every variable of the workspace has its type (CloseoutTypeOK): no       *)
(* document, artifact or result claims a run or an attempt that was not    *)
(* made, a document git holds clean is that of HEAD, what a target or a    *)
(* sequence has left is the end of it, and a host program runs only while  *)
(* a gate does, whatever the versions, flaws, lengths of soaks, records,   *)
(* profiles and bounds.                                                    *)
THEOREM CloseoutTypeCorrect == CloseoutSpec => []CloseoutTypeOK
BY ReleaseTypeInvariant, ReadinessTypeInvariant, SitlTypeInvariant, PTL DEF CloseoutTypeOK

=============================================================================
