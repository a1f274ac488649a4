# TLA+ models of the DELTA-V flight framework

DELTA-V is a C++ flight-software framework: components with typed ports,
scheduled in rate groups, supervised by a watchdog that keeps a mission state,
and commanded over a radio link. Around it stand the Python tools that turn
`topology.yaml` into code, gate a release, and collect the evidence for it.
This directory models the parts whose correctness depends on *order*: threads
on shared queues, a supervisor that looks at components while they fail,
commands that are checked at one moment and executed at another, frames that
are lost, repeated and reordered, a process that can die between two steps;
and, on the developer's side, files that two tools write, documents that are
copied one by one, and reports that are judged long after they were made. TLC checks the models on small
instances; TLAPS proves the central properties for every value of the
constants.

Paths below are relative to the repository; `X.hpp` means `src/X.hpp` in it.

## 1. The system

### Components

| Part | State | Operations | What makes it correct |
|---|---|---|---|
| Port / RingBuffer (`Port.hpp`) | slots, head, tail, overflow_count | push, pop, drainOverflowCount | a queue: whole packets, once, in order; refuses only when full, and counts that |
| Component, ActiveComponent (`Component.hpp`, `Os.hpp`) | error_count; a worker thread with `running` | recordError, reportHealth, clearErrors, startThread, joinThread | errors are seen by the supervisor; at most one worker per component |
| WatchdogComponent | mission_state, last_batt_soc, restart_counts, cycles | init, step (battery, subsystems, recovery, periodic checks), restart of active components | the mission state always answers the worst fault known; EMERGENCY needs a cause; recovery is earned |
| MissionFsm | none | isAllowedClass | which class of command is legal in which state |
| CommandHub | routes, policies | step, dispatchCommand | legal commands reach their target or are refused visibly; a refusal disturbs nothing else |
| EventHub, TelemHub | source and listener lists | step | drains its sources once per tick |
| RateGroupExecutive (`main.cpp`) | running_, FAST, NORM threads | registerX, initAll, startAll, requestStop, stopAll | fixed order within a tick; everything joined at shutdown |
| TelemetryBridge (radio, the only active component) | socket or serial port, replay state, replay file | sendTelemetry, sendEvents, receiveCommands, loadReplayState, persistReplayState | a command runs at most once and in order, across restarts; fresh commands are not refused |
| Ground station (`gds/gds_dash.py`) | uplink_seq | send_command | numbers commands consecutively, modulo 2^16 |
| CommandSequencer, AtsRtsSequencer, ModeManager | tables of pending commands or rules | commit, clear, arm, step | every committed command is sent once, when due |
| OTA (with `golden_bootchain_check.py`), CFDP, FileTransfer | session, image or chunk map; staged files | begin, chunk, verify, activate | what is activated is what was verified |
| ParamDb, TmrStore | values, checksum; three copies | setParam, verifyIntegrity, save, load; read, write, scrub | corruption is detected, a save survives a crash |
| Topology tooling (`tools/dv-util.py`) | topology.yaml, headers; a loaded copy per session | add, quickstart, wizards, install-standard-apps, save | the file stays valid whatever the sessions do, as long as each save has it to itself and ends; the standard bundle fits any topology |
| Autocoder (`tools/autocoder.py`) | dictionary.json, TopologyManager.hpp | validate, render, write, --check | what the ground is offered the vehicle serves |
| Release targets (`CMakeLists.txt`, `software_final_check.py`, `qualification_report.py`, `release_pedigree.py`, `review_bundle.py`) | artifacts in build/, documents in docs/, git | gates, reports, sync into docs/, pedigree, bundle | a document is about the version it names; a release is of a clean tag |
| Board campaigns (`esp32_soak.py`, `esp32_runtime_guard.py`, `esp32_reboot_campaign.py`) | what was heard since the reset; reports in artifacts/ | reset, listen, judge, report | a passing report means a healthy board |
| Readiness (`cubesat_readiness_report.py`, `team_ready_esp32.py`) | the report; the step of the sequence | check, classify, write; run the steps in order | only real evidence counts, and all of it |
| SITL gates (`sitl_smoke.py`, `sitl_soak.py`, `sitl_fault_campaign.py`, `sitl_long_soak_status.py`) | a running program, its log, JSON results | launch, poll, stop, judge, sum up | no pass for a program that had gone |
| TimeService, TimeSync, LimitChecker, MemoryDwell, Playback, Logger, sensors, payload, HAL, COBS, Serializer | small, each on one thread | step, handleCommand | sequential; the unit tests reach them |

### Interaction

* Components talk through ports only: an `OutputPort` pushes into the ring of
  one `InputPort`, by value. Producer and consumer may be on different threads.
* The NORM thread runs, every second and in this order: watchdog, telemetry
  hub, command hub, event hub, recorder, sequencers and services, battery,
  payload monitor (`TopologyManager.hpp:85-101`). The FAST thread runs the star
  tracker and the IMU; the radio has a thread of its own.
* The radio, the two sequencers and the mode manager all send into the command
  hub's one input port. The hub reads the watchdog's mission state directly.
* The watchdog reads the error counter of every monitored component, itself
  included, and may stop and restart the radio's thread from inside its own
  step on the NORM thread.

* `dv-util.py` and `autocoder.py` share three files and no lock. `software_final`
  runs the gates, then copies what they left in build/ into docs/, which git
  tracks; the pedigree then asks git. The readiness report reads those documents,
  the campaign reports and the records; `team_ready_esp32.py` runs
  `software_final`, the campaigns and the report in order.

### What is hard

Interleaving on the rings; a supervisor scanning components that fail
meanwhile; recovery decided on a scan that is already old; a blocking join
inside the tick that also carries battery protection; a command gated at
dispatch and executed later; sequence numbers that wrap under loss, repetition
and reordering; persistence interrupted by a crash; start-up and shutdown races.
Among the tools: load, prompt and save with another terminal in between; files
written one after the other by a run that is cut short; a check of the worktree
at the end of a target that changes it; evidence read long after it was made, by
rules that are not those it was made by.
`PROJECT.json` lists each of them at its line under "hazards".

## 2. Modules

| Module | Models | Shape |
|---|---|---|
| `BoundedFifo` | what a port promises | abstract queue with counted refusals |
| `PortRing` | `Port.hpp` | one atomic access or word copy per action; producers on threads |
| `MissionFsm` | `MissionState`, `isAllowedClass` | definitions only |
| `MissionMode` | what the supervisor promises of the mission state | abstract state machine |
| `Watchdog` | `WatchdogComponent.hpp`, `Component.hpp`, `Os::Thread` | the NORM thread's program counter `at`, one action per subsystem looked at |
| `CommandHub` | `CommandHub.hpp` | operators over ports, one dispatch per action |
| `FlightCore` | composition of `Watchdog`, `CommandHub`, event hub, targets, radio | the NORM tick in the topology's order, other threads beside it |
| `Uplink` | ground, link, `TelemetryBridge` uplink, replay file, process stop and crash | one frame or one file operation per action |
| `Lifecycle` | `main.cpp`, start and stop of `RateGroupExecutive`, `Os::Thread`, signal watcher, heap guard | the main thread's place `main`, every other thread beside it |
| `Agenda` | what becomes of a command committed for later | abstract state machine |
| `NormTick` | what the three senders share: their thread, the hub's port, the clock | variables and helpers |
| `CommandSequencer`, `AtsRts`, `ModeManager` | the component of that name | one action per opcode, scan, entry sent |
| `Sequencing` | composition of the three with hubs, radio, clock | the NORM tick, radio and clock beside it |
| `Topology` | `topology.yaml`, the entry rules, `install_standard_apps`, validation and rendering | definitions only |
| `DvUtil` | `dv-util.py` and `autocoder.py` in several terminals | one prompt, save or file per action |
| `Release` | the targets `flight_readiness` to `review_bundle` and the tools behind them | `todo`, the commands a target has left; a developer beside it |
| `BoardCampaign` | the three board campaigns | one console event or decision per action |
| `Readiness` | readiness report, team sequence, on `BoardCampaign` | pure classification; one step of the sequence per action |
| `SitlGate` | smoke, soak, fault campaign, summary of soaks | program and gate side by side |
| `Closeout` | composition of `Release`, `Readiness`, `SitlGate` in one workspace | each part's actions, plus what joins them |
| `ParamMap` | what the parameter database promises its callers | abstract map with limited room |
| `ParamDb` | host build of `ParamDb.hpp`, its file, upsets of memory | one lookup, locked section or file operation per action |
| `Ota` | `OtaComponent.hpp`, its two files, `golden_bootchain_check.py` | one command or file operation per action |
| `MCPortRing`, `MCPortRingShared`, `MCWatchdog`, `MCFlightCore`, `MCSequencing`, `MCDvUtil`, `MCRelease`, `MCCloseout`, `MCParamDb`, `MCOta` | constants for TLC | |
| `PortRingProofs`, `FlightCoreProofs` (with `Watchdog`), `LifecycleProofs`, `UplinkProofs`, `SequencingProofs`, `DvUtilProofs`, `CloseoutProofs`, `StorageProofs` | theorems | |

**PortRing.** `push` is load tail, compare with head (refuse and count, or go
on), copy the words, store tail; `pop` is compare, copy, store head. Between any
two of these other threads run. The packet is copied word by word, so a torn
packet is a state of the model. `ThreadOf` says which thread runs a producer; a
thread is in one call at a time. The atomics are sequentially consistent in the
model; the code uses acquire and release on head and tail, which for one
producer and one consumer orders the same accesses.

**Watchdog.** `at` walks the NORM thread through `checkBattery`,
`checkSubsystems` (index `idx`), `joinThread` while it waits for a worker,
`tryRecoverNominal`, the periodic check, and then the rest of the tick. A
component of the NORM thread can record errors only while it is being stepped;
one of the FAST thread at any time, an active one while its worker is inside
`step`. `reportHealth` is the error count against the thresholds. Every `emit`
goes through `Emit`, which turns an event that finds the port full into an error
of the watchdog.
Abstractions: counters saturate at `CRITICAL_THRESHOLD`, beyond which
`reportHealth` distinguishes nothing; `cycles` is taken modulo the longest
period, the heartbeat's dividing it; the battery reports any level of a set; the
battery thresholds are the sane constants the topology starts with, since
nothing at run time writes the stores they are read from.

**FlightCore.** `Watchdog` and `CommandHub` share `mission_state`. The hub's
dispatch is the only place it records errors; targets of the NORM group drain
their ports before the tick ends, the FAST target and the radio act at any
moment. `Uplink` of `CommandHub` here is any sender.

**Uplink.** A command is its ordinal on the ground; its frame carries the
ordinal minus one, modulo `Modulus` (2^16 in the code). The link loses, repeats
and swaps adjacent frames, a frame overtaking none older than `MaxDelay`. The
bridge refuses a replay, or finds the hub's port full, or accepts: send, update
memory, then persist in three outcomes (cannot open or write; emptied; written).
`Stop` ends the process between steps, `Crash` anywhere else. History variables
(`executed`, `newest`, `reordered`, `forgot`) serve the properties only.
Abstractions: a damaged header is a lost frame; the limit of commands per step
means only that a step may end after any frame; the source-address filter and
bind failures are left out.

**Lifecycle.** `main` is where the main thread is, from the installation of the
handlers through `startAll`, its three kinds of join and the signal watcher's to
the return. A thread is at its loop test or inside a tick or step. A signal comes
at any moment once its handler is installed, and a restart at any moment of a
NORM tick, within the budget. `restarting` and `next` say which `Os::Thread`
each of the two owners is at. What a tick does otherwise, and why a component is
critical, is left to `Watchdog`; of the heap guard only the allocation of a
restart is modelled.

**Sequencing.** The NORM thread walks `at` through the hubs and the three
components, each of which drains its port, then scans. A scan reads the clock
once and sends its entries one by one, while the radio may fill the hub's port
in between. `queue_[i].release` and `met` are taken modulo `Wrap` as in the code;
`left`, the real time an entry has still to go, is history and what `Agenda` is
told. `fate` is history too.
Abstractions: the opcodes that stage one field each are one action that stages
all of them; a send is one step (`PortRing` has it in parts, and shows what two
threads may do to each other there, which is left out here); the hub may refuse
any command, `CommandHub` says which; an entry of the ATS keeps the time it has
still to go, since its clocks are 64 bits wide and monotone; telemetry and
events that find their port full, which count errors too, are left out, as are
the transition and dispatch counters, which only telemetry shows.

**Topology, DvUtil.** A session is at `load`, `edit`, `save` (the entry is made),
`write` (the file is emptied), `part` (some of it is written) or, for the
autocoder, `dict` and `topo`. What it loaded is its `copy`, which
`EditComponent`, `EditQuickstart`, `EditCommand` and `EditInstall` extend by the
rules of `Topology`. A save writes through a buffer smaller than the text
(`dv-util.py:409-411`), so that `SavePart` and `Kill` (Ctrl-C still writes what
is buffered) leave a part: a prefix (`Prefixes`: cut between two rows, the
sections in the order of the file, of the unordered components any part) or, cut
inside a row, one of the `Scraps`. Two saves at once write over each other from
the start of one file: while `mixed`, a save may end in a scrap too. Of a scrap
no more is assumed than that it is a list of rows: they may clash, refer to rows
that are gone, or lack a field (`whole` is false), and a text that does not parse
counts as such a one. The autocoder generates from what `Generates`: not from an
empty file (of which it has `None`), nor from one without its system section.
History: `torn` once a save was cut short or met by another save or by a load,
`raced` once two copies were out at once as well.
Abstractions: display names, types, rates and descriptions decide nothing and
are left out; an instance name is its base and the suffixes
`install_standard_apps` puts on it; of the autocoder, the parts of
`TopologyManager.hpp` that depend on commands; a save has at most one part before
its last (the shipped text is 12 KB, the buffer 8); a developer does not edit the
file in the instant of a save.

**Release.** A version of the sources is a number, and what any gate refuses in
it is its set of `flaws`; every artifact carries the version it was made from
and the run that made it. Each command of a target is an action, with what it
writes before it fails. The developer edits, commits, tags, checks docs/ out
again and interrupts at any moment.
Abstractions: compilers, tests, benchmarks and coverage are gates that pass or
fail (`RunGate`, `Measure`); among them the soak and the fault campaign that
`software_final` runs, which `SitlGate` has on their own; one flaw stands for
every line of the document it is found in.

**BoardCampaign, Readiness.** `session` is what the campaign that listens has
heard; `boots`, `worst`, `spoilt` are history, what really happened. The exit
codes and the report are functions of what was heard. `Readings` is the report's
checks over all artifacts; a programme record is the set of words in it the
classifier knows, and one record stands for the four. The sequence starts a
campaign (`TeamCampaign`) and waits for it (`TeamWaited`).

**SitlGate.** The program prints into a buffer, flushes, leaves or crashes; the
gate launches, polls, stops and judges. Code 8 of the fault campaign stands for
9, the same evidence missing from another file. The commands it sends are one
step, and what the vehicle answers to them is its log.

**Closeout.** Joins the three: the readiness report reads `docs` of `Release`
and, written into docs/ itself, makes the worktree dirty; the first step of a
sequence is a target; the summary of the soaks is a step of `software_final`. A
pass of `StatusEarned` in `Closeout` is about that composition.

**ParamDb.** `call` is where each thread is in its call. A lookup without the
lock is one step, since the names of published entries never change, and the load
of the value it found another; under `write_mutex` the change and the checksum
over it are two. The checksum stands for the table it was computed over: CRC-32
tells apart any two tables that differ in one word. `struck`, `report` and `kept`
are history: an upset since the last checksum, the last verification, the last
completed save. `Printed` and
`Unreadable` say what becomes of a value that is written as text and read back. A
table fits the stream's buffer, so that the file is empty from its opening to the
end of `save`, then whole.

**Ota.** A command is one step, staging one step per file operation, and the
process may end between any two. An image of up to `STREAM_BUFFER` bytes reaches
its file when the stream closes, a larger one at once; manifest and artifact
close in the reverse order of their opening, when the request is already out, and
a failure to close goes unnoticed. `accepted` is the set of CRCs a verification
found images to have, `drift` what changed since the last successful one, `signed`
what had changed when the manifest was written, `spoilt` that a step of the last
staging failed. `Passes` is the tool's comparison. Different images may have one
CRC: the properties are about CRCs, which is all the code compares.

## 3. Runs

| Run | Question | Answer |
|---|---|---|
| `port_ring` | one producer, one consumer: is the ring a queue? | yes: type, order, accounting, refinement of `BoundedFifo` |
| `port_shared` | the hub's port as wired, two producing threads | **violated**: an accepted command is overwritten |
| `watchdog` | whatever fails when, does the mission state answer it? is a fault never forgotten, and every wait for a restart over some time? | yes: battery, faults, EMERGENCY's cause, refinement of `MissionMode`; the last two under fairness |
| `flight_core` | are commands still legal when they are executed? is the composition still the supervisor? | yes, for NORM targets |
| `uplink` | at most once, in order, no fresh command refused, replay state kept over a restart | yes, outside the named exceptions |
| `lifecycle` | does shutdown leave nothing running, and does a signal end the process? | yes, whatever is being restarted |
| `sequencing` | does a commitment leave once, in time, or leave an error behind? can rules contradict each other? | yes: refinement of `Agenda`, for delays up to half the clock's range |
| `tooling` | do two terminals leave a topology the autocoder generates from, can the standard bundle be installed on what they leave, and do files that pass the check agree? | yes, the last two whatever saves were cut short or mixed; the first while each save ran to its end with the file to itself (`torn`); entries are lost only when sessions overlap or die (`NothingLostAlone` says when they are not) |
| `closeout` | is what docs/ and artifacts/ say of a version, a tag, a board or a program true? | yes, for targets that run whole and sources left alone meanwhile |
| `release_candidate` | does the target work on the clean, tagged commit the policy asks for? | **violated**: it makes the worktree dirty before it asks |
| `params` | is the database one map to all its threads? is a failed check a real upset? does a save reach the next start? | yes: refinement of `ParamMap`, and a completed save of readable values |
| `ota` | is what the bootchain tool passes, and what a reboot is requested for, a verified image? | yes, unless the session changed after the verification, for the request also unless staging failed |

The type invariants of `Watchdog`, `Uplink`, `Lifecycle`, `Sequencing`, `DvUtil`,
`ParamDb` and `Ota` are theorems (section 4) and no property of the runs.

Other departures from the documents were met on the way and have no run of their
own; where a theorem says how far the promise does hold, it is named.

* `docs/ARCHITECTURE.md:154` draws SAFE_MODE as left only for EMERGENCY;
  `tryRecoverNominal` returns to NOMINAL from it. `MissionMode` states what the
  code does.
* `docs/REFERENCE_MISSION_WALKTHROUGH.md:102` says replayed input is rejected; a
  copy from before a wrap of the sequence number is taken for new after it. The
  premise `Orderly` of the properties of `uplink` names this exception.
* `Requirements.hpp:86-87` (DV-COMM-06) wants the last accepted number persisted;
  it is written after the command was sent, into a file that is emptied first
  (`TelemetryBridge.hpp:1002-1013`), so that a process that dies in between has
  lost it. `PersistedBetweenFrames`: only there.
* `tools/dv-util.py:409-411` writes `topology.yaml` in place and no document says
  what that promises: a save that is cut short, or met by another, leaves a file
  the autocoder may refuse, or worse, one it takes, with rows missing. The premise
  `torn` of `ToolsKeepItValid` names these; `InstallSettles` and `OfferedIsServed`
  hold after them too.
* `docs/ARCHITECTURE.md:173` has active components restarted; with the host heap
  guard armed, the allocation of the restart's thread aborts the process
  (`Os.hpp:78`, `HeapGuard.cpp:9`). `UnguardedRestartsComplete`: only then.
* `ParamDb.hpp:139` says `verifyIntegrity` returns false on silent corruption; the
  next write of any parameter computes the checksum over the corrupted table
  (`UpdateChecksum` clears `struck`). `AlarmIsTrue` holds in the other direction.
* `ParamDb.hpp:6` says parameters persist across reboots; the load stops at the
  first value that cannot be read, and `SET_AMPLITUDE` stores a NaN unchecked
  (`SensorComponent.hpp:71`). `AllKnownAgain`: without such values all are there.
* `Requirements.hpp:136-137` (DV-OPS-01) wants an image verified before a reboot is
  requested for it; `ingestChunk` adds bytes without resetting `image_verified_`
  (`OtaComponent.hpp:80`). `VerifiedUnlessPushed`: only then.

### Bounds, and why they are enough

* `port_ring`: capacity 2 (three slots, so that the indexes wrap and the ring is
  empty, partly full and full), two words (enough for a torn packet), five sends
  (past the wrap). The proof removes the bounds.
* `watchdog`: four subsystems, one of each kind (the watchdog, a NORM component,
  an active one, a FAST one); thresholds 1 and 2 so that each health status is
  reached by one error more; one restart allowed, so that the budget is both
  available and spent; one battery level in each of the four ranges; event port
  of three, so that it overflows. The run also checks liveness, which bounds its
  size; the proof removes the bounds of the safety part, the levels inside the
  hysteresis band included.
* `flight_core`: two commands of one target in two classes, one FAST target, one
  unrouted target; every port of depth 1, so that each can be full; two sends
  per tick.
* `uplink`: modulus 7 with the window split as in the code
  (`SEQ_WRAP_HIGH + SEQ_WRAP_LOW = Modulus`), nine commands, so that the numbers
  wrap with room on both sides; two frames on the link; a port of depth 1.
* `lifecycle`: two workers, so that one is joined while the other is restarted;
  two restarts of each, with and without the heap guard. The proof removes the
  bounds of the safety part. The topology has one active component and a budget
  of three.
* `sequencing`: two entries for each component, three commitments followed, so
  that a table is full and an entry is used again; ports of depth 1; a clock that
  wraps at 8, with delays of 3 (over the wrap) and 6 (beyond half the range);
  `MaxStall`: at most two ticks between two scans, where the code has seconds
  against a half range of 24 days. The ground uses one `Campaign` of commands in
  a behaviour (delays; ATS times; RTS events; mode rules; wrong opcodes), and one
  command a tick (`RadioBurst`): the tables of the three are disjoint, they meet
  in the hub's port, and each campaign fills that. Error counts stop at
  `MaxErrors`, above the commitments there are.
* `tooling`: two terminals, which nothing tells apart (symmetry), with two runs or
  edits by hand between them, so that two sessions overlap at any point, and
  what follows those by itself (the wizard's command, the autocoder); one command
  beside the standard ones; a standard bundle of two components and three
  commands; a new class whose base name is one of the bundle's and whose id a
  developer may choose to be one of the bundle's; a command name that is one of
  the bundle's; three scraps for the ways a torn text goes wrong: a row that lacks
  a field, a command that is there twice and its component not, a class under two
  ids.
* `closeout`: two versions, the first sound, the second with at most one flaw of
  each way to be noticed (by a gate; by a gate and the final check; by the
  qualification report; by the final check only). The composition is large, and
  the questions are apart: `Budgets` lists what one behaviour may hold, two
  targets with two touches by the developer over any of the flaws; one target
  and three touches; two board campaigns; one sequence; one gate beside a
  target; two gates. `Limit`, `MinSamples` and `MaxBanners` are 0 or 1 so that
  each boundary is met from both sides; soaks of exactly 30 minutes and of an
  hour; two cycles of a reboot campaign.
* `params`: three parameters and room for two, so that an insertion finds no room;
  two threads, two calls and two starts, so that two insertions of one parameter
  race and a process reads what another saved; a value that printing rounds, the
  one it is rounded to and one that cannot be read.
* `ota`: images of up to two bytes over two values, those of one byte within the
  stream's buffer and those of two beyond it; CRCs of two halves of one bit, of
  which several images share one. Sessions, stagings and starts are unbounded.

### Fairness

`Watchdog`, `FlightCore`: weak fairness of the NORM thread as a whole (its loop
has no exit but shutdown, `RateGroupExecutive.hpp:234`) and of each worker (its
loop tests `running` again after each step, and the steps of the radio do not
block: its socket is non-blocking). No component is assumed to fail, to recover
or to report any particular charge. `PortRing`: a call in progress goes on; the
consumer keeps draining. `Lifecycle`:
weak fairness of the main thread, the watcher, FAST, NORM and each worker, which
are threads of the host whose ticks and steps return; none of signals.
`Uplink`, `Sequencing`, `DvUtil`, `Closeout`, `ParamDb` and `Ota` claim safety only
and assume no fairness: a developer may leave any tool where it is. The behaviours
of `DvUtil`, `Closeout` and `ParamDb` end at their bounds, hence `CHECK_DEADLOCK
FALSE` there;
`NoneOverdue` says of each scan what a liveness property would say of waiting.

## 4. Proofs

*PortRingProofs.* Assumption: `PortAssumption` (a port has room for a packet, its
producers are finitely many, each runs on one thread). `TypeCorrect` and
`NoSendIsSilent` need no more: by `CallInv` a call in progress is about its
producer's last send, and every send before it is stored or counted. The other two
take `OneProducerThread`, that all producers of the port run on one thread; the
source never states it, and `port_shared` shows it is needed. `ExactlyOnceInOrder`
is not inductive: the invariant adds what each call knows (a push has loaded the
current tail, the slot it fills is not in the queue and holds the words copied so
far; a pop that is copying has not freed its slot). `RingIsFifo` is the safety
half of `ImplementsFifo`: under that invariant only the last step of a push, its
refusal and the last step of a pop change the queue, and each changes it as
`BoundedFifo` does. `OneThreadLosesNothing` turns `port_shared` round: under the
same premise no accepted packet is overwritten. Theorems `TypeCorrect`,
`NoSendIsSilent`, `PortIsExactlyOnceInOrder`, `RingIsFifo`, `OneThreadLosesNothing`.

*FlightCoreProofs*, watchdog. Assumption: `WatchdogAssumption` (thresholds ordered, the
watchdog supervises itself and is passive). `SafeInv` relates the scan to what it
has seen: `any_critical` and `any_warning` cover every NORM component already
looked at, whose counters cannot move before the step ends (`NormFrozen`), so that
recovery, which asks all of them again, cannot undo an answer. Theorems
`TypeCorrect`, `BatteryIsCovered`, `FaultsAreCovered`, `EmergencyTakesCause`,
`MissionModeIsImplemented` (the refinement).

*FlightCoreProofs*, composition. Assumptions: those of `Watchdog` and `FlightAssumption` (the
hub is a NORM component, the depths are numbers). Every step of the composition is
a step of `Watchdog` or leaves its variables alone (`FlightStepIsWatchdogStep`),
so `SafeInv` carries over (`FlightSafety`), and with it what the supervisor
promises (`StillTheWatchdog`, the safety half of `SupervisedAsSpecified`;
`FlightMissionMode`, `FlightEmergency`). `ExecutionIsGated` adds `Pending`: what
waits in a NORM target's port is legal in the present mission state, because the
watchdog, the only one to change it, steps when all these ports are empty.
`FlightTypeCorrect` adds `PortsInv`: no port holds more than its depth, whoever
sends.

*LifecycleProofs.* Assumption: `LifecycleAssumption` (the constants are numbers).
`NoThreadLeft` alone is not inductive: that a joined worker stays joined needs
that nobody restarts it, hence that the NORM thread has ended (`TiersInv`), and
that all workers were started before (`WorkersInv`). An aborted process is left
out of both. `UnguardedRestartsComplete`: without the heap guard the process
never aborts and every restart completes. Theorems `TypeCorrect`, `ShutdownLeavesNoThread`, `ThreadsHaveOneOwner`,
`UnguardedRestartsComplete`.

*UplinkProofs.* Assumption: `UplinkAssumption` (the two marks make up the modulus,
the low one is not above the high one, a frame is overtaken by none that is
younger by `SEQ_WRAP_HIGH - SEQ_WRAP_LOW + 2` or more). `ReplayStateKept` is not
inductive: `KnownInv` adds what the file holds while the process is gone. That a
command which is not refused is newer than all before it (`AcceptedIsNewer`) needs
`LinkInv`: no frame on the link is older, by more than the slack of a reordering
link, than the last command accepted or a frame ahead of it. `OrderInv` then
orders what the hub took, what waits in its port and the last command accepted.
Sequence numbers are remainders; `SeqOfLater` says what the remainder of a
slightly larger number is, the one fact about wraps the rest uses.
`PersistedBetweenFrames` says how far DV-COMM-06 holds:
while the file can be written and the heap guard is not armed, the number of the
last command accepted is in it whenever the bridge is not in the middle of a
frame. Theorems `TypeCorrect`, `StateKept`, `FreshPasses`, `OnceInOrder`,
`PersistedBetweenFrames`.

*SequencingProofs.* Assumptions: `NormTickAssumption` (scans come less than half
the clock's range apart, errors are counted further than there are commitments),
`CommandSequencerAssumption`, `AtsRtsAssumption`, `ModeManagerAssumption`,
`CommandAssumption` (what the ground sends is well formed). `LossInv`: every step
either counts one error and loses at most one commitment (`CountedLoss`) or loses
none (`NoLoss`). `RulesInv`: a rule goes to the slot its target has, or, only if
it has none, to the least free one (`RuleForTarget`); that there is a least one is
the well-foundedness of the naturals. `AgendaInv` is what the refinement of
`Agenda` needs: each entry has a waiting commitment, and no two the same
(`JobsInv`), commitments are numbered in the order they are made (`InOrder`), an
entry chosen by a scan stays due until it is sent or lost (`ScansInv`), and an
entry's release time is the clock plus the time left, or behind it by no more than
the ticks since the last scan, modulo `Wrap` (`ClockInv`), so that the comparison
of the code, half a range on either side, finds exactly what is due. `DueJobs` is
a set, so that the tables can be reasoned about without an order. Theorems
`TypeCorrect`, `LossLeavesError`, `TargetsHaveOneRule`, `SequencersKeepAgenda`,
`ScanLeavesNoneOverdue`.

*DvUtilProofs.* Assumptions: `StandardAssumption` (in the tables of the standard
bundle ids and opcodes are numbers, no two commands have one name, and each one's
target is a component of the table) and `DvUtilAssumption` (what is shipped is a
topology the autocoder generates from, each class and instance once; it and the
scraps are lists of rows, within the bound on commands). No invariant that the
runs check is inductive, because a session writes what it loaded before. Whatever
was torn, `FilesInv` says of the file and of every copy alike that they are lists
of rows within the bound (`Loose`, which the prefixes of a save inherit,
`PrefixesLoose`) and of each session that what it is about to add has its header
(`SessionsFit`): that is enough for the installer and for the check, whose lemmas
need no more of a topology than their premise says. `TendedInv` says that while
nothing was torn one session saves at a time, every copy that may be written is
`Fit` (generates, each class and instance once, with its header), and so is the
file but for the moments of a save; a lemma on each edit (`MadeGrown`) hands that
on from the copy to what is made of it. `AloneInv` says of one session at a time
that its copy holds all that was reported; that its save is not mixed with
another it has from `TendedInv`. The loops of the installer are functions on `0
.. n`; what one pass keeps, the loop keeps (`HandedOn`, which follows the set of
passes that have it up to its least missing one). That the search for a free
instance and for a free opcode ends is the pigeonhole principle
(`SuffixedIsFree`, `OpcodeIsFree`), and that a second install changes nothing
that both tables are found in the topology (`InstalledOnce`). Theorems
`TypeCorrect`, `ToolsAlwaysKeepItValid`, `InstallAlwaysSettles`,
`NothingIsLostAlone`, `OfferedIsAlwaysServed`.

*CloseoutProofs*, evidence. About `CloseoutSpec`, so beside everything else the
workspace is used for. Assumptions: `CampaignAssumption`, `ProfileAssumption`.
`SitlInv`: a gate that may still pass has a program that was alive at its last
poll. `EvidenceInv` relates what a board session has heard to what the board did
(`HeardRight`: a report is written of what was heard, hence an accepted one is of
a session in which nothing was heard to fail), and the team sequence's position to
the records it has already made (`TeamInv`). Theorems `PassesOutlive`,
`EvidenceReal`, `HalfIsCovered`, `TeamEvidence`.

*CloseoutProofs*, release. Assumption: `ReleaseAssumption` (there is a least
version, the flaws of a version are flaws, bounds are numbers). Every target is a plan whose commands never fall back to an earlier
level (build, gates, binary, pedigree, documents), so what a running target has no
longer to do it has done: `TodoRight` says for each such part what is then true of
the run's own version (built, gates passed, pedigree made, documents synced), as
long as the sources stayed. `DocsRight` carries it to the documents, in the
working tree and in the commit, which another target or a checkout may bring back.
`Soiled` follows one release candidate that nobody touches: once it has written
its status, a tracked document differs from the commit, and only a developer
could change that; so `CandidateNeverSelfAccepted` says of all of them what
`release_candidate` shows of one. Theorems `StatusIsEarned`, `StatusLast`,
`PedigreeOfTheTag`, `CandidateNeverSelfAccepted`.

*CloseoutProofs*, types. The type invariant of the workspace says more than its
shapes: a result is of an attempt that was made and a document of a run that was,
a program runs only while a gate does, a document git calls clean is the
commit's, and what a target or a sequence has left to do is the end of one. Each
part rests on the invariant of its component (`SitlDetail`, `ReleaseDetail`); that
the tail of a suffix is a suffix is a lemma about sequences (`Suffixes`). It needs
that the bounds are numbers and that no behaviour is given more touches than there
are in all (`BudgetAssumption`). Theorem `CloseoutTypeCorrect`.

*StorageProofs*, parameters. Assumption: `ParamAssumption` (the lock's owner when
there is none is no thread, defaults and printed values are values, printing does
not make a value readable or unreadable, bounds are numbers). None of the
properties is inductive: `ParamInv` adds that a lookup's slot still holds the
parameter it was found for (`Positions`: entries are never moved or removed), that
no call is open outside the running phase (`Resting`), that value and checksum
differ only after an upset or while somebody is inside (`Summed`, from which
`AlarmsAreTrue` follows, because the verifier is then the one inside), that the
file is the last completed save (`Filed`), and, while loading, that the table and
the lines left make up that save (`Loading`). The refinement maps the table to the
function it is: an entry appended under the lock is one that nobody has, since the
second look was under the same lock (`StoredIsPut`), and `Room` is the length of
the table, since it has as many names as entries (`Counted`). `AllKnownAgain`
takes `Unreadable = {}`: without such values every saved parameter is known again. Theorems `ParamTypeCorrect`, `AlarmsAreTrue`, `SavedIsLoaded`,
`AllKnownAgain`, `DatabaseIsAMap`.

*StorageProofs*, updates. Assumption: `OtaAssumption` (`Crc32` is a function from
images to two halves, limits are numbers): nothing is assumed of the CRC, injective
or not. `OtaInv` says what a verified image is worth while something may change
(`Vouched`: its CRC was accepted unless bytes came, the expected CRC was accepted
unless it was set anew, and the two agree if neither happened), that staging is
only ever of such an image and that a manifest, once written, is about it
(`StagedFrom`), and that a manifest's CRC was accepted for as long as the file is
there, over later sessions and processes (`ManifestVouched`). A failed close
leaves no manifest rather than an older one, because opening it emptied it; the
invariant is not inductive without that. `VerifiedUnlessPushed` says how far
DV-OPS-01 holds: as long as no byte comes after the verification. Theorems `OtaTypeCorrect`, `StagedImagesAreVerified`, `RequestsAreReady`,
`VerifiedUnlessPushed`.

Every invariant a passing run checks is proved. Only model-checked is liveness
(`PassiveFaultLatches`, `SupervisionResumes`, `SignalStops`, and the fairness
halves of `ImplementsFifo` and `SupervisedAsSpecified`), which is out of the
prover's reach.

## 5. Plan

What is left, in order of weight:

1. `TmrStore`: three copies, voted and rewritten by whoever reads, and a scrubber
   over the stores that register with it.
2. `SerialLink`: the KISS receiver over arbitrary chunks.
3. `FileServices`: the chunk maps of CFDP and file transfer.

## 6. Not modelled

Downlink framing, telemetry fan-out and logging (output only); the ground
dashboard (presentation); sensor simulation and HAL (no interaction beyond
ports); COBS and serialisation (pure functions); `TmrStore` and file transfer (not
reached, section 5); the parameter storage of the ESP32 build and a file of
parameters that is cut short other than by its being emptied; upsets of parameter
names; an OTA session of the ESP32 build, which stages no files; the FreeRTOS port and the ESP cooperative loop (the
same components on another scheduler); the legacy `Scheduler`. Of the tools:
benchmark, coverage and portability guards (numbers against thresholds, a
passing or failing step in `Release`), the parameter, telemetry and event parts
of the autocoder (text no other tool reads back), tests. The component list in
`PROJECT.json` gives the reason for each.
