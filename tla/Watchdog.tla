------------------------------ MODULE Watchdog -------------------------------
(***************************************************************************)
(* WatchdogComponent (src/src/WatchdogComponent.hpp) supervising the       *)
(* components of the topology.  Its step() runs on the NORM thread at the  *)
(* start of every tick, one action per subsystem it looks at; the          *)
(* components of that thread can only fail between two of its steps, the   *)
(* ones of the FAST thread and the active ones (a thread of their own,     *)
(* Os.hpp) fail at any moment.  A subsystem is its index in                *)
(* monitored_systems; an error counter stops at CRITICAL_THRESHOLD, which  *)
(* reportHealth() does not tell from any larger count.                     *)
(***************************************************************************)
EXTENDS MissionFsm, Sequences, FiniteSets

CONSTANTS
  MonitoredCount,      \* monitored_count
  Supervisor,          \* the watchdog itself, registered with itself
  Active,              \* subsystems with a thread of their own (radio)
  Fast,                \* passive subsystems of the FAST rate group
  WARNING_THRESHOLD, CRITICAL_THRESHOLD,
  MAX_RESTARTS,        \* MAX_RESTARTS_PER_COMPONENT
  BattLevels,          \* the states of charge the battery may report
  EmergencyPct, SafeModePct, DegradedPct, Hysteresis, BattMax,
  HEARTBEAT_INTERVAL, PARAM_CHECK_INTERVAL,
  EventDepth           \* QUEUE_DEPTH of the watchdog's event port

Subsystem == 1 .. MonitoredCount
Passive == Subsystem \ Active
Norm == Passive \ (Fast \cup {Supervisor})

ASSUME WatchdogAssumption ==
  /\ MonitoredCount \in Nat
  /\ Supervisor \in Subsystem
  /\ Active \subseteq Subsystem \ {Supervisor}
  /\ Fast \subseteq Subsystem \ (Active \cup {Supervisor})
  /\ WARNING_THRESHOLD \in Nat \ {0}
  /\ CRITICAL_THRESHOLD \in Nat
  /\ WARNING_THRESHOLD <= CRITICAL_THRESHOLD
  /\ MAX_RESTARTS \in Nat
  /\ BattLevels \subseteq Nat
  /\ {EmergencyPct, SafeModePct, DegradedPct, Hysteresis, BattMax} \subseteq Nat
  /\ BattMax \in BattLevels
  /\ EmergencyPct < SafeModePct /\ SafeModePct < DegradedPct
  /\ DegradedPct < BattMax /\ Hysteresis > 0
  /\ HEARTBEAT_INTERVAL \in Nat \ {0} /\ PARAM_CHECK_INTERVAL \in Nat \ {0}
  /\ PARAM_CHECK_INTERVAL % HEARTBEAT_INTERVAL = 0
  /\ EventDepth \in Nat

VARIABLES
  mission_state,
  last_batt_soc,
  battery_level_in,  \* the input port: a queue of readings
  cycles,            \* modulo PARAM_CHECK_INTERVAL
  errors,            \* error_count of each subsystem
  restart_counts,
  thread,            \* Os::Thread of each active subsystem
  event_count,       \* events of the watchdog the event hub has not drained
  params_ok,         \* ParamDb::verifyIntegrity()
  at,                \* where the NORM thread is
  idx,               \* the subsystem being looked at
  any_critical, any_warning

vars == <<mission_state, last_batt_soc, battery_level_in, cycles, errors,
          restart_counts, thread, event_count, params_ok, at, idx,
          any_critical, any_warning>>

InStep == {"checkBattery", "checkSubsystems", "joinThread",
           "tryRecoverNominal", "periodic"}
Place == {"boot", "cmd_hub", "event_hub", "battery"} \cup InStep

\* A worker tests running, then runs one step, until it finds it cleared.
ThreadState == [running : BOOLEAN, pc : {"test", "step", "exited"}]

TypeOK ==
  /\ mission_state \in MissionState
  /\ last_batt_soc \in BattLevels
  /\ battery_level_in \in Seq(BattLevels)
  /\ cycles \in 0 .. PARAM_CHECK_INTERVAL - 1
  /\ errors \in [Subsystem -> 0 .. CRITICAL_THRESHOLD]
  /\ restart_counts \in [Subsystem -> 0 .. MAX_RESTARTS]
  /\ thread \in [Active -> ThreadState]
  /\ event_count \in 0 .. EventDepth
  /\ params_ok \in BOOLEAN
  /\ at \in Place
  /\ idx \in 1 .. MonitoredCount + 1
  /\ any_critical \in BOOLEAN
  /\ any_warning \in BOOLEAN

\* Constructed and wired; RateGroupExecutive::initAll runs next.
Init ==
  /\ mission_state = BOOT
  /\ last_batt_soc = BattMax
  /\ battery_level_in = <<>>
  /\ cycles = 0
  /\ errors = [c \in Subsystem |-> 0]
  /\ restart_counts = [c \in Subsystem |-> 0]
  /\ thread = [c \in Active |-> [running |-> FALSE, pc |-> "exited"]]
  /\ event_count = 0
  /\ params_ok = TRUE
  /\ at = "boot"
  /\ idx = 1
  /\ any_critical = FALSE
  /\ any_warning = FALSE

-----------------------------------------------------------------------------
(* Component.hpp *)

Healthy(c) == errors[c] < WARNING_THRESHOLD
Critical(c) == errors[c] >= CRITICAL_THRESHOLD
Warning(c) == ~Healthy(c) /\ ~Critical(c)

Saturated(n) == IF n < CRITICAL_THRESHOLD THEN n ELSE CRITICAL_THRESHOLD

-----------------------------------------------------------------------------
(* emit and escalate.  An event that finds the port full is an error of    *)
(* the watchdog itself.                                                    *)

Emit(n, counts) ==
  LET room == EventDepth - event_count
      lost == IF n > room THEN n - room ELSE 0
  IN  /\ event_count' = event_count + n - lost
      /\ errors' = [counts EXCEPT ![Supervisor] = Saturated(@ + lost)]

Escalated(next) == IF next > mission_state THEN next ELSE mission_state

EscalateEvents(next) == IF next > mission_state THEN 1 ELSE 0

-----------------------------------------------------------------------------
(* init, for the watchdog and the start of every active thread *)

Boot ==
  /\ at = "boot"
  /\ mission_state' = NOMINAL
  /\ last_batt_soc' = BattMax
  /\ thread' = [c \in Active |-> [running |-> TRUE, pc |-> "test"]]
  /\ at' = "checkBattery"
  /\ Emit(1, errors)
  /\ UNCHANGED <<battery_level_in, cycles, restart_counts, params_ok, idx,
                 any_critical, any_warning>>

-----------------------------------------------------------------------------
(* checkBattery *)

\* The mission state a reading calls for.
BatteryDemand(soc) ==
  CASE soc <= EmergencyPct -> EMERGENCY
    [] EmergencyPct < soc /\ soc <= SafeModePct -> SAFE_MODE
    [] SafeModePct < soc /\ soc <= DegradedPct -> DEGRADED
    [] OTHER -> BOOT

ProcessBattery ==
  /\ at = "checkBattery"
  /\ battery_level_in # <<>>
  /\ LET soc == Head(battery_level_in)
         demand == BatteryDemand(soc)
     IN  /\ last_batt_soc' = soc
         /\ mission_state' = Escalated(demand)
         /\ Emit((IF demand = BOOT THEN 0 ELSE 1) + EscalateEvents(demand), errors)
  /\ battery_level_in' = Tail(battery_level_in)
  /\ UNCHANGED <<cycles, restart_counts, thread, params_ok, at, idx,
                 any_critical, any_warning>>

BatteryDrained ==
  /\ at = "checkBattery"
  /\ battery_level_in = <<>>
  /\ cycles' = (cycles + 1) % PARAM_CHECK_INTERVAL
  /\ at' = "checkSubsystems"
  /\ idx' = 1
  /\ any_critical' = FALSE
  /\ any_warning' = FALSE
  /\ UNCHANGED <<mission_state, last_batt_soc, battery_level_in, errors,
                 restart_counts, thread, event_count, params_ok>>

-----------------------------------------------------------------------------
(* checkSubsystems *)

Looking == at = "checkSubsystems" /\ idx <= MonitoredCount

FoundNominal ==
  /\ Looking
  /\ Healthy(idx)
  /\ idx' = idx + 1
  /\ UNCHANGED <<mission_state, last_batt_soc, battery_level_in, cycles, errors,
                 restart_counts, thread, event_count, params_ok, at,
                 any_critical, any_warning>>

FoundWarning ==
  /\ Looking
  /\ Warning(idx)
  /\ any_warning' = TRUE
  /\ idx' = idx + 1
  /\ Emit(1, errors)
  /\ UNCHANGED <<mission_state, last_batt_soc, battery_level_in, cycles,
                 restart_counts, thread, params_ok, at, any_critical>>

\* A passive component cannot be restarted.
FoundCriticalPassive ==
  /\ Looking
  /\ Critical(idx)
  /\ idx \notin Active
  /\ any_critical' = TRUE
  /\ idx' = idx + 1
  /\ Emit(1, errors)
  /\ UNCHANGED <<mission_state, last_batt_soc, battery_level_in, cycles,
                 restart_counts, thread, params_ok, at, any_warning>>

\* MUTANT of StopWorker: the worker is waited for but not told to stop.
StopWorkerNotTold ==
  /\ Looking
  /\ Critical(idx)
  /\ idx \in Active
  /\ restart_counts[idx] < MAX_RESTARTS
  /\ any_critical' = TRUE
  /\ restart_counts' = [restart_counts EXCEPT ![idx] = @ + 1]
  /\ at' = "joinThread"
  /\ Emit(1, errors)
  /\ UNCHANGED <<mission_state, last_batt_soc, battery_level_in, cycles, thread,
                 params_ok, idx, any_warning>>

\* The restart begins: joinThread tells the worker to stop and waits for it.
StopWorker ==
  /\ Looking
  /\ Critical(idx)
  /\ idx \in Active
  /\ restart_counts[idx] < MAX_RESTARTS
  /\ any_critical' = TRUE
  /\ restart_counts' = [restart_counts EXCEPT ![idx] = @ + 1]
  /\ thread' = [thread EXCEPT ![idx].running = FALSE]
  /\ at' = "joinThread"
  /\ Emit(1, errors)
  /\ UNCHANGED <<mission_state, last_batt_soc, battery_level_in, cycles,
                 params_ok, idx, any_warning>>

\* The worker has exited: clearErrors and startThread.
RestartWorker ==
  /\ at = "joinThread"
  /\ thread[idx].pc = "exited"
  /\ thread' = [thread EXCEPT ![idx] = [running |-> TRUE, pc |-> "test"]]
  /\ at' = "checkSubsystems"
  /\ idx' = idx + 1
  /\ Emit(1, [errors EXCEPT ![idx] = 0])
  /\ UNCHANGED <<mission_state, last_batt_soc, battery_level_in, cycles,
                 restart_counts, params_ok, any_critical, any_warning>>

\* MUTANT of FoundUnrecoverable: gives up without looking at the budget.
FoundUnrecoverableAtOnce ==
  /\ Looking
  /\ Critical(idx)
  /\ idx \in Active
  /\ any_critical' = TRUE
  /\ mission_state' = Escalated(EMERGENCY)
  /\ idx' = idx + 1
  /\ Emit(2 + EscalateEvents(EMERGENCY), errors)
  /\ UNCHANGED <<last_batt_soc, battery_level_in, cycles, restart_counts, thread,
                 params_ok, at, any_warning>>

FoundUnrecoverable ==
  /\ Looking
  /\ Critical(idx)
  /\ idx \in Active
  /\ restart_counts[idx] >= MAX_RESTARTS
  /\ any_critical' = TRUE
  /\ mission_state' = Escalated(EMERGENCY)
  /\ idx' = idx + 1
  /\ Emit(2 + EscalateEvents(EMERGENCY), errors)
  /\ UNCHANGED <<last_batt_soc, battery_level_in, cycles, restart_counts, thread,
                 params_ok, at, any_warning>>

\* MUTANT of HealthDemand: a warning hides a critical failure.
HealthDemandWarningFirst ==
  CASE any_warning -> DEGRADED
    [] ~any_warning /\ any_critical -> SAFE_MODE
    [] OTHER -> BOOT

\* The mission state the subsystems call for.
HealthDemand ==
  CASE any_critical -> SAFE_MODE
    [] ~any_critical /\ any_warning -> DEGRADED
    [] OTHER -> BOOT

EscalateForHealth ==
  /\ at = "checkSubsystems"
  /\ idx = MonitoredCount + 1
  /\ mission_state' = Escalated(HealthDemand)
  /\ Emit(EscalateEvents(HealthDemand), errors)
  /\ at' = "tryRecoverNominal"
  /\ idx' = 1
  /\ UNCHANGED <<last_batt_soc, battery_level_in, cycles, restart_counts, thread,
                 params_ok, any_critical, any_warning>>

-----------------------------------------------------------------------------
(* tryRecoverNominal *)

\* MUTANT of RecoverPct: recovery below the level that degrades.
RecoverPctBelowDegraded == DegradedPct - Hysteresis

RecoverPct ==
  IF DegradedPct + Hysteresis > BattMax THEN BattMax ELSE DegradedPct + Hysteresis

\* MUTANT of RecoveryPossible: EMERGENCY is recovered from too.
RecoveryAlwaysPossible == mission_state # NOMINAL

RecoveryPossible == mission_state \in {DEGRADED, SAFE_MODE}

\* MUTANT of SeenHealthy: a subsystem in WARNING passes for healthy.
SeenNotCritical ==
  /\ at = "tryRecoverNominal"
  /\ RecoveryPossible
  /\ idx <= MonitoredCount
  /\ ~Critical(idx)
  /\ idx' = idx + 1
  /\ UNCHANGED <<mission_state, last_batt_soc, battery_level_in, cycles, errors,
                 restart_counts, thread, event_count, params_ok, at,
                 any_critical, any_warning>>

SeenHealthy ==
  /\ at = "tryRecoverNominal"
  /\ RecoveryPossible
  /\ idx <= MonitoredCount
  /\ Healthy(idx)
  /\ idx' = idx + 1
  /\ UNCHANGED <<mission_state, last_batt_soc, battery_level_in, cycles, errors,
                 restart_counts, thread, event_count, params_ok, at,
                 any_critical, any_warning>>

\* Some subsystem is not NOMINAL, the charge is too low, or there is nothing
\* to recover from.
NoRecovery ==
  /\ at = "tryRecoverNominal"
  /\ \/ ~RecoveryPossible
     \/ idx <= MonitoredCount /\ ~Healthy(idx)
     \/ idx = MonitoredCount + 1 /\ last_batt_soc <= RecoverPct
  /\ at' = "periodic"
  /\ UNCHANGED <<mission_state, last_batt_soc, battery_level_in, cycles, errors,
                 restart_counts, thread, event_count, params_ok, idx,
                 any_critical, any_warning>>

Recover ==
  /\ at = "tryRecoverNominal"
  /\ RecoveryPossible
  /\ idx = MonitoredCount + 1
  /\ last_batt_soc > RecoverPct
  /\ mission_state' = NOMINAL
  /\ Emit(1, errors)
  /\ at' = "periodic"
  /\ UNCHANGED <<last_batt_soc, battery_level_in, cycles, restart_counts, thread,
                 params_ok, idx, any_critical, any_warning>>

-----------------------------------------------------------------------------
(* the end of step: parameter check and heartbeat *)

Periodic ==
  /\ at = "periodic"
  /\ LET mismatch == cycles = 0 /\ ~params_ok
         state == IF mismatch THEN Escalated(SAFE_MODE) ELSE mission_state
         heartbeat == IF cycles % HEARTBEAT_INTERVAL = 0 THEN 1 ELSE 0
     IN  /\ mission_state' = state
         /\ Emit((IF mismatch THEN 1 + EscalateEvents(SAFE_MODE) ELSE 0) + heartbeat,
                 errors)
  /\ at' = "cmd_hub"
  /\ UNCHANGED <<last_batt_soc, battery_level_in, cycles, restart_counts, thread,
                 params_ok, idx, any_critical, any_warning>>

-----------------------------------------------------------------------------
(* the rest of the NORM tick, and the other threads *)

\* The components stepped before the event hub are done.
HubsDone ==
  /\ at = "cmd_hub"
  /\ at' = "event_hub"
  /\ UNCHANGED <<mission_state, last_batt_soc, battery_level_in, cycles, errors,
                 restart_counts, thread, event_count, params_ok, idx,
                 any_critical, any_warning>>

\* EventHub::step drains the watchdog's events.
DrainEvents ==
  /\ at = "event_hub"
  /\ event_count' = 0
  /\ at' = "battery"
  /\ UNCHANGED <<mission_state, last_batt_soc, battery_level_in, cycles, errors,
                 restart_counts, thread, params_ok, idx, any_critical, any_warning>>

\* PowerComponent::step sends its state of charge; the next tick begins.
SendReading(soc) ==
  /\ at = "battery"
  /\ battery_level_in' = Append(battery_level_in, soc)
  /\ at' = "checkBattery"
  /\ UNCHANGED <<mission_state, last_batt_soc, cycles, errors, restart_counts,
                 thread, event_count, params_ok, idx, any_critical, any_warning>>

\* Where a subsystem's own step may be running.
Stepping(c) ==
  \/ c \in Norm /\ at \in {"cmd_hub", "event_hub", "battery"}
  \/ c \in Fast /\ at # "boot"
  \/ c \in Active /\ thread[c].pc = "step"

\* One or more errors, counted by the component itself.
RecordErrors(c) ==
  /\ Stepping(c)
  /\ \E n \in errors[c] + 1 .. CRITICAL_THRESHOLD :
       errors' = [errors EXCEPT ![c] = n]
  /\ UNCHANGED <<mission_state, last_batt_soc, battery_level_in, cycles,
                 restart_counts, thread, event_count, params_ok, at, idx,
                 any_critical, any_warning>>

\* The loop of Os::Thread: test running, step, sleep, test again.
TestRunning(c) ==
  /\ thread[c].pc = "test"
  /\ thread' = [thread EXCEPT ![c].pc = IF thread[c].running THEN "step" ELSE "exited"]
  /\ UNCHANGED <<mission_state, last_batt_soc, battery_level_in, cycles, errors,
                 restart_counts, event_count, params_ok, at, idx,
                 any_critical, any_warning>>

FinishStep(c) ==
  /\ thread[c].pc = "step"
  /\ thread' = [thread EXCEPT ![c].pc = "test"]
  /\ UNCHANGED <<mission_state, last_batt_soc, battery_level_in, cycles, errors,
                 restart_counts, event_count, params_ok, at, idx,
                 any_critical, any_warning>>

\* An upset in the parameter table, and setParam, which recomputes the CRC.
SetIntegrity(ok) ==
  /\ at # "boot"
  /\ params_ok' = ok
  /\ UNCHANGED <<mission_state, last_batt_soc, battery_level_in, cycles, errors,
                 restart_counts, thread, event_count, at, idx,
                 any_critical, any_warning>>

-----------------------------------------------------------------------------

CheckSubsystem ==
  \/ FoundNominal
  \/ FoundWarning
  \/ FoundCriticalPassive
  \/ StopWorker
  \/ RestartWorker
  \/ FoundUnrecoverable
  \/ EscalateForHealth

Step ==
  \/ ProcessBattery
  \/ BatteryDrained
  \/ CheckSubsystem
  \/ SeenHealthy
  \/ NoRecovery
  \/ Recover
  \/ Periodic

NormTick == Step \/ HubsDone \/ DrainEvents \/ \E soc \in BattLevels : SendReading(soc)

Worker(c) == TestRunning(c) \/ FinishStep(c)

Next ==
  \/ Boot
  \/ NormTick
  \/ \E c \in Active : Worker(c)
  \/ \E c \in Subsystem : RecordErrors(c)
  \/ \E ok \in BOOLEAN : SetIntegrity(ok)

\* The NORM thread ticks forever and a step of an active component returns.
Fairness ==
  /\ WF_vars(NormTick)
  /\ \A c \in Active : WF_vars(Worker(c))

Spec == Init /\ [][Next]_vars /\ Fairness

-----------------------------------------------------------------------------
(* What the supervisor is for.                                             *)

\* A reading the watchdog has processed stays answered: outside the step that
\* took it the mission state is never better than that charge calls for,
\* whichever recovery came in between (DV-FDIR-01, DV-FDIR-02).
BatteryCovered ==
  at # "boot" => mission_state >= BatteryDemand(last_batt_soc)

\* When the step is over, no component of the NORM thread that was in WARNING
\* or CRITICAL_FAILURE as it began has been left in too good a mission state,
\* recovery included (DV-FDIR-03).
FaultCovered ==
  at = "periodic" =>
    \A c \in Norm :
      /\ ~Healthy(c) => mission_state >= DEGRADED
      /\ Critical(c) => mission_state >= SAFE_MODE

\* EMERGENCY is final, so it takes an empty battery or an active component
\* that is critical with every restart it is allowed spent (DV-FDIR-04).
EmergencyIsEarned ==
  [][mission_state' = EMERGENCY /\ mission_state # EMERGENCY =>
       \/ last_batt_soc' <= EmergencyPct
       \/ \E c \in Active : Critical(c) /\ restart_counts[c] = MAX_RESTARTS]_vars

\* The mission state moves as MissionMode says, with recovery allowed only
\* when no reading waits, the charge is above the hysteresis level and every
\* component the NORM thread can see steadily is NOMINAL.
Mode == INSTANCE MissionMode WITH
  mode <- mission_state,
  healthy <- /\ battery_level_in = <<>>
             /\ last_batt_soc > RecoverPct
             /\ \A c \in Norm \cup {Supervisor} : Healthy(c)

ImplementsMissionMode == Mode!Spec

\* A passive component cannot be restarted, so once it is in WARNING the
\* mission is, from some point on, never NOMINAL again: no fault is seen once
\* and forgotten, by other errors, restarts or a slow join in between.
PassiveFaultLatches ==
  \A c \in Passive : (~Healthy(c)) ~> [](mission_state >= DEGRADED)

\* The watchdog waits inside its own step for the worker it restarts; whatever
\* that worker was doing, the wait ends and the watchdog gets back to the battery
\* (WatchdogComponent.hpp:324, DV-FDIR-01).
SupervisionResumes == (at = "joinThread") ~> (at = "checkBattery")

=============================================================================
