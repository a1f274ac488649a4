-------------------------- MODULE FlightCoreProofs ---------------------------
(***************************************************************************)
(* What holds of the watchdog for every set of subsystems, every battery   *)
(* and every threshold in order; then its composition with the command     *)
(* hub: it is still the watchdog, and a NORM target never executes what    *)
(* its mission state forbids.                                              *)
(***************************************************************************)
EXTENDS FlightCore, TLAPS

Counts == [Subsystem -> 0 .. CRITICAL_THRESHOLD]

\* The cycle counter modulo an interval is below it.
LEMMA ModuloLemma ==
  ASSUME NEW c \in Nat, NEW n \in Nat \ {0}
  PROVE  c % n \in 0 .. n - 1
OBVIOUS

\* A port with room takes the events; every other event is one more error of
\* the watchdog, and of nobody else.
LEMMA EmitLemma ==
  ASSUME event_count \in 0 .. EventDepth,
         NEW counts \in Counts, NEW n \in Nat, Emit(n, counts)
  PROVE  /\ event_count' \in 0 .. EventDepth
         /\ errors' \in Counts
         /\ \A c \in Subsystem \ {Supervisor} : errors'[c] = counts[c]
<1> DEFINE room == EventDepth - event_count
           lost == IF n > room THEN n - room ELSE 0
<1>1. room \in Nat /\ lost \in Nat /\ event_count + n - lost \in 0 .. EventDepth
  BY WatchdogAssumption
<1>2. event_count' = event_count + n - lost
      /\ errors' = [counts EXCEPT ![Supervisor] = Saturated(@ + lost)]
  BY DEF Emit
<1>3. \A k \in Nat : Saturated(k) \in 0 .. CRITICAL_THRESHOLD
  BY WatchdogAssumption DEF Saturated
<1>4. counts[Supervisor] + lost \in Nat
  BY <1>1, WatchdogAssumption DEF Counts
<1> QED BY <1>1, <1>2, <1>3, <1>4 DEF Counts

\* escalate never improves the mission state and never falls short of what is
\* asked.
LEMMA EscalatedLemma ==
  ASSUME mission_state \in MissionState, NEW next \in MissionState
  PROVE  /\ Escalated(next) \in MissionState
         /\ Escalated(next) >= mission_state
         /\ Escalated(next) >= next
         /\ Escalated(next) \in {mission_state, next}
         /\ EscalateEvents(next) \in Nat
BY DEF Escalated, EscalateEvents, MissionState, BOOT, EMERGENCY

\* A demand is a mission state; a charge above the recovery level demands
\* nothing, and only one at or under the emergency level demands EMERGENCY.
LEMMA DemandLemma ==
  ASSUME NEW soc \in BattLevels
  PROVE  /\ BatteryDemand(soc) \in MissionState
         /\ soc > RecoverPct => BatteryDemand(soc) = BOOT
         /\ BatteryDemand(BattMax) = BOOT
         /\ BatteryDemand(soc) = EMERGENCY => soc <= EmergencyPct
BY WatchdogAssumption
   DEF BatteryDemand, RecoverPct, MissionState, BOOT, DEGRADED, SAFE_MODE, EMERGENCY

\* The demand of the subsystems is never EMERGENCY.
LEMMA HealthDemandLemma ==
  HealthDemand \in MissionState \ {EMERGENCY}
BY DEF HealthDemand, MissionState, BOOT, DEGRADED, SAFE_MODE, EMERGENCY

-----------------------------------------------------------------------------

\* Only an active component is ever joined.
JoinsActive == at = "joinThread" => idx \in Active

TypeInv == TypeOK /\ JoinsActive

\* The constructed watchdog satisfies the type invariant.
LEMMA TypeInit == Init => TypeInv
<1> SUFFICES ASSUME Init PROVE TypeInv
  OBVIOUS
<1>1. mission_state \in MissionState /\ last_batt_soc \in BattLevels
      /\ battery_level_in \in Seq(BattLevels)
  BY WatchdogAssumption DEF Init, MissionState, BOOT, EMERGENCY
<1>2. cycles \in 0 .. PARAM_CHECK_INTERVAL - 1 /\ event_count \in 0 .. EventDepth
      /\ idx \in 1 .. MonitoredCount + 1
  BY WatchdogAssumption DEF Init
<1>3. errors \in [Subsystem -> 0 .. CRITICAL_THRESHOLD]
      /\ restart_counts \in [Subsystem -> 0 .. MAX_RESTARTS]
  BY WatchdogAssumption DEF Init
<1>4. thread \in [Active -> ThreadState]
  BY DEF Init, ThreadState
<1> QED BY <1>1, <1>2, <1>3, <1>4 DEF Init, TypeInv, TypeOK, JoinsActive, Place

\* Every step of the watchdog, the hub, the battery, the components and their
\* threads preserves the type invariant.
LEMMA TypeNext == TypeInv /\ [Next]_vars => TypeInv'
<1> SUFFICES ASSUME TypeInv, [Next]_vars
             PROVE  TypeInv'
  OBVIOUS
<1> USE DEF TypeInv, TypeOK, JoinsActive
<1>a. Active \subseteq Subsystem /\ Supervisor \in Subsystem /\ BattMax \in BattLevels
      /\ MonitoredCount \in Nat /\ CRITICAL_THRESHOLD \in Nat
      /\ MAX_RESTARTS \in Nat /\ EventDepth \in Nat /\ PARAM_CHECK_INTERVAL \in Nat \ {0}
  BY WatchdogAssumption
<1>b. errors \in Counts
  BY DEF Counts
<1>c. EMERGENCY \in MissionState /\ SAFE_MODE \in MissionState
      /\ NOMINAL \in MissionState
  BY DEF EMERGENCY, SAFE_MODE, NOMINAL, MissionState, BOOT
<1>d. \A n \in Nat : Emit(n, errors) => /\ event_count' \in 0 .. EventDepth
                                        /\ errors' \in [Subsystem -> 0 .. CRITICAL_THRESHOLD]
  BY <1>b, EmitLemma DEF Counts
<1>1. CASE Boot
  BY <1>1, <1>a, <1>c, <1>d DEF Boot, Place, InStep, ThreadState
<1>2. CASE ProcessBattery
  <2> DEFINE soc == Head(battery_level_in)
             demand == BatteryDemand(soc)
  <2>1. soc \in BattLevels /\ Tail(battery_level_in) \in Seq(BattLevels)
    BY <1>2 DEF ProcessBattery
  <2>2. demand \in MissionState
    BY <2>1, DemandLemma
  <2>3. Escalated(demand) \in MissionState /\ EscalateEvents(demand) \in Nat
    BY <2>2, EscalatedLemma
  <2>4. (IF demand = BOOT THEN 0 ELSE 1) + EscalateEvents(demand) \in Nat
    BY <2>3
  <2>5. Emit((IF demand = BOOT THEN 0 ELSE 1) + EscalateEvents(demand), errors)
    BY <1>2 DEF ProcessBattery
  <2>6. event_count' \in 0 .. EventDepth /\ errors' \in [Subsystem -> 0 .. CRITICAL_THRESHOLD]
    BY <2>4, <2>5, <1>d
  <2> QED BY <1>2, <2>1, <2>3, <2>6 DEF ProcessBattery
<1>3. CASE BatteryDrained
  <2>1. cycles + 1 \in Nat /\ PARAM_CHECK_INTERVAL \in Nat \ {0}
    BY <1>a
  <2>2. (cycles + 1) % PARAM_CHECK_INTERVAL \in 0 .. PARAM_CHECK_INTERVAL - 1
    BY <2>1, ModuloLemma
  <2>3. cycles' \in 0 .. PARAM_CHECK_INTERVAL - 1
    BY <1>3, <2>2 DEF BatteryDrained
  <2>4. idx' \in 1 .. MonitoredCount + 1
    BY <1>3, <1>a DEF BatteryDrained
  <2> QED BY <1>3, <2>3, <2>4 DEF BatteryDrained, Place, InStep
<1>4. CASE CheckSubsystem
  <2>1. CASE FoundNominal
    BY <2>1, <1>a DEF FoundNominal, Looking
  <2>2. CASE FoundWarning
    BY <2>2, <1>a, <1>d DEF FoundWarning, Looking
  <2>3. CASE FoundCriticalPassive
    BY <2>3, <1>a, <1>d DEF FoundCriticalPassive, Looking
  <2>4. CASE StopWorker
    <3>1. restart_counts' \in [Subsystem -> 0 .. MAX_RESTARTS]
      BY <2>4, <1>a, SMTT(20) DEF StopWorker
    <3>2. thread' \in [Active -> ThreadState]
      BY <2>4 DEF StopWorker, ThreadState
    <3>3. event_count' \in 0 .. EventDepth /\ errors' \in [Subsystem -> 0 .. CRITICAL_THRESHOLD]
      BY <2>4, <1>d DEF StopWorker
    <3> QED BY <2>4, <3>1, <3>2, <3>3 DEF StopWorker, Place, InStep
  <2>5. CASE RestartWorker
    <3>1. idx \in Active /\ idx \in Subsystem
      BY <2>5, <1>a DEF RestartWorker
    <3>2. [errors EXCEPT ![idx] = 0] \in Counts
      BY <3>1, <1>a, <1>b DEF Counts
    <3>3. event_count' \in 0 .. EventDepth /\ errors' \in [Subsystem -> 0 .. CRITICAL_THRESHOLD]
      BY <2>5, <3>2, EmitLemma DEF RestartWorker, Counts
    <3>4. thread' \in [Active -> ThreadState]
      BY <2>5 DEF RestartWorker, ThreadState
    <3> QED BY <2>5, <3>1, <3>3, <3>4, <1>a DEF RestartWorker, Subsystem, Place, InStep
  <2>6. CASE FoundUnrecoverable
    <3>1. Escalated(EMERGENCY) \in MissionState /\ 2 + EscalateEvents(EMERGENCY) \in Nat
      BY <1>c, EscalatedLemma
    <3> QED BY <2>6, <3>1, <1>a, <1>d DEF FoundUnrecoverable, Looking
  <2>7. CASE EscalateForHealth
    <3>1. Escalated(HealthDemand) \in MissionState /\ EscalateEvents(HealthDemand) \in Nat
      BY HealthDemandLemma, EscalatedLemma
    <3> QED BY <2>7, <3>1, <1>a, <1>d DEF EscalateForHealth, Place, InStep
  <2> QED BY <1>4, <2>1, <2>2, <2>3, <2>4, <2>5, <2>6, <2>7 DEF CheckSubsystem
<1>5. CASE SeenHealthy
  BY <1>5, <1>a DEF SeenHealthy
<1>6. CASE NoRecovery
  BY <1>6 DEF NoRecovery, Place, InStep
<1>7. CASE Recover
  BY <1>7, <1>c, <1>d DEF Recover, Place, InStep
<1>8. CASE Periodic
  <2> DEFINE mismatch == cycles = 0 /\ ~params_ok
             heartbeat == IF cycles % HEARTBEAT_INTERVAL = 0 THEN 1 ELSE 0
             n == (IF mismatch THEN 1 + EscalateEvents(SAFE_MODE) ELSE 0) + heartbeat
  <2>1. Escalated(SAFE_MODE) \in MissionState /\ EscalateEvents(SAFE_MODE) \in Nat
    BY <1>c, EscalatedLemma
  <2>2. n \in Nat
    BY <2>1
  <2>3. Emit(n, errors) /\ mission_state' = IF mismatch THEN Escalated(SAFE_MODE) ELSE mission_state
    BY <1>8 DEF Periodic
  <2>4. event_count' \in 0 .. EventDepth /\ errors' \in [Subsystem -> 0 .. CRITICAL_THRESHOLD]
    BY <2>2, <2>3, <1>d
  <2>5. mission_state' \in MissionState
    BY <2>1, <2>3
  <2> QED BY <1>8, <2>4, <2>5 DEF Periodic, Place
<1>9. CASE HubsDone \/ DrainEvents
  BY <1>9, <1>a DEF HubsDone, DrainEvents, Place
<1>10. ASSUME NEW soc \in BattLevels, SendReading(soc)
       PROVE  TypeInv'
  BY <1>10 DEF SendReading, Place, InStep
<1>11. ASSUME NEW c \in Active, Worker(c)
       PROVE  TypeInv'
  <2>1. CASE TestRunning(c)
    <3>1. thread' \in [Active -> ThreadState]
      BY <2>1 DEF TestRunning, ThreadState
    <3> QED BY <2>1, <3>1 DEF TestRunning
  <2>2. CASE FinishStep(c)
    <3>1. thread' \in [Active -> ThreadState]
      BY <2>2 DEF FinishStep, ThreadState
    <3> QED BY <2>2, <3>1 DEF FinishStep
  <2> QED BY <1>11, <2>1, <2>2 DEF Worker
<1>12. ASSUME NEW c \in Subsystem, RecordErrors(c)
       PROVE  TypeInv'
  <2>1. PICK n \in errors[c] + 1 .. CRITICAL_THRESHOLD : errors' = [errors EXCEPT ![c] = n]
    BY <1>12 DEF RecordErrors
  <2>2. n \in 0 .. CRITICAL_THRESHOLD
    BY WatchdogAssumption
  <2> QED BY <1>12, <2>1, <2>2 DEF RecordErrors
<1>13. ASSUME NEW ok \in BOOLEAN, SetIntegrity(ok)
       PROVE  TypeInv'
  BY <1>13 DEF SetIntegrity
<1>14. CASE UNCHANGED vars
  BY <1>14 DEF vars
<1> QED
  BY <1>1, <1>2, <1>3, <1>4, <1>5, <1>6, <1>7, <1>8, <1>9, <1>10, <1>11, <1>12,
     <1>13, <1>14 DEF Next, NormTick, Step

\* The type invariant holds of every behaviour.
THEOREM TypeCorrect == Spec => []TypeOK
<1>1. TypeInv => TypeOK
  BY DEF TypeInv
<1> QED BY TypeInit, TypeNext, <1>1, PTL DEF Spec

-----------------------------------------------------------------------------
(* The safety invariant, place by place along the step.                    *)

\* init has run exactly when the mission state is no longer BOOT.
BootState == at = "boot" <=> mission_state = BOOT

\* The battery sends between two steps, and the step starts by draining.
ReadingsTaken == at # "checkBattery" => battery_level_in = <<>>

\* What the scan has passed over, it has noted.
FaultsFlagged ==
  at \in {"checkSubsystems", "joinThread"} =>
    \A c \in Norm :
      c < idx =>
        /\ ~Healthy(c) => any_warning \/ any_critical
        /\ Critical(c) => any_critical

Covered ==
  \A c \in Norm :
    /\ ~Healthy(c) => mission_state >= DEGRADED
    /\ Critical(c) => mission_state >= SAFE_MODE

\* The scan over, the mission state is bad enough until recovery.
FaultsEscalated == at = "tryRecoverNominal" => Covered

\* The second scan gets past healthy subsystems only, and these stay healthy.
ScannedHealthy ==
  at = "tryRecoverNominal" =>
    \A c \in Norm \cup {Supervisor} : c < idx => Healthy(c)

SafeInv ==
  /\ TypeInv
  /\ BootState
  /\ ReadingsTaken
  /\ BatteryCovered
  /\ FaultsFlagged
  /\ FaultsEscalated
  /\ ScannedHealthy
  /\ FaultCovered

\* An emit changes no error count but the watchdog's.
LEMMA EmitOthers ==
  ASSUME NEW counts \in Counts, NEW n, Emit(n, counts)
  PROVE  \A c \in Subsystem \ {Supervisor} : errors'[c] = counts[c]
BY DEF Emit, Counts

\* During the watchdog's step the error counts of the NORM components do not
\* move; in its second scan the watchdog's own does not either.
LEMMA NormFrozen ==
  ASSUME TypeInv, [Next]_vars, at \in InStep
  PROVE  /\ \A c \in Norm : errors'[c] = errors[c]
         /\ at = "tryRecoverNominal" /\ at' = at => errors'[Supervisor] = errors[Supervisor]
<1>a. errors \in Counts
  BY DEF TypeInv, TypeOK, Counts
<1>b. /\ Norm \subseteq Subsystem \ {Supervisor}
      /\ Norm \cap Active = {} /\ Norm \cap Fast = {}
      /\ Supervisor \in Subsystem /\ Supervisor \notin Active \cup Fast \cup Norm
  BY WatchdogAssumption DEF Norm, Passive
<1>c. \A n : Emit(n, errors) => \A c \in Norm : errors'[c] = errors[c]
  BY <1>a, <1>b, EmitOthers
<1>1. CASE Boot
  BY <1>1 DEF Boot, InStep
<1>2. CASE ProcessBattery
  BY <1>2, <1>c DEF ProcessBattery
<1>3. CASE BatteryDrained \/ SeenHealthy \/ NoRecovery \/ HubsDone
  BY <1>3 DEF BatteryDrained, SeenHealthy, NoRecovery, HubsDone
<1>4. CASE CheckSubsystem
  <2>1. CASE FoundNominal
    BY <2>1 DEF FoundNominal, Looking
  <2>2. CASE FoundWarning
    BY <2>2, <1>c DEF FoundWarning, Looking
  <2>3. CASE FoundCriticalPassive
    BY <2>3, <1>c DEF FoundCriticalPassive, Looking
  <2>4. CASE StopWorker
    BY <2>4, <1>c DEF StopWorker, Looking
  <2>5. CASE RestartWorker
    <3> DEFINE counts == [errors EXCEPT ![idx] = 0]
    <3>1. idx \in Active /\ counts \in Counts /\ Emit(1, counts) /\ at # "tryRecoverNominal"
      BY <2>5, <1>a, WatchdogAssumption DEF RestartWorker, TypeInv, JoinsActive, Counts
    <3>2. \A c \in Norm : counts[c] = errors[c]
      BY <3>1, <1>a, <1>b DEF Counts
    <3>3. \A c \in Norm : errors'[c] = counts[c]
      BY <3>1, <1>b, EmitOthers
    <3> QED BY <3>1, <3>2, <3>3
  <2>6. CASE FoundUnrecoverable
    BY <2>6, <1>c DEF FoundUnrecoverable, Looking
  <2>7. CASE EscalateForHealth
    BY <2>7, <1>c DEF EscalateForHealth
  <2> QED BY <1>4, <2>1, <2>2, <2>3, <2>4, <2>5, <2>6, <2>7 DEF CheckSubsystem
<1>5. CASE Recover
  BY <1>5, <1>c DEF Recover
<1>6. CASE Periodic
  BY <1>6, <1>c DEF Periodic
<1>7. CASE DrainEvents \/ \E soc \in BattLevels : SendReading(soc)
  BY <1>7 DEF DrainEvents, SendReading, InStep
<1>8. ASSUME NEW c \in Active, Worker(c)
      PROVE  errors' = errors
  BY <1>8 DEF Worker, TestRunning, FinishStep
<1>9. ASSUME NEW d \in Subsystem, RecordErrors(d)
      PROVE  d \notin Norm \cup {Supervisor} /\ \A c \in Subsystem \ {d} : errors'[c] = errors[c]
  <2>1. d \notin Norm \cup {Supervisor}
    BY <1>9, <1>b DEF RecordErrors, Stepping, InStep
  <2>2. PICK n : errors' = [errors EXCEPT ![d] = n]
    BY <1>9 DEF RecordErrors
  <2> QED BY <2>1, <2>2, <1>a DEF Counts
<1>10. CASE UNCHANGED vars \/ \E ok \in BOOLEAN : SetIntegrity(ok)
  BY <1>10 DEF vars, SetIntegrity
<1> QED
  BY <1>1, <1>2, <1>3, <1>4, <1>5, <1>6, <1>7, <1>8, <1>9, <1>10, <1>b
     DEF Next, NormTick, Step

\* The watchdog starts safe.
LEMMA SafeInit == Init => SafeInv
<1>1. Init => BatteryDemand(last_batt_soc) = BOOT
  BY WatchdogAssumption, DemandLemma DEF Init
<1> QED
  BY TypeInit, <1>1
     DEF Init, SafeInv, BootState, ReadingsTaken, BatteryCovered, FaultsFlagged,
         FaultsEscalated, ScannedHealthy, FaultCovered

-----------------------------------------------------------------------------
(* The invariant is inductive: one lemma per part.                         *)

\* The mission state after each action of the watchdog.
LEMMA MissionStep ==
  ASSUME TypeInv, [Next]_vars
  PROVE  \/ Boot /\ mission_state' = NOMINAL
         \/ ProcessBattery /\ mission_state' = Escalated(BatteryDemand(last_batt_soc'))
                           /\ last_batt_soc' \in BattLevels
         \/ FoundUnrecoverable /\ mission_state' = Escalated(EMERGENCY)
         \/ EscalateForHealth /\ mission_state' = Escalated(HealthDemand)
         \/ Recover /\ mission_state' = NOMINAL
         \/ Periodic /\ mission_state' \in {mission_state, Escalated(SAFE_MODE)}
         \/ /\ mission_state' = mission_state /\ last_batt_soc' = last_batt_soc
            /\ (at # "boot" /\ at' # "boot") \/ at' = at
<1>1. CASE ProcessBattery
  BY <1>1, TypeNext DEF ProcessBattery, TypeInv, TypeOK
<1>2. CASE BatteryDrained \/ SeenHealthy \/ NoRecovery \/ HubsDone \/ DrainEvents
  BY <1>2 DEF BatteryDrained, SeenHealthy, NoRecovery, HubsDone, DrainEvents
<1>3. CASE CheckSubsystem
  BY <1>3 DEF CheckSubsystem, FoundNominal, FoundWarning, FoundCriticalPassive,
     StopWorker, RestartWorker, FoundUnrecoverable, EscalateForHealth, Looking
<1>4. CASE Boot \/ Recover \/ Periodic
  BY <1>4 DEF Boot, Recover, Periodic
<1>5. CASE (\E soc \in BattLevels : SendReading(soc)) \/ (\E c \in Active : Worker(c))
           \/ (\E c \in Subsystem : RecordErrors(c)) \/ (\E ok \in BOOLEAN : SetIntegrity(ok))
  BY <1>5 DEF SendReading, Worker, TestRunning, FinishStep, RecordErrors, SetIntegrity
<1>6. CASE UNCHANGED vars
  BY <1>6 DEF vars
<1> QED BY <1>1, <1>2, <1>3, <1>4, <1>5, <1>6 DEF Next, NormTick, Step

\* BOOT is left once, by init.
LEMMA BootStateNext == SafeInv /\ [Next]_vars => BootState'
<1> SUFFICES ASSUME SafeInv, [Next]_vars PROVE BootState'
  OBVIOUS
<1>1. TypeInv /\ BootState /\ mission_state \in MissionState
  BY DEF SafeInv, TypeInv, TypeOK
<1>2. \A next \in MissionState : Escalated(next) >= mission_state
  BY <1>1, EscalatedLemma
<1>3. {EMERGENCY, SAFE_MODE, HealthDemand} \subseteq MissionState
  BY HealthDemandLemma DEF EMERGENCY, SAFE_MODE, MissionState, BOOT
<1>4. \A soc \in BattLevels : BatteryDemand(soc) \in MissionState
  BY DemandLemma
<1>5. mission_state \in Nat /\ BOOT = 0 /\ NOMINAL = 1
  BY <1>1 DEF MissionState, BOOT, EMERGENCY, NOMINAL
<1>6. CASE Boot /\ mission_state' = NOMINAL
  BY <1>6, <1>5 DEF Boot, BootState
<1>7. CASE at # "boot" /\ at' # "boot"  /\ mission_state' >= mission_state
  BY <1>1, <1>5, <1>7 DEF BootState
<1>8. CASE ProcessBattery /\ mission_state' = Escalated(BatteryDemand(last_batt_soc'))
           /\ last_batt_soc' \in BattLevels
  BY <1>2, <1>4, <1>7, <1>8 DEF ProcessBattery
<1>9. CASE FoundUnrecoverable /\ mission_state' = Escalated(EMERGENCY)
  BY <1>2, <1>3, <1>7, <1>9 DEF FoundUnrecoverable, Looking
<1>10. CASE EscalateForHealth /\ mission_state' = Escalated(HealthDemand)
  BY <1>2, <1>3, <1>7, <1>10 DEF EscalateForHealth
<1>11. CASE Recover /\ mission_state' = NOMINAL
  BY <1>11, <1>5 DEF Recover, BootState
<1>12. CASE Periodic /\ mission_state' \in {mission_state, Escalated(SAFE_MODE)}
  BY <1>2, <1>3, <1>5, <1>7, <1>12 DEF Periodic
<1>13. CASE mission_state' = mission_state /\ ((at # "boot" /\ at' # "boot") \/ at' = at)
  BY <1>1, <1>13 DEF BootState
<1> QED
  BY <1>1, <1>6, <1>8, <1>9, <1>10, <1>11, <1>12, <1>13, MissionStep

\* The port is empty whenever the watchdog is past its drain.
LEMMA ReadingsTakenNext == SafeInv /\ [Next]_vars => ReadingsTaken'
<1> SUFFICES ASSUME SafeInv, [Next]_vars PROVE ReadingsTaken'
  OBVIOUS
<1> USE DEF SafeInv, ReadingsTaken
<1>1. CASE Boot \/ ProcessBattery \/ BatteryDrained \/ SeenHealthy \/ NoRecovery
           \/ Recover \/ Periodic \/ HubsDone \/ DrainEvents
  BY <1>1 DEF Boot, ProcessBattery, BatteryDrained, SeenHealthy, NoRecovery,
     Recover, Periodic, HubsDone, DrainEvents
<1>2. CASE CheckSubsystem
  BY <1>2 DEF CheckSubsystem, FoundNominal, FoundWarning, FoundCriticalPassive,
     StopWorker, RestartWorker, FoundUnrecoverable, EscalateForHealth, Looking
<1>3. CASE (\E soc \in BattLevels : SendReading(soc)) \/ (\E c \in Active : Worker(c))
           \/ (\E c \in Subsystem : RecordErrors(c)) \/ (\E ok \in BOOLEAN : SetIntegrity(ok))
  BY <1>3 DEF SendReading, Worker, TestRunning, FinishStep, RecordErrors, SetIntegrity
<1>4. CASE UNCHANGED vars
  BY <1>4 DEF vars
<1> QED BY <1>1, <1>2, <1>3, <1>4 DEF Next, NormTick, Step

\* A processed reading stays answered: recovery needs a charge that demands
\* nothing, and everything else only worsens the mission state.
LEMMA BatteryCoveredNext == SafeInv /\ [Next]_vars => BatteryCovered'
<1> SUFFICES ASSUME SafeInv, [Next]_vars PROVE BatteryCovered'
  OBVIOUS
<1> DEFINE need == BatteryDemand(last_batt_soc)
<1>1. /\ TypeInv /\ BootState /\ BatteryCovered
      /\ mission_state \in MissionState /\ last_batt_soc \in BattLevels
  BY DEF SafeInv, TypeInv, TypeOK
<1>2. \A next \in MissionState : Escalated(next) >= mission_state /\ Escalated(next) >= next
  BY <1>1, EscalatedLemma
<1>3. {EMERGENCY, SAFE_MODE, HealthDemand} \subseteq MissionState
  BY HealthDemandLemma DEF EMERGENCY, SAFE_MODE, MissionState, BOOT
<1>4. \A soc \in BattLevels : BatteryDemand(soc) \in MissionState
  BY DemandLemma
<1>5. MissionState \subseteq Nat /\ BOOT = 0 /\ NOMINAL = 1
  BY DEF MissionState, BOOT, EMERGENCY, NOMINAL
<1>6. BatteryCovered' <=> (at' # "boot" => mission_state' >= BatteryDemand(last_batt_soc'))
  BY DEF BatteryCovered
<1>7. TypeInv' /\ mission_state' \in MissionState
  BY <1>1, TypeNext DEF TypeInv, TypeOK
<1>8. CASE at # "boot" /\ last_batt_soc' = last_batt_soc /\ mission_state' >= mission_state
  <2>1. mission_state >= need
    BY <1>1, <1>8 DEF BatteryCovered
  <2>2. {mission_state, mission_state', need} \subseteq Nat
    BY <1>1, <1>4, <1>5, <1>7
  <2>3. mission_state' >= need
    BY <1>8, <2>1, <2>2
  <2>4. BatteryDemand(last_batt_soc') = need
    BY <1>8
  <2> QED BY <1>6, <2>3, <2>4
<1>9. CASE Boot /\ mission_state' = NOMINAL
  <2>1. BatteryDemand(BattMax) = BOOT
    BY WatchdogAssumption, DemandLemma
  <2> QED BY <1>5, <1>6, <1>9, <2>1 DEF Boot
<1>10. CASE ProcessBattery /\ mission_state' = Escalated(BatteryDemand(last_batt_soc'))
           /\ last_batt_soc' \in BattLevels
  <2>1. BatteryDemand(last_batt_soc') \in MissionState
    BY <1>4, <1>10
  <2> QED BY <1>2, <1>6, <1>10, <2>1
<1>11. CASE FoundUnrecoverable /\ mission_state' = Escalated(EMERGENCY)
  BY <1>2, <1>3, <1>8, <1>11 DEF FoundUnrecoverable, Looking
<1>12. CASE EscalateForHealth /\ mission_state' = Escalated(HealthDemand)
  BY <1>2, <1>3, <1>8, <1>12 DEF EscalateForHealth
<1>13. CASE Recover /\ mission_state' = NOMINAL
  BY <1>1, <1>5, <1>6, <1>13, DemandLemma DEF Recover
<1>14. CASE Periodic /\ mission_state' \in {mission_state, Escalated(SAFE_MODE)}
  <2>1. mission_state \in Nat /\ Escalated(SAFE_MODE) >= mission_state
    BY <1>1, <1>2, <1>3, <1>5
  <2>2. mission_state' >= mission_state
    BY <1>14, <2>1
  <2> QED BY <1>8, <1>14, <2>2 DEF Periodic
<1>15. CASE mission_state' = mission_state /\ last_batt_soc' = last_batt_soc
            /\ ((at # "boot" /\ at' # "boot") \/ at' = at)
  BY <1>1, <1>5, <1>6, <1>15 DEF BatteryCovered
<1> QED
  BY <1>1, <1>9, <1>10, <1>11, <1>12, <1>13, <1>14, <1>15, MissionStep

\* What is scanned healthy is healthy when the second scan is over, and what
\* is scanned unhealthy is flagged.
LEMMA ScannedHealthyNext == SafeInv /\ [Next]_vars => ScannedHealthy'
<1> SUFFICES ASSUME SafeInv, [Next]_vars, at' = "tryRecoverNominal",
                    NEW c \in Norm \cup {Supervisor}, c < idx'
             PROVE  Healthy(c)'
  BY DEF ScannedHealthy
<1>a. TypeInv /\ ScannedHealthy /\ c \in Subsystem /\ idx \in Nat
  BY WatchdogAssumption DEF SafeInv, TypeInv, TypeOK, Norm, Passive
<1>1. CASE EscalateForHealth
  BY <1>1, <1>a DEF EscalateForHealth, Subsystem
<1>2. CASE at = "tryRecoverNominal" /\ idx' = idx
  <2>1. errors'[c] = errors[c]
    BY <1>2, <1>a, NormFrozen DEF InStep
  <2> QED BY <1>2, <1>a, <2>1 DEF ScannedHealthy, Healthy
<1>3. CASE SeenHealthy
  <2>1. errors'[c] = errors[c]
    BY <1>3 DEF SeenHealthy
  <2>2. c = idx \/ c < idx
    BY <1>3, <1>a DEF SeenHealthy, Subsystem
  <2> QED BY <1>3, <1>a, <2>1, <2>2 DEF SeenHealthy, ScannedHealthy, Healthy
<1>4. CASE Boot \/ ProcessBattery \/ BatteryDrained \/ NoRecovery \/ Recover
           \/ Periodic \/ HubsDone \/ DrainEvents
  BY <1>4 DEF Boot, ProcessBattery, BatteryDrained, NoRecovery, Recover, Periodic,
     HubsDone, DrainEvents
<1>5. CASE FoundNominal \/ FoundWarning \/ FoundCriticalPassive \/ StopWorker
           \/ RestartWorker \/ FoundUnrecoverable
  BY <1>5 DEF FoundNominal, FoundWarning, FoundCriticalPassive, StopWorker,
     RestartWorker, FoundUnrecoverable, Looking
<1>6. CASE (\E soc \in BattLevels : SendReading(soc)) \/ (\E d \in Active : Worker(d))
           \/ (\E d \in Subsystem : RecordErrors(d)) \/ (\E ok \in BOOLEAN : SetIntegrity(ok))
  BY <1>2, <1>6 DEF SendReading, Worker, TestRunning, FinishStep, RecordErrors, SetIntegrity
<1>7. CASE UNCHANGED vars
  BY <1>2, <1>7 DEF vars
<1> QED
  BY <1>1, <1>3, <1>4, <1>5, <1>6, <1>7 DEF Next, NormTick, Step, CheckSubsystem

\* The flags of the first scan cover every subsystem it has passed.
LEMMA FaultsFlaggedNext == SafeInv /\ [Next]_vars => FaultsFlagged'
<1> SUFFICES ASSUME SafeInv, [Next]_vars, at' \in {"checkSubsystems", "joinThread"},
                    NEW c \in Norm, c < idx'
             PROVE  /\ ~Healthy(c)' => any_warning' \/ any_critical'
                    /\ Critical(c)' => any_critical'
  BY DEF FaultsFlagged
<1>a. TypeInv /\ FaultsFlagged /\ c \in Subsystem /\ idx \in Nat /\ c \notin Active
      /\ any_critical \in BOOLEAN /\ any_warning \in BOOLEAN
  BY WatchdogAssumption DEF SafeInv, TypeInv, TypeOK, Norm, Passive
<1>b. at \in InStep => (Healthy(c)' <=> Healthy(c)) /\ (Critical(c)' <=> Critical(c))
  <2>1. at \in InStep => errors'[c] = errors[c]
    BY <1>a, NormFrozen
  <2> QED BY <2>1 DEF Healthy, Critical
<1>c. c \in Nat /\ (idx' = idx + 1 => c = idx \/ c < idx)
  BY <1>a DEF Subsystem
<1>d. at \in {"checkSubsystems", "joinThread"} /\ c < idx =>
        /\ ~Healthy(c) => any_warning \/ any_critical
        /\ Critical(c) => any_critical
  BY <1>a DEF FaultsFlagged
<1>e. {"checkSubsystems", "joinThread"} \subseteq InStep
  BY DEF InStep
<1>1. CASE BatteryDrained
  BY <1>1, <1>a DEF BatteryDrained, Subsystem
<1>2. CASE FoundNominal
  <2>1. Healthy(idx) => ~Critical(idx)
    <3>1. idx \in Subsystem
      BY <1>2, <1>a, WatchdogAssumption DEF FoundNominal, Looking, TypeInv, TypeOK, Subsystem
    <3>2. errors[idx] \in 0 .. CRITICAL_THRESHOLD
      BY <1>a, <3>1 DEF TypeInv, TypeOK
    <3> QED BY <3>2, WatchdogAssumption DEF Healthy, Critical
  <2> QED BY <1>2, <1>b, <1>c, <1>d, <1>e, <2>1 DEF FoundNominal, Looking
<1>3. CASE FoundWarning
  BY <1>3, <1>b, <1>c, <1>d, <1>e DEF FoundWarning, Looking, Warning
<1>4. CASE FoundCriticalPassive \/ FoundUnrecoverable
  BY <1>4, <1>b, <1>c, <1>d, <1>e
     DEF FoundCriticalPassive, FoundUnrecoverable, Looking
<1>5. CASE StopWorker
  BY <1>5, <1>b, <1>d, <1>e DEF StopWorker, Looking
<1>6. CASE RestartWorker
  <2>1. idx \in Active
    BY <1>6, <1>a DEF RestartWorker, TypeInv, JoinsActive
  <2> QED BY <1>6, <1>a, <1>b, <1>c, <1>d, <1>e, <2>1 DEF RestartWorker
<1>7. CASE at' = at /\ UNCHANGED <<idx, any_warning, any_critical>>
  BY <1>7, <1>b, <1>d, <1>e
<1>8. CASE Boot \/ ProcessBattery \/ EscalateForHealth \/ SeenHealthy \/ NoRecovery
           \/ Recover \/ Periodic \/ HubsDone \/ DrainEvents
  BY <1>7, <1>8 DEF Boot, ProcessBattery, EscalateForHealth, SeenHealthy, NoRecovery,
     Recover, Periodic, HubsDone, DrainEvents
<1>9. CASE (\E soc \in BattLevels : SendReading(soc)) \/ (\E d \in Active : Worker(d))
           \/ (\E d \in Subsystem : RecordErrors(d)) \/ (\E ok \in BOOLEAN : SetIntegrity(ok))
  BY <1>7, <1>9 DEF SendReading, Worker, TestRunning, FinishStep, RecordErrors, SetIntegrity
<1>10. CASE UNCHANGED vars
  BY <1>7, <1>10 DEF vars
<1> QED
  BY <1>1, <1>2, <1>3, <1>4, <1>5, <1>6, <1>8, <1>9, <1>10
     DEF Next, NormTick, Step, CheckSubsystem

\* When the first scan is over the mission state is as bad as the flags ask,
\* and stays so until the end of the step unless every subsystem is healthy.
LEMMA CoveredNext ==
  SafeInv /\ [Next]_vars => FaultsEscalated' /\ FaultCovered'
<1> SUFFICES ASSUME SafeInv, [Next]_vars, at' \in {"tryRecoverNominal", "periodic"},
                    NEW c \in Norm
             PROVE  /\ ~Healthy(c)' => mission_state' >= DEGRADED
                    /\ Critical(c)' => mission_state' >= SAFE_MODE
  BY DEF FaultsEscalated, FaultCovered, Covered
<1>a. /\ TypeInv /\ FaultsFlagged /\ FaultsEscalated /\ ScannedHealthy /\ FaultCovered
      /\ c \in Subsystem /\ c < MonitoredCount + 1
      /\ mission_state \in MissionState
  BY WatchdogAssumption DEF SafeInv, TypeInv, TypeOK, Norm, Passive, Subsystem
<1>b. at \in InStep => (Healthy(c)' <=> Healthy(c)) /\ (Critical(c)' <=> Critical(c))
  <2>1. at \in InStep => errors'[c] = errors[c]
    BY <1>a, NormFrozen
  <2> QED BY <2>1 DEF Healthy, Critical
<1>c. Critical(c) => ~Healthy(c)
  <2>1. errors[c] \in 0 .. CRITICAL_THRESHOLD
    BY <1>a DEF TypeInv, TypeOK
  <2> QED BY <2>1, WatchdogAssumption DEF Critical, Healthy
<1>1. CASE EscalateForHealth
  <2>1. at = "checkSubsystems" /\ c < idx /\ mission_state' = Escalated(HealthDemand)
    BY <1>1, <1>a DEF EscalateForHealth
  <2>2. (~Healthy(c) => any_warning \/ any_critical) /\ (Critical(c) => any_critical)
    BY <1>a, <2>1 DEF FaultsFlagged
  <2>3. Escalated(HealthDemand) >= HealthDemand
    BY <1>a, HealthDemandLemma, EscalatedLemma
  <2>4. (any_critical => HealthDemand = SAFE_MODE)
        /\ (~any_critical /\ any_warning => HealthDemand = DEGRADED)
    BY DEF HealthDemand
  <2>5. SAFE_MODE = 3 /\ DEGRADED = 2
    BY DEF SAFE_MODE, DEGRADED
  <2>6. (any_critical => Escalated(HealthDemand) >= 3)
        /\ (any_critical \/ any_warning => Escalated(HealthDemand) >= 2)
    <3>1. Escalated(HealthDemand) \in Nat
      BY <1>a, HealthDemandLemma, EscalatedLemma DEF MissionState, BOOT, EMERGENCY
    <3> QED BY <2>3, <2>4, <2>5, <3>1
  <2> QED BY <1>b, <2>1, <2>2, <2>5, <2>6 DEF InStep
<1>2. CASE Recover
  <2>1. at = "tryRecoverNominal" /\ c < idx
    BY <1>2, <1>a DEF Recover
  <2>2. Healthy(c)
    BY <1>a, <2>1 DEF ScannedHealthy
  <2> QED BY <1>b, <1>c, <2>1, <2>2 DEF InStep
<1>3. CASE at = "tryRecoverNominal" /\ mission_state' = mission_state
  <2>1. Covered
    BY <1>a, <1>3 DEF FaultsEscalated
  <2> QED BY <1>b, <1>3, <2>1 DEF Covered, InStep
<1>4. CASE at = "periodic" /\ at' = at /\ mission_state' = mission_state
  BY <1>a, <1>b, <1>4 DEF FaultCovered, InStep
<1>5. CASE SeenHealthy \/ NoRecovery
  BY <1>3, <1>5 DEF SeenHealthy, NoRecovery
<1>6. CASE Boot \/ ProcessBattery \/ BatteryDrained \/ Periodic \/ HubsDone \/ DrainEvents
  BY <1>6 DEF Boot, ProcessBattery, BatteryDrained, Periodic, HubsDone, DrainEvents
<1>7. CASE FoundNominal \/ FoundWarning \/ FoundCriticalPassive \/ StopWorker
           \/ RestartWorker \/ FoundUnrecoverable
  BY <1>7 DEF FoundNominal, FoundWarning, FoundCriticalPassive, StopWorker,
     RestartWorker, FoundUnrecoverable, Looking
<1>8. CASE (\E soc \in BattLevels : SendReading(soc)) \/ (\E d \in Active : Worker(d))
           \/ (\E d \in Subsystem : RecordErrors(d)) \/ (\E ok \in BOOLEAN : SetIntegrity(ok))
  BY <1>3, <1>4, <1>8
     DEF SendReading, Worker, TestRunning, FinishStep, RecordErrors, SetIntegrity
<1>9. CASE UNCHANGED vars
  BY <1>3, <1>4, <1>9 DEF vars
<1> QED
  BY <1>1, <1>2, <1>5, <1>6, <1>7, <1>8, <1>9 DEF Next, NormTick, Step, CheckSubsystem

\* The safety invariant is inductive.
LEMMA SafeNext == SafeInv /\ [Next]_vars => SafeInv'
<1>1. SafeInv /\ [Next]_vars => TypeInv'
  BY TypeNext DEF SafeInv
<1> QED
  BY <1>1, BootStateNext, ReadingsTakenNext, BatteryCoveredNext, FaultsFlaggedNext,
     ScannedHealthyNext, CoveredNext DEF SafeInv

\* The safety invariant of the watchdog holds of every behaviour.
THEOREM Safety == Spec => []SafeInv
BY SafeInit, SafeNext, PTL DEF Spec

\* Outside init the mission state is at least what the last reading demands.
THEOREM BatteryIsCovered == Spec => []BatteryCovered
<1>1. SafeInv => BatteryCovered
  BY DEF SafeInv
<1> QED BY Safety, <1>1, PTL

\* No step leaves a failing NORM component in too good a mission state.
THEOREM FaultsAreCovered == Spec => []FaultCovered
<1>1. SafeInv => FaultCovered
  BY DEF SafeInv
<1> QED BY Safety, <1>1, PTL

-----------------------------------------------------------------------------
(* The actions on the mission state.                                       *)

\* A step into EMERGENCY has its cause before or after it.
Earned ==
  mission_state' = EMERGENCY /\ mission_state # EMERGENCY =>
    \/ last_batt_soc' <= EmergencyPct
    \/ \E c \in Active : Critical(c) /\ restart_counts[c] = MAX_RESTARTS

LEMMA EarnedStep == TypeInv /\ [Next]_vars => [Earned]_vars
<1> SUFFICES ASSUME TypeInv, [Next]_vars, mission_state' = EMERGENCY,
                    mission_state # EMERGENCY
             PROVE  \/ last_batt_soc' <= EmergencyPct
                    \/ \E c \in Active : Critical(c) /\ restart_counts[c] = MAX_RESTARTS
  BY DEF Earned
<1>1. mission_state \in MissionState
  BY DEF TypeInv, TypeOK
<1>2. \A next \in MissionState : Escalated(next) \in {mission_state, next}
  BY <1>1, EscalatedLemma
<1>3. SAFE_MODE \in MissionState /\ SAFE_MODE # EMERGENCY /\ NOMINAL # EMERGENCY
  BY DEF MissionState, SAFE_MODE, NOMINAL, EMERGENCY, BOOT
<1>4. CASE ProcessBattery /\ mission_state' = Escalated(BatteryDemand(last_batt_soc'))
           /\ last_batt_soc' \in BattLevels
  BY <1>2, <1>4, DemandLemma
<1>5. CASE FoundUnrecoverable
  <2>1. idx \in Active /\ Critical(idx) /\ restart_counts[idx] >= MAX_RESTARTS
    BY <1>5 DEF FoundUnrecoverable
  <2>2. restart_counts[idx] \in 0 .. MAX_RESTARTS
    BY <2>1, WatchdogAssumption DEF TypeInv, TypeOK
  <2> QED BY <2>1, <2>2, WatchdogAssumption
<1>6. CASE EscalateForHealth /\ mission_state' = Escalated(HealthDemand)
  BY <1>2, <1>6, HealthDemandLemma
<1> QED
  BY <1>2, <1>3, <1>4, <1>5, <1>6, MissionStep

\* Nothing but an empty battery or a spent restart budget leads to EMERGENCY.
THEOREM EmergencyTakesCause == Spec => EmergencyIsEarned
<1>1. Spec => []TypeInv
  BY TypeInit, TypeNext, PTL DEF Spec
<1> QED BY <1>1, EarnedStep, PTL DEF Spec, EmergencyIsEarned, Earned

LEMMA ModeInit == Init => Mode!Init
BY DEF Init, Mode!Init, Mode!BOOT, BOOT

\* Every step escalates, boots, recovers a healthy vehicle, or leaves the
\* mission state alone.
LEMMA ModeStep == SafeInv /\ SafeInv' /\ [Next]_vars => [Mode!Next]_(Mode!vars)
<1> DEFINE healthy == /\ battery_level_in = <<>>
                      /\ last_batt_soc > RecoverPct
                      /\ \A c \in Norm \cup {Supervisor} : Healthy(c)
<1> SUFFICES ASSUME SafeInv, SafeInv', [Next]_vars
             PROVE  Mode!Next
  OBVIOUS
<1>1. /\ TypeInv /\ BootState /\ ReadingsTaken /\ ScannedHealthy
      /\ mission_state \in MissionState /\ mission_state' \in MissionState
  BY DEF SafeInv, TypeInv, TypeOK
<1>2. healthy \in BOOLEAN /\ healthy' \in BOOLEAN
  OBVIOUS
<1>3. MissionState \subseteq Nat /\ BOOT = 0
  BY DEF MissionState, BOOT, EMERGENCY
<1>4. /\ Mode!BOOT = BOOT /\ Mode!NOMINAL = NOMINAL /\ Mode!DEGRADED = DEGRADED
      /\ Mode!SAFE_MODE = SAFE_MODE /\ Mode!MissionState = MissionState
  BY DEF BOOT, NOMINAL, DEGRADED, SAFE_MODE, MissionState, EMERGENCY,
     Mode!BOOT, Mode!NOMINAL, Mode!DEGRADED, Mode!SAFE_MODE, Mode!MissionState,
     Mode!EMERGENCY
<1>5. CASE mission_state' = mission_state
  BY <1>2, <1>5 DEF Mode!Next, Mode!Drift
<1>6. CASE Boot /\ mission_state' = NOMINAL
  BY <1>1, <1>2, <1>4, <1>6 DEF Boot, BootState, Mode!Next, Mode!Boot
<1>7. CASE at # "boot" /\ mission_state' >= mission_state
  <2>1. mission_state # BOOT
    BY <1>1, <1>7 DEF BootState
  <2>2. CASE mission_state' > mission_state
    BY <1>1, <1>2, <1>4, <2>1, <2>2 DEF Mode!Next, Mode!Escalate
  <2> QED BY <1>1, <1>3, <1>5, <1>7, <2>2
<1>8. CASE Recover
  <2>1. /\ at = "tryRecoverNominal" /\ idx = MonitoredCount + 1
        /\ last_batt_soc > RecoverPct
        /\ mission_state \in {DEGRADED, SAFE_MODE} /\ mission_state' = NOMINAL
    BY <1>8 DEF Recover, RecoveryPossible
  <2>2. \A c \in Norm \cup {Supervisor} : c < MonitoredCount + 1
    BY WatchdogAssumption DEF Norm, Passive, Subsystem
  <2>3. healthy
    BY <1>1, <2>1, <2>2 DEF ReadingsTaken, ScannedHealthy
  <2> QED BY <1>2, <1>4, <2>1, <2>3 DEF Mode!Next, Mode!Recover
<1>9. \A next \in MissionState : Escalated(next) >= mission_state
  BY <1>1, EscalatedLemma
<1>10. /\ {EMERGENCY, SAFE_MODE, HealthDemand} \subseteq MissionState
       /\ \A soc \in BattLevels : BatteryDemand(soc) \in MissionState
  BY HealthDemandLemma, DemandLemma DEF EMERGENCY, SAFE_MODE, MissionState, BOOT
<1>11. CASE ProcessBattery /\ mission_state' = Escalated(BatteryDemand(last_batt_soc'))
            /\ last_batt_soc' \in BattLevels
  BY <1>7, <1>9, <1>10, <1>11 DEF ProcessBattery
<1>12. CASE FoundUnrecoverable /\ mission_state' = Escalated(EMERGENCY)
  BY <1>7, <1>9, <1>10, <1>12 DEF FoundUnrecoverable, Looking
<1>13. CASE EscalateForHealth /\ mission_state' = Escalated(HealthDemand)
  BY <1>7, <1>9, <1>10, <1>13 DEF EscalateForHealth
<1>14. CASE Periodic /\ mission_state' \in {mission_state, Escalated(SAFE_MODE)}
  <2>1. mission_state' = mission_state \/ mission_state' >= mission_state
    BY <1>9, <1>10, <1>14
  <2> QED BY <1>5, <1>7, <1>14, <2>1 DEF Periodic
<1> QED
  BY <1>1, <1>5, <1>6, <1>8, <1>11, <1>12, <1>13, <1>14, MissionStep

\* The watchdog implements MissionMode, for any subsystems and thresholds.
THEOREM MissionModeIsImplemented == Spec => ImplementsMissionMode
BY ModeInit, ModeStep, Safety, PTL DEF Spec, ImplementsMissionMode, Mode!Spec

-----------------------------------------------------------------------------
(* The composition.                                                        *)

\* Seen by the watchdog, a step of the composition is one of its own steps or
\* none: a refusal is an error of a component of the NORM group.
LEMMA FlightStepIsWatchdogStep ==
  TypeInv /\ [FlightNext]_flightVars => [Next]_vars
<1> SUFFICES ASSUME TypeInv, [FlightNext]_flightVars
             PROVE  [Next]_vars
  OBVIOUS
<1>1. CASE FlightBoot
  BY <1>1 DEF FlightBoot, Next
<1>2. CASE Supervise
  BY <1>2 DEF Supervise, Next, NormTick
<1>3. CASE HubDispatch
  <2> DEFINE n == Saturated(errors[HubId] + Hub!DispatchErrors)
  <2>1. /\ HubId \in Norm /\ HubId \in Subsystem
        /\ errors[HubId] \in 0 .. CRITICAL_THRESHOLD
        /\ CRITICAL_THRESHOLD \in Nat
    BY FlightAssumption, WatchdogAssumption DEF TypeInv, TypeOK, Norm, Passive
  <2>2. Hub!DispatchErrors \in {0, 1, 2}
    BY DEF Hub!DispatchErrors
  <2>3. n = errors[HubId] \/ n \in errors[HubId] + 1 .. CRITICAL_THRESHOLD
    BY <2>1, <2>2 DEF Saturated
  <2>4. errors' = [errors EXCEPT ![HubId] = n]
    BY <1>3 DEF HubDispatch
  <2>5. CASE n = errors[HubId]
    <3>1. errors' = errors
      BY <2>1, <2>4, <2>5 DEF TypeInv, TypeOK
    <3> QED BY <1>3, <3>1 DEF HubDispatch, vars
  <2>6. CASE n \in errors[HubId] + 1 .. CRITICAL_THRESHOLD
    <3>1. Stepping(HubId)
      BY <1>3, <2>1 DEF HubDispatch, Stepping
    <3>2. RecordErrors(HubId)
      BY <1>3, <2>4, <2>6, <3>1 DEF HubDispatch, RecordErrors
    <3> QED BY <2>1, <3>2 DEF Next
  <2> QED BY <2>3, <2>5, <2>6
<1>4. CASE HubReturns \/ EventHubStep \/ EndTick
  BY <1>4 DEF HubReturns, EventHubStep, EndTick, Next, NormTick
<1>5. CASE (\E cmd \in Command : SendToHub(cmd)) \/ (\E t \in NormTargets : Execute(t))
           \/ (\E t \in FastTargets : ExecuteFast(t))
  BY <1>5 DEF SendToHub, Execute, ExecuteFast
<1>6. CASE (\E c \in Active : FlightWorker(c)) \/ Elsewhere
  BY <1>6 DEF FlightWorker, Elsewhere, Next
<1>7. CASE UNCHANGED flightVars
  BY <1>7 DEF flightVars
<1> QED
  BY <1>1, <1>2, <1>3, <1>4, <1>5, <1>6, <1>7 DEF FlightNext, FlightNormTick

\* Everything proved of the watchdog alone holds of the composition.
THEOREM FlightSafety == FlightSpec => []SafeInv
<1>1. FlightInit => SafeInv
  BY SafeInit DEF FlightInit
<1>2. SafeInv /\ [FlightNext]_flightVars => SafeInv'
  BY FlightStepIsWatchdogStep, SafeNext DEF SafeInv
<1> QED BY <1>1, <1>2, PTL DEF FlightSpec

\* Seen by the watchdog, the whole tick takes only steps the watchdog alone
\* could take: the safety half of SupervisedAsSpecified.
THEOREM StillTheWatchdog == FlightSpec => Init /\ [][Next]_vars
<1>1. FlightInit => Init
  BY DEF FlightInit
<1>2. SafeInv /\ [FlightNext]_flightVars => [Next]_vars
  BY FlightStepIsWatchdogStep DEF SafeInv
<1> QED BY <1>1, <1>2, FlightSafety, PTL DEF FlightSpec

\* With commands on their way and the hub failing in the middle of it, the
\* mission state still moves as MissionMode says.
THEOREM FlightMissionMode == FlightSpec => ImplementsMissionMode
BY StillTheWatchdog, FlightSafety, ModeInit, ModeStep, PTL
   DEF ImplementsMissionMode, Mode!Spec

\* EMERGENCY takes a battery or a spent restart budget there too: no traffic
\* leads to it.
THEOREM FlightEmergency == FlightSpec => EmergencyIsEarned
<1>1. FlightSpec => []TypeInv
  <2>1. SafeInv => TypeInv
    BY DEF SafeInv
  <2> QED BY <2>1, FlightSafety, PTL
<1> QED BY <1>1, StillTheWatchdog, EarnedStep, PTL DEF EmergencyIsEarned, Earned

-----------------------------------------------------------------------------
(* The ports of the command path.                                          *)

PortsInv ==
  /\ TypeInv
  /\ Hub!HubTypeOK
  /\ sends_left \in 0 .. SendsPerTick

\* Taking the head off a port keeps it a port.
LEMMA TailFits ==
  ASSUME NEW q \in Seq(Command), q # <<>>, Len(q) <= CommandDepth
  PROVE  Tail(q) \in Seq(Command) /\ Len(Tail(q)) <= CommandDepth
BY FlightAssumption

LEMMA AppendFits ==
  ASSUME NEW q \in Seq(Command), NEW cmd \in Command, Len(q) < CommandDepth
  PROVE  Append(q, cmd) \in Seq(Command) /\ Len(Append(q, cmd)) <= CommandDepth
BY FlightAssumption

\* A target takes a command out of its port.
LEMMA ExecuteTyped ==
  ASSUME PortsInv, NEW t \in Routed, Execute(t) \/ ExecuteFast(t)
  PROVE  Hub!HubTypeOK'
<1>1. /\ cmd_in[t] # <<>> /\ cmd_in' = [cmd_in EXCEPT ![t] = Tail(@)]
      /\ UNCHANGED <<cmd_input, ack_out>>
  BY DEF Execute, ExecuteFast
<1>2. cmd_in \in [Routed -> Seq(Command)] /\ \A u \in Routed : Len(cmd_in[u]) <= CommandDepth
  BY DEF PortsInv, Hub!HubTypeOK
<1>3. Tail(cmd_in[t]) \in Seq(Command) /\ Len(Tail(cmd_in[t])) <= CommandDepth
  BY <1>1, <1>2, TailFits
<1> QED BY <1>1, <1>2, <1>3 DEF PortsInv, Hub!HubTypeOK

\* The hub takes a command out of its own and may put it in the target's.
LEMMA DispatchTyped ==
  ASSUME PortsInv, HubDispatch
  PROVE  Hub!HubTypeOK'
<1> DEFINE cmd == Head(cmd_input)
<1>1. /\ cmd_input # <<>> /\ cmd_input' = Tail(cmd_input)
      /\ ack_out' = IF ack_out = AckDepth THEN ack_out ELSE ack_out + 1
  BY DEF HubDispatch, Hub!Dispatch
<1>2. /\ cmd_input \in Seq(Command) /\ Len(cmd_input) <= CommandDepth
      /\ cmd_in \in [Routed -> Seq(Command)]
      /\ \A t \in Routed : Len(cmd_in[t]) <= CommandDepth
      /\ ack_out \in 0 .. AckDepth
  BY DEF PortsInv, Hub!HubTypeOK
<1>3. cmd_input' \in Seq(Command) /\ Len(cmd_input') <= CommandDepth /\ cmd \in Command
  BY <1>1, <1>2, TailFits
<1>4. ack_out' \in 0 .. AckDepth
  BY <1>1, <1>2, FlightAssumption
<1>5. cmd_in' \in [Routed -> Seq(Command)] /\ \A t \in Routed : Len(cmd_in'[t]) <= CommandDepth
  <2>1. CASE cmd_in' = cmd_in
    BY <1>2, <2>1
  <2>2. CASE Hub!Forwardable(cmd) /\ cmd_in' = [cmd_in EXCEPT ![cmd.target] = Append(@, cmd)]
    <3>1. cmd.target \in Routed /\ Len(cmd_in[cmd.target]) < CommandDepth
      BY <2>2 DEF Hub!Forwardable
    <3>2. /\ Append(cmd_in[cmd.target], cmd) \in Seq(Command)
          /\ Len(Append(cmd_in[cmd.target], cmd)) <= CommandDepth
      BY <1>2, <1>3, <3>1, AppendFits
    <3> HIDE DEF cmd
    <3> QED BY <1>2, <2>2, <3>1, <3>2
  <2> QED BY <2>1, <2>2 DEF HubDispatch, Hub!Dispatch
<1> QED BY <1>3, <1>4, <1>5 DEF Hub!HubTypeOK

LEMMA PortsNext == PortsInv /\ [FlightNext]_flightVars => PortsInv'
<1> SUFFICES ASSUME PortsInv, [FlightNext]_flightVars
             PROVE  PortsInv'
  OBVIOUS
<1>1. TypeInv'
  BY FlightStepIsWatchdogStep, TypeNext DEF PortsInv
<1>2. CASE UNCHANGED hubVars
  BY <1>1, <1>2 DEF PortsInv, Hub!HubTypeOK, hubVars
<1>3. CASE HubDispatch
  BY <1>1, <1>3, DispatchTyped DEF HubDispatch, PortsInv
<1>4. CASE EventHubStep
  BY <1>1, <1>4, FlightAssumption DEF EventHubStep, PortsInv, Hub!HubTypeOK
<1>5. ASSUME NEW cmd \in Command, SendToHub(cmd)
      PROVE  PortsInv'
  <2>1. /\ sends_left > 0 /\ sends_left' = sends_left - 1
        /\ UNCHANGED <<cmd_in, ack_out>>
        /\ cmd_input' = IF Len(cmd_input) < CommandDepth THEN Append(cmd_input, cmd)
                        ELSE cmd_input
    BY <1>5 DEF SendToHub, Hub!Uplink
  <2>2. sends_left' \in 0 .. SendsPerTick
    BY <2>1, FlightAssumption DEF PortsInv
  <2>3. cmd_input' \in Seq(Command) /\ Len(cmd_input') <= CommandDepth
    BY <2>1, AppendFits DEF PortsInv, Hub!HubTypeOK
  <2> QED BY <1>1, <2>1, <2>2, <2>3 DEF PortsInv, Hub!HubTypeOK
<1>6. ASSUME NEW t \in Routed, Execute(t) \/ ExecuteFast(t)
      PROVE  PortsInv'
  BY <1>1, <1>6, ExecuteTyped DEF Execute, ExecuteFast, PortsInv
<1>7. CASE EndTick
  BY <1>1, <1>7, FlightAssumption DEF EndTick, PortsInv, Hub!HubTypeOK
<1> QED
  BY <1>2, <1>3, <1>4, <1>5, <1>6, <1>7, FlightAssumption
     DEF FlightNext, FlightBoot, FlightNormTick, Supervise, HubReturns, FlightWorker,
         Elsewhere, flightVars, NormTargets

\* No port of the command path ever holds more than its depth, and all that
\* the watchdog keeps stays in range, with the hub counting errors in it.
THEOREM FlightTypeCorrect == FlightSpec => []FlightTypeOK
<1>1. FlightInit => PortsInv
  BY TypeInit, FlightAssumption DEF FlightInit, PortsInv, Hub!HubInit, Hub!HubTypeOK
<1>2. PortsInv => FlightTypeOK
  BY DEF PortsInv, FlightTypeOK, TypeInv
<1> QED BY <1>1, <1>2, PortsNext, PTL DEF FlightSpec

-----------------------------------------------------------------------------

LegalIn(cmd, state) == Hub!ClassOf(cmd) \in Hub!AllowedClasses(state)

\* Commands wait in the port of a NORM target only between the hub and the end
\* of the tick, when the mission state does not move.
Pending ==
  /\ cmd_in \in [Routed -> Seq(Command)]
  /\ cmd_input \in Seq(Command)
  /\ at \in InStep \cup {"boot"} => \A t \in NormTargets : cmd_in[t] = <<>>
  /\ \A t \in NormTargets : \A i \in 1 .. Len(cmd_in[t]) : LegalIn(cmd_in[t][i], mission_state)

\* A step that leaves the targets' ports and the mission state alone leaves
\* what waits in them legal.
LEMMA PendingKept ==
  ASSUME Pending, UNCHANGED <<mission_state, cmd_in>>, cmd_input' \in Seq(Command),
         at' \in InStep \cup {"boot"} => \A t \in NormTargets : cmd_in[t] = <<>>
  PROVE  Pending'
BY DEF Pending

\* What waits for a NORM target stays legal until it is executed.
LEMMA PendingNext ==
  SafeInv /\ Pending /\ [FlightNext]_flightVars => Pending'
<1> SUFFICES ASSUME SafeInv, Pending, [FlightNext]_flightVars
             PROVE  Pending'
  OBVIOUS
<1>a. /\ cmd_in \in [Routed -> Seq(Command)] /\ cmd_input \in Seq(Command)
      /\ at \in InStep \cup {"boot"} => \A t \in NormTargets : cmd_in[t] = <<>>
      /\ \A t \in NormTargets : \A i \in 1 .. Len(cmd_in[t]) : LegalIn(cmd_in[t][i], mission_state)
      /\ NormTargets \subseteq Routed
  BY DEF Pending, NormTargets
<1>1. CASE FlightBoot \/ Supervise
  <2>1. at \in InStep \cup {"boot"} /\ UNCHANGED <<cmd_in, cmd_input>>
    BY <1>1 DEF FlightBoot, Supervise, hubVars, Boot, Step, ProcessBattery,
       BatteryDrained, CheckSubsystem, FoundNominal, FoundWarning, FoundCriticalPassive,
       StopWorker, RestartWorker, FoundUnrecoverable, EscalateForHealth, Looking,
       SeenHealthy, NoRecovery, Recover, Periodic, InStep
  <2>2. \A t \in NormTargets : cmd_in'[t] = <<>> /\ 1 .. Len(cmd_in'[t]) = {}
    BY <1>a, <2>1
  <2> QED BY <1>a, <2>1, <2>2 DEF Pending
<1>2. CASE HubDispatch
  <2> DEFINE cmd == Head(cmd_input)
  <2>1. /\ cmd_input # <<>> /\ cmd_input' = Tail(cmd_input)
        /\ at = "cmd_hub" /\ at' = at /\ mission_state' = mission_state
    BY <1>2 DEF HubDispatch, Hub!Dispatch
  <2>2. cmd \in Command /\ cmd_input' \in Seq(Command)
    BY <1>a, <2>1
  <2>3. CASE cmd_in' = cmd_in
    BY <1>a, <2>1, <2>2, <2>3, PendingKept DEF InStep
  <2>4. CASE Hub!Forwardable(cmd) /\ cmd_in' = [cmd_in EXCEPT ![cmd.target] = Append(@, cmd)]
    <3>1. LegalIn(cmd, mission_state) /\ cmd.target \in Routed
      BY <2>4 DEF Hub!Forwardable, Hub!Allowed, LegalIn
    <3>2. cmd_in' \in [Routed -> Seq(Command)]
      BY <1>a, <2>2, <2>4, <3>1
    <3>3. ASSUME NEW t \in NormTargets, NEW i \in 1 .. Len(cmd_in'[t])
          PROVE  LegalIn(cmd_in'[t][i], mission_state)
      <4>1. CASE t # cmd.target
        <5>1. cmd_in'[t] = cmd_in[t]
          BY <1>a, <2>4, <4>1
        <5> QED BY <1>a, <3>3, <5>1
      <4>2. CASE t = cmd.target
        <5>1. cmd_in'[t] = Append(cmd_in[t], cmd) /\ cmd_in[t] \in Seq(Command)
          BY <1>a, <2>4, <3>1, <4>2
        <5>2. CASE i = Len(cmd_in[t]) + 1
          BY <2>2, <3>1, <5>1, <5>2
        <5>3. CASE i \in 1 .. Len(cmd_in[t])
          BY <1>a, <2>2, <5>1, <5>3
        <5> QED BY <2>2, <5>1, <5>2, <5>3
      <4> QED BY <4>1, <4>2
    <3>4. \A t \in NormTargets : \A i \in 1 .. Len(cmd_in'[t]) : LegalIn(cmd_in'[t][i], mission_state')
      BY <2>1, <3>3
    <3> QED BY <2>1, <2>2, <3>2, <3>4 DEF Pending, InStep
  <2> QED BY <1>2, <2>3, <2>4 DEF HubDispatch, Hub!Dispatch
<1>3. CASE HubReturns \/ EventHubStep \/ EndTick
  BY <1>3, <1>a, PendingKept
     DEF HubReturns, HubsDone, EventHubStep, DrainEvents, EndTick, SendReading, hubVars, InStep
<1>4. ASSUME NEW cmd \in Command, SendToHub(cmd)
      PROVE  Pending'
  <2>1. cmd_input' \in Seq(Command)
    BY <1>4, <1>a DEF SendToHub, Hub!Uplink
  <2> QED BY <1>4, <1>a, <2>1, PendingKept DEF SendToHub, Hub!Uplink, vars
<1>5. ASSUME NEW t \in Routed, Execute(t) \/ ExecuteFast(t)
      PROVE  Pending'
  <2>1. /\ cmd_in[t] # <<>> /\ cmd_in' = [cmd_in EXCEPT ![t] = Tail(@)]
        /\ UNCHANGED <<cmd_input, at, mission_state>>
    BY <1>5 DEF Execute, ExecuteFast, vars
  <2>2. cmd_in' \in [Routed -> Seq(Command)] /\ cmd_in[t] \in Seq(Command)
    BY <1>a, <2>1
  <2>3. at' \in InStep \cup {"boot"} => \A u \in NormTargets : cmd_in'[u] = <<>>
    BY <1>a, <2>1
  <2>4. ASSUME NEW u \in NormTargets, NEW i \in 1 .. Len(cmd_in'[u])
        PROVE  LegalIn(cmd_in'[u][i], mission_state)
    <3>1. CASE u # t
      <4>1. cmd_in'[u] = cmd_in[u]
        BY <1>a, <2>1, <3>1
      <4> QED BY <1>a, <2>4, <4>1
    <3>2. CASE u = t
      <4>1. cmd_in'[u] = Tail(cmd_in[u])
        BY <1>a, <2>1, <3>2
      <4>2. i + 1 \in 1 .. Len(cmd_in[u]) /\ cmd_in'[u][i] = cmd_in[u][i + 1]
        BY <2>1, <2>2, <2>4, <3>2, <4>1
      <4> QED BY <1>a, <4>2
    <3> QED BY <3>1, <3>2
  <2>5. \A u \in NormTargets : \A i \in 1 .. Len(cmd_in'[u]) : LegalIn(cmd_in'[u][i], mission_state')
    BY <2>1, <2>4
  <2> QED BY <1>a, <2>1, <2>2, <2>3, <2>5 DEF Pending
<1>6. CASE (\E c \in Active : FlightWorker(c)) \/ Elsewhere
  BY <1>6, <1>a, PendingKept DEF FlightWorker, Worker, TestRunning, FinishStep, Elsewhere,
     RecordErrors, SetIntegrity, hubVars
<1>7. CASE UNCHANGED flightVars
  BY <1>7, <1>a, PendingKept DEF flightVars, vars, hubVars
<1> QED
  BY <1>1, <1>2, <1>3, <1>4, <1>5, <1>6, <1>7, FlightAssumption
     DEF FlightNext, FlightNormTick, NormTargets

\* A NORM target executes only what the mission state of that moment allows.
THEOREM ExecutionIsGated == FlightSpec => ExecutedWhenAllowed
<1> DEFINE Gated ==
      \A t \in NormTargets :
        cmd_in[t] # <<>> /\ cmd_in'[t] = Tail(cmd_in[t]) => Hub!Allowed(Head(cmd_in[t]))
<1>1. FlightInit => SafeInv /\ Pending
  <2>1. FlightInit => SafeInv
    BY SafeInit DEF FlightInit
  <2>2. FlightInit => Pending
    BY DEF FlightInit, Hub!HubInit, Pending, NormTargets
  <2> QED BY <2>1, <2>2
<1>2. SafeInv /\ Pending /\ [FlightNext]_flightVars => (SafeInv /\ Pending)'
  BY FlightStepIsWatchdogStep, SafeNext, PendingNext DEF SafeInv
<1>3. Pending => [Gated]_flightVars
  <2> SUFFICES ASSUME Pending, NEW t \in NormTargets, cmd_in[t] # <<>>
               PROVE  Hub!Allowed(Head(cmd_in[t]))
    OBVIOUS
  <2>1. cmd_in[t] \in Seq(Command)
    BY DEF Pending, NormTargets
  <2>2. 1 \in 1 .. Len(cmd_in[t]) /\ Head(cmd_in[t]) = cmd_in[t][1]
    BY <2>1
  <2> QED BY <2>2 DEF Pending, LegalIn, Hub!Allowed
<1> QED BY <1>1, <1>2, <1>3, PTL DEF FlightSpec, ExecutedWhenAllowed

=============================================================================
