--------------------------- MODULE LifecycleProofs ---------------------------
(***************************************************************************)
(* The shutdown of the executive is orderly for any number of active       *)
(* components and any restart budget: main joins the NORM thread before    *)
(* the workers, so nothing starts a worker again once it is joined.        *)
(***************************************************************************)
EXTENDS Lifecycle, TLAPS

Starting == {"signal", "watch", "startAll", "startThread"}
Joining == {"joinThread", "joining"}
Joined == {"joinWatcher", "save", "returned"}

\* The two rate groups, by the place the main thread is at.
TiersInv ==
  /\ main \in Starting => fast_thread = "none"
  /\ main \in Starting \cup {"startNorm"} => norm_thread = "none"
  /\ main \in {"joinNorm"} \cup Joining \cup Joined => fast_thread = "exited"
  /\ main \in Joining \cup Joined => norm_thread = "exited"
  /\ norm_thread \in {"joinThread", "startThread"} => restarting \in Active

\* Every worker started is at least begun, every worker joined has ended.
WorkersInv ==
  /\ \A c \in Active : thread[c].pc = "none" => ~thread[c].running
  /\ main \in {"signal", "watch", "startAll"} => next = 1
  /\ main = "startThread" => \A c \in Active : c < next => thread[c].pc # "none"
  /\ main \notin Starting => \A c \in Active : thread[c].pc # "none"
  /\ main \in Joining => \A c \in Active : c < next =>
                           ~thread[c].running /\ thread[c].pc = "exited"
  /\ main = "joining" => next \in Active /\ ~thread[next].running
  /\ main \in Joined => \A c \in Active :
                          ~thread[c].running /\ thread[c].pc = "exited"

IInv == TypeOK /\ (main # "aborted" => TiersInv /\ WorkersInv)

-----------------------------------------------------------------------------


\* Starting, stopping and running a worker keeps the type of its thread.
LEMMA ThreadTyped ==
  ASSUME thread \in [Active -> ThreadState], NEW c \in Active,
         Started(c) \/ ToldToStop(c) \/ WorkerRuns(c)
  PROVE  thread' \in [Active -> ThreadState]
<1>1. CASE Started(c)
  <2>1. [running |-> TRUE, pc |-> "test"] \in ThreadState
    BY DEF ThreadState
  <2> QED BY <1>1, <2>1 DEF Started
<1>2. CASE ToldToStop(c)
  <2>1. [thread[c] EXCEPT !.running = FALSE] \in ThreadState
    BY DEF ThreadState
  <2> QED BY <1>2, <2>1 DEF ToldToStop
<1>3. CASE WorkerRuns(c)
  <2>1. \A place \in {"none", "test", "step", "exited"} :
          [thread[c] EXCEPT !.pc = place] \in ThreadState
    BY DEF ThreadState
  <2> QED BY <1>3, <2>1 DEF WorkerRuns
<1> QED BY <1>1, <1>2, <1>3

\* Every step keeps the flags Boolean.
LEMMA FlagsNext == TypeOK /\ [Next]_vars => FlagsOK'
<1> SUFFICES ASSUME TypeOK, [Next]_vars PROVE FlagsOK'
  OBVIOUS
<1> USE DEF TypeOK, FlagsOK, flags, vars
<1>1. CASE Main
  BY <1>1, Zenon DEF Main, InstallHandlers, StartWatcher, SetRunning, StartWorker,
     StartFast, StartNorm, Arm, JoinFast, JoinNorm, StopWorker, JoinWorker, StopWatcher,
     JoinWatcher, Return
<1>2. CASE Watcher \/ FastRuns \/ OnSignal \/ Over
  BY <1>2, Zenon DEF Watcher, WatcherWakes, WatcherDisarms, RequestStop, FastRuns,
     OnSignal, Over
<1>3. CASE Norm
  BY <1>3, Zenon DEF Norm, NormRuns, RestartBegins, RestartJoins, RestartStarts,
     HeapViolation
<1>4. ASSUME NEW c \in Active, WorkerRuns(c) PROVE FlagsOK'
  BY <1>4, Zenon DEF WorkerRuns
<1>5. CASE UNCHANGED vars
  BY <1>5, Zenon
<1> QED BY <1>1, <1>2, <1>3, <1>4, <1>5 DEF Next

\* Every step keeps the types.
LEMMA TypeNext == IInv /\ [Next]_vars => TypeOK'
<1> SUFFICES ASSUME IInv, [Next]_vars PROVE PlacesOK'
  BY FlagsNext DEF IInv, TypeOK
<1> USE LifecycleAssumption DEF IInv, TypeOK, PlacesOK, Active, MainGoes, flags, vars
<1>1. CASE InstallHandlers \/ StartWatcher \/ SetRunning
  BY <1>1 DEF InstallHandlers, StartWatcher, SetRunning
<1>2. CASE StartWorker
  BY <1>2, ThreadTyped DEF StartWorker
<1>3. CASE StartFast \/ StartNorm \/ Arm \/ JoinFast \/ JoinNorm
  BY <1>3 DEF StartFast, StartNorm, Arm, JoinFast, JoinNorm
<1>4. CASE StopWorker
  BY <1>4, ThreadTyped DEF StopWorker
<1>5. CASE JoinWorker
  <2>1. next \in 1 .. ActiveCount
    BY <1>5 DEF JoinWorker, WorkersInv
  <2> QED BY <1>5, <2>1 DEF JoinWorker
<1>6. CASE StopWatcher \/ JoinWatcher \/ Return
  BY <1>6 DEF StopWatcher, JoinWatcher, Return
<1>7. CASE Watcher \/ FastRuns \/ OnSignal \/ Over
  BY <1>7 DEF Watcher, WatcherWakes, WatcherDisarms, RequestStop, FastRuns, OnSignal, Over
<1>8. CASE NormRuns \/ RestartJoins \/ HeapViolation
  BY <1>8 DEF NormRuns, RestartJoins, HeapViolation
<1>9. ASSUME NEW c \in Active, RestartBegins(c) PROVE PlacesOK'
  BY <1>9, ThreadTyped DEF RestartBegins
<1>10. CASE RestartStarts
  BY <1>10, ThreadTyped DEF RestartStarts, TiersInv, Alive
<1>11. ASSUME NEW c \in Active, WorkerRuns(c) PROVE PlacesOK'
  <2>1. thread' \in [Active -> ThreadState]
    BY <1>11, ThreadTyped
  <2> QED BY <1>11, <2>1 DEF WorkerRuns
<1>12. CASE UNCHANGED vars
  BY <1>12
<1> QED
  BY <1>1, <1>2, <1>3, <1>4, <1>5, <1>6, <1>7, <1>8, <1>9, <1>10, <1>11, <1>12
     DEF Next, Main, Norm

\* The rate groups keep step with the main thread.
LEMMA TiersNext == IInv /\ main # "aborted" /\ [Next]_vars /\ main' # "aborted" => TiersInv'
<1> SUFFICES ASSUME IInv, main # "aborted", [Next]_vars, main' # "aborted" PROVE TiersInv'
  OBVIOUS
<1> USE DEF IInv, TiersInv, Starting, Joining, Joined, MainGoes, flags, vars
<1>1. CASE Main
  BY <1>1 DEF Main, InstallHandlers, StartWatcher, SetRunning, StartWorker, StartFast,
     StartNorm, Arm, JoinFast, JoinNorm, StopWorker, JoinWorker, StopWatcher,
     JoinWatcher, Return
<1>2. CASE Watcher \/ FastRuns \/ OnSignal \/ Over
  BY <1>2 DEF Watcher, WatcherWakes, WatcherDisarms, RequestStop, FastRuns, OnSignal, Over
<1>3. CASE Norm
  BY <1>3 DEF Norm, NormRuns, RestartBegins, RestartJoins, RestartStarts, HeapViolation
<1>4. ASSUME NEW c \in Active, WorkerRuns(c) PROVE TiersInv'
  BY <1>4 DEF WorkerRuns
<1>5. CASE UNCHANGED vars
  BY <1>5
<1> QED BY <1>1, <1>2, <1>3, <1>4, <1>5 DEF Next

\* No worker that was joined starts again.
LEMMA WorkersNext == IInv /\ main # "aborted" /\ [Next]_vars /\ main' # "aborted" => WorkersInv'
<1> SUFFICES ASSUME IInv, main # "aborted", [Next]_vars, main' # "aborted" PROVE WorkersInv'
  OBVIOUS
<1> USE LifecycleAssumption
    DEF IInv, WorkersInv, Starting, Joining, Joined, MainGoes, flags, vars
<1>1. CASE InstallHandlers \/ StartWatcher
  BY <1>1 DEF InstallHandlers, StartWatcher
<1>2. CASE SetRunning
  BY <1>2 DEF SetRunning, TypeOK, PlacesOK, Active
<1>3. CASE StartWorker
  BY <1>3 DEF StartWorker, Started, TypeOK, PlacesOK, ThreadState, Active
<1>4. CASE StartFast \/ StartNorm \/ Arm \/ JoinFast \/ JoinNorm
  BY <1>4 DEF StartFast, StartNorm, Arm, JoinFast, JoinNorm, TypeOK, PlacesOK, Active
<1>5. CASE StopWorker
  BY <1>5 DEF StopWorker, ToldToStop, TypeOK, PlacesOK, ThreadState, Active
<1>6. CASE JoinWorker
  BY <1>6 DEF JoinWorker, Joinable, TypeOK, PlacesOK, ThreadState, Active
<1>7. CASE StopWatcher \/ JoinWatcher \/ Return
  BY <1>7 DEF StopWatcher, JoinWatcher, Return, TypeOK, PlacesOK, Active
<1>8. CASE Watcher \/ FastRuns \/ OnSignal \/ Over \/ NormRuns \/ RestartJoins
  BY <1>8 DEF Watcher, WatcherWakes, WatcherDisarms, RequestStop, FastRuns, OnSignal,
     Over, NormRuns, RestartJoins
<1>9. ASSUME NEW c \in Active, RestartBegins(c) PROVE WorkersInv'
  BY <1>9, SMTT(20) DEF RestartBegins, ToldToStop, TypeOK, PlacesOK, ThreadState, TiersInv
<1>10. CASE RestartStarts
  BY <1>10 DEF RestartStarts, Started, TypeOK, PlacesOK, ThreadState, TiersInv
<1>11. ASSUME NEW c \in Active, WorkerRuns(c) PROVE WorkersInv'
  BY <1>11, SMTT(20) DEF WorkerRuns, TypeOK, PlacesOK, ThreadState
<1>12. CASE UNCHANGED vars
  BY <1>12
<1>13. CASE HeapViolation
  BY <1>13 DEF HeapViolation
<1> QED
  BY <1>1, <1>2, <1>3, <1>4, <1>5, <1>6, <1>7, <1>8, <1>9, <1>10, <1>11, <1>12, <1>13
     DEF Next, Main, Norm

\* An aborted process takes no step.
LEMMA AbortedStays == main = "aborted" /\ [Next]_vars => main' = "aborted"
<1> SUFFICES ASSUME main = "aborted", [Next]_vars PROVE main' = "aborted"
  OBVIOUS
<1> USE DEF MainGoes, Alive, vars
<1>1. CASE Main
  BY <1>1 DEF Main, InstallHandlers, StartWatcher, SetRunning, StartWorker, StartFast,
     StartNorm, Arm, JoinFast, JoinNorm, StopWorker, JoinWorker, StopWatcher,
     JoinWatcher, Return
<1>2. CASE Watcher \/ FastRuns \/ OnSignal \/ Over \/ Norm
  BY <1>2 DEF Watcher, WatcherWakes, WatcherDisarms, RequestStop, FastRuns, OnSignal,
     Over, Norm, NormRuns, RestartBegins, RestartJoins, RestartStarts, HeapViolation
<1>3. ASSUME NEW c \in Active, WorkerRuns(c) PROVE main' = "aborted"
  BY <1>3 DEF WorkerRuns
<1> QED BY <1>1, <1>2, <1>3 DEF Next

\* The types, the rate groups and the workers, together, are inductive.
THEOREM Invariance == Spec => []IInv
<1>1. Init => IInv
  <2> SUFFICES ASSUME Init PROVE IInv
    OBVIOUS
  <2>1. [running |-> FALSE, pc |-> "none"] \in ThreadState
    BY DEF ThreadState
  <2>2. PlacesOK
    BY <2>1, LifecycleAssumption DEF Init, PlacesOK, Active
  <2>3. FlagsOK
    BY Zenon DEF Init, FlagsOK
  <2>4. TiersInv /\ WorkersInv
    BY DEF Init, TiersInv, WorkersInv, Starting, Joining, Joined
  <2> QED BY <2>2, <2>3, <2>4 DEF IInv, TypeOK
<1>2. IInv /\ [Next]_vars => IInv'
  <2> SUFFICES ASSUME IInv, [Next]_vars PROVE IInv'
    OBVIOUS
  <2>1. TypeOK'
    BY TypeNext
  <2>2. main' # "aborted" => TiersInv' /\ WorkersInv'
    BY TiersNext, WorkersNext, AbortedStays
  <2> QED BY <2>1, <2>2 DEF IInv
<1> QED BY <1>1, <1>2, PTL DEF Spec

\* Type correctness of the life cycle (main.cpp, RateGroupExecutive.hpp), the
\* restart budget included.
THEOREM TypeCorrect == Spec => []TypeOK
<1>1. IInv => TypeOK
  BY DEF IInv
<1> QED BY <1>1, Invariance, PTL

\* Once main goes on to save the parameters, no thread of the executive runs
\* or can be started (RateGroupExecutive.hpp:268-270).
THEOREM ShutdownLeavesNoThread == Spec => []NoThreadLeft
<1>1. IInv => NoThreadLeft
  BY DEF IInv, TiersInv, WorkersInv, NoThreadLeft, Joining, Joined
<1> QED BY <1>1, Invariance, PTL

\* Main and the watchdog never start or stop one Os::Thread at once.
THEOREM ThreadsHaveOneOwner == Spec => []OneOwner
<1>1. IInv => OneOwner
  BY DEF IInv, TiersInv, OneOwner, Starting, Joining, Joined
<1> QED BY <1>1, Invariance, PTL

\* The heap guard is what a restart can die of (HeapViolation) and all it can
\* die of: where it is not set, every restart the watchdog begins ends with the
\* worker running (WatchdogComponent.hpp:306-324, docs/ARCHITECTURE.md:173).
THEOREM UnguardedRestartsComplete == Spec /\ ~heap_guard => RestartsComplete
<1>1. Init /\ ~heap_guard => ~heap_guard /\ ~armed
  BY DEF Init
<1>2. ~heap_guard /\ ~armed /\ [Next]_vars => (~heap_guard /\ ~armed)'
  <2> SUFFICES ASSUME ~heap_guard, ~armed, [Next]_vars PROVE ~heap_guard' /\ ~armed'
    OBVIOUS
  <2> USE DEF flags, vars
  <2>1. CASE Main
    <3>1. CASE Arm
      <4>1. heap_guard' = heap_guard /\ armed' = (armed \/ heap_guard)
        BY <3>1 DEF Arm
      <4> QED BY <4>1, Zenon
    <3>2. CASE JoinWatcher
      <4>1. heap_guard' = heap_guard /\ armed' = FALSE
        BY <3>2 DEF JoinWatcher
      <4> QED BY <4>1
    <3>3. CASE ~Arm /\ ~JoinWatcher
      <4>1. heap_guard' = heap_guard /\ armed' = armed
        BY <2>1, <3>3 DEF Main, InstallHandlers, StartWatcher, SetRunning, StartWorker,
           StartFast, StartNorm, JoinFast, JoinNorm, StopWorker, JoinWorker, StopWatcher, Return
      <4> QED BY <4>1
    <3> QED BY <3>1, <3>2, <3>3
  <2>2. CASE Watcher \/ FastRuns \/ OnSignal \/ Over
    BY <2>2 DEF Watcher, WatcherWakes, WatcherDisarms, RequestStop, FastRuns, OnSignal, Over
  <2>3. CASE Norm
    <3>1. UNCHANGED <<heap_guard, armed>>
      BY <2>3 DEF Norm, NormRuns, RestartBegins, RestartJoins, RestartStarts, HeapViolation
    <3> QED BY <3>1
  <2>4. ASSUME NEW c \in Active, WorkerRuns(c) PROVE ~heap_guard' /\ ~armed'
    BY <2>4 DEF WorkerRuns
  <2>5. CASE UNCHANGED vars
    BY <2>5
  <2> QED BY <2>1, <2>2, <2>3, <2>4, <2>5 DEF Next
<1>3. IInv /\ ~armed /\ [Next]_vars =>
        [norm_thread = "startThread" /\ Norm => thread'[restarting].running]_vars
  <2> SUFFICES ASSUME IInv, ~armed, norm_thread = "startThread", Norm
               PROVE  thread'[restarting].running
    OBVIOUS
  <2>1. RestartStarts
    BY DEF Norm, NormRuns, RestartBegins, RestartJoins, HeapViolation
  <2>2. restarting \in Active
    <3>1. main # "aborted"
      BY <2>1 DEF RestartStarts, Alive
    <3> QED BY <3>1 DEF IInv, TiersInv
  <2>3. thread \in [Active -> ThreadState]
    BY DEF IInv, TypeOK, PlacesOK
  <2>4. CASE thread[restarting].running
    BY <2>1, <2>4 DEF RestartStarts, Started
  <2>5. CASE ~thread[restarting].running
    BY <2>1, <2>2, <2>3, <2>5 DEF RestartStarts, Started
  <2> QED BY <2>4, <2>5
<1> QED BY <1>1, <1>2, <1>3, Invariance, PTL DEF Spec, RestartsComplete

=============================================================================
