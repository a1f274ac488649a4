------------------------------ MODULE Lifecycle ------------------------------
(***************************************************************************)
(* The process from the installation of its signal handlers to the return  *)
(* of main() (src/src/main.cpp, host build): the signal watcher, the FAST  *)
(* and NORM threads of RateGroupExecutive, the workers of the active       *)
(* components (Os.hpp), the restarts the watchdog makes from the NORM      *)
(* thread, and the heap guard, which aborts the process when one of these  *)
(* allocates.  What the ticks and steps do otherwise is left out.          *)
(***************************************************************************)
EXTENDS Naturals

CONSTANTS
  ActiveCount,     \* active_count_
  MAX_RESTARTS     \* MAX_RESTARTS_PER_COMPONENT

ASSUME LifecycleAssumption == ActiveCount \in Nat /\ MAX_RESTARTS \in Nat

Active == 1 .. ActiveCount

VARIABLES
  main,                   \* where the main thread is
  next,                   \* the active component its loop is at
  g_signal_requested,
  g_signal_watcher_stop,
  signal_watcher,         \* where the watcher thread is
  running_,
  fast_thread, norm_thread,
  restarting,             \* the component the watchdog restarts, 0 for none
  restart_counts,
  thread,                 \* Os::Thread of each active component
  heap_guard,             \* DELTAV_ENABLE_HOST_HEAP_GUARD is set
  armed

flags == <<g_signal_requested, g_signal_watcher_stop, running_, armed>>
vars == <<main, next, signal_watcher, fast_thread, norm_thread, restarting,
          restart_counts, thread, heap_guard, flags>>

ThreadState == [running : BOOLEAN, pc : {"none", "test", "step", "exited"}]

PlacesOK ==
  /\ main \in {"signal", "watch", "startAll", "startThread", "startNorm",
               "arm", "joinFast", "joinNorm", "joinThread", "joining", "joinWatcher",
               "save", "returned", "aborted"}
  /\ next \in 1 .. ActiveCount + 1
  /\ signal_watcher \in {"none", "poll", "disarm", "requestStop", "exited"}
  /\ fast_thread \in {"none", "test", "tick", "exited"}
  /\ norm_thread \in {"none", "test", "tick", "joinThread", "startThread", "exited"}
  /\ restarting \in 0 .. ActiveCount
  /\ restart_counts \in [Active -> 0 .. MAX_RESTARTS]
  /\ thread \in [Active -> ThreadState]

FlagsOK ==
  /\ heap_guard \in BOOLEAN /\ armed \in BOOLEAN /\ running_ \in BOOLEAN
  /\ g_signal_requested \in BOOLEAN /\ g_signal_watcher_stop \in BOOLEAN

\* The restart budget is kept (WatchdogComponent.hpp:306-324), and every thread
\* and flag has its type.
TypeOK == PlacesOK /\ FlagsOK

Init ==
  /\ main = "signal"
  /\ next = 1
  /\ signal_watcher = "none"
  /\ fast_thread = "none"
  /\ norm_thread = "none"
  /\ restarting = 0
  /\ restart_counts = [c \in Active |-> 0]
  /\ thread = [c \in Active |-> [running |-> FALSE, pc |-> "none"]]
  /\ heap_guard \in BOOLEAN
  /\ g_signal_requested = FALSE
  /\ g_signal_watcher_stop = FALSE
  /\ running_ = FALSE
  /\ armed = FALSE

Started(c) ==
  thread' = IF thread[c].running THEN thread
            ELSE [thread EXCEPT ![c] = [running |-> TRUE, pc |-> "test"]]
ToldToStop(c) == thread' = [thread EXCEPT ![c].running = FALSE]
Joinable(c) == thread[c].pc \in {"none", "exited"}

-----------------------------------------------------------------------------
(* the main thread *)

MainGoes(from, to) == main = from /\ main' = to

InstallHandlers ==
  /\ MainGoes("signal", "watch")
  /\ UNCHANGED <<next, signal_watcher, fast_thread, norm_thread, restarting,
                 restart_counts, thread, heap_guard, flags>>

\* The flags are cleared and the watcher is started.
StartWatcher ==
  /\ MainGoes("watch", "startAll")
  /\ g_signal_requested' = FALSE
  /\ g_signal_watcher_stop' = FALSE
  /\ signal_watcher' = "poll"
  /\ UNCHANGED <<next, fast_thread, norm_thread, restarting, restart_counts, thread,
                 heap_guard, running_, armed>>

SetRunning ==
  /\ MainGoes("startAll", "startThread")
  /\ running_' = TRUE
  /\ UNCHANGED <<next, signal_watcher, fast_thread, norm_thread, restarting,
                 restart_counts, thread, heap_guard, g_signal_requested,
                 g_signal_watcher_stop, armed>>

StartWorker ==
  /\ main = "startThread"
  /\ next \in Active
  /\ Started(next)
  /\ next' = next + 1
  /\ UNCHANGED <<main, signal_watcher, fast_thread, norm_thread, restarting,
                 restart_counts, heap_guard, flags>>

StartFast ==
  /\ next \notin Active
  /\ MainGoes("startThread", "startNorm")
  /\ fast_thread' = "test"
  /\ UNCHANGED <<next, signal_watcher, norm_thread, restarting, restart_counts, thread,
                 heap_guard, flags>>

StartNorm ==
  /\ MainGoes("startNorm", "arm")
  /\ norm_thread' = "test"
  /\ UNCHANGED <<next, signal_watcher, fast_thread, restarting, restart_counts, thread,
                 heap_guard, flags>>

Arm ==
  /\ MainGoes("arm", "joinFast")
  /\ armed' = (armed \/ heap_guard)
  /\ UNCHANGED <<next, signal_watcher, fast_thread, norm_thread, restarting,
                 restart_counts, thread, heap_guard, g_signal_requested,
                 g_signal_watcher_stop, running_>>

JoinFast ==
  /\ MainGoes("joinFast", "joinNorm")
  /\ fast_thread = "exited"
  /\ UNCHANGED <<next, signal_watcher, fast_thread, norm_thread, restarting,
                 restart_counts, thread, heap_guard, flags>>

\* MUTANT of JoinNorm: the workers are joined without waiting for the NORM thread.
JoinNormLater ==
  /\ MainGoes("joinNorm", "joinThread")
  /\ next' = 1
  /\ UNCHANGED <<signal_watcher, fast_thread, norm_thread, restarting, restart_counts,
                 thread, heap_guard, flags>>

JoinNorm ==
  /\ MainGoes("joinNorm", "joinThread")
  /\ norm_thread = "exited"
  /\ next' = 1
  /\ UNCHANGED <<signal_watcher, fast_thread, norm_thread, restarting, restart_counts,
                 thread, heap_guard, flags>>

\* MUTANT of StopWorker: the worker is waited for but not told to stop.
StopWorkerNotTold ==
  /\ next \in Active
  /\ MainGoes("joinThread", "joining")
  /\ UNCHANGED <<next, signal_watcher, fast_thread, norm_thread, restarting,
                 restart_counts, thread, heap_guard, flags>>

\* joinThread of the next active component.
StopWorker ==
  /\ next \in Active
  /\ MainGoes("joinThread", "joining")
  /\ ToldToStop(next)
  /\ UNCHANGED <<next, signal_watcher, fast_thread, norm_thread, restarting,
                 restart_counts, heap_guard, flags>>

JoinWorker ==
  /\ MainGoes("joining", "joinThread")
  /\ Joinable(next)
  /\ next' = next + 1
  /\ UNCHANGED <<signal_watcher, fast_thread, norm_thread, restarting, restart_counts,
                 thread, heap_guard, flags>>

\* MUTANT of StopWatcher: the last worker is left out.
StopWatcherOneShort ==
  /\ next >= ActiveCount
  /\ MainGoes("joinThread", "joinWatcher")
  /\ g_signal_watcher_stop' = TRUE
  /\ UNCHANGED <<next, signal_watcher, fast_thread, norm_thread, restarting,
                 restart_counts, thread, heap_guard, g_signal_requested, running_, armed>>

StopWatcher ==
  /\ next \notin Active
  /\ MainGoes("joinThread", "joinWatcher")
  /\ g_signal_watcher_stop' = TRUE
  /\ UNCHANGED <<next, signal_watcher, fast_thread, norm_thread, restarting,
                 restart_counts, thread, heap_guard, g_signal_requested, running_, armed>>

JoinWatcher ==
  /\ MainGoes("joinWatcher", "save")
  /\ signal_watcher = "exited"
  /\ armed' = FALSE
  /\ UNCHANGED <<next, signal_watcher, fast_thread, norm_thread, restarting,
                 restart_counts, thread, heap_guard, g_signal_requested,
                 g_signal_watcher_stop, running_>>

\* The parameters are saved and main returns.
Return ==
  /\ MainGoes("save", "returned")
  /\ UNCHANGED <<next, signal_watcher, fast_thread, norm_thread, restarting,
                 restart_counts, thread, heap_guard, flags>>

-----------------------------------------------------------------------------
(* signals and their watcher *)

Alive == main \notin {"returned", "aborted"}

\* on_signal: SIGINT or SIGTERM, at any moment its handler is installed.
OnSignal ==
  /\ Alive
  /\ main # "signal"
  /\ g_signal_requested' = TRUE
  /\ UNCHANGED <<main, next, signal_watcher, fast_thread, norm_thread, restarting,
                 restart_counts, thread, heap_guard, g_signal_watcher_stop, running_, armed>>

\* The loop ends on either flag; only a signal makes it stop the executive.
WatcherWakes ==
  /\ Alive
  /\ signal_watcher = "poll"
  /\ \/ g_signal_requested /\ signal_watcher' = "disarm"
     \/ ~g_signal_requested /\ g_signal_watcher_stop /\ signal_watcher' = "exited"
  /\ UNCHANGED <<main, next, fast_thread, norm_thread, restarting, restart_counts,
                 thread, heap_guard, flags>>

WatcherDisarms ==
  /\ Alive
  /\ signal_watcher = "disarm"
  /\ signal_watcher' = "requestStop"
  /\ armed' = FALSE
  /\ UNCHANGED <<main, next, fast_thread, norm_thread, restarting, restart_counts,
                 thread, heap_guard, g_signal_requested, g_signal_watcher_stop, running_>>

RequestStop ==
  /\ Alive
  /\ signal_watcher = "requestStop"
  /\ signal_watcher' = "exited"
  /\ running_' = FALSE
  /\ UNCHANGED <<main, next, fast_thread, norm_thread, restarting, restart_counts,
                 thread, heap_guard, g_signal_requested, g_signal_watcher_stop, armed>>

-----------------------------------------------------------------------------
(* the rate groups and the workers *)

FastRuns ==
  /\ Alive
  /\ \/ /\ fast_thread = "test"
        /\ fast_thread' = IF running_ THEN "tick" ELSE "exited"
     \/ fast_thread = "tick" /\ fast_thread' = "test"
  /\ UNCHANGED <<main, next, signal_watcher, norm_thread, restarting, restart_counts,
                 thread, heap_guard, flags>>

NormRuns ==
  /\ Alive
  /\ \/ /\ norm_thread = "test"
        /\ norm_thread' = IF running_ THEN "tick" ELSE "exited"
     \/ norm_thread = "tick" /\ norm_thread' = "test"
  /\ UNCHANGED <<main, next, signal_watcher, fast_thread, restarting, restart_counts,
                 thread, heap_guard, flags>>

\* The watchdog finds an active component critical, with a restart left.
RestartBegins(c) ==
  /\ Alive
  /\ norm_thread = "tick"
  /\ restart_counts[c] < MAX_RESTARTS
  /\ norm_thread' = "joinThread"
  /\ restarting' = c
  /\ restart_counts' = [restart_counts EXCEPT ![c] = @ + 1]
  /\ ToldToStop(c)
  /\ UNCHANGED <<main, next, signal_watcher, fast_thread, heap_guard, flags>>

RestartJoins ==
  /\ Alive
  /\ norm_thread = "joinThread"
  /\ Joinable(restarting)
  /\ norm_thread' = "startThread"
  /\ UNCHANGED <<main, next, signal_watcher, fast_thread, restarting, restart_counts,
                 thread, heap_guard, flags>>

\* A std::thread allocates its state.
RestartStarts ==
  /\ Alive
  /\ norm_thread = "startThread"
  /\ ~armed
  /\ Started(restarting)
  /\ norm_thread' = "tick"
  /\ restarting' = 0
  /\ UNCHANGED <<main, next, signal_watcher, fast_thread, restart_counts, heap_guard, flags>>

HeapViolation ==
  /\ Alive
  /\ norm_thread = "startThread"
  /\ armed
  /\ main' = "aborted"
  /\ UNCHANGED <<next, signal_watcher, fast_thread, norm_thread, restarting,
                 restart_counts, thread, heap_guard, flags>>

WorkerRuns(c) ==
  /\ Alive
  /\ \/ /\ thread[c].pc = "test"
        /\ thread' = [thread EXCEPT ![c].pc = IF thread[c].running
                                              THEN "step" ELSE "exited"]
     \/ /\ thread[c].pc = "step"
        /\ thread' = [thread EXCEPT ![c].pc = "test"]
  /\ UNCHANGED <<main, next, signal_watcher, fast_thread, norm_thread, restarting,
                 restart_counts, heap_guard, flags>>

-----------------------------------------------------------------------------

Main ==
  \/ InstallHandlers \/ StartWatcher \/ SetRunning \/ StartWorker
  \/ StartFast \/ StartNorm \/ Arm
  \/ JoinFast \/ JoinNorm \/ StopWorker \/ JoinWorker
  \/ StopWatcher \/ JoinWatcher \/ Return

Watcher == WatcherWakes \/ WatcherDisarms \/ RequestStop

Norm ==
  \/ NormRuns
  \/ \E c \in Active : RestartBegins(c)
  \/ RestartJoins \/ RestartStarts \/ HeapViolation

Over == ~Alive /\ UNCHANGED vars

Next ==
  \/ Main \/ Watcher \/ FastRuns \/ Norm
  \/ \E c \in Active : WorkerRuns(c)
  \/ OnSignal
  \/ Over

\* The host schedules every thread, and every tick and step returns; a signal
\* may never come.
Fairness ==
  /\ WF_vars(Main) /\ WF_vars(Watcher) /\ WF_vars(FastRuns) /\ WF_vars(Norm)
  /\ \A c \in Active : WF_vars(WorkerRuns(c))

Spec == Init /\ [][Next]_vars /\ Fairness

-----------------------------------------------------------------------------

\* Once main has joined its threads and goes on to save the parameters, none
\* of them runs, whatever the watchdog restarted on its way out, and none can
\* be started any more.
NoThreadLeft ==
  main \in {"joinWatcher", "save", "returned"} =>
    /\ fast_thread = "exited" /\ norm_thread = "exited"
    /\ \A c \in Active : ~thread[c].running /\ thread[c].pc = "exited"

\* The main thread and the watchdog are never inside start or stop of one
\* Os::Thread at once, whose std::thread nothing protects.
OneOwner ==
  main \in {"startThread", "joining"} /\ norm_thread \in {"joinThread", "startThread"}
    => next # restarting

\* A signal the watcher sees once the executive runs ends the process, through
\* whatever restarts are under way.
SignalStops ==
  (g_signal_requested /\ signal_watcher = "poll" /\ running_) ~> ~Alive

\* "active components can be restarted up to the configured limit"
\* (docs/ARCHITECTURE.md:173): a restart the watchdog has begun ends with the
\* worker running again.
RestartsComplete ==
  [][norm_thread = "startThread" /\ Norm => thread'[restarting].running]_vars

=============================================================================
