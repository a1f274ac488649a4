-------------------------------- MODULE Uplink --------------------------------
(***************************************************************************)
(* The command uplink: the ground numbers its commands (gds/gds_dash.py,   *)
(* send_command), a link loses, repeats and reorders their frames,         *)
(* TelemetryBridge (src/src/TelemetryBridge.hpp) lets through those its    *)
(* replay state does not refuse and persists that state in a file, and the *)
(* hub takes the commands from its port.  The process may be stopped       *)
(* between two steps of the bridge, or die at any point.                   *)
(*                                                                         *)
(* A command is the number the ground gives it, 1 for the first; its frame *)
(* carries that number modulo 2^16.  A frame whose header is damaged is    *)
(* refused without a trace and counts as lost; a step of the bridge ends   *)
(* after any number of frames, MAX_CMDS_PER_TICK at most.                  *)
(***************************************************************************)
EXTENDS Naturals, Sequences

CONSTANTS
  Modulus,             \* sequence numbers a frame can carry, 2^16
  SEQ_WRAP_HIGH, SEQ_WRAP_LOW,
  PortDepth,           \* QUEUE_DEPTH of the hub's port
  MaxIssued,           \* bound: commands the ground sends
  LinkDepth,           \* bound: frames on the link
  MaxDelay             \* a frame overtakes none that is older by more

ASSUME UplinkAssumption ==
  /\ {Modulus, SEQ_WRAP_HIGH, SEQ_WRAP_LOW, PortDepth, MaxIssued,
      LinkDepth, MaxDelay} \subseteq Nat \ {0}
  /\ SEQ_WRAP_LOW <= SEQ_WRAP_HIGH
  /\ SEQ_WRAP_HIGH + SEQ_WRAP_LOW = Modulus
  /\ MaxDelay < SEQ_WRAP_HIGH - SEQ_WRAP_LOW + 2

VARIABLES
  uplink_seq,       \* the ground's counter: commands sent so far
  link,             \* frames on their way, oldest first
  at,               \* where the bridge is
  first_uplink, last_uplink_seq,
  replay_file,      \* the number in the file, if there is one
  heap_guard,       \* HeapGuard::isArmed()
  command_out,      \* commands in the hub's port
  executed,         \* history: commands the hub took
  newest,           \* history: the last command accepted, 0 for none
  reordered,        \* history: the link has reordered frames
  forgot            \* history: the process ended without its replay state

vars == <<uplink_seq, link, at, first_uplink, last_uplink_seq, replay_file, heap_guard,
          command_out, executed, newest, reordered, forgot>>

bridgeVars == <<at, first_uplink, last_uplink_seq, replay_file, heap_guard>>
historyVars == <<newest, reordered, forgot>>

SequenceNumber == 0 .. Modulus - 1

TypeOK ==
  /\ uplink_seq \in 0 .. MaxIssued
  /\ link \in Seq(1 .. MaxIssued) /\ Len(link) <= LinkDepth
  /\ at \in {"off", "idle", "receiveCommands", "persistReplayState", "writing"}
  /\ first_uplink \in BOOLEAN
  /\ last_uplink_seq \in SequenceNumber
  /\ replay_file \in SUBSET SequenceNumber
  /\ heap_guard \in BOOLEAN
  /\ command_out \in Seq(1 .. MaxIssued) /\ Len(command_out) <= PortDepth
  /\ executed \in SUBSET (1 .. MaxIssued)
  /\ newest \in 0 .. MaxIssued
  /\ reordered \in BOOLEAN
  /\ forgot \in BOOLEAN

Init ==
  /\ uplink_seq = 0
  /\ link = <<>>
  /\ at = "off"
  /\ first_uplink = TRUE
  /\ last_uplink_seq = 0
  /\ replay_file = {}
  /\ heap_guard = FALSE
  /\ command_out = <<>>
  /\ executed = {}
  /\ newest = 0
  /\ reordered = FALSE
  /\ forgot = FALSE

-----------------------------------------------------------------------------
(* The ground and the link. *)

SeqOf(n) == (n - 1) % Modulus

SendCommand ==
  /\ uplink_seq < MaxIssued
  /\ Len(link) < LinkDepth
  /\ uplink_seq' = uplink_seq + 1
  /\ link' = Append(link, uplink_seq + 1)
  /\ UNCHANGED <<bridgeVars, command_out, executed, historyVars>>

LinkStep ==
  /\ link # <<>>
  /\ UNCHANGED <<uplink_seq, bridgeVars, command_out, executed, newest, forgot>>

LinkLoses == LinkStep /\ link' = Tail(link) /\ UNCHANGED reordered

LinkRepeats ==
  /\ LinkStep
  /\ Len(link) < LinkDepth
  /\ link' = <<Head(link)>> \o link
  /\ UNCHANGED reordered

LinkReorders ==
  /\ LinkStep
  /\ Len(link) > 1
  /\ link[2] <= link[1] + MaxDelay
  /\ link' = <<link[2], link[1]>> \o SubSeq(link, 3, Len(link))
  /\ reordered' = TRUE

-----------------------------------------------------------------------------
(* TelemetryBridge *)

\* MUTANT of Boot: a stored 0 is taken for no number at all.
BootIgnoresZero ==
  /\ at = "off"
  /\ at' = "idle"
  /\ heap_guard' \in BOOLEAN
  /\ \/ /\ replay_file \subseteq {0}
        /\ first_uplink' = TRUE
        /\ last_uplink_seq' = 0
     \/ \E stored_seq \in replay_file \ {0} :
          /\ first_uplink' = FALSE
          /\ last_uplink_seq' = stored_seq
  /\ UNCHANGED <<uplink_seq, link, replay_file, command_out, executed, historyVars>>

\* The constructor runs loadReplayState; startAll arms the heap guard, or not.
Boot ==
  /\ at = "off"
  /\ at' = "idle"
  /\ heap_guard' \in BOOLEAN
  /\ \/ /\ replay_file = {}
        /\ first_uplink' = TRUE
        /\ last_uplink_seq' = 0
     \/ \E stored_seq \in replay_file :
          /\ first_uplink' = FALSE
          /\ last_uplink_seq' = stored_seq
  /\ UNCHANGED <<uplink_seq, link, replay_file, command_out, executed, historyVars>>

BeginReceive ==
  /\ at = "idle"
  /\ at' = "receiveCommands"
  /\ UNCHANGED <<uplink_seq, link, first_uplink, last_uplink_seq, replay_file,
                 heap_guard, command_out, executed, historyVars>>

\* Nothing more has arrived, or the limit of the step is reached.
EndReceive ==
  /\ at = "receiveCommands"
  /\ at' = "idle"
  /\ UNCHANGED <<uplink_seq, link, first_uplink, last_uplink_seq, replay_file,
                 heap_guard, command_out, executed, historyVars>>

Wrapped(new_seq) == last_uplink_seq > SEQ_WRAP_HIGH /\ new_seq < SEQ_WRAP_LOW

\* MUTANT of Replayed: the last accepted number may come again.
ReplayedStrictly(new_seq) ==
  ~first_uplink /\ ~Wrapped(new_seq) /\ new_seq < last_uplink_seq

Replayed(new_seq) == ~first_uplink /\ ~Wrapped(new_seq) /\ new_seq <= last_uplink_seq

\* processIncomingFrame on the oldest frame.
Receive ==
  /\ at = "receiveCommands"
  /\ link # <<>>
  /\ link' = Tail(link)
  /\ UNCHANGED <<uplink_seq, replay_file, heap_guard, executed, reordered, forgot>>

\* Refused as a replay: counted, and nothing else changes.
Refuse ==
  /\ Receive
  /\ Replayed(SeqOf(Head(link)))
  /\ UNCHANGED <<at, first_uplink, last_uplink_seq, command_out, newest>>

\* MUTANT of DispatchFails: the sequence number is used up all the same.
DispatchFailsAdvancing ==
  /\ Receive
  /\ ~Replayed(SeqOf(Head(link)))
  /\ Len(command_out) = PortDepth
  /\ first_uplink' = FALSE
  /\ last_uplink_seq' = SeqOf(Head(link))
  /\ UNCHANGED <<at, command_out, newest>>

\* The hub's port is full.
DispatchFails ==
  /\ Receive
  /\ ~Replayed(SeqOf(Head(link)))
  /\ Len(command_out) = PortDepth
  /\ UNCHANGED <<at, first_uplink, last_uplink_seq, command_out, newest>>

\* Sent to the hub, then remembered; with the heap guard armed only in memory.
Accept ==
  /\ Receive
  /\ ~Replayed(SeqOf(Head(link)))
  /\ Len(command_out) < PortDepth
  /\ command_out' = Append(command_out, Head(link))
  /\ first_uplink' = FALSE
  /\ last_uplink_seq' = SeqOf(Head(link))
  /\ newest' = Head(link)
  /\ at' = IF heap_guard THEN at ELSE "persistReplayState"

PersistStep(next) ==
  /\ at' = next
  /\ UNCHANGED <<uplink_seq, link, first_uplink, last_uplink_seq, heap_guard,
                 command_out, executed, historyVars>>

\* The file cannot be opened or written: the step goes on.
PersistFails ==
  /\ at \in {"persistReplayState", "writing"}
  /\ PersistStep("receiveCommands")
  /\ UNCHANGED replay_file

\* Opening with ios::trunc empties it.
PersistTruncate ==
  /\ at = "persistReplayState"
  /\ PersistStep("writing")
  /\ replay_file' = {}

\* The stream writes its buffer when it is closed.
PersistWrite ==
  /\ at = "writing"
  /\ PersistStep("receiveCommands")
  /\ replay_file' = {last_uplink_seq}

-----------------------------------------------------------------------------
(* The hub and the process. *)

HubTakes ==
  /\ at # "off"
  /\ command_out # <<>>
  /\ command_out' = Tail(command_out)
  /\ executed' = executed \cup {Head(command_out)}
  /\ UNCHANGED <<uplink_seq, link, bridgeVars, historyVars>>

Saved == ~first_uplink => replay_file = {last_uplink_seq}

\* The process is gone, and what waits in its port with it.
Gone ==
  /\ at' = "off"
  /\ command_out' = <<>>
  /\ forgot' = (forgot \/ ~Saved)
  /\ UNCHANGED <<uplink_seq, link, first_uplink, last_uplink_seq, replay_file,
                 heap_guard, executed, newest, reordered>>

\* requestStop: the radio's thread is joined between two steps.
Stop == at = "idle" /\ Gone

\* The process dies wherever it is.
Crash == at \notin {"off", "idle"} /\ Gone

Bridge ==
  \/ Boot
  \/ BeginReceive
  \/ EndReceive
  \/ Refuse
  \/ DispatchFails
  \/ Accept
  \/ PersistFails
  \/ PersistTruncate
  \/ PersistWrite
  \/ Stop
  \/ Crash

Next ==
  \/ SendCommand
  \/ LinkLoses \/ LinkRepeats \/ LinkReorders
  \/ Bridge
  \/ HubTakes

Spec == Init /\ [][Next]_vars

-----------------------------------------------------------------------------
(* What the uplink owes its users.                                         *)

\* The link has kept frames in order at least since the numbers wrapped.
Orderly == ~reordered \/ uplink_seq <= Modulus

\* The hub takes each command at most once and in the order the ground sent
\* them, across losses, repetitions, wraps and restarts, unless the process
\* ended before its replay state was in the file or frames are reordered
\* around a wrap (DV-COMM-04).
ExecutedOnceInOrder ==
  [][HubTakes /\ Orderly /\ ~forgot =>
       \A n \in executed : n < Head(command_out)]_vars

\* The longest step from one accepted command to the next that is sure to be
\* seen as a step forward.
MaxGap == Modulus - 1 - SEQ_WRAP_HIGH

\* A command newer than every accepted one does not pass for a replay, as long
\* as fewer than MaxGap were lost before it; one the hub had no room for is no
\* accepted one, and may be repeated (DV-COMM-04).
FreshNotRefused ==
  at # "off" /\ Orderly /\ ~forgot =>
    \A i \in 1 .. Len(link) :
      newest < link[i] /\ (newest = 0 \/ link[i] <= newest + MaxGap)
        => ~Replayed(SeqOf(link[i]))

\* A running bridge knows the number of the last command ever accepted, the
\* one of an earlier run of the process included (DV-COMM-06).
ReplayStateKept ==
  at # "off" /\ newest # 0 /\ Orderly /\ ~forgot =>
    ~first_uplink /\ last_uplink_seq = SeqOf(newest)

=============================================================================
