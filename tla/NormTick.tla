------------------------------ MODULE NormTick -------------------------------
(***************************************************************************)
(* What the sequencers and the mode manager share: the NORM thread that    *)
(* steps them one after the other (TopologyManager.hpp:84-101), the hub's  *)
(* command port they all send into, the mission clock, and a history of    *)
(* the commands committed to them.                                         *)
(***************************************************************************)
EXTENDS Naturals, Sequences, FiniteSets, FiniteSetsExt

CONSTANTS
  CommandDepth,  \* QUEUE_DEPTH of the hub's cmd_input and of each cmd_in
  Wrap,          \* 2^32, the range of a 32-bit time in milliseconds
  MaxStall,      \* bound: clock ticks between two scans of the sequencer
  MaxJobs,       \* bound: commitments followed
  MaxErrors      \* an error counter is not followed further

ASSUME NormTickAssumption ==
  /\ CommandDepth \in Nat \ {0}
  /\ Wrap \in Nat /\ Wrap % 2 = 0
  /\ MaxStall \in 1 .. (Wrap \div 2) - 1
  /\ MaxJobs \in Nat
  /\ MaxErrors \in Nat /\ MaxErrors > MaxJobs

VARIABLES
  at,          \* where the NORM thread is
  cmd_input,   \* the hub's input port
  met,         \* getMET()
  stall,       \* ticks since the sequencer last looked at the clock
  fate         \* history: what became of each commitment

Jobs == 1 .. MaxJobs
NextJob == Cardinality({j \in Jobs : fate[j] # "new"}) + 1
Fated(S, f) == [j \in Jobs |-> IF j \in S THEN f ELSE fate[j]]

HasRoom(port) == Len(port) < CommandDepth

Sent(port, cmd) == IF HasRoom(port) THEN Append(port, cmd) ELSE port

Counted(errors) == IF errors < MaxErrors THEN errors + 1 ELSE errors

Sooner(left) == IF left = 0 THEN 0 ELSE left - 1

=============================================================================
