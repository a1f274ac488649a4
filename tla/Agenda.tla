------------------------------- MODULE Agenda --------------------------------
(***************************************************************************)
(* What a command that was committed for later may go through, whichever   *)
(* sequencer it was committed to: it waits, and leaves at most once, for   *)
(* the hub or for nothing, and not before it is due; a clear takes it away *)
(* unsent.  A sequencer that is full loses the commitment at once.         *)
(***************************************************************************)
CONSTANT Job

VARIABLES
  fate,    \* what became of each commitment
  due      \* the waiting commitments whose time has come

vars == <<fate, due>>

Waiting == {j \in Job : fate[j] = "waiting"}

Init ==
  /\ fate = [j \in Job |-> "new"]
  /\ due = {}

Commit(j) ==
  /\ fate[j] = "new"
  /\ \/ fate' = [fate EXCEPT ![j] = "waiting"] /\ due' \in {due, due \cup {j}}
     \/ fate' = [fate EXCEPT ![j] = "lost"] /\ UNCHANGED due

\* Time passes, or an event starts the delay of a commitment.
Ripen ==
  /\ due \subseteq due'
  /\ due' \subseteq Waiting
  /\ UNCHANGED fate

Leave(j) ==
  /\ j \in due
  /\ fate' \in {[fate EXCEPT ![j] = "sent"], [fate EXCEPT ![j] = "lost"]}
  /\ due' = due \ {j}

Clear(S) ==
  /\ S \subseteq Waiting
  /\ fate' = [j \in Job |-> IF j \in S THEN "cleared" ELSE fate[j]]
  /\ due' = due \ S

Next ==
  \/ \E j \in Job : Commit(j) \/ Leave(j)
  \/ Ripen
  \/ \E S \in SUBSET Job : Clear(S)

Spec == Init /\ [][Next]_vars

=============================================================================
