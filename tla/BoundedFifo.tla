----------------------------- MODULE BoundedFifo -----------------------------
(***************************************************************************)
(* What a port promises its users (docs/PORTS_AND_MESSAGES.md, "Send       *)
(* Semantics"): a queue of at most Capacity packets.  A send either        *)
(* appends the packet and returns true, or finds the queue full, returns   *)
(* false and is counted.  A packet whose send returned true is handed to   *)
(* the consumer once, whole, and in the order of the sends.                *)
(***************************************************************************)
EXTENDS Naturals, Sequences

CONSTANTS
  Packet,      \* the packets the port may carry
  Capacity     \* QUEUE_DEPTH, the number of packets the port holds

VARIABLES
  queue,       \* packets accepted and not consumed yet
  refused,     \* how many sends returned false
  consumed     \* packets handed to the consumer, oldest first

vars == <<queue, refused, consumed>>

Init ==
  /\ queue = <<>>
  /\ refused = 0
  /\ consumed = <<>>

Send(m) ==
  /\ Len(queue) < Capacity
  /\ queue' = Append(queue, m)
  /\ UNCHANGED <<refused, consumed>>

Refuse ==
  /\ Len(queue) = Capacity
  /\ refused' = refused + 1
  /\ UNCHANGED <<queue, consumed>>

Consume ==
  /\ queue # <<>>
  /\ queue' = Tail(queue)
  /\ consumed' = Append(consumed, Head(queue))
  /\ UNCHANGED refused

Next == (\E m \in Packet : Send(m)) \/ Refuse \/ Consume

\* The consumer's thread keeps draining the port.
Spec == Init /\ [][Next]_vars /\ WF_vars(Consume)

=============================================================================
