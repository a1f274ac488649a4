------------------------------- MODULE PortRing -------------------------------
(***************************************************************************)
(* The RingBuffer behind every InputPort (src/src/Port.hpp), one atomic    *)
(* load, store or word copy per step, with the threads that call push and  *)
(* pop interleaved.  A packet is a trivially copyable struct, so copying   *)
(* one in or out of a slot is a copy of its words in whatever order the    *)
(* compiler chose; two threads copying in one slot at a time is a data     *)
(* race, whose outcomes are the interleavings of the word copies.          *)
(***************************************************************************)
EXTENDS Naturals, Sequences, FiniteSets

CONSTANTS
  Producers,       \* the output ports connected to this input port
  Threads,         \* the threads that run them and the consumer
  ThreadOf,        \* the thread that steps each producer
  ConsumerThread,  \* the thread that steps the owner of the input port
  Capacity,        \* QUEUE_DEPTH
  Words,           \* the machine words a packet is copied by
  MaxSends         \* bound: the number of sends of each producer

ASSUME PortAssumption ==
  /\ Capacity \in Nat \ {0}
  /\ IsFiniteSet(Producers)
  /\ ThreadOf \in [Producers -> Threads]
  /\ ConsumerThread \in Threads
  /\ MaxSends \in Nat

\* The n-th command of a producer, and the packet its words make.
Message == Producers \X (1 .. MaxSends)
NoWord == <<>>
Word == Message \cup {NoWord}
Slot == [Words -> Word]
EmptySlot == [w \in Words |-> NoWord]
PacketOf(m) == [w \in Words |-> m]

Index == 0 .. Capacity

VARIABLES
  buf,             \* the Capacity + 1 slots
  head,            \* next slot to pop
  tail,            \* next slot to push
  overflow_count,  \* sends refused since the counter was last drained
  drained,         \* refusals already collected by drainOverflowCount
  push,            \* the local state of push() for each producer
  pop,             \* the local state of pop()
  sent,            \* how many sends each producer has started
  accepted,        \* history: messages whose push returned true
  delivered        \* history: slots handed out by pop

vars == <<buf, head, tail, overflow_count, drained, push, pop, sent,
          accepted, delivered>>

\* Local state of a call: where it is, the index it loaded, the packet it
\* carries and the words it has not copied yet.
PushState == [pc : {"idle", "loaded", "copying"}, at : Index,
              item : Word, left : SUBSET Words]
PopState == [pc : {"idle", "copying"}, out : Slot, left : SUBSET Words]

TypeOK ==
  /\ buf \in [Index -> Slot]
  /\ head \in Index
  /\ tail \in Index
  /\ overflow_count \in Nat
  /\ drained \in Nat
  /\ push \in [Producers -> PushState]
  /\ pop \in PopState
  /\ sent \in [Producers -> 0 .. MaxSends]
  /\ accepted \in Seq(Message)
  /\ delivered \in Seq(Slot)

Init ==
  /\ buf = [i \in Index |-> EmptySlot]
  /\ head = 0
  /\ tail = 0
  /\ overflow_count = 0
  /\ drained = 0
  /\ push = [p \in Producers |->
               [pc |-> "idle", at |-> 0, item |-> NoWord, left |-> {}]]
  /\ pop = [pc |-> "idle", out |-> EmptySlot, left |-> {}]
  /\ sent = [p \in Producers |-> 0]
  /\ accepted = <<>>
  /\ delivered = <<>>

\* MUTANT of Succ: wraps one slot too late.
SuccTooLate(i) == (i + 1) % (Capacity + 2)

Succ(i) == (i + 1) % (Capacity + 1)

\* A thread is inside at most one call at a time.
Busy(t) ==
  \/ \E p \in Producers : ThreadOf[p] = t /\ push[p].pc # "idle"
  \/ t = ConsumerThread /\ pop.pc # "idle"

-----------------------------------------------------------------------------
(* push *)

PushLoadTail(p) ==
  /\ ~Busy(ThreadOf[p])
  /\ sent[p] < MaxSends
  /\ sent' = [sent EXCEPT ![p] = @ + 1]
  /\ push' = [push EXCEPT ![p] = [pc |-> "loaded", at |-> tail,
                                  item |-> <<p, sent[p] + 1>>, left |-> {}]]
  /\ UNCHANGED <<buf, head, tail, overflow_count, drained, pop, accepted, delivered>>

\* MUTANT of PushOverflow: the refusal is not counted.
PushOverflowSilent(p) ==
  /\ push[p].pc = "loaded"
  /\ Succ(push[p].at) = head
  /\ push' = [push EXCEPT ![p].pc = "idle"]
  /\ UNCHANGED <<buf, head, tail, overflow_count, drained, pop, sent, accepted, delivered>>

PushOverflow(p) ==
  /\ push[p].pc = "loaded"
  /\ Succ(push[p].at) = head
  /\ overflow_count' = overflow_count + 1
  /\ push' = [push EXCEPT ![p].pc = "idle"]
  /\ UNCHANGED <<buf, head, tail, drained, pop, sent, accepted, delivered>>

PushBegin(p) ==
  /\ push[p].pc = "loaded"
  /\ Succ(push[p].at) # head
  /\ push' = [push EXCEPT ![p].pc = "copying", ![p].left = Words]
  /\ UNCHANGED <<buf, head, tail, overflow_count, drained, pop, sent, accepted, delivered>>

PushCopy(p, w) ==
  /\ push[p].pc = "copying"
  /\ w \in push[p].left
  /\ buf' = [buf EXCEPT ![push[p].at][w] = push[p].item]
  /\ push' = [push EXCEPT ![p].left = @ \ {w}]
  /\ UNCHANGED <<head, tail, overflow_count, drained, pop, sent, accepted, delivered>>

\* MUTANT of PushPublish: tail is stored before the packet is.
PushPublishEarly(p) ==
  /\ push[p].pc = "copying"
  /\ tail' = Succ(push[p].at)
  /\ push' = [push EXCEPT ![p].pc = "idle"]
  /\ accepted' = Append(accepted, push[p].item)
  /\ UNCHANGED <<buf, head, overflow_count, drained, pop, sent, delivered>>

PushPublish(p) ==
  /\ push[p].pc = "copying"
  /\ push[p].left = {}
  /\ tail' = Succ(push[p].at)
  /\ push' = [push EXCEPT ![p].pc = "idle"]
  /\ accepted' = Append(accepted, push[p].item)
  /\ UNCHANGED <<buf, head, overflow_count, drained, pop, sent, delivered>>

-----------------------------------------------------------------------------
(* pop *)

PopEmpty ==
  /\ ~Busy(ConsumerThread)
  /\ head = tail
  /\ UNCHANGED vars

\* MUTANT of PopBegin: the last packet of the ring is taken for an empty ring.
PopBeginKeepsLast ==
  /\ ~Busy(ConsumerThread)
  /\ head # tail
  /\ Succ(head) # tail
  /\ pop' = [pop EXCEPT !.pc = "copying", !.left = Words]
  /\ UNCHANGED <<buf, head, tail, overflow_count, drained, push, sent, accepted, delivered>>

PopBegin ==
  /\ ~Busy(ConsumerThread)
  /\ head # tail
  /\ pop' = [pop EXCEPT !.pc = "copying", !.left = Words]
  /\ UNCHANGED <<buf, head, tail, overflow_count, drained, push, sent, accepted, delivered>>

PopCopy(w) ==
  /\ pop.pc = "copying"
  /\ w \in pop.left
  /\ pop' = [pop EXCEPT !.out[w] = buf[head][w], !.left = @ \ {w}]
  /\ UNCHANGED <<buf, head, tail, overflow_count, drained, push, sent, accepted, delivered>>

PopPublish ==
  /\ pop.pc = "copying"
  /\ pop.left = {}
  /\ head' = Succ(head)
  /\ pop' = [pop EXCEPT !.pc = "idle"]
  /\ delivered' = Append(delivered, pop.out)
  /\ UNCHANGED <<buf, tail, overflow_count, drained, push, sent, accepted>>

-----------------------------------------------------------------------------
(* drainOverflowCount: one atomic exchange, by any thread *)

DrainOverflow ==
  /\ overflow_count' = 0
  /\ drained' = drained + overflow_count
  /\ UNCHANGED <<buf, head, tail, push, pop, sent, accepted, delivered>>

-----------------------------------------------------------------------------

PushStep(p) ==
  \/ PushOverflow(p)
  \/ PushBegin(p)
  \/ \E w \in Words : PushCopy(p, w)
  \/ PushPublish(p)

PopStep ==
  \/ PopBegin
  \/ \E w \in Words : PopCopy(w)
  \/ PopPublish

Next ==
  \/ \E p \in Producers : PushLoadTail(p) \/ PushStep(p)
  \/ PopStep
  \/ PopEmpty
  \/ DrainOverflow

\* A thread inside push() runs on, and the consumer's rate group keeps
\* draining its port; nobody has to send and nobody has to drain the counter.
Fairness ==
  /\ \A p \in Producers : WF_vars(PushStep(p))
  /\ WF_vars(PopStep)

Spec == Init /\ [][Next]_vars /\ Fairness

-----------------------------------------------------------------------------
(* What the users of the port rely on.                                     *)

\* size(): what the two indexes say is in the ring.
Size == IF tail >= head THEN tail - head ELSE (Capacity + 1) - (head - tail)

\* The slot of the k-th queued packet, k from 0.
SlotAt(k) == IF head + k <= Capacity THEN head + k ELSE head + k - (Capacity + 1)

QueueView == [k \in 1 .. Size |-> buf[SlotAt(k - 1)]]

\* Every packet pop has handed out is, whole and in order, one a push
\* accepted: none torn between two commands, repeated or skipped, and every
\* accepted one that was not handed out yet is still in the ring.
ExactlyOnceInOrder ==
  /\ Len(accepted) = Len(delivered) + Size
  /\ \A k \in 1 .. Len(delivered) : delivered[k] = PacketOf(accepted[k])
  /\ \A k \in 1 .. Size : QueueView[k] = PacketOf(accepted[Len(delivered) + k])

InProgress(m) == push[m[1]].pc # "idle" /\ push[m[1]].item = m
Finished == {m \in Message : m[2] <= sent[m[1]] /\ ~InProgress(m)}

\* Every send that finished either is accepted or is counted, by the ring or
\* by whoever drained its counter: a full port is never silent (DV-MEM-03).
SendsAccounted == Cardinality(Finished) = Len(accepted) + overflow_count + drained

\* The ring implements the queue of BoundedFifo, refusals included: a send is
\* refused only when the port really holds Capacity packets.
Fifo == INSTANCE BoundedFifo WITH
  Packet <- {PacketOf(m) : m \in Message},
  queue <- QueueView,
  refused <- overflow_count + drained,
  consumed <- delivered

ImplementsFifo == Fifo!Spec

\* Once every call has returned, a packet whose send returned true has been
\* handed to the consumer or is still in the ring: the documented meaning of
\* send() (docs/PORTS_AND_MESSAGES.md:49-57).
AcceptedNotLost ==
  (\A t \in Threads : ~Busy(t)) =>
    \A k \in 1 .. Len(accepted) :
      \/ \E i \in 1 .. Len(delivered) : delivered[i] = PacketOf(accepted[k])
      \/ \E i \in 1 .. Size : QueueView[i] = PacketOf(accepted[k])

=============================================================================
