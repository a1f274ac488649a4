--------------------------- MODULE PortRingProofs ----------------------------
(***************************************************************************)
(* The ring is a queue for every capacity, packet size and number of       *)
(* sends, as long as every producer of the port runs on one thread: the    *)
(* condition the source never states and cmd_hub.cmd_input breaks.         *)
(***************************************************************************)
EXTENDS PortRing, SequenceTheorems, FiniteSetTheorems, TLAPS

OneProducerThread == \A p, q \in Producers : ThreadOf[p] = ThreadOf[q]

\* Every call in progress carries the latest message of its producer.
CallInv ==
  \A p \in Producers : push[p].pc # "idle" =>
    /\ sent[p] > 0
    /\ push[p].item = <<p, sent[p]>>

\* What each call in progress knows when the producers share a thread.
PushInv ==
  /\ \A p, q \in Producers :
       push[p].pc # "idle" /\ push[q].pc # "idle" => p = q
  /\ \A p \in Producers : push[p].pc # "idle" => push[p].at = tail
  /\ \A p \in Producers : push[p].pc = "copying" =>
       /\ Succ(tail) # head
       /\ \A w \in Words \ push[p].left : buf[tail][w] = push[p].item

PopInv ==
  pop.pc = "copying" =>
    /\ head # tail
    /\ \A w \in Words \ pop.left : pop.out[w] = buf[head][w]

\* The ring holds what was accepted and not delivered.
RingInv ==
  /\ Len(accepted) = Len(delivered) + Size
  /\ \A k \in 1 .. Len(delivered) : delivered[k] = PacketOf(accepted[k])
  /\ \A k \in 0 .. Size - 1 :
       buf[SlotAt(k)] = PacketOf(accepted[Len(delivered) + k + 1])

IInv == TypeOK /\ CallInv /\ PushInv /\ PopInv /\ RingInv

-----------------------------------------------------------------------------

\* The index arithmetic: next slot, wrapping after Capacity.
LEMMA SuccWraps ==
  ASSUME NEW i \in Index
  PROVE  /\ Succ(i) = IF i = Capacity THEN 0 ELSE i + 1
         /\ Succ(i) \in Index
BY PortAssumption, SMT DEF Succ, Index

\* size() never exceeds the capacity, and the queued packets lie in slots of
\* the ring other than the one push writes to.
LEMMA SizeBounded ==
  ASSUME head \in Index, tail \in Index
  PROVE  /\ Size \in 0 .. Capacity
         /\ Size = 0 <=> head = tail
         /\ \A k \in 0 .. Size - 1 : SlotAt(k) \in Index /\ SlotAt(k) # tail
BY PortAssumption DEF Size, SlotAt, Index

LEMMA TypeInit == Init => TypeOK
<1> SUFFICES ASSUME Init PROVE TypeOK
  OBVIOUS
<1> USE PortAssumption DEF Init
<1>1. buf \in [Index -> Slot]
  BY DEF Slot, EmptySlot, Word
<1>2. head \in Index /\ tail \in Index
  BY DEF Index
<1>3. push \in [Producers -> PushState]
  BY DEF PushState, Word, Index
<1>4. pop \in PopState
  BY DEF PopState, Slot, EmptySlot, Word
<1>5. sent \in [Producers -> 0 .. MaxSends]
  OBVIOUS
<1>6. accepted \in Seq(Message) /\ delivered \in Seq(Slot)
  OBVIOUS
<1>7. QED
  BY <1>1, <1>2, <1>3, <1>4, <1>5, <1>6 DEF TypeOK

LEMMA CarriesMessage ==
  ASSUME TypeOK, CallInv, NEW p \in Producers, push[p].pc # "idle"
  PROVE  push[p].item \in Message
<1>1. sent[p] \in 0 .. MaxSends /\ sent[p] > 0 /\ push[p].item = <<p, sent[p]>>
  BY DEF TypeOK, CallInv
<1>2. sent[p] \in 1 .. MaxSends
  BY <1>1, PortAssumption
<1>3. QED
  BY <1>1, <1>2 DEF Message

\* Type correctness of every step of the ring.
LEMMA TypeNext ==
  ASSUME TypeOK, CallInv, [Next]_vars
  PROVE  TypeOK'
<1> USE PortAssumption DEF TypeOK
<1>1. ASSUME NEW p \in Producers, PushLoadTail(p) PROVE TypeOK'
  <2>1. <<p, sent[p] + 1>> \in Message
    BY <1>1 DEF PushLoadTail, Message
  <2>2. push' \in [Producers -> PushState]
    BY <1>1, <2>1 DEF PushLoadTail, PushState, Word
  <2>3. sent' \in [Producers -> 0 .. MaxSends]
    BY <1>1 DEF PushLoadTail
  <2>4. QED
    BY <1>1, <2>2, <2>3 DEF PushLoadTail
<1>2. ASSUME NEW p \in Producers, PushOverflow(p) PROVE TypeOK'
  <2>1. push' \in [Producers -> PushState]
    BY <1>2 DEF PushOverflow, PushState
  <2>2. QED
    BY <1>2, <2>1 DEF PushOverflow
<1>3. ASSUME NEW p \in Producers, PushBegin(p) PROVE TypeOK'
  BY <1>3 DEF PushBegin, PushState
<1>4. ASSUME NEW p \in Producers, NEW w \in Words, PushCopy(p, w) PROVE TypeOK'
  <2>1. push' \in [Producers -> PushState]
    BY <1>4 DEF PushCopy, PushState
  <2>2. push[p].item \in Word /\ push[p].at \in Index
    BY DEF PushState
  <2>3. buf' \in [Index -> Slot]
    BY <1>4, <2>2 DEF PushCopy, Slot
  <2>4. QED
    BY <1>4, <2>1, <2>3 DEF PushCopy
<1>5. ASSUME NEW p \in Producers, PushPublish(p) PROVE TypeOK'
  <2>1. push' \in [Producers -> PushState]
    BY <1>5 DEF PushPublish, PushState
  <2>2. push[p].item \in Message /\ push[p].at \in Index
    BY <1>5, CarriesMessage DEF PushPublish, PushState
  <2>3. tail' \in Index
    BY <1>5, <2>2, SuccWraps DEF PushPublish
  <2>4. accepted' \in Seq(Message)
    BY <1>5, <2>2 DEF PushPublish
  <2>5. QED
    BY <1>5, <2>1, <2>3, <2>4 DEF PushPublish
<1>6. CASE PopBegin
  BY <1>6 DEF PopBegin, PopState
<1>7. ASSUME NEW w \in Words, PopCopy(w) PROVE TypeOK'
  <2>1. buf[head][w] \in Word
    BY DEF Slot
  <2>2. pop' \in PopState
    BY <1>7, <2>1 DEF PopCopy, PopState, Slot
  <2>3. QED
    BY <1>7, <2>2 DEF PopCopy
<1>8. CASE PopPublish
  <2>1. head' \in Index
    BY <1>8, SuccWraps DEF PopPublish
  <2>2. pop' \in PopState
    BY <1>8 DEF PopPublish, PopState
  <2>3. pop.out \in Slot
    BY DEF PopState
  <2>4. delivered' \in Seq(Slot)
    BY <1>8, <2>3 DEF PopPublish
  <2>5. QED
    BY <1>8, <2>1, <2>2, <2>4 DEF PopPublish
<1>9. CASE PopEmpty
  BY <1>9 DEF PopEmpty, vars
<1>10. CASE DrainOverflow
  BY <1>10 DEF DrainOverflow
<1>11. CASE UNCHANGED vars
  BY <1>11 DEF vars
<1>12. QED
  BY <1>1, <1>2, <1>3, <1>4, <1>5, <1>6, <1>7, <1>8, <1>9, <1>10, <1>11
     DEF Next, PushStep, PopStep

\* A push that finds a free slot keeps its index and its packet.
LEMMA BeginCopies ==
  ASSUME TypeOK, NEW p \in Producers, PushBegin(p)
  PROVE  /\ push'[p].pc = "copying" /\ push'[p].left = Words
         /\ push'[p].at = push[p].at /\ push'[p].item = push[p].item
         /\ \A q \in Producers : q # p => push'[q] = push[q]
<1>1. /\ push'[p] = [push[p] EXCEPT !.pc = "copying", !.left = Words]
      /\ \A q \in Producers : q # p => push'[q] = push[q]
  BY DEF PushBegin, TypeOK, PushState
<1>2. push[p] \in PushState
  BY DEF TypeOK
<1>3. QED
  BY <1>1, <1>2 DEF PushState

LEMMA CallNext ==
  ASSUME TypeOK, CallInv, [Next]_vars
  PROVE  CallInv'
<1> USE PortAssumption DEF TypeOK
<1>1. ASSUME NEW p \in Producers, PushLoadTail(p) PROVE CallInv'
  <2>1. /\ sent' = [sent EXCEPT ![p] = @ + 1]
        /\ push'[p].item = <<p, sent[p] + 1>>
        /\ \A q \in Producers : q # p => push'[q] = push[q]
    BY <1>1 DEF PushLoadTail
  <2>2. sent'[p] = sent[p] + 1 /\ sent[p] \in Nat
    BY <2>1
  <2>3. \A q \in Producers : q # p => sent'[q] = sent[q]
    BY <2>1
  <2>4. QED
    BY <2>1, <2>2, <2>3 DEF CallInv
<1>2. ASSUME NEW p \in Producers, PushStep(p) PROVE CallInv'
  <2>0. push[p].pc # "idle"
    BY <1>2 DEF PushStep, PushOverflow, PushBegin, PushCopy, PushPublish
  <2>1. /\ push'[p].item = push[p].item
        /\ \A q \in Producers : q # p => push'[q] = push[q]
    <3>1. CASE PushOverflow(p) \/ PushPublish(p)
      BY <3>1 DEF PushOverflow, PushPublish, PushState
    <3>2. CASE PushBegin(p)
      BY <3>2, BeginCopies
    <3>3. ASSUME NEW w \in Words, PushCopy(p, w)
          PROVE  /\ push'[p].item = push[p].item
                 /\ \A q \in Producers : q # p => push'[q] = push[q]
      BY <3>3 DEF PushCopy, PushState
    <3>4. QED
      BY <1>2, <3>1, <3>2, <3>3 DEF PushStep
  <2>2. sent' = sent
    BY <1>2 DEF PushStep, PushOverflow, PushBegin, PushCopy, PushPublish
  <2>3. QED
    BY <2>0, <2>1, <2>2 DEF CallInv
<1>3. CASE PopStep \/ PopEmpty \/ DrainOverflow \/ UNCHANGED vars
  BY <1>3 DEF PopStep, PopBegin, PopCopy, PopPublish, PopEmpty, DrainOverflow, vars, CallInv
<1>4. QED
  BY <1>1, <1>2, <1>3 DEF Next

-----------------------------------------------------------------------------
(* What holds whichever threads the producers run on.                      *)

LEMMA MessagesFinite == IsFiniteSet(Message)
<1>1. IsFiniteSet(1 .. MaxSends)
  BY FS_Interval, PortAssumption
<1>2. QED
  BY <1>1, FS_Product, PortAssumption DEF Message

\* Every variable of the ring keeps its type, on any assignment of producers
\* to threads: no index ever leaves the slots, for every capacity.
THEOREM TypeCorrect == Spec => []TypeOK
<1>1. Init => TypeOK /\ CallInv
  BY TypeInit DEF Init, CallInv
<1>2. TypeOK /\ CallInv /\ [Next]_vars => TypeOK' /\ CallInv'
  BY TypeNext, CallNext
<1>3. QED
  BY <1>1, <1>2, PTL DEF Spec

\* One more send has finished: the one producer p was making.
LEMMA SendFinishes ==
  ASSUME TypeOK, CallInv, NEW p \in Producers,
         push[p].pc # "idle", push'[p].pc = "idle",
         \A q \in Producers : q # p => push'[q] = push[q],
         UNCHANGED sent
  PROVE  Cardinality(Finished') = Cardinality(Finished) + 1
<1> DEFINE m == push[p].item
<1>1. m \in Message /\ m[1] = p /\ m[2] = sent[p]
  BY CarriesMessage DEF CallInv
<1>2. m \notin Finished
  BY <1>1 DEF Finished, InProgress
<1>3. ASSUME NEW n \in Message
      PROVE  n \in Finished' <=> n \in Finished \/ n = m
  <2>1. n[1] \in Producers /\ n[2] \in 1 .. MaxSends /\ n = <<n[1], n[2]>>
    BY DEF Message
  <2>2. CASE n[1] # p
    BY <1>1, <2>1, <2>2 DEF Finished, InProgress
  <2>3. CASE n[1] = p
    <3>1. InProgress(n) <=> n = m
      BY <2>3 DEF InProgress
    <3>2. ~InProgress(n)'
      BY <2>3 DEF InProgress
    <3>3. QED
      BY <1>1, <2>3, <3>1, <3>2 DEF Finished, TypeOK
  <2>4. QED
    BY <2>2, <2>3
<1>4. Finished' = Finished \cup {m}
  BY <1>1, <1>3 DEF Finished, Message
<1>5. IsFiniteSet(Finished)
  BY MessagesFinite, FS_Subset DEF Finished
<1>6. QED
  BY <1>2, <1>4, <1>5, FS_AddElement

\* A send that only starts or goes on has not finished.
LEMMA SendStarts ==
  ASSUME TypeOK, CallInv, NEW p \in Producers, PushLoadTail(p)
  PROVE  Finished' = Finished
<1>1. push[p].pc = "idle"
  BY DEF PushLoadTail, Busy
<1>2. /\ push'[p].pc = "loaded" /\ push'[p].item = <<p, sent[p] + 1>>
      /\ \A q \in Producers : q # p => push'[q] = push[q] /\ sent'[q] = sent[q]
      /\ sent'[p] = sent[p] + 1 /\ sent[p] \in Nat
  BY PortAssumption DEF PushLoadTail, TypeOK
<1>3. ASSUME NEW n \in Message
      PROVE  n \in Finished' <=> n \in Finished
  <2>1. n[1] \in Producers /\ n[2] \in Nat /\ n = <<n[1], n[2]>>
    BY PortAssumption DEF Message
  <2>2. CASE n[1] # p
    BY <1>2, <2>1, <2>2 DEF Finished, InProgress
  <2>3. CASE n[1] = p
    <3>1. ~InProgress(n)
      BY <1>1, <2>3 DEF InProgress
    <3>2. InProgress(n)' <=> n[2] = sent[p] + 1
      BY <1>2, <2>1, <2>3 DEF InProgress
    <3>3. QED
      BY <1>2, <2>1, <2>3, <3>1, <3>2 DEF Finished
  <2>4. QED
    BY <2>2, <2>3
<1>4. QED
  BY <1>3 DEF Finished, Message

LEMMA CountNext ==
  ASSUME TypeOK, CallInv, SendsAccounted, [Next]_vars
  PROVE  SendsAccounted'
<1> USE DEF SendsAccounted
<1>0. /\ overflow_count \in Nat /\ drained \in Nat
      /\ accepted \in Seq(Message) /\ Len(accepted) \in Nat
  BY DEF TypeOK
<1>1. ASSUME NEW p \in Producers, PushLoadTail(p) PROVE SendsAccounted'
  <2>1. UNCHANGED <<overflow_count, drained, accepted>>
    BY <1>1 DEF PushLoadTail
  <2>2. QED
    BY <1>1, <2>1, SendStarts
<1>2. ASSUME NEW p \in Producers, PushOverflow(p) PROVE SendsAccounted'
  <2>1. /\ push[p].pc # "idle" /\ push'[p].pc = "idle"
        /\ \A q \in Producers : q # p => push'[q] = push[q]
        /\ UNCHANGED <<sent, drained, accepted>>
        /\ overflow_count' = overflow_count + 1
    BY <1>2 DEF PushOverflow, TypeOK, PushState
  <2>2. Cardinality(Finished') = Cardinality(Finished) + 1
    BY <2>1, SendFinishes
  <2>3. QED
    BY <1>0, <2>1, <2>2
<1>3. ASSUME NEW p \in Producers,
             PushBegin(p) \/ \E w \in Words : PushCopy(p, w)
      PROVE  SendsAccounted'
  <2>1. /\ push[p].pc # "idle" /\ push'[p].pc # "idle" /\ push'[p].item = push[p].item
        /\ \A q \in Producers : q # p => push'[q] = push[q]
        /\ UNCHANGED <<sent, overflow_count, drained, accepted>>
    <3>1. CASE PushBegin(p)
      BY <3>1, BeginCopies DEF PushBegin
    <3>2. CASE \E w \in Words : PushCopy(p, w)
      BY <3>2 DEF PushCopy, TypeOK, PushState
    <3>3. QED
      BY <1>3, <3>1, <3>2
  <2>2. \A n \in Message : InProgress(n)' <=> InProgress(n)
    BY <2>1 DEF InProgress, Message
  <2>3. Finished' = Finished
    BY <2>1, <2>2 DEF Finished
  <2>4. QED
    BY <2>1, <2>3
<1>4. ASSUME NEW p \in Producers, PushPublish(p) PROVE SendsAccounted'
  <2>1. /\ push[p].pc # "idle" /\ push'[p].pc = "idle"
        /\ \A q \in Producers : q # p => push'[q] = push[q]
        /\ UNCHANGED <<sent, drained, overflow_count>>
        /\ accepted' = Append(accepted, push[p].item)
    BY <1>4 DEF PushPublish, TypeOK, PushState
  <2>2. Len(accepted') = Len(accepted) + 1
    BY <1>0, <2>1, CarriesMessage
  <2>3. Cardinality(Finished') = Cardinality(Finished) + 1
    BY <2>1, SendFinishes
  <2>4. QED
    BY <1>0, <2>1, <2>2, <2>3
<1>5. CASE PopStep \/ PopEmpty \/ UNCHANGED vars
  <2>1. UNCHANGED <<push, sent, overflow_count, drained, accepted>>
    BY <1>5 DEF PopStep, PopBegin, PopCopy, PopPublish, PopEmpty, vars
  <2>2. Finished' = Finished
    BY <2>1 DEF Finished, InProgress
  <2>3. QED
    BY <2>1, <2>2
<1>6. CASE DrainOverflow
  <2>1. /\ UNCHANGED <<push, sent, accepted>>
        /\ overflow_count' = 0 /\ drained' = drained + overflow_count
    BY <1>6 DEF DrainOverflow
  <2>2. Finished' = Finished
    BY <2>1 DEF Finished, InProgress
  <2>3. QED
    BY <1>0, <2>1, <2>2
<1>7. QED
  BY <1>1, <1>2, <1>3, <1>4, <1>5, <1>6 DEF Next, PushStep

\* A full port is never silent, even when several threads push into it and
\* its packets tear or vanish: every send that returned was accepted, or is
\* in the counter, or was in it when somebody drained it.
THEOREM NoSendIsSilent == Spec => []SendsAccounted
<1>1. Init => TypeOK /\ CallInv /\ SendsAccounted
  <2> SUFFICES ASSUME Init PROVE TypeOK /\ CallInv /\ SendsAccounted
    OBVIOUS
  <2>1. TypeOK /\ CallInv
    BY TypeInit DEF Init, CallInv
  <2>2. Finished = {}
    BY PortAssumption DEF Init, Finished, Message
  <2>3. QED
    BY <2>1, <2>2, FS_EmptySet DEF Init, SendsAccounted
<1>2. TypeOK /\ CallInv /\ SendsAccounted /\ [Next]_vars
        => TypeOK' /\ CallInv' /\ SendsAccounted'
  BY TypeNext, CallNext, CountNext
<1>3. QED
  BY <1>1, <1>2, PTL DEF Spec

-----------------------------------------------------------------------------

\* Two calls of push never overlap when the producers share a thread, so the
\* tail one of them loaded stays the tail until it publishes.
LEMMA PushNext ==
  ASSUME OneProducerThread, IInv, [Next]_vars
  PROVE  PushInv'
<1> USE PortAssumption DEF IInv
<1>1. ASSUME NEW p \in Producers, PushLoadTail(p) PROVE PushInv'
  <2>1. \A q \in Producers : push[q].pc = "idle"
    BY <1>1 DEF PushLoadTail, Busy, OneProducerThread
  <2>2. \A q \in Producers : q # p => push'[q] = push[q]
    BY <1>1 DEF PushLoadTail, TypeOK
  <2>3. /\ push'[p].pc = "loaded"
        /\ push'[p].at = tail
    BY <1>1 DEF PushLoadTail, TypeOK
  <2>4. tail' = tail
    BY <1>1 DEF PushLoadTail
  <2>5. QED
    BY <2>1, <2>2, <2>3, <2>4 DEF PushInv
<1>2. ASSUME NEW p \in Producers, PushOverflow(p) PROVE PushInv'
  <2>1. /\ push'[p].pc = "idle"
        /\ \A q \in Producers : q # p => push'[q] = push[q]
    BY <1>2 DEF PushOverflow, TypeOK, PushState
  <2>2. UNCHANGED <<buf, head, tail>>
    BY <1>2 DEF PushOverflow
  <2>3. QED
    BY <2>1, <2>2 DEF PushInv
<1>3. ASSUME NEW p \in Producers, PushBegin(p) PROVE PushInv'
  <2>1. /\ push'[p].pc = "copying" /\ push'[p].left = Words
        /\ push'[p].at = push[p].at
        /\ \A q \in Producers : q # p => push'[q] = push[q]
    BY <1>3, BeginCopies
  <2>2. UNCHANGED <<buf, head, tail>>
    BY <1>3 DEF PushBegin
  <2>3. Succ(tail) # head
    BY <1>3 DEF PushBegin, PushInv
  <2>4. Succ(tail)' # head'
    BY <2>2, <2>3 DEF Succ
  <2>5. push[p].pc # "idle"
    BY <1>3 DEF PushBegin
  <2>6. QED
    BY <2>1, <2>2, <2>4, <2>5 DEF PushInv
<1>4. ASSUME NEW p \in Producers, NEW w \in Words, PushCopy(p, w) PROVE PushInv'
  <2>1. \A q \in Producers : q # p => push'[q] = push[q] /\ push[q].pc = "idle"
    BY <1>4 DEF PushCopy, TypeOK, PushInv
  <2>2. /\ push'[p].pc = "copying" /\ push'[p].left = push[p].left \ {w}
        /\ push'[p].at = push[p].at /\ push'[p].item = push[p].item
    BY <1>4 DEF PushCopy, TypeOK, PushState
  <2>3. head' = head /\ tail' = tail /\ push[p].at = tail
    BY <1>4 DEF PushCopy, PushInv
  <2>4. Succ(tail)' # head'
    BY <1>4, <2>3 DEF PushCopy, PushInv, Succ
  <2>5. buf'[tail] = [buf[tail] EXCEPT ![w] = push[p].item]
    BY <1>4, <2>3 DEF PushCopy, TypeOK
  <2>6. \A x \in Words \ push'[p].left : buf'[tail][x] = push[p].item
    BY <1>4, <2>2, <2>5 DEF PushCopy, PushInv, TypeOK, Slot
  <2>7. QED
    BY <2>1, <2>2, <2>3, <2>4, <2>6 DEF PushInv
<1>5. ASSUME NEW p \in Producers, PushPublish(p) PROVE PushInv'
  <2>1. \A q \in Producers : q # p => push'[q] = push[q] /\ push[q].pc = "idle"
    BY <1>5 DEF PushPublish, TypeOK, PushInv
  <2>2. push'[p].pc = "idle"
    BY <1>5 DEF PushPublish, TypeOK, PushState
  <2>3. QED
    BY <2>1, <2>2 DEF PushInv
<1>6. CASE PopBegin
  BY <1>6 DEF PopBegin, PushInv, Succ
<1>7. ASSUME NEW w \in Words, PopCopy(w) PROVE PushInv'
  BY <1>7 DEF PopCopy, PushInv, Succ
<1>8. CASE PopPublish
  <2>1. UNCHANGED <<buf, tail, push>> /\ head' = Succ(head)
    BY <1>8 DEF PopPublish
  <2>2. head # tail
    BY <1>8 DEF PopPublish, PopInv
  <2>3. head \in Index /\ tail \in Index
    BY DEF TypeOK
  <2>4. Succ(tail) # Succ(head)
    BY <2>2, <2>3, SuccWraps DEF Index
  <2>5. Succ(tail)' # head'
    BY <2>1, <2>4 DEF Succ
  <2>6. QED
    BY <2>1, <2>5 DEF PushInv
<1>9. CASE PopEmpty \/ UNCHANGED vars
  BY <1>9 DEF PopEmpty, vars, PushInv, Succ
<1>10. CASE DrainOverflow
  BY <1>10 DEF DrainOverflow, PushInv, Succ
<1>11. QED
  BY <1>1, <1>2, <1>3, <1>4, <1>5, <1>6, <1>7, <1>8, <1>9, <1>10
     DEF Next, PushStep, PopStep

\* The slot pop copies from is not the one push copies to.
LEMMA PopNext ==
  ASSUME IInv, [Next]_vars
  PROVE  PopInv'
<1> USE PortAssumption DEF IInv
<1>1. ASSUME NEW p \in Producers, PushLoadTail(p) PROVE PopInv'
  BY <1>1 DEF PushLoadTail, PopInv
<1>2. ASSUME NEW p \in Producers, PushOverflow(p) PROVE PopInv'
  BY <1>2 DEF PushOverflow, PopInv
<1>3. ASSUME NEW p \in Producers, PushBegin(p) PROVE PopInv'
  BY <1>3 DEF PushBegin, PopInv
<1>4. ASSUME NEW p \in Producers, NEW w \in Words, PushCopy(p, w) PROVE PopInv'
  <2>1. UNCHANGED <<head, tail, pop>> /\ push[p].at = tail
    BY <1>4 DEF PushCopy, PushInv
  <2>2. head # tail => buf'[head] = buf[head]
    BY <1>4, <2>1 DEF PushCopy, TypeOK
  <2>3. QED
    BY <2>1, <2>2 DEF PopInv
<1>5. ASSUME NEW p \in Producers, PushPublish(p) PROVE PopInv'
  <2>1. UNCHANGED <<buf, head, pop>> /\ tail' = Succ(tail)
    BY <1>5 DEF PushPublish, PushInv
  <2>2. Succ(tail) # head
    BY <1>5 DEF PushPublish, PushInv
  <2>3. QED
    BY <2>1, <2>2 DEF PopInv
<1>6. CASE PopBegin
  BY <1>6 DEF PopBegin, PopInv, TypeOK, PopState
<1>7. ASSUME NEW w \in Words, PopCopy(w) PROVE PopInv'
  <2>1. UNCHANGED <<buf, head, tail>> /\ pop.pc = "copying"
    BY <1>7 DEF PopCopy
  <2>2. /\ pop'.left = pop.left \ {w}
        /\ pop'.out = [pop.out EXCEPT ![w] = buf[head][w]]
    BY <1>7 DEF PopCopy, TypeOK, PopState
  <2>3. pop.out \in Slot
    BY DEF TypeOK, PopState
  <2>4. QED
    BY <2>1, <2>2, <2>3 DEF PopInv, Slot
<1>8. CASE PopPublish
  <2>1. pop'.pc = "idle"
    BY <1>8 DEF PopPublish, TypeOK, PopState
  <2>2. QED
    BY <2>1 DEF PopInv
<1>9. CASE PopEmpty \/ UNCHANGED vars
  BY <1>9 DEF PopEmpty, vars, PopInv
<1>10. CASE DrainOverflow
  BY <1>10 DEF DrainOverflow, PopInv
<1>11. QED
  BY <1>1, <1>2, <1>3, <1>4, <1>5, <1>6, <1>7, <1>8, <1>9, <1>10
     DEF Next, PushStep, PopStep

\* Whatever the indices, a step that leaves the ring, its indices and the
\* histories alone keeps RingInv.
LEMMA RingUntouched ==
  ASSUME RingInv, UNCHANGED <<buf, head, tail, accepted, delivered>>
  PROVE  RingInv'
BY DEF RingInv, Size, SlotAt, PacketOf

\* A push adds one packet at the tail end, a pop removes one at the head end.
LEMMA IndexSteps ==
  ASSUME head \in Index, tail \in Index
  PROVE  /\ Succ(tail) # head /\ head' = head /\ tail' = Succ(tail) =>
              /\ Size' = Size + 1
              /\ SlotAt(Size) = tail
              /\ \A k \in 0 .. Size : SlotAt(k)' = SlotAt(k)
         /\ head # tail /\ tail' = tail /\ head' = Succ(head) =>
              /\ Size' = Size - 1
              /\ SlotAt(0) = head
              /\ \A k \in 0 .. Size - 2 : SlotAt(k)' = SlotAt(k + 1)
<1>1. /\ Succ(tail) = IF tail = Capacity THEN 0 ELSE tail + 1
      /\ Succ(head) = IF head = Capacity THEN 0 ELSE head + 1
  BY SuccWraps
<1>2. QED
  BY <1>1, PortAssumption DEF Size, SlotAt, Index

LEMMA RingNext ==
  ASSUME IInv, [Next]_vars
  PROVE  RingInv'
<1> USE PortAssumption DEF IInv
<1>0. /\ head \in Index /\ tail \in Index
      /\ accepted \in Seq(Message) /\ delivered \in Seq(Slot)
      /\ Size \in 0 .. Capacity
  BY SizeBounded DEF TypeOK
<1>1. ASSUME NEW p \in Producers, PushLoadTail(p) PROVE RingInv'
  BY <1>1, RingUntouched DEF PushLoadTail
<1>2. ASSUME NEW p \in Producers, PushOverflow(p) PROVE RingInv'
  BY <1>2, RingUntouched DEF PushOverflow
<1>3. ASSUME NEW p \in Producers, PushBegin(p) PROVE RingInv'
  BY <1>3, RingUntouched DEF PushBegin
<1>4. ASSUME NEW p \in Producers, NEW w \in Words, PushCopy(p, w) PROVE RingInv'
  <2>1. UNCHANGED <<head, tail, accepted, delivered>> /\ push[p].at = tail
    BY <1>4 DEF PushCopy, PushInv
  <2>2. \A i \in Index : i # tail => buf'[i] = buf[i]
    BY <1>4, <2>1 DEF PushCopy, TypeOK
  <2>3. \A k \in 0 .. Size - 1 : buf'[SlotAt(k)] = buf[SlotAt(k)]
    BY <1>0, <2>2, SizeBounded
  <2>4. Size' = Size /\ \A k \in 0 .. Size - 1 : SlotAt(k)' = SlotAt(k)
    BY <2>1 DEF Size, SlotAt
  <2>5. QED
    BY <2>1, <2>3, <2>4 DEF RingInv, PacketOf
<1>5. ASSUME NEW p \in Producers, PushPublish(p) PROVE RingInv'
  <2> DEFINE m == push[p].item
  <2>1. /\ Succ(tail) # head /\ tail' = Succ(tail)
        /\ UNCHANGED <<buf, head, delivered>>
        /\ accepted' = Append(accepted, m) /\ m \in Message
    BY <1>5, CarriesMessage DEF PushPublish, PushInv
  <2>2. /\ Size' = Size + 1
        /\ SlotAt(Size) = tail
        /\ \A k \in 0 .. Size : SlotAt(k)' = SlotAt(k)
    BY <1>0, <2>1, IndexSteps
  <2>3. buf[tail] = PacketOf(m)
    BY <1>5, <1>0 DEF PushPublish, PushInv, TypeOK, Slot, PacketOf
  <2>4. /\ Len(accepted') = Len(accepted) + 1
        /\ accepted'[Len(accepted) + 1] = m
        /\ \A k \in 1 .. Len(accepted) : accepted'[k] = accepted[k]
    BY <1>0, <2>1
  <2>5. Len(accepted) = Len(delivered) + Size /\ Len(delivered) \in Nat
    BY <1>0 DEF RingInv
  <2>6. Len(accepted') = Len(delivered') + Size'
    BY <1>0, <2>1, <2>2, <2>4, <2>5
  <2>7. \A k \in 1 .. Len(delivered') : delivered'[k] = PacketOf(accepted'[k])
    <3> SUFFICES ASSUME NEW k \in 1 .. Len(delivered)
                 PROVE  delivered[k] = PacketOf(accepted'[k])
      BY <2>1
    <3>1. k \in 1 .. Len(accepted)
      BY <1>0, <2>5
    <3>2. QED
      BY <2>4, <3>1 DEF RingInv
  <2>8. ASSUME NEW k \in 0 .. Size' - 1
        PROVE  buf'[SlotAt(k)'] = PacketOf(accepted'[Len(delivered') + k + 1])
    <3>1. CASE k = Size
      <4>1. SlotAt(k)' = tail
        BY <1>0, <2>2, <3>1
      <4>2. Len(delivered') + k + 1 = Len(accepted) + 1
        BY <1>0, <2>1, <2>5, <3>1
      <4>3. QED
        BY <2>1, <2>3, <2>4, <4>1, <4>2
    <3>2. CASE k \in 0 .. Size - 1
      <4>1. Len(delivered) + k + 1 \in 1 .. Len(accepted)
        BY <1>0, <2>5, <3>2
      <4>2. SlotAt(k)' = SlotAt(k)
        BY <1>0, <2>2, <3>2
      <4>3. QED
        BY <2>1, <2>4, <3>2, <4>1, <4>2 DEF RingInv
    <3>3. QED
      BY <1>0, <2>2, <3>1, <3>2
  <2>9. QED
    BY <2>6, <2>7, <2>8 DEF RingInv, PacketOf
<1>6. CASE PopBegin
  BY <1>6, RingUntouched DEF PopBegin
<1>7. ASSUME NEW w \in Words, PopCopy(w) PROVE RingInv'
  BY <1>7, RingUntouched DEF PopCopy
<1>8. CASE PopPublish
  <2>1. /\ head # tail /\ head' = Succ(head)
        /\ UNCHANGED <<buf, tail, accepted>>
        /\ delivered' = Append(delivered, pop.out) /\ pop.out \in Slot
    BY <1>8 DEF PopPublish, PopInv, TypeOK, PopState
  <2>2. /\ Size' = Size - 1
        /\ SlotAt(0) = head
        /\ \A k \in 0 .. Size - 2 : SlotAt(k)' = SlotAt(k + 1)
    BY <1>0, <2>1, IndexSteps
  <2>3. pop.out = buf[head]
    BY <1>8, <1>0, <2>1 DEF PopPublish, PopInv, TypeOK, Slot
  <2>4. Size \in 1 .. Capacity
    BY <1>0, <2>1, SizeBounded
  <2>5. Len(accepted) = Len(delivered) + Size /\ Len(delivered) \in Nat
    BY <1>0 DEF RingInv
  <2>6. pop.out = PacketOf(accepted[Len(delivered) + 1])
    BY <2>2, <2>3, <2>4, <2>5 DEF RingInv
  <2>7. /\ Len(delivered') = Len(delivered) + 1
        /\ delivered'[Len(delivered) + 1] = pop.out
        /\ \A k \in 1 .. Len(delivered) : delivered'[k] = delivered[k]
    BY <1>0, <2>1
  <2>8. Len(accepted') = Len(delivered') + Size'
    BY <1>0, <2>1, <2>2, <2>5, <2>7
  <2>9. \A k \in 1 .. Len(delivered') : delivered'[k] = PacketOf(accepted'[k])
    BY <1>0, <2>1, <2>5, <2>6, <2>7 DEF RingInv
  <2>10. ASSUME NEW k \in 0 .. Size' - 1
         PROVE  buf'[SlotAt(k)'] = PacketOf(accepted'[Len(delivered') + k + 1])
    <3>1. k \in 0 .. Size - 2 /\ k + 1 \in 0 .. Size - 1
      BY <1>0, <2>2, <2>4
    <3>2. buf[SlotAt(k + 1)] = PacketOf(accepted[Len(delivered) + (k + 1) + 1])
      BY <3>1 DEF RingInv
    <3>3. Len(delivered') + k + 1 = Len(delivered) + (k + 1) + 1
      BY <2>5, <2>7, <3>1
    <3>4. QED
      BY <2>1, <2>2, <3>1, <3>2, <3>3
  <2>11. QED
    BY <2>8, <2>9, <2>10 DEF RingInv, PacketOf
<1>9. CASE PopEmpty \/ UNCHANGED vars
  BY <1>9, RingUntouched DEF PopEmpty, vars
<1>10. CASE DrainOverflow
  BY <1>10, RingUntouched DEF DrainOverflow
<1>11. QED
  BY <1>1, <1>2, <1>3, <1>4, <1>5, <1>6, <1>7, <1>8, <1>9, <1>10
     DEF Next, PushStep, PopStep

-----------------------------------------------------------------------------

\* The strengthened invariant holds while one thread does all the sending.
THEOREM Invariance ==
  ASSUME OneProducerThread
  PROVE  Spec => []IInv
<1>1. Init => IInv
  <2> SUFFICES ASSUME Init PROVE IInv
    OBVIOUS
  <2>1. TypeOK
    BY TypeInit
  <2>2. CallInv /\ PushInv /\ PopInv
    BY DEF Init, CallInv, PushInv, PopInv
  <2>3. RingInv
    BY DEF Init, RingInv, Size
  <2>4. QED
    BY <2>1, <2>2, <2>3 DEF IInv
<1>2. IInv /\ [Next]_vars => IInv'
  BY TypeNext, CallNext, PushNext, PopNext, RingNext DEF IInv
<1>3. QED
  BY <1>1, <1>2, PTL DEF Spec

\* push and pop hand every accepted packet to the consumer exactly once, in
\* order and whole, for every capacity, packet size and number of sends, as
\* long as the producers of the port share a thread.
THEOREM PortIsExactlyOnceInOrder ==
  ASSUME OneProducerThread
  PROVE  Spec => []ExactlyOnceInOrder
<1>1. IInv => ExactlyOnceInOrder
  <2> SUFFICES ASSUME IInv
               PROVE  \A k \in 1 .. Size :
                        QueueView[k] = PacketOf(accepted[Len(delivered) + k])
    BY DEF IInv, RingInv, ExactlyOnceInOrder
  <2>1. TAKE k \in 1 .. Size
  <2>2. Size \in Nat /\ Len(delivered) \in Nat
    BY SizeBounded DEF IInv, TypeOK
  <2>3. k - 1 \in 0 .. Size - 1 /\ Len(delivered) + (k - 1) + 1 = Len(delivered) + k
    BY <2>2
  <2>4. QED
    BY <2>3 DEF IInv, RingInv, QueueView
<1>2. QED
  BY <1>1, Invariance, PTL

\* With one sending thread nothing whose send returned true is lost, not even
\* while calls are in progress: what a second thread breaks (MCPortRingShared)
\* breaks for no other reason.
THEOREM OneThreadLosesNothing ==
  ASSUME OneProducerThread
  PROVE  Spec => []AcceptedNotLost
<1>1. TypeOK /\ ExactlyOnceInOrder => AcceptedNotLost
  <2> SUFFICES ASSUME TypeOK, ExactlyOnceInOrder, NEW k \in 1 .. Len(accepted)
               PROVE  \/ \E i \in 1 .. Len(delivered) : delivered[i] = PacketOf(accepted[k])
                      \/ \E i \in 1 .. Size : QueueView[i] = PacketOf(accepted[k])
    BY DEF AcceptedNotLost
  <2>1. /\ Len(accepted) = Len(delivered) + Size
        /\ Len(delivered) \in Nat /\ Size \in Nat
    BY SizeBounded DEF TypeOK, ExactlyOnceInOrder
  <2>2. CASE k <= Len(delivered)
    <3>1. k \in 1 .. Len(delivered)
      BY <2>1, <2>2
    <3> QED BY <3>1 DEF ExactlyOnceInOrder
  <2>3. CASE ~(k <= Len(delivered))
    <3>1. k - Len(delivered) \in 1 .. Size /\ Len(delivered) + (k - Len(delivered)) = k
      BY <2>1, <2>3
    <3> QED BY <3>1 DEF ExactlyOnceInOrder
  <2> QED BY <2>2, <2>3
<1>2. IInv => TypeOK
  BY DEF IInv
<1> QED BY <1>1, <1>2, Invariance, PortIsExactlyOnceInOrder, PTL

-----------------------------------------------------------------------------
(* The refinement of BoundedFifo.                                          *)

\* A ring with no slot left holds Capacity packets.
LEMMA FullRing ==
  ASSUME head \in Index, tail \in Index, Succ(tail) = head
  PROVE  Size = Capacity
BY SuccWraps, PortAssumption DEF Size, Index

LEMMA ViewIsSeq ==
  ASSUME TypeOK
  PROVE  /\ QueueView \in Seq(Slot) /\ Len(QueueView) = Size
         /\ \A k \in 1 .. Size : QueueView[k] = buf[SlotAt(k - 1)]
<1>1. Size \in Nat /\ \A k \in 0 .. Size - 1 : SlotAt(k) \in Index
  BY SizeBounded, PortAssumption DEF TypeOK
<1>2. \A k \in 1 .. Size : buf[SlotAt(k - 1)] \in Slot
  <2> TAKE k \in 1 .. Size
  <2>1. k - 1 \in 0 .. Size - 1
    BY <1>1
  <2>2. QED
    BY <1>1, <2>1 DEF TypeOK
<1>3. QED
  BY <1>1, <1>2 DEF QueueView

\* A step that keeps the indices and the slots in use keeps the queue.
LEMMA ViewKept ==
  ASSUME TypeOK, UNCHANGED <<head, tail>>,
         \A k \in 0 .. Size - 1 : buf'[SlotAt(k)] = buf[SlotAt(k)]
  PROVE  QueueView' = QueueView
<1>1. Size' = Size /\ Size \in Nat
  BY SizeBounded, PortAssumption DEF TypeOK, Size
<1>2. \A k \in 1 .. Size : buf'[SlotAt(k - 1)'] = buf[SlotAt(k - 1)]
  <2> TAKE k \in 1 .. Size
  <2>1. k - 1 \in 0 .. Size - 1
    BY <1>1
  <2>2. QED
    BY <2>1 DEF SlotAt
<1>3. QED
  BY <1>1, <1>2 DEF QueueView

LEMMA SendStep ==
  ASSUME IInv, IInv', NEW p \in Producers, PushPublish(p)
  PROVE  \E m \in Message : Fifo!Send(PacketOf(m))
<1> DEFINE m == push[p].item
<1> USE PortAssumption DEF IInv
<1>1. head \in Index /\ tail \in Index /\ Size \in 0 .. Capacity
  BY SizeBounded DEF TypeOK
<1>2. m \in Message /\ Succ(tail) # head /\ tail' = Succ(tail)
  BY CarriesMessage DEF PushPublish, PushInv
<1>3. UNCHANGED <<buf, head, delivered, overflow_count, drained>>
  BY DEF PushPublish
<1>4. /\ Size' = Size + 1
      /\ SlotAt(Size) = tail
      /\ \A k \in 0 .. Size : SlotAt(k)' = SlotAt(k)
  BY <1>1, <1>2, <1>3, IndexSteps
<1>5. Size < Capacity
  <2>1. Size' \in 0 .. Capacity
    <3>1. head' \in Index /\ tail' \in Index
      BY DEF TypeOK
    <3>2. QED
      BY <1>1, <1>2, <1>3, <3>1, SuccWraps DEF Size, Index
  <2>2. QED
    BY <1>1, <1>4, <2>1
<1>6. buf[tail] = PacketOf(m)
  BY <1>1 DEF PushPublish, PushInv, TypeOK, Slot, PacketOf
<1>7. /\ QueueView \in Seq(Slot) /\ Len(QueueView) = Size
      /\ \A k \in 1 .. Size : QueueView[k] = buf[SlotAt(k - 1)]
  BY ViewIsSeq
<1>8. QueueView' = [k \in 1 .. Size + 1 |-> buf[SlotAt(k - 1)]]
  <2>1. \A k \in 1 .. Size + 1 : buf'[SlotAt(k - 1)'] = buf[SlotAt(k - 1)]
    <3> TAKE k \in 1 .. Size + 1
    <3>1. k - 1 \in 0 .. Size
      BY <1>1
    <3>2. SlotAt(k - 1)' = SlotAt(k - 1)
      BY <1>4, <3>1
    <3>3. QED
      BY <1>3, <3>2
  <2>2. QED
    BY <1>4, <2>1 DEF QueueView
<1>9. QueueView' = Append(QueueView, PacketOf(m))
  <2>1. PacketOf(m) = buf[SlotAt((Size + 1) - 1)]
    BY <1>1, <1>4, <1>6
  <2> HIDE DEF m
  <2>2. QED
    BY <1>1, <1>7, <1>8, <2>1
<1>10. QED
  BY <1>2, <1>3, <1>5, <1>7, <1>9 DEF Fifo!Send

LEMMA ConsumeStep ==
  ASSUME IInv, PopPublish
  PROVE  Fifo!Consume
<1> USE PortAssumption DEF IInv
<1>1. head \in Index /\ tail \in Index /\ Size \in 0 .. Capacity
  BY SizeBounded DEF TypeOK
<1>2. /\ head # tail /\ head' = Succ(head)
      /\ UNCHANGED <<buf, tail, overflow_count, drained>>
      /\ delivered' = Append(delivered, pop.out) /\ pop.out \in Slot
  BY DEF PopPublish, PopInv, TypeOK, PopState
<1>3. /\ Size' = Size - 1
      /\ SlotAt(0) = head
      /\ \A k \in 0 .. Size - 2 : SlotAt(k)' = SlotAt(k + 1)
  BY <1>1, <1>2, IndexSteps
<1>4. pop.out = buf[head]
  BY <1>1, <1>2 DEF PopPublish, PopInv, TypeOK, Slot
<1>5. Size \in 1 .. Capacity
  BY <1>1, <1>2, SizeBounded
<1>6. /\ QueueView \in Seq(Slot) /\ Len(QueueView) = Size
      /\ \A k \in 1 .. Size : QueueView[k] = buf[SlotAt(k - 1)]
  BY ViewIsSeq
<1>7. QueueView # <<>> /\ Head(QueueView) = pop.out
  BY <1>3, <1>4, <1>5, <1>6
<1>8. QueueView' = [k \in 1 .. Size - 1 |-> buf[SlotAt(k)]]
  <2>1. \A k \in 1 .. Size - 1 : buf'[SlotAt(k - 1)'] = buf[SlotAt(k)]
    <3> TAKE k \in 1 .. Size - 1
    <3>1. k - 1 \in 0 .. Size - 2 /\ (k - 1) + 1 = k
      BY <1>5
    <3>2. SlotAt(k - 1)' = SlotAt(k)
      BY <1>3, <3>1
    <3>3. QED
      BY <1>2, <3>2
  <2>2. QED
    BY <1>3, <2>1 DEF QueueView
<1>9. QueueView' = Tail(QueueView)
  <2>1. /\ Tail(QueueView) \in Seq(Slot)
        /\ Len(Tail(QueueView)) = Size - 1
        /\ \A k \in 1 .. Size - 1 : Tail(QueueView)[k] = QueueView[k + 1]
    BY <1>5, <1>6
  <2>2. \A k \in 1 .. Size - 1 : QueueView[k + 1] = buf[SlotAt(k)]
    <3> TAKE k \in 1 .. Size - 1
    <3>1. k + 1 \in 1 .. Size /\ (k + 1) - 1 = k
      BY <1>5
    <3>2. QED
      BY <1>6, <3>1
  <2>3. Tail(QueueView) \in [1 .. Size - 1 -> Slot]
    BY <2>1, LenProperties
  <2>4. Tail(QueueView) = [k \in 1 .. Size - 1 |-> Tail(QueueView)[k]]
    BY <2>3
  <2>5. QED
    BY <1>8, <2>1, <2>2, <2>4
<1>10. QED
  BY <1>2, <1>7, <1>9 DEF Fifo!Consume

LEMMA FifoStep ==
  ASSUME IInv, IInv', [Next]_vars
  PROVE  [Fifo!Next]_(Fifo!vars)
<1> USE PortAssumption DEF IInv
<1> USE DEF Fifo!vars, Fifo!Next
<1>0. overflow_count \in Nat /\ drained \in Nat /\ head \in Index /\ tail \in Index
  BY DEF TypeOK
<1>1. CASE UNCHANGED <<buf, head, tail, overflow_count, drained, delivered>>
  <2>1. QueueView' = QueueView
    BY <1>1, ViewKept
  <2>2. QED
    BY <1>1, <2>1
<1>2. ASSUME NEW p \in Producers, PushOverflow(p) PROVE Fifo!Refuse
  <2>1. /\ Succ(tail) = head /\ UNCHANGED <<buf, head, tail, drained, delivered>>
        /\ overflow_count' = overflow_count + 1
    BY <1>2 DEF PushOverflow, PushInv
  <2>2. QueueView' = QueueView
    BY <2>1, ViewKept
  <2>3. Len(QueueView) = Capacity
    BY <1>0, <2>1, FullRing, ViewIsSeq
  <2>4. (overflow_count + drained)' = (overflow_count + drained) + 1
    BY <1>0, <2>1
  <2>5. QED
    BY <2>1, <2>2, <2>3, <2>4 DEF Fifo!Refuse
<1>3. ASSUME NEW p \in Producers, NEW w \in Words, PushCopy(p, w)
      PROVE  UNCHANGED Fifo!vars
  <2>1. /\ UNCHANGED <<head, tail, overflow_count, drained, delivered>>
        /\ push[p].at = tail
    BY <1>3 DEF PushCopy, PushInv
  <2>2. \A i \in Index : i # tail => buf'[i] = buf[i]
    BY <1>3, <2>1 DEF PushCopy, TypeOK
  <2>3. \A k \in 0 .. Size - 1 : buf'[SlotAt(k)] = buf[SlotAt(k)]
    BY <1>0, <2>2, SizeBounded
  <2>4. QueueView' = QueueView
    BY <2>1, <2>3, ViewKept
  <2>5. QED
    BY <2>1, <2>4
<1>4. ASSUME NEW p \in Producers, PushPublish(p)
      PROVE  \E m \in {PacketOf(n) : n \in Message} : Fifo!Send(m)
  BY <1>4, SendStep
<1>5. CASE PopPublish
  BY <1>5, ConsumeStep
<1>6. CASE DrainOverflow
  <2>1. /\ UNCHANGED <<buf, head, tail, delivered>>
        /\ (overflow_count + drained)' = overflow_count + drained
    BY <1>0, <1>6 DEF DrainOverflow
  <2>2. QueueView' = QueueView
    BY <2>1, ViewKept
  <2>3. QED
    BY <2>1, <2>2
<1>7. ASSUME NEW p \in Producers, PushLoadTail(p) \/ PushBegin(p)
      PROVE  UNCHANGED <<buf, head, tail, overflow_count, drained, delivered>>
  BY <1>7 DEF PushLoadTail, PushBegin
<1>8. ASSUME \/ PopBegin
             \/ \E w \in Words : PopCopy(w)
             \/ PopEmpty
             \/ UNCHANGED vars
      PROVE  UNCHANGED <<buf, head, tail, overflow_count, drained, delivered>>
  BY <1>8 DEF PopBegin, PopCopy, PopEmpty, vars
<1>9. QED
  BY <1>1, <1>2, <1>3, <1>4, <1>5, <1>6, <1>7, <1>8 DEF Next, PushStep, PopStep

\* The ring takes only the steps of a queue of at most Capacity packets while
\* its producers share a thread: a send is refused only when the port really
\* holds Capacity packets, an accepted one goes to the end, and the consumer
\* takes the first.  (The fairness of BoundedFifo is left to TLC.)
THEOREM RingIsFifo ==
  ASSUME OneProducerThread
  PROVE  Spec => Fifo!Init /\ [][Fifo!Next]_(Fifo!vars)
<1>1. Init => Fifo!Init
  <2> SUFFICES ASSUME Init PROVE Fifo!Init
    OBVIOUS
  <2>1. Size = 0 /\ overflow_count + drained = 0 /\ delivered = <<>>
    BY DEF Init, Size
  <2>2. QueueView = <<>>
    BY <2>1 DEF QueueView
  <2>3. QED
    BY <2>1, <2>2 DEF Fifo!Init
<1>2. IInv /\ IInv' /\ [Next]_vars => [Fifo!Next]_(Fifo!vars)
  BY FifoStep
<1>3. QED
  BY <1>1, <1>2, Invariance, PTL DEF Spec

=============================================================================
