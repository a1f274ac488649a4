---------------------------- MODULE UplinkProofs -----------------------------
(***************************************************************************)
(* The replay window, for any width of the sequence number, any length of  *)
(* the link and of the hub's port, and any number of commands, restarts    *)
(* and crashes: the hub takes each command once and in order, a fresh one  *)
(* is not refused, and a running bridge knows where it was.                *)
(***************************************************************************)
EXTENDS Uplink, SequenceTheorems, TLAPS

LEMMA Constants ==
  /\ Modulus \in Nat /\ Modulus > 0
  /\ SEQ_WRAP_HIGH \in Nat /\ SEQ_WRAP_LOW \in Nat /\ SEQ_WRAP_LOW > 0
  /\ PortDepth \in Nat /\ MaxIssued \in Nat /\ LinkDepth \in Nat /\ MaxDelay \in Nat
  /\ SEQ_WRAP_LOW <= SEQ_WRAP_HIGH /\ SEQ_WRAP_HIGH + SEQ_WRAP_LOW = Modulus
  /\ MaxDelay < SEQ_WRAP_HIGH - SEQ_WRAP_LOW + 2
BY UplinkAssumption

LEMMA SeqOfTyped == \A n \in Nat \ {0} : SeqOf(n) \in SequenceNumber
<1> SUFFICES ASSUME NEW n \in Nat \ {0} PROVE (n - 1) % Modulus \in 0 .. Modulus - 1
  BY DEF SeqOf, SequenceNumber
<1>1. n - 1 \in Int /\ Modulus \in Nat /\ Modulus > 0
  BY Constants
<1> QED BY <1>1

\* Before the first wrap a frame carries its number less one.
LEMMA SeqOfFirst == \A n \in 1 .. Modulus : SeqOf(n) = n - 1
<1> SUFFICES ASSUME NEW n \in 1 .. Modulus PROVE (n - 1) % Modulus = n - 1
  BY DEF SeqOf
<1>1. n - 1 \in Nat /\ n - 1 < Modulus /\ Modulus \in Nat
  BY Constants
<1> QED BY <1>1

LEMMA Multiples ==
  ASSUME NEW m \in Nat, m > 0, NEW k \in Int
  PROVE  /\ k >= 1 => m * k >= m
         /\ k <= -1 => m * k <= -m
         /\ k >= 2 => m * k >= m + m
         /\ k = 0 => m * k = 0
         /\ k = 1 => m * k = m
OBVIOUS

LEMMA Division ==
  ASSUME NEW x \in Nat, NEW m \in Nat, m > 0
  PROVE  \E q \in Nat : x = m * q + (x % m)
<1>1. x \div m \in Nat /\ x = m * (x \div m) + (x % m)
  OBVIOUS
<1> QED BY <1>1

\* The remainder of a number a little larger.
LEMMA SeqOfLater ==
  ASSUME NEW n \in Nat \ {0}, NEW d \in 0 .. Modulus - 1
  PROVE  SeqOf(n + d) = IF SeqOf(n) + d < Modulus THEN SeqOf(n) + d ELSE SeqOf(n) + d - Modulus
<1>1. PICK x \in Nat, m \in Nat : x = n - 1 /\ m = Modulus /\ m > 0
  BY Constants
<1>2. SeqOf(n) = x % m /\ SeqOf(n + d) = (x + d) % m
  BY <1>1 DEF SeqOf
<1>3. x % m \in 0 .. m - 1
  BY <1>1
<1>4. PICK r \in Nat, s \in Nat, e \in Nat :
        /\ r = x % m /\ s = (x + d) % m /\ r < m /\ s < m /\ e = d /\ e < m
  <2>1. x % m \in 0 .. m - 1 /\ (x + d) % m \in 0 .. m - 1 /\ d \in Nat /\ d < m
    BY <1>1
  <2> QED BY <1>1, <2>1
<1>5. PICK q \in Nat, p \in Nat : x = m * q + r /\ x + e = m * p + s
  <2>1. \E q \in Nat : x = m * q + (x % m)
    BY <1>1, Division
  <2>2. x + d \in Nat /\ \E p \in Nat : x + d = m * p + ((x + d) % m)
    BY <1>1, Division
  <2> QED BY <1>4, <2>1, <2>2
<1>6. PICK k \in Int : k = p - q /\ m * k = m * p - m * q
  <2>1. p - q \in Int /\ m * (p - q) = m * p - m * q
    BY <1>1
  <2> QED BY <2>1
<1>7. m * k = r + e - s /\ m * k \in Int
  BY <1>1, <1>4, <1>5, <1>6
<1>8. k = 0 \/ k = 1
  BY <1>1, <1>4, <1>7, Multiples
<1>9. s = IF r + e < m THEN r + e ELSE r + e - m
  BY <1>1, <1>4, <1>7, <1>8, Multiples
<1> QED BY <1>1, <1>2, <1>4, <1>9

LEMMA TailAt ==
  ASSUME NEW S, NEW s \in Seq(S), s # <<>>
  PROVE  /\ Head(s) \in S /\ Head(s) = s[1] /\ Len(s) \in Nat /\ Len(s) > 0
         /\ Tail(s) \in Seq(S) /\ Len(Tail(s)) = Len(s) - 1
         /\ \A i \in 1 .. Len(s) - 1 : Tail(s)[i] = s[i + 1]
OBVIOUS

LEMMA AppendAt ==
  ASSUME NEW S, NEW s \in Seq(S), NEW x \in S
  PROVE  /\ Append(s, x) \in Seq(S) /\ Len(Append(s, x)) = Len(s) + 1 /\ Len(s) \in Nat
         /\ \A i \in 1 .. Len(s) : Append(s, x)[i] = s[i]
         /\ Append(s, x)[Len(s) + 1] = x
OBVIOUS

LEMMA RepeatedAt ==
  ASSUME NEW S, NEW s \in Seq(S), s # <<>>
  PROVE  /\ <<Head(s)>> \o s \in Seq(S) /\ Len(<<Head(s)>> \o s) = Len(s) + 1
         /\ \A i \in 1 .. Len(s) + 1 : (<<Head(s)>> \o s)[i] = IF i = 1 THEN s[1] ELSE s[i - 1]
<1>1. Head(s) = s[1] /\ Head(s) \in S /\ Len(s) \in Nat
  OBVIOUS
<1>2. <<Head(s)>> \in Seq(S) /\ Len(<<Head(s)>>) = 1 /\ <<Head(s)>>[1] = s[1]
  BY <1>1
<1> QED BY <1>1, <1>2, ConcatProperties

LEMMA SwappedAt ==
  ASSUME NEW S, NEW s \in Seq(S), Len(s) > 1,
         NEW t, t = <<s[2], s[1]>> \o SubSeq(s, 3, Len(s))
  PROVE  /\ t \in Seq(S) /\ Len(t) = Len(s)
         /\ \A i \in 1 .. Len(s) :
              t[i] = IF i = 1 THEN s[2] ELSE IF i = 2 THEN s[1] ELSE s[i]
<1>1. Len(s) \in Nat /\ s[1] \in S /\ s[2] \in S
  OBVIOUS
<1>2. /\ <<s[2], s[1]>> \in Seq(S) /\ Len(<<s[2], s[1]>>) = 2
      /\ <<s[2], s[1]>>[1] = s[2] /\ <<s[2], s[1]>>[2] = s[1]
  BY <1>1
<1>3. /\ SubSeq(s, 3, Len(s)) \in Seq(S)
      /\ Len(SubSeq(s, 3, Len(s))) = Len(s) - 2
      /\ \A i \in 1 .. Len(s) - 2 : SubSeq(s, 3, Len(s))[i] = s[i + 2]
  BY <1>1, SubSeqProperties
<1> DEFINE a == <<s[2], s[1]>>
           b == SubSeq(s, 3, Len(s))
<1>4. /\ a \o b \in Seq(S) /\ Len(a \o b) = Len(a) + Len(b)
      /\ \A i \in 1 .. Len(a) + Len(b) :
           (a \o b)[i] = IF i <= Len(a) THEN a[i] ELSE b[i - Len(a)]
  BY <1>2, <1>3, ConcatProperties
<1> HIDE DEF a, b
<1>5. /\ Len(a) = 2 /\ a[1] = s[2] /\ a[2] = s[1] /\ Len(b) = Len(s) - 2
      /\ \A i \in 1 .. Len(s) - 2 : b[i] = s[i + 2]
      /\ t = a \o b
  BY <1>2, <1>3 DEF a, b
<1> QED BY <1>1, <1>4, <1>5, SMTT(20)

-----------------------------------------------------------------------------
(* The inductive invariant.                                                *)

\* What the bridge knows: nothing was ever accepted, or the last number is in
\* memory, and in the file once the process has ended with its state saved.
KnownInv ==
  /\ newest = 0 =>
       first_uplink /\ replay_file = {} /\ at \in {"off", "idle", "receiveCommands"}
  /\ newest # 0 /\ ~forgot =>
       IF at = "off" THEN replay_file = {SeqOf(newest)}
       ELSE ~first_uplink /\ last_uplink_seq = SeqOf(newest)

\* How much older than one sent before it a frame may be.
Slack == IF reordered THEN MaxDelay ELSE 0

\* No frame is older by more than the slack than the last command accepted, or
\* than a frame before it.
LinkInv ==
  /\ newest <= uplink_seq
  /\ \A i \in 1 .. Len(link) : link[i] <= uplink_seq /\ newest <= link[i] + Slack
  /\ \A i, j \in 1 .. Len(link) : i < j => link[i] <= link[j] + Slack

\* What the hub has taken is older than what waits in its port, which is in
\* order and no newer than the last command accepted.
OrderInv ==
  Orderly /\ ~forgot =>
    /\ \A n \in executed : n <= newest /\ \A i \in 1 .. Len(command_out) : n < command_out[i]
    /\ \A i \in 1 .. Len(command_out) : command_out[i] <= newest
    /\ \A i, j \in 1 .. Len(command_out) : i < j => command_out[i] < command_out[j]

UplinkInv == TypeOK /\ KnownInv /\ LinkInv /\ OrderInv

LEMMA InitInv == Init => UplinkInv
<1> SUFFICES ASSUME Init PROVE UplinkInv
  OBVIOUS
<1>1. TypeOK
  <2>1. <<>> \in Seq(1 .. MaxIssued) /\ Len(<<>>) = 0
    OBVIOUS
  <2>2. 0 \in 0 .. MaxIssued /\ 0 \in SequenceNumber /\ 0 <= LinkDepth /\ 0 <= PortDepth
    BY Constants DEF SequenceNumber
  <2> QED BY <2>1, <2>2 DEF Init, TypeOK
<1>2. KnownInv /\ LinkInv /\ OrderInv
  BY DEF Init, KnownInv, LinkInv, OrderInv
<1> QED BY <1>1, <1>2 DEF UplinkInv

\* The type, in the form the other lemmas use it.
LEMMA Typed ==
  ASSUME TypeOK
  PROVE  /\ link \in Seq(1 .. MaxIssued) /\ command_out \in Seq(1 .. MaxIssued)
         /\ Len(link) \in Nat /\ Len(command_out) \in Nat
         /\ \A i \in 1 .. Len(link) : link[i] \in 1 .. MaxIssued
         /\ \A i \in 1 .. Len(command_out) : command_out[i] \in 1 .. MaxIssued
         /\ uplink_seq \in Nat /\ newest \in Nat /\ newest <= MaxIssued
         /\ Slack \in Nat /\ MaxDelay \in Nat /\ MaxIssued \in Nat
         /\ executed \subseteq 1 .. MaxIssued
         /\ last_uplink_seq \in Nat /\ first_uplink \in BOOLEAN
<1>1. link \in Seq(1 .. MaxIssued) /\ command_out \in Seq(1 .. MaxIssued)
  BY DEF TypeOK
<1>2. /\ Len(link) \in Nat /\ Len(command_out) \in Nat
      /\ \A i \in 1 .. Len(link) : link[i] \in 1 .. MaxIssued
      /\ \A i \in 1 .. Len(command_out) : command_out[i] \in 1 .. MaxIssued
  BY <1>1, ElementOfSeq, LenProperties
<1> QED BY <1>1, <1>2, Constants DEF TypeOK, Slack, SequenceNumber

\* A command that is not refused is newer than every accepted one.
LEMMA AcceptedIsNewer ==
  ASSUME TypeOK, KnownInv, LinkInv, Orderly, ~forgot, at # "off",
         link # <<>>, ~Replayed(SeqOf(Head(link)))
  PROVE  newest < Head(link)
<1> DEFINE h == Head(link)
<1>1. /\ h \in 1 .. MaxIssued /\ h \in Nat /\ h # 0 /\ h <= uplink_seq
      /\ newest <= h + Slack /\ newest \in Nat /\ newest <= uplink_seq
      /\ uplink_seq \in Nat /\ MaxDelay \in Nat
  <2>1. Head(link) = link[1] /\ 1 \in 1 .. Len(link) /\ link[1] \in 1 .. MaxIssued
    BY Typed, TailAt
  <2> QED BY <2>1, Typed DEF LinkInv
<1>2. CASE newest = 0
  BY <1>1, <1>2
<1>3. CASE newest # 0 /\ ~reordered
  <2>1. newest # h
    <3>1. SUFFICES ASSUME newest = h PROVE FALSE
      OBVIOUS
    <3>2. ~first_uplink /\ last_uplink_seq = SeqOf(h)
      BY <1>3, <3>1 DEF KnownInv
    <3>3. SeqOf(h) \in Nat
      BY <1>1, SeqOfTyped, Constants DEF SequenceNumber
    <3> QED BY <3>2, <3>3, Constants DEF Replayed, Wrapped
  <2> QED BY <1>1, <1>3, <2>1 DEF Slack
<1>4. CASE newest # 0 /\ reordered
  <2>1. uplink_seq <= Modulus /\ Slack = MaxDelay
    BY <1>4 DEF Orderly, Slack
  <2>2. newest \in 1 .. Modulus /\ h \in 1 .. Modulus
    BY <1>1, <1>4, <2>1, Constants
  <2>3. SeqOf(newest) = newest - 1 /\ SeqOf(h) = h - 1
    BY <2>2, SeqOfFirst
  <2>4. ~first_uplink /\ last_uplink_seq = newest - 1
    BY <1>4, <2>3 DEF KnownInv
  <2>5. ~(h - 1 <= newest - 1) \/ (newest - 1 > SEQ_WRAP_HIGH /\ h - 1 < SEQ_WRAP_LOW)
    BY <2>3, <2>4 DEF Replayed, Wrapped
  <2>6. newest < h
    <3> HIDE DEF h
    <3> QED BY <1>1, <2>1, <2>5, Constants
  <2> QED BY <2>6
<1> QED BY <1>2, <1>3, <1>4

\* A command that is newer by few enough is not refused.
LEMMA FreshIsSeen ==
  ASSUME UplinkInv
  PROVE  FreshNotRefused
<1> SUFFICES ASSUME at # "off", Orderly, ~forgot, NEW i \in 1 .. Len(link),
                    newest < link[i], newest = 0 \/ link[i] <= newest + MaxGap,
                    Replayed(SeqOf(link[i]))
             PROVE  FALSE
  BY DEF FreshNotRefused
<1>1. ~first_uplink /\ ~Wrapped(SeqOf(link[i])) /\ SeqOf(link[i]) <= last_uplink_seq
  BY DEF Replayed
<1>2. newest # 0 /\ last_uplink_seq = SeqOf(newest)
  BY <1>1 DEF UplinkInv, KnownInv
<1>3. PICK d \in Nat : link[i] = newest + d /\ d > 0 /\ d <= SEQ_WRAP_LOW - 1
  <2>1. link[i] \in Nat /\ newest \in Nat
    BY Typed DEF UplinkInv
  <2>2. MaxGap = SEQ_WRAP_LOW - 1
    BY Constants DEF MaxGap
  <2>3. link[i] - newest \in Nat /\ link[i] = newest + (link[i] - newest)
    BY <2>1
  <2> QED BY <1>2, <2>1, <2>2, <2>3, Constants
<1>4. newest \in Nat \ {0} /\ d \in 0 .. Modulus - 1
  BY <1>2, <1>3, Typed, Constants DEF UplinkInv
<1>5. SeqOf(newest) \in Nat /\ SeqOf(newest) <= Modulus - 1
  BY <1>4, SeqOfTyped, Constants DEF SequenceNumber
<1>6. SeqOf(link[i]) = IF SeqOf(newest) + d < Modulus
                       THEN SeqOf(newest) + d ELSE SeqOf(newest) + d - Modulus
  BY <1>3, <1>4, SeqOfLater
<1> QED BY <1>1, <1>2, <1>3, <1>5, <1>6, Constants DEF Wrapped

-----------------------------------------------------------------------------
(* Every step keeps it.                                                    *)

LEMMA TypeKept ==
  ASSUME TypeOK, [Next]_vars
  PROVE  TypeOK'
<1> DEFINE Number == 1 .. MaxIssued
<1>0. /\ uplink_seq \in 0 .. MaxIssued /\ link \in Seq(Number) /\ Len(link) <= LinkDepth
      /\ command_out \in Seq(Number) /\ Len(command_out) <= PortDepth
      /\ MaxIssued \in Nat /\ LinkDepth \in Nat /\ PortDepth \in Nat
      /\ Len(link) \in Nat /\ Len(command_out) \in Nat
  BY Typed, Constants DEF TypeOK
<1>1. CASE SendCommand
  <2>1. uplink_seq + 1 \in Number /\ uplink_seq' \in 0 .. MaxIssued
    BY <1>0, <1>1 DEF SendCommand
  <2>2. link' \in Seq(Number) /\ Len(link') <= LinkDepth
    <3> HIDE DEF Number
    <3>1. link' = Append(link, uplink_seq + 1) /\ Len(link) < LinkDepth
      BY <1>1 DEF SendCommand
    <3>2. link' \in Seq(Number) /\ Len(link') = Len(link) + 1
      BY <1>0, <2>1, <3>1, AppendAt
    <3> QED BY <1>0, <3>1, <3>2
  <2> QED BY <1>1, <2>1, <2>2 DEF SendCommand, TypeOK, bridgeVars, historyVars
<1>2. CASE LinkLoses \/ LinkRepeats \/ LinkReorders
  <2>1. link # <<>> /\ UNCHANGED <<uplink_seq, bridgeVars, command_out, executed, newest, forgot>>
    BY <1>2 DEF LinkLoses, LinkRepeats, LinkReorders, LinkStep
  <2>2. link' \in Seq(Number) /\ Len(link') <= LinkDepth
    <3> HIDE DEF Number
    <3>1. CASE LinkLoses
      BY <1>0, <2>1, <3>1, TailAt DEF LinkLoses
    <3>2. CASE LinkRepeats
      BY <1>0, <2>1, <3>2, RepeatedAt DEF LinkRepeats
    <3>3. CASE LinkReorders
      <4>1. link' \in Seq(Number) /\ Len(link') = Len(link)
        BY <1>0, <3>3, SwappedAt DEF LinkReorders
      <4> QED BY <1>0, <4>1
    <3> QED BY <1>2, <3>1, <3>2, <3>3
  <2>3. reordered' \in BOOLEAN
    BY <1>2 DEF LinkLoses, LinkRepeats, LinkReorders, TypeOK
  <2> QED BY <2>1, <2>2, <2>3 DEF TypeOK, bridgeVars
<1>3. CASE Boot
  <2>1. 0 \in SequenceNumber
    BY Constants DEF SequenceNumber
  <2>2. at' = "idle" /\ first_uplink' \in BOOLEAN /\ last_uplink_seq' \in SequenceNumber
    BY <1>3, <2>1 DEF Boot, TypeOK
  <2> QED BY <1>3, <2>2 DEF Boot, TypeOK, historyVars
<1>4. CASE BeginReceive \/ EndReceive
  BY <1>4 DEF BeginReceive, EndReceive, TypeOK, historyVars
<1>5. CASE Refuse \/ DispatchFails \/ Accept
  <2>1. /\ link # <<>> /\ link' = Tail(link)
        /\ UNCHANGED <<uplink_seq, replay_file, heap_guard, executed, reordered, forgot>>
    BY <1>5 DEF Refuse, DispatchFails, Accept, Receive
  <2>2. link' \in Seq(Number) /\ Len(link') <= LinkDepth /\ Head(link) \in Number
    <3> HIDE DEF Number
    <3>1. link' \in Seq(Number) /\ Len(link') = Len(link) - 1 /\ Head(link) \in Number
      BY <1>0, <2>1, TailAt
    <3> QED BY <1>0, <3>1
  <2>3. CASE Refuse \/ DispatchFails
    BY <2>1, <2>2, <2>3 DEF Refuse, DispatchFails, TypeOK
  <2>4. CASE Accept
    <3>1. command_out' \in Seq(Number) /\ Len(command_out') <= PortDepth
      <4> HIDE DEF Number
      <4>1. command_out' = Append(command_out, Head(link)) /\ Len(command_out) < PortDepth
        BY <2>4 DEF Accept
      <4>2. command_out' \in Seq(Number) /\ Len(command_out') = Len(command_out) + 1
        BY <1>0, <2>2, <4>1, AppendAt
      <4> QED BY <1>0, <4>1, <4>2
    <3>2. last_uplink_seq' \in SequenceNumber
      BY <2>2, <2>4, SeqOfTyped DEF Accept
    <3>3. newest' \in 0 .. MaxIssued
      BY <1>0, <2>2, <2>4 DEF Accept
    <3>4. at' \in {"receiveCommands", "persistReplayState"} /\ first_uplink' = FALSE
      BY <2>1, <2>4, <1>5 DEF Accept, Receive
    <3> QED BY <2>1, <2>2, <3>1, <3>2, <3>3, <3>4 DEF TypeOK
  <2> QED BY <1>5, <2>3, <2>4
<1>6. CASE PersistFails \/ PersistTruncate \/ PersistWrite
  BY <1>6 DEF PersistFails, PersistTruncate, PersistWrite, PersistStep, TypeOK, historyVars
<1>7. CASE HubTakes
  <2>1. command_out' \in Seq(Number) /\ Len(command_out') <= PortDepth /\ Head(command_out) \in Number
    <3> HIDE DEF Number
    <3>1. command_out # <<>> /\ command_out' = Tail(command_out)
      BY <1>7 DEF HubTakes
    <3>2. /\ command_out' \in Seq(Number) /\ Len(command_out') = Len(command_out) - 1
          /\ Head(command_out) \in Number
      BY <1>0, <3>1, TailAt
    <3> QED BY <1>0, <3>1, <3>2
  <2> QED BY <1>7, <2>1 DEF HubTakes, TypeOK, bridgeVars, historyVars
<1>8. CASE Stop \/ Crash
  <2>1. Gone
    BY <1>8 DEF Stop, Crash
  <2>2. forgot' \in BOOLEAN
    BY <2>1 DEF Gone, Saved, TypeOK
  <2>3. command_out' \in Seq(Number) /\ Len(command_out') <= PortDepth
    BY <1>0, <2>1 DEF Gone
  <2> QED BY <2>1, <2>2, <2>3 DEF Gone, TypeOK
<1>9. CASE UNCHANGED vars
  BY <1>9 DEF TypeOK, vars
<1> QED BY <1>1, <1>2, <1>3, <1>4, <1>5, <1>6, <1>7, <1>8, <1>9 DEF Next, Bridge

LEMMA KnownKept ==
  ASSUME UplinkInv, [Next]_vars
  PROVE  KnownInv'
<1>0. TypeOK /\ KnownInv
  BY DEF UplinkInv
<1>1. CASE SendCommand
  BY <1>0, <1>1 DEF SendCommand, KnownInv, SeqOf, bridgeVars, historyVars
<1>2. CASE LinkLoses \/ LinkRepeats \/ LinkReorders
  <2>1. UNCHANGED <<bridgeVars, newest, forgot>>
    BY <1>2 DEF LinkLoses, LinkRepeats, LinkReorders, LinkStep
  <2> QED BY <1>0, <2>1 DEF KnownInv, SeqOf, bridgeVars
<1>3. CASE Boot
  BY <1>0, <1>3 DEF Boot, KnownInv, SeqOf, historyVars
<1>4. CASE BeginReceive \/ EndReceive
  BY <1>0, <1>4 DEF BeginReceive, EndReceive, KnownInv, SeqOf, historyVars
<1>5. CASE Refuse \/ DispatchFails
  BY <1>0, <1>5 DEF Refuse, DispatchFails, Receive, KnownInv, SeqOf
<1>6. CASE Accept
  <2>1. Head(link) \in Nat /\ Head(link) # 0
    <3>1. link # <<>> /\ Head(link) = link[1] /\ 1 \in 1 .. Len(link)
      BY <1>0, <1>6, Typed, TailAt DEF Accept, Receive
    <3> QED BY <1>0, <3>1, Typed
  <2>2. /\ newest' = Head(link) /\ first_uplink' = FALSE /\ last_uplink_seq' = SeqOf(Head(link))
        /\ at = "receiveCommands" /\ at' # "off" /\ forgot' = forgot
    BY <1>6 DEF Accept, Receive
  <2>3. SeqOf(newest)' = SeqOf(newest')
    BY DEF SeqOf
  <2> QED BY <2>1, <2>2, <2>3 DEF KnownInv
<1>7. CASE PersistFails \/ PersistTruncate \/ PersistWrite
  BY <1>0, <1>7
     DEF PersistFails, PersistTruncate, PersistWrite, PersistStep, KnownInv, SeqOf, historyVars
<1>8. CASE HubTakes
  BY <1>0, <1>8 DEF HubTakes, KnownInv, SeqOf, bridgeVars, historyVars
<1>9. CASE Stop \/ Crash
  <2>1. Gone /\ at # "off"
    BY <1>9 DEF Stop, Crash
  <2>2. newest # 0 /\ ~forgot' => ~forgot /\ ~first_uplink /\ Saved
    BY <1>0, <2>1 DEF Gone, KnownInv
  <2>3. newest # 0 /\ ~forgot' => replay_file = {SeqOf(newest)}
    BY <1>0, <2>1, <2>2 DEF KnownInv, Saved
  <2>4. SeqOf(newest)' = SeqOf(newest) /\ at' = "off"
    BY <2>1 DEF Gone, SeqOf
  <2> QED BY <1>0, <2>1, <2>3, <2>4 DEF Gone, KnownInv
<1>10. CASE UNCHANGED vars
  BY <1>0, <1>10 DEF KnownInv, SeqOf, vars
<1> QED BY <1>1, <1>2, <1>3, <1>4, <1>5, <1>6, <1>7, <1>8, <1>9, <1>10 DEF Next, Bridge

LEMMA LinkKept ==
  ASSUME UplinkInv, [Next]_vars
  PROVE  LinkInv'
<1>0. TypeOK /\ LinkInv
  BY DEF UplinkInv
<1>t. /\ link \in Seq(1 .. MaxIssued) /\ Len(link) \in Nat
      /\ \A i \in 1 .. Len(link) : link[i] \in Nat
      /\ uplink_seq \in Nat /\ newest \in Nat /\ Slack \in Nat /\ MaxDelay \in Nat
  BY <1>0, Typed
<1>1. CASE SendCommand
  <2> DEFINE k == Len(link)
             x == uplink_seq + 1
             t == Append(link, x)
  <2>1. /\ uplink_seq' = x /\ link' = t /\ newest' = newest /\ Slack' = Slack
        /\ uplink_seq < MaxIssued
    BY <1>1 DEF SendCommand, historyVars, Slack
  <2>2. x \in 1 .. MaxIssued
    BY <1>t, <2>1, Constants
  <2>3. Len(t) = k + 1 /\ t[k + 1] = x /\ \A i \in 1 .. k : t[i] = link[i]
    <3> HIDE DEF x
    <3> QED BY <1>t, <2>2, AppendAt
  <2>4. newest <= uplink_seq /\ newest <= x + Slack
    BY <1>0, <1>t DEF LinkInv
  <2>5. \A i \in 1 .. k : link[i] <= uplink_seq /\ link[i] <= x /\ newest <= link[i] + Slack /\ link[i] <= x + Slack
    BY <1>0, <1>t DEF LinkInv
  <2>6. \A i, j \in 1 .. k : i < j => link[i] <= link[j] + Slack
    BY <1>0 DEF LinkInv
  <2>7. newest <= x /\ x <= x
    BY <1>t, <2>4
  <2> HIDE DEF x, t
  <2>8. \A i \in 1 .. k + 1 : t[i] <= x /\ newest <= t[i] + Slack
    <3> SUFFICES ASSUME NEW i \in 1 .. k + 1 PROVE t[i] <= x /\ newest <= t[i] + Slack
      OBVIOUS
    <3>1. i = k + 1 \/ i \in 1 .. k
      BY <1>t
    <3> QED BY <2>3, <2>4, <2>5, <2>7, <3>1
  <2>9. \A i, j \in 1 .. k + 1 : i < j => t[i] <= t[j] + Slack
    <3> SUFFICES ASSUME NEW i \in 1 .. k + 1, NEW j \in 1 .. k + 1, i < j
                 PROVE  t[i] <= t[j] + Slack
      OBVIOUS
    <3>1. i \in 1 .. k /\ (j = k + 1 \/ j \in 1 .. k)
      BY <1>t
    <3> QED BY <2>3, <2>5, <2>6, <3>1
  <2> QED BY <2>1, <2>3, <2>7, <2>8, <2>9 DEF LinkInv
<1>2. CASE LinkLoses \/ Refuse \/ DispatchFails
  <2>1. /\ link # <<>> /\ link' = Tail(link)
        /\ uplink_seq' = uplink_seq /\ newest' = newest /\ Slack' = Slack
    BY <1>2 DEF LinkLoses, LinkStep, Refuse, DispatchFails, Receive, Slack
  <2>2. /\ Len(link') = Len(link) - 1
        /\ \A i \in 1 .. Len(link) - 1 : link'[i] = link[i + 1] /\ i + 1 \in 1 .. Len(link)
    BY <1>t, <2>1, TailAt
  <2>3. \A i \in 1 .. Len(link') : link'[i] <= uplink_seq /\ newest <= link'[i] + Slack
    BY <1>0, <2>2 DEF LinkInv
  <2>4. \A i, j \in 1 .. Len(link') : i < j => link'[i] <= link'[j] + Slack
    <3> SUFFICES ASSUME NEW i \in 1 .. Len(link'), NEW j \in 1 .. Len(link'), i < j
                 PROVE  link'[i] <= link'[j] + Slack
      OBVIOUS
    <3>1. i + 1 \in 1 .. Len(link) /\ j + 1 \in 1 .. Len(link) /\ i + 1 < j + 1
      BY <2>2
    <3> QED BY <1>0, <2>2, <3>1 DEF LinkInv
  <2> QED BY <1>0, <2>1, <2>3, <2>4 DEF LinkInv
<1>3. CASE LinkRepeats
  <2> DEFINE k == Len(link)
             t == <<Head(link)>> \o link
  <2>1. /\ link # <<>> /\ link' = t
        /\ uplink_seq' = uplink_seq /\ newest' = newest /\ Slack' = Slack
    BY <1>3 DEF LinkRepeats, LinkStep, Slack
  <2>2. Len(t) = k + 1 /\ \A i \in 1 .. k + 1 : t[i] = IF i = 1 THEN link[1] ELSE link[i - 1]
    BY <1>t, <2>1, RepeatedAt
  <2>3. k > 0
    BY <1>t, <2>1, TailAt
  <2> HIDE DEF t
  <2>4. \A i \in 1 .. k + 1 : t[i] <= uplink_seq /\ newest <= t[i] + Slack
    <3> SUFFICES ASSUME NEW i \in 1 .. k + 1 PROVE t[i] <= uplink_seq /\ newest <= t[i] + Slack
      OBVIOUS
    <3>1. \E e \in 1 .. k : t[i] = link[e]
      <4>1. i = 1 \/ i - 1 \in 1 .. k
        BY <1>t
      <4>2. 1 \in 1 .. k
        BY <1>t, <2>3
      <4> QED BY <2>2, <4>1, <4>2
    <3> QED BY <1>0, <3>1 DEF LinkInv
  <2>5. \A i, j \in 1 .. k + 1 : i < j => t[i] <= t[j] + Slack
    <3> SUFFICES ASSUME NEW i \in 1 .. k + 1, NEW j \in 1 .. k + 1, i < j
                 PROVE  t[i] <= t[j] + Slack
      OBVIOUS
    <3>1. PICK e \in 1 .. k : t[i] = link[e] /\ e <= j - 1
      <4>1. i = 1 \/ i - 1 \in 1 .. k
        BY <1>t
      <4>2. 1 \in 1 .. k /\ 1 <= j - 1 /\ i - 1 <= j - 1
        BY <1>t, <2>3
      <4> QED BY <2>2, <4>1, <4>2
    <3>2. j - 1 \in 1 .. k /\ t[j] = link[j - 1]
      BY <1>t, <2>2
    <3>3. link[e] <= link[j - 1] + Slack
      <4>1. CASE e = j - 1
        BY <1>t, <3>2, <4>1
      <4>2. CASE e < j - 1
        BY <1>0, <3>2, <4>2 DEF LinkInv
      <4> QED BY <3>1, <3>2, <4>1, <4>2
    <3> QED BY <3>1, <3>2, <3>3
  <2> QED BY <1>0, <2>1, <2>2, <2>4, <2>5 DEF LinkInv
<1>4. CASE LinkReorders
  <2> DEFINE k == Len(link)
  <2>1. /\ link # <<>> /\ k > 1 /\ link[2] <= link[1] + MaxDelay
        /\ link' = <<link[2], link[1]>> \o SubSeq(link, 3, Len(link))
        /\ uplink_seq' = uplink_seq /\ newest' = newest /\ Slack' = MaxDelay /\ Slack <= MaxDelay
    BY <1>t, <1>4 DEF LinkReorders, LinkStep, Slack
  <2>2. /\ Len(link') = k
        /\ \A i \in 1 .. k :
             link'[i] = IF i = 1 THEN link[2] ELSE IF i = 2 THEN link[1] ELSE link[i]
    BY <1>t, <2>1, SwappedAt
  <2>3. \A i \in 1 .. k : link[i] <= uplink_seq /\ newest <= link[i] + MaxDelay
    <3> SUFFICES ASSUME NEW i \in 1 .. k
                 PROVE  link[i] <= uplink_seq /\ newest <= link[i] + MaxDelay
      OBVIOUS
    <3>1. link[i] <= uplink_seq /\ newest <= link[i] + Slack
      BY <1>0 DEF LinkInv
    <3> QED BY <1>t, <2>1, <3>1
  <2>4. \A i, j \in 1 .. k : i < j => link[i] <= link[j] + MaxDelay
    <3> SUFFICES ASSUME NEW i \in 1 .. k, NEW j \in 1 .. k, i < j
                 PROVE  link[i] <= link[j] + MaxDelay
      OBVIOUS
    <3>1. link[i] <= link[j] + Slack
      BY <1>0 DEF LinkInv
    <3> QED BY <1>t, <2>1, <3>1
  <2>5. 1 \in 1 .. k /\ 2 \in 1 .. k
    BY <1>t, <2>1
  <2>6. \A i \in 1 .. k : link'[i] <= uplink_seq /\ newest <= link'[i] + MaxDelay
    BY <2>2, <2>3, <2>5
  <2>7. \A i, j \in 1 .. k : i < j => link'[i] <= link'[j] + MaxDelay
    <3> SUFFICES ASSUME NEW i \in 1 .. k, NEW j \in 1 .. k, i < j
                 PROVE  link'[i] <= link'[j] + MaxDelay
      OBVIOUS
    <3>1. CASE i = 1 /\ j = 2
      BY <2>1, <2>2, <3>1
    <3>2. CASE i = 1 /\ j > 2
      BY <2>2, <2>4, <2>5, <3>2
    <3>3. CASE i = 2
      BY <2>2, <2>4, <2>5, <3>3
    <3>4. CASE i > 2
      BY <2>2, <2>4, <3>4
    <3> QED BY <3>1, <3>2, <3>3, <3>4
  <2> QED BY <1>0, <2>1, <2>2, <2>6, <2>7 DEF LinkInv
<1>5. CASE Accept
  <2>1. /\ link # <<>> /\ link' = Tail(link)
        /\ uplink_seq' = uplink_seq /\ newest' = Head(link) /\ Slack' = Slack
    BY <1>5 DEF Accept, Receive, Slack
  <2>2. /\ Len(link') = Len(link) - 1 /\ Len(link) > 0 /\ Head(link) = link[1]
        /\ \A i \in 1 .. Len(link) - 1 : link'[i] = link[i + 1] /\ i + 1 \in 1 .. Len(link)
    BY <1>t, <2>1, TailAt
  <2>3. 1 \in 1 .. Len(link)
    BY <1>t, <2>2
  <2>4. newest' <= uplink_seq
    BY <1>0, <2>1, <2>2, <2>3 DEF LinkInv
  <2>5. \A i \in 1 .. Len(link') : link'[i] <= uplink_seq /\ newest' <= link'[i] + Slack
    <3> SUFFICES ASSUME NEW i \in 1 .. Len(link')
                 PROVE  link'[i] <= uplink_seq /\ newest' <= link'[i] + Slack
      OBVIOUS
    <3>1. i + 1 \in 1 .. Len(link) /\ 1 < i + 1 /\ link'[i] = link[i + 1]
      BY <2>2
    <3> QED BY <1>0, <2>1, <2>2, <2>3, <3>1 DEF LinkInv
  <2>6. \A i, j \in 1 .. Len(link') : i < j => link'[i] <= link'[j] + Slack
    <3> SUFFICES ASSUME NEW i \in 1 .. Len(link'), NEW j \in 1 .. Len(link'), i < j
                 PROVE  link'[i] <= link'[j] + Slack
      OBVIOUS
    <3>1. i + 1 \in 1 .. Len(link) /\ j + 1 \in 1 .. Len(link) /\ i + 1 < j + 1
      BY <2>2
    <3> QED BY <1>0, <2>2, <3>1 DEF LinkInv
  <2> QED BY <2>1, <2>4, <2>5, <2>6 DEF LinkInv
<1>6. CASE /\ ~SendCommand /\ ~LinkLoses /\ ~LinkRepeats /\ ~LinkReorders
           /\ ~Refuse /\ ~DispatchFails /\ ~Accept
  <2>1. UNCHANGED <<uplink_seq, link, newest, reordered>>
    BY <1>6 DEF Next, Bridge, Boot, BeginReceive, EndReceive, PersistFails, PersistTruncate,
       PersistWrite, PersistStep, Stop, Crash, Gone, HubTakes, historyVars, vars
  <2> QED BY <1>0, <2>1 DEF LinkInv, Slack
<1> QED BY <1>1, <1>2, <1>3, <1>4, <1>5, <1>6

LEMMA OrderKept ==
  ASSUME UplinkInv, [Next]_vars
  PROVE  OrderInv'
<1>0. TypeOK /\ KnownInv /\ LinkInv /\ OrderInv
  BY DEF UplinkInv
<1>t. /\ command_out \in Seq(1 .. MaxIssued) /\ Len(command_out) \in Nat
      /\ \A i \in 1 .. Len(command_out) : command_out[i] \in Nat
      /\ executed \subseteq Nat /\ newest \in Nat
      /\ uplink_seq \in Nat /\ Modulus \in Nat
  BY <1>0, Typed, Constants
<1>1. CASE HubTakes
  <2> DEFINE k == Len(command_out)
             h == Head(command_out)
  <2>1. /\ command_out # <<>> /\ command_out' = Tail(command_out)
        /\ executed' = executed \cup {h}
        /\ Orderly' = Orderly /\ forgot' = forgot /\ newest' = newest
    BY <1>1 DEF HubTakes, historyVars, Orderly
  <2>2. /\ Len(command_out') = k - 1 /\ k > 0 /\ h = command_out[1]
        /\ \A i \in 1 .. k - 1 : command_out'[i] = command_out[i + 1] /\ i + 1 \in 1 .. k
    BY <1>t, <2>1, TailAt
  <2> SUFFICES ASSUME Orderly, ~forgot
               PROVE  /\ \A n \in executed' : n <= newest /\ \A i \in 1 .. k - 1 : n < command_out'[i]
                      /\ \A i \in 1 .. k - 1 : command_out'[i] <= newest
                      /\ \A i, j \in 1 .. k - 1 : i < j => command_out'[i] < command_out'[j]
    BY <2>1, <2>2 DEF OrderInv
  <2>3. /\ \A n \in executed : n <= newest /\ \A i \in 1 .. k : n < command_out[i]
        /\ \A i \in 1 .. k : command_out[i] <= newest
        /\ \A i, j \in 1 .. k : i < j => command_out[i] < command_out[j]
    BY <1>0 DEF OrderInv
  <2>4. 1 \in 1 .. k
    BY <1>t, <2>2
  <2>5. h <= newest /\ \A i \in 1 .. k - 1 : h < command_out'[i]
    <3>1. \A i \in 1 .. k - 1 : 1 < i + 1
      OBVIOUS
    <3> QED BY <2>2, <2>3, <2>4, <3>1
  <2>6. \A i, j \in 1 .. k - 1 : i < j => i + 1 < j + 1
    OBVIOUS
  <2>7. \A n \in executed : n <= newest /\ \A i \in 1 .. k - 1 : n < command_out'[i]
    BY <2>2, <2>3
  <2>8. /\ \A i \in 1 .. k - 1 : command_out'[i] <= newest
        /\ \A i, j \in 1 .. k - 1 : i < j => command_out'[i] < command_out'[j]
    BY <2>2, <2>3, <2>6
  <2> HIDE DEF h, k
  <2> QED BY <2>1, <2>5, <2>7, <2>8
<1>2. CASE Accept
  <2> DEFINE k == Len(command_out)
             x == Head(link)
             t == Append(command_out, x)
  <2>1. /\ link # <<>> /\ ~Replayed(SeqOf(x)) /\ at # "off"
        /\ command_out' = t /\ newest' = x
        /\ executed' = executed /\ Orderly' = Orderly /\ forgot' = forgot
    BY <1>2 DEF Accept, Receive, Orderly
  <2>2. x \in 1 .. MaxIssued
    BY <1>0, <2>1, Typed, TailAt
  <2>3. Len(t) = k + 1 /\ t[k + 1] = x /\ \A i \in 1 .. k : t[i] = command_out[i]
    <3> HIDE DEF x
    <3> QED BY <1>t, <2>2, AppendAt
  <2> SUFFICES ASSUME Orderly, ~forgot
               PROVE  /\ \A n \in executed : n <= x /\ \A i \in 1 .. k + 1 : n < t[i]
                      /\ \A i \in 1 .. k + 1 : t[i] <= x
                      /\ \A i, j \in 1 .. k + 1 : i < j => t[i] < t[j]
    BY <2>1, <2>3 DEF OrderInv
  <2>4. newest < x
    BY <1>0, <2>1, AcceptedIsNewer
  <2>5. /\ \A n \in executed : n <= newest /\ \A i \in 1 .. k : n < command_out[i]
        /\ \A i \in 1 .. k : command_out[i] <= newest
        /\ \A i, j \in 1 .. k : i < j => command_out[i] < command_out[j]
    BY <1>0 DEF OrderInv
  <2>6. x \in Nat
    BY <2>2
  <2> HIDE DEF x, t
  <2>7. \A n \in executed : n < x
    BY <1>t, <2>4, <2>5, <2>6
  <2>8. \A i \in 1 .. k : command_out[i] < x
    BY <1>t, <2>4, <2>5, <2>6
  <2>9. \A i \in 1 .. k + 1 : i = k + 1 \/ i \in 1 .. k
    BY <1>t
  <2>10. \A n \in executed : n <= x /\ \A i \in 1 .. k + 1 : n < t[i]
    BY <1>t, <2>3, <2>5, <2>6, <2>7, <2>9
  <2>11. \A i \in 1 .. k + 1 : t[i] <= x
    BY <1>t, <2>3, <2>6, <2>8, <2>9
  <2>12. \A i, j \in 1 .. k + 1 : i < j => t[i] < t[j]
    <3> SUFFICES ASSUME NEW i \in 1 .. k + 1, NEW j \in 1 .. k + 1, i < j PROVE t[i] < t[j]
      OBVIOUS
    <3>1. i \in 1 .. k /\ (j = k + 1 \/ j \in 1 .. k)
      BY <1>t
    <3> QED BY <2>3, <2>5, <2>8, <3>1
  <2> QED BY <2>10, <2>11, <2>12
<1>3. CASE Stop \/ Crash
  <2>0. Gone
    BY <1>3 DEF Stop, Crash
  <2>1. /\ command_out' = <<>> /\ executed' = executed /\ newest' = newest
        /\ Orderly' = Orderly /\ (~forgot' => ~forgot)
    <3>1. ~forgot' => ~forgot
      BY <2>0 DEF Gone
    <3>2. Orderly' = Orderly
      BY <2>0 DEF Gone, Orderly
    <3> QED BY <2>0, <3>1, <3>2 DEF Gone
  <2>2. Len(command_out') = 0
    BY <2>1
  <2> QED BY <1>0, <2>1, <2>2 DEF OrderInv
<1>4. CASE ~HubTakes /\ ~Accept /\ ~Stop /\ ~Crash
  <2>1. UNCHANGED <<command_out, executed, newest, forgot>>
    BY <1>4 DEF Next, Bridge, SendCommand, LinkLoses, LinkRepeats, LinkReorders, LinkStep, Boot,
       BeginReceive, EndReceive, Refuse, DispatchFails, Receive, PersistFails, PersistTruncate,
       PersistWrite, PersistStep, historyVars, bridgeVars, vars
  <2>2. (reordered => reordered') /\ uplink_seq' \in Nat /\ uplink_seq <= uplink_seq'
    BY <1>t, <1>4 DEF Next, Bridge, SendCommand, LinkLoses, LinkRepeats, LinkReorders, LinkStep, Boot,
       BeginReceive, EndReceive, Refuse, DispatchFails, Receive, PersistFails, PersistTruncate,
       PersistWrite, PersistStep, historyVars, vars
  <2>3. Orderly' => Orderly
    BY <1>t, <2>2 DEF Orderly
  <2> QED BY <1>0, <2>1, <2>3 DEF OrderInv
<1> QED BY <1>1, <1>2, <1>3, <1>4

THEOREM UplinkSafe == Spec => []UplinkInv
<1>1. Init => UplinkInv
  BY InitInv
<1>2. UplinkInv /\ [Next]_vars => UplinkInv'
  BY TypeKept, KnownKept, LinkKept, OrderKept DEF UplinkInv
<1> QED BY <1>1, <1>2, PTL DEF Spec

-----------------------------------------------------------------------------
(* What the uplink owes its users.                                         *)

\* Numbers, link, port, files and counters keep their ranges, across wraps and
\* restarts.
THEOREM TypeCorrect == Spec => []TypeOK
<1>1. UplinkInv => TypeOK
  BY DEF UplinkInv
<1> QED BY <1>1, UplinkSafe, PTL

\* A running bridge knows the last number accepted, whatever stopped it before.
THEOREM StateKept == Spec => []ReplayStateKept
<1>1. UplinkInv => ReplayStateKept
  BY DEF UplinkInv, KnownInv, ReplayStateKept
<1> QED BY <1>1, UplinkSafe, PTL

\* No command newer by less than the low mark is taken for a replay.
THEOREM FreshPasses == Spec => []FreshNotRefused
<1>1. UplinkInv => FreshNotRefused
  BY FreshIsSeen
<1> QED BY <1>1, UplinkSafe, PTL

\* The hub takes no command twice and none after a newer one.
THEOREM OnceInOrder == Spec => ExecutedOnceInOrder
<1>1. UplinkInv /\ [Next]_vars =>
        [HubTakes /\ Orderly /\ ~forgot => \A n \in executed : n < Head(command_out)]_vars
  <2> SUFFICES ASSUME UplinkInv, HubTakes, Orderly, ~forgot, NEW n \in executed
               PROVE  n < Head(command_out)
    OBVIOUS
  <2>1. command_out # <<>>
    BY DEF HubTakes
  <2>2. Head(command_out) = command_out[1] /\ 1 \in 1 .. Len(command_out)
    BY <2>1, Typed, TailAt DEF UplinkInv
  <2> QED BY <2>2 DEF UplinkInv, OrderInv
<1> QED BY <1>1, UplinkSafe, PTL DEF Spec, ExecutedOnceInOrder

\* The file holds one number at most, and a bridge between two frames has it
\* there.
OneNumber == \A m, n \in replay_file : m = n
SavedBetweenFrames == at \in {"idle", "receiveCommands"} => Saved

\* "The last accepted uplink sequence shall be persisted" (DV-COMM-06,
\* Requirements.hpp:86-87), wherever the process ends but inside a frame, as
\* long as the file can be written and the heap guard is not armed: between two
\* frames the file holds the number of the last command accepted, however the
\* process was stopped or died before (TelemetryBridge.hpp, persistReplayState).
THEOREM PersistedBetweenFrames ==
  Spec /\ [][~PersistFails]_vars /\ []~heap_guard => []SavedBetweenFrames
<1>1. Init => OneNumber /\ SavedBetweenFrames
  BY DEF Init, OneNumber, SavedBetweenFrames
<1>2. /\ OneNumber /\ SavedBetweenFrames /\ ~heap_guard
      /\ [Next]_vars /\ [~PersistFails]_vars
      => (OneNumber /\ SavedBetweenFrames)'
  <2> SUFFICES ASSUME OneNumber, SavedBetweenFrames, ~heap_guard, [Next]_vars, [~PersistFails]_vars
               PROVE  OneNumber' /\ SavedBetweenFrames'
    OBVIOUS
  <2> USE DEF OneNumber, SavedBetweenFrames, Saved
  <2>1. CASE Boot
    BY <2>1 DEF Boot
  <2>2. CASE Accept
    BY <2>2 DEF Accept, Receive
  <2>3. CASE PersistTruncate \/ PersistWrite
    BY <2>3 DEF PersistTruncate, PersistWrite, PersistStep
  <2>4. CASE Stop \/ Crash
    BY <2>4 DEF Stop, Crash, Gone
  <2>5. CASE BeginReceive \/ EndReceive \/ Refuse \/ DispatchFails
    BY <2>5 DEF BeginReceive, EndReceive, Refuse, DispatchFails, Receive
  <2>6. CASE SendCommand \/ LinkLoses \/ LinkRepeats \/ LinkReorders \/ HubTakes \/ UNCHANGED vars
    BY <2>6 DEF SendCommand, LinkLoses, LinkRepeats, LinkReorders, LinkStep, HubTakes, bridgeVars, vars
  <2>7. CASE PersistFails
    <3>1. UNCHANGED vars
      BY <2>7
    <3> QED BY <2>6, <3>1
  <2> QED BY <2>1, <2>2, <2>3, <2>4, <2>5, <2>6, <2>7 DEF Next, Bridge
<1> QED BY <1>1, <1>2, PTL DEF Spec

=============================================================================
