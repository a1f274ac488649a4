---------------------------- MODULE DvUtilProofs -----------------------------
(***************************************************************************)
(* What the developer tools keep, for any tables of standard components    *)
(* and commands, any number of terminals, of entries and of runs:          *)
(* ToolsKeepItValid, InstallSettles, NothingLostAlone and OfferedIsServed. *)
(* The lemmas say what an entry and the installer do to a topology; the    *)
(* two loops of the installer are functions on 0 .. n, and what holds of   *)
(* each of their steps is proved by the least step that would break it.    *)
(***************************************************************************)
EXTENDS DvUtil, FiniteSetTheorems, SequenceTheorems, WellFoundedInduction, TLAPS

-----------------------------------------------------------------------------
(* The least and the greatest of a set of numbers.                         *)

LEMMA FirstOf ==
  ASSUME NEW S, S \subseteq Nat, S # {}
  PROVE  \E k \in S : \A m \in S : k <= m
<1>1. PICK k \in S : \A m \in S : <<m, k>> \notin OpToRel(<, Nat)
  BY WFMin, NatLessThanWellFounded
<1>2. ASSUME NEW m \in S PROVE k <= m
  <2>1. ~(m < k)
    BY <1>1 DEF OpToRel
  <2> QED BY <2>1
<1> QED BY <1>2

LEMMA LeastIs ==
  ASSUME NEW S, S \subseteq Int, S # {},
         NEW b \in Int, \A n \in S : b <= n
  PROVE  /\ Least(S) \in S
         /\ \A n \in S : Least(S) <= n
<1> DEFINE Above == {k \in Nat : b + k \in S}
<1>1. PICK s \in S : TRUE
  OBVIOUS
<1>2. s - b \in Above
  <2>1. s \in Int /\ b <= s
    OBVIOUS
  <2>2. s - b \in Nat /\ b + (s - b) = s
    BY <2>1
  <2> QED BY <2>2
<1>3. Above \subseteq Nat
  OBVIOUS
<1>4. PICK k \in Above : \A m \in Above : k <= m
  <2> HIDE DEF Above
  <2> QED BY <1>2, <1>3, FirstOf
<1>5. \A n \in S : b + k <= n
  <2> SUFFICES ASSUME NEW n \in S PROVE b + k <= n
    OBVIOUS
  <2>1. n \in Int /\ b <= n /\ k \in Nat
    OBVIOUS
  <2>2. n - b \in Nat /\ b + (n - b) = n
    BY <2>1
  <2>3. k <= n - b
    BY <1>4, <2>2
  <2> QED BY <2>1, <2>3
<1> QED BY <1>5 DEF Least

LEMMA GreatestIs ==
  ASSUME NEW S, S \subseteq Int, S # {},
         NEW b \in Int, \A n \in S : n <= b
  PROVE  /\ Greatest(S) \in S
         /\ \A n \in S : n <= Greatest(S)
<1> DEFINE Below == {k \in Nat : b - k \in S}
<1>1. PICK s \in S : TRUE
  OBVIOUS
<1>2. b - s \in Below
  <2>1. s \in Int /\ s <= b
    OBVIOUS
  <2>2. b - s \in Nat /\ b - (b - s) = s
    BY <2>1
  <2> QED BY <2>2
<1>3. Below \subseteq Nat
  OBVIOUS
<1>4. PICK k \in Below : \A m \in Below : k <= m
  <2> HIDE DEF Below
  <2> QED BY <1>2, <1>3, FirstOf
<1>5. \A n \in S : n <= b - k
  <2> SUFFICES ASSUME NEW n \in S PROVE n <= b - k
    OBVIOUS
  <2>1. n \in Int /\ n <= b /\ k \in Nat
    OBVIOUS
  <2>2. b - n \in Nat /\ b - (b - n) = n
    BY <2>1
  <2>3. k <= b - n
    BY <1>4, <2>2
  <2> QED BY <2>1, <2>3
<1> QED BY <1>5 DEF Greatest

\* Induction along 0 .. L: what starts at 0 and is handed on gets everywhere.
LEMMA HandedOn ==
  ASSUME NEW L \in Nat, NEW S, S \subseteq Nat, 0 \in S,
         \A k \in S : k < L => k + 1 \in S
  PROVE  \A k \in 0 .. L : k \in S
<1> DEFINE Missed == (0 .. L) \ S
<1>1. SUFFICES ASSUME Missed # {} PROVE FALSE
  OBVIOUS
<1>2. Missed \subseteq Nat
  OBVIOUS
<1>3. PICK k \in Missed : \A m \in Missed : k <= m
  <2> HIDE DEF Missed
  <2> QED BY <1>1, <1>2, FirstOf
<1>4. k \in 0 .. L /\ k \notin S
  BY <1>3
<1>5. k - 1 \in 0 .. L /\ k - 1 < L /\ (k - 1) + 1 = k /\ ~(k <= k - 1)
  BY <1>4
<1>6. k - 1 \in S
  BY <1>3, <1>5
<1> QED BY <1>4, <1>5, <1>6

\* A list of numbers has a bound.
LEMMA ListBounded ==
  ASSUME NEW L \in Nat, NEW f, \A i \in 1 .. L : f[i] \in Int
  PROVE  \E b \in Int : \A i \in 1 .. L : f[i] <= b
<1> DEFINE Bounded(k) == \E b \in Int : \A i \in 1 .. k : f[i] <= b
<1> DEFINE S == {k \in Nat : Bounded(k)}
<1>1. 0 \in S
  <2>1. 0 \in Int /\ \A i \in 1 .. 0 : f[i] <= 0
    OBVIOUS
  <2> QED BY <2>1
<1>2. ASSUME NEW k \in S, k < L PROVE k + 1 \in S
  <2>1. PICK b \in Int : \A i \in 1 .. k : f[i] <= b
    OBVIOUS
  <2>2. k + 1 \in 1 .. L /\ f[k + 1] \in Int
    BY <1>2
  <2> DEFINE top == IF f[k + 1] <= b THEN b ELSE f[k + 1]
  <2>3. top \in Int /\ b <= top /\ f[k + 1] <= top
    BY <2>2
  <2>4. \A i \in 1 .. k + 1 : f[i] <= top
    <3> HIDE DEF top
    <3> SUFFICES ASSUME NEW i \in 1 .. k + 1 PROVE f[i] <= top
      OBVIOUS
    <3>1. i = k + 1 \/ i \in 1 .. k
      OBVIOUS
    <3>2. i \in 1 .. L
      BY <2>2
    <3> QED BY <2>1, <2>3, <3>1, <3>2
  <2>5. Bounded(k + 1)
    BY <2>3, <2>4
  <2> QED BY <2>5
<1>3. L \in S
  <2>1. S \subseteq Nat /\ L \in 0 .. L
    OBVIOUS
  <2> HIDE DEF S
  <2> QED BY <1>1, <1>2, <2>1, HandedOn
<1> QED BY <1>3

\* The numbers of a finite set are bounded.
LEMMA FiniteBounded ==
  ASSUME NEW S, S \subseteq Int, IsFiniteSet(S)
  PROVE  \E b \in Int : \A n \in S : n <= b
<1>1. PICK f : f \in Bijection(1 .. Cardinality(S), S)
  BY FS_CardinalityType DEF ExistsBijection
<1>2. /\ \A i \in 1 .. Cardinality(S) : f[i] \in S
      /\ \A n \in S : \E i \in 1 .. Cardinality(S) : f[i] = n
  BY <1>1 DEF Bijection, Injection, Surjection
<1>3. Cardinality(S) \in Nat
  BY FS_CardinalityType
<1>4. PICK b \in Int : \A i \in 1 .. Cardinality(S) : f[i] <= b
  BY <1>2, <1>3, ListBounded
<1> QED BY <1>2, <1>4

LEMMA FiniteGreatest ==
  ASSUME NEW S, S \subseteq Int, S # {}, IsFiniteSet(S)
  PROVE  /\ Greatest(S) \in S
         /\ \A n \in S : n <= Greatest(S)
BY FiniteBounded, GreatestIs

-----------------------------------------------------------------------------
(* A sound topology, and the entries that keep it sound.                   *)

Sound(topo) == Shaped(topo) /\ Valid(topo) /\ Distinct(topo)

\* The same text above the rows, and as readable.
SameHead(old, new) == new.system = old.system /\ new.whole = old.whole

LEMMA EmptyShaped == Shaped(Empty) /\ Len(Empty.commands) = 0
<1>1. IsFiniteSet({})
  BY FS_EmptySet
<1>2. Commands(Empty) = {} /\ Empty.commands \in Seq({}) /\ Empty.components = {}
  BY DEF Commands, Empty
<1>3. Empty = [system |-> Empty.system, components |-> Empty.components,
               commands |-> Empty.commands, wiring |-> Empty.wiring, whole |-> Empty.whole]
      /\ Empty.system \in BOOLEAN /\ Empty.whole \in BOOLEAN
  BY DEF Empty
<1>4. Len(Empty.commands) = 0
  BY DEF Empty
<1> QED BY <1>1, <1>2, <1>3, <1>4 DEF Shaped

LEMMA CommandList ==
  ASSUME NEW topo, Shaped(topo)
  PROVE  /\ Len(topo.commands) \in Nat
         /\ DOMAIN topo.commands = 1 .. Len(topo.commands)
         /\ \A i \in 1 .. Len(topo.commands) :
              /\ topo.commands[i] \in Commands(topo)
              /\ topo.commands[i].opcode \in Int
         /\ \A k \in Commands(topo) :
              \E i \in 1 .. Len(topo.commands) : k = topo.commands[i]
<1>1. topo.commands \in Seq(Commands(topo))
  BY DEF Shaped
<1>2. /\ Len(topo.commands) \in Nat
      /\ DOMAIN topo.commands = 1 .. Len(topo.commands)
  BY <1>1
<1>3. \A k \in Commands(topo) : k.opcode \in Int
  BY DEF Shaped, IsCommand
<1> QED BY <1>2, <1>3 DEF Commands

LEMMA EntrySets ==
  ASSUME NEW topo, Shaped(topo)
  PROVE  /\ IsFiniteSet(Ids(topo)) /\ Ids(topo) \subseteq Int
         /\ IsFiniteSet(Instances(topo))
<1>1. IsFiniteSet(topo.components) /\ \A c \in topo.components : c.id \in Int
  BY DEF Shaped, IsComponent
<1>2. [c \in topo.components |-> c.id] \in Surjection(topo.components, Ids(topo))
  BY DEF Surjection, Ids
<1>3. [c \in topo.components |-> c.instance] \in Surjection(topo.components, Instances(topo))
  BY DEF Surjection, Instances
<1>4. Ids(topo) \subseteq Int
  BY <1>1 DEF Ids
<1> QED BY <1>1, <1>2, <1>3, <1>4, FS_Surjection

LEMMA NextIdIsFree ==
  ASSUME NEW topo, Shaped(topo)
  PROVE  NextComponentId(topo) \in Int /\ NextComponentId(topo) \notin Ids(topo)
<1>1. CASE Ids(topo) = {}
  BY <1>1 DEF NextComponentId
<1>2. CASE Ids(topo) # {}
  <2>1. /\ Greatest(Ids(topo)) \in Ids(topo)
        /\ \A n \in Ids(topo) : n <= Greatest(Ids(topo))
    BY <1>2, EntrySets, FiniteGreatest
  <2>2. Greatest(Ids(topo)) \in Int
    BY <2>1, EntrySets
  <2>3. NextComponentId(topo) = Greatest(Ids(topo)) + 1
    BY <1>2 DEF NextComponentId
  <2> HIDE DEF Greatest
  <2> QED BY <2>1, <2>2, <2>3
<1> QED BY <1>1, <1>2

LEMMA NextOpcodeIsNumber ==
  ASSUME NEW topo, Shaped(topo), NEW target
  PROVE  NextOpcode(topo, target) \in Int
<1> DEFINE used == {k.opcode : k \in {c \in Commands(topo) : c.target = target}}
<1>1. PICK b \in Int : \A i \in 1 .. Len(topo.commands) :
                         [j \in 1 .. Len(topo.commands) |-> topo.commands[j].opcode][i] <= b
  <2> DEFINE f == [j \in 1 .. Len(topo.commands) |-> topo.commands[j].opcode]
  <2>1. \A i \in 1 .. Len(topo.commands) : f[i] \in Int
    BY CommandList
  <2> HIDE DEF f
  <2>2. \E b \in Int : \A i \in 1 .. Len(topo.commands) : f[i] <= b
    BY <2>1, CommandList, ListBounded
  <2> QED BY <2>2 DEF f
<1>2. \A n \in used : n \in Int /\ n <= b
  <2> SUFFICES ASSUME NEW k \in Commands(topo)
               PROVE  k.opcode \in Int /\ k.opcode <= b
    OBVIOUS
  <2>1. PICK i \in 1 .. Len(topo.commands) : k = topo.commands[i]
    BY CommandList
  <2> QED BY <1>1, <2>1, CommandList
<1>3. NextOpcode(topo, target) = IF used = {} THEN 1 ELSE Greatest(used) + 1
  BY DEF NextOpcode
<1> HIDE DEF used
<1>4. CASE used = {}
  BY <1>3, <1>4
<1>5. CASE used # {}
  <2>1. Greatest(used) \in Int
    BY <1>2, <1>5, GreatestIs
  <2> QED BY <1>3, <1>5, <2>1
<1> QED BY <1>4, <1>5

LEMMA ComponentAdded ==
  ASSUME NEW topo, Shaped(topo), NEW entry, IsComponent(entry)
  PROVE  LET new == WithComponent(topo, entry)
         IN  /\ Shaped(new) /\ SameHead(topo, new)
             /\ new.components = topo.components \cup {entry}
             /\ new.commands = topo.commands /\ new.wiring = topo.wiring
             /\ Sound(topo) /\ ComponentAccepted(topo, entry) => Sound(new)
<1> DEFINE new == WithComponent(topo, entry)
<1>1. new = [system |-> topo.system, components |-> topo.components \cup {entry},
             commands |-> topo.commands, wiring |-> topo.wiring, whole |-> topo.whole]
  <2>1. topo = [system |-> topo.system, components |-> topo.components,
                commands |-> topo.commands, wiring |-> topo.wiring, whole |-> topo.whole]
    BY DEF Shaped
  <2> QED BY <2>1 DEF WithComponent
<1>2. Commands(new) = Commands(topo) /\ new.commands = topo.commands
      /\ new.components = topo.components \cup {entry} /\ new.wiring = topo.wiring
      /\ new.system = topo.system /\ new.whole = topo.whole
  BY <1>1 DEF Commands
<1>3. new = [system |-> new.system, components |-> new.components,
             commands |-> new.commands, wiring |-> new.wiring, whole |-> new.whole]
  BY <1>1
<1> HIDE DEF new
<1>4. IsFiniteSet(new.components)
  BY <1>2, FS_AddElement DEF Shaped
<1>5. Shaped(new)
  BY <1>2, <1>3, <1>4 DEF Shaped
<1>6. ASSUME Sound(topo), ComponentAccepted(topo, entry) PROVE Sound(new)
  <2>1. \A c \in topo.components :
          c.id # entry.id /\ c.class # entry.class /\ c.instance # entry.instance
    BY <1>6 DEF ComponentAccepted, Ids, Classes, Instances
  <2>2. Distinct(new)
    BY <1>2, <1>6, <2>1 DEF Sound, Distinct
  <2>3. Ids(topo) \subseteq Ids(new)
    BY <1>2 DEF Ids
  <2>4. Valid(new)
    BY <1>2, <1>6, <2>1, <2>3 DEF Sound, Valid
  <2> QED BY <1>5, <2>2, <2>4 DEF Sound
<1> QED BY <1>2, <1>5, <1>6 DEF new, SameHead

LEMMA CommandAdded ==
  ASSUME NEW topo, Shaped(topo), NEW entry, IsCommand(entry)
  PROVE  LET new == WithCommand(topo, entry)
         IN  /\ Shaped(new) /\ SameHead(topo, new)
             /\ Commands(new) = Commands(topo) \cup {entry}
             /\ Len(new.commands) = Len(topo.commands) + 1
             /\ new.components = topo.components /\ new.wiring = topo.wiring
             /\ Sound(topo) /\ CommandAccepted(topo, entry) => Sound(new)
<1> DEFINE new == WithCommand(topo, entry)
<1> DEFINE n == Len(topo.commands)
<1>1. new = [system |-> topo.system, components |-> topo.components,
             commands |-> Append(topo.commands, entry), wiring |-> topo.wiring,
             whole |-> topo.whole]
  <2>1. topo = [system |-> topo.system, components |-> topo.components,
                commands |-> topo.commands, wiring |-> topo.wiring, whole |-> topo.whole]
    BY DEF Shaped
  <2> QED BY <2>1 DEF WithCommand
<1>2. new.commands = Append(topo.commands, entry)
      /\ new.components = topo.components /\ new.wiring = topo.wiring
      /\ new.system = topo.system /\ new.whole = topo.whole
  BY <1>1
<1>3. new = [system |-> new.system, components |-> new.components,
             commands |-> new.commands, wiring |-> new.wiring, whole |-> new.whole]
  BY <1>1
<1> HIDE DEF new
<1>4. n \in Nat /\ DOMAIN topo.commands = 1 .. n /\ topo.commands \in Seq(Commands(topo))
  BY CommandList DEF Shaped
<1>5. /\ Append(topo.commands, entry) \in Seq(Commands(topo) \cup {entry})
      /\ Len(Append(topo.commands, entry)) = n + 1
      /\ DOMAIN Append(topo.commands, entry) = 1 .. n + 1
      /\ \A i \in 1 .. n : Append(topo.commands, entry)[i] = topo.commands[i]
      /\ Append(topo.commands, entry)[n + 1] = entry
  <2>1. topo.commands \in Seq(Commands(topo) \cup {entry}) /\ entry \in Commands(topo) \cup {entry}
    BY <1>4
  <2> QED BY <1>4, <2>1
<1>6. Commands(new) = Commands(topo) \cup {entry}
  <2>1. Commands(topo) = {topo.commands[i] : i \in 1 .. n}
    BY <1>4 DEF Commands
  <2>2. Commands(new) = {new.commands[i] : i \in 1 .. n + 1}
    BY <1>2, <1>5 DEF Commands
  <2>3. \A i \in 1 .. n + 1 : i \in 1 .. n \/ i = n + 1
    BY <1>4
  <2>4. \A i \in 1 .. n : i \in 1 .. n + 1
    BY <1>4
  <2>5. n + 1 \in 1 .. n + 1
    BY <1>4
  <2> HIDE DEF n
  <2> QED BY <1>2, <1>5, <2>1, <2>2, <2>3, <2>4, <2>5
<1>7. Shaped(new)
  BY <1>2, <1>3, <1>5, <1>6 DEF Shaped
<1>8. ASSUME Sound(topo), CommandAccepted(topo, entry) PROVE Sound(new)
  <2>1. Distinct(new) /\ Ids(new) = Ids(topo)
    BY <1>2, <1>8 DEF Sound, Distinct, Ids
  <2>2. \A i \in 1 .. n : topo.commands[i].target # entry.target
                           \/ topo.commands[i].opcode # entry.opcode
    BY <1>4, <1>8 DEF CommandAccepted, Pairs, Commands
  <2>3. \A c, d \in new.components : c.id = d.id => c = d
    BY <1>2, <1>8 DEF Sound, Valid
  <2>4. ASSUME NEW i \in DOMAIN new.commands, NEW j \in DOMAIN new.commands
        PROVE  /\ new.commands[i].target \in Ids(new)
               /\ new.commands[i].target = new.commands[j].target
                    /\ new.commands[i].opcode = new.commands[j].opcode => i = j
    <3>1. i \in 1 .. n \/ i = n + 1
      BY <1>2, <1>4, <1>5
    <3>2. j \in 1 .. n \/ j = n + 1
      BY <1>2, <1>4, <1>5
    <3> HIDE DEF n
    <3>3. entry.target \in Ids(new)
      BY <1>8, <2>1 DEF CommandAccepted
    <3>4. \A k, l \in 1 .. n :
            /\ topo.commands[k].target \in Ids(new)
            /\ topo.commands[k].target = topo.commands[l].target
                 /\ topo.commands[k].opcode = topo.commands[l].opcode => k = l
      BY <1>4, <1>8, <2>1 DEF Sound, Valid
    <3> QED BY <1>2, <1>5, <2>2, <3>1, <3>2, <3>3, <3>4
  <2>5. Valid(new)
    BY <2>3, <2>4 DEF Valid
  <2> QED BY <1>7, <2>1, <2>5 DEF Sound
<1> QED BY <1>2, <1>5, <1>6, <1>7, <1>8 DEF new, SameHead

-----------------------------------------------------------------------------
(* The installer, one row of a table at a time.                            *)

LEMMA SuffixedIsFree ==
  ASSUME NEW inst, inst \in Seq(Range(inst)), NEW id, NEW taken, IsFiniteSet(taken)
  PROVE  Suffixed(inst, id, taken) \notin taken
<1> DEFINE name(n) == inst \o [i \in 1 .. n |-> id]
<1> DEFINE N == Cardinality(taken)
<1> DEFINE S == {n \in 0 .. N : name(n) \notin taken}
<1>1. N \in Nat
  BY FS_CardinalityType
<1>2. ASSUME NEW n \in Nat PROVE Len(name(n)) = Len(inst) + n
  <2>1. [i \in 1 .. n |-> id] \in Seq({id}) /\ Len([i \in 1 .. n |-> id]) = n
    OBVIOUS
  <2>2. inst \in Seq(Range(inst) \cup {id}) /\ [i \in 1 .. n |-> id] \in Seq(Range(inst) \cup {id})
    BY <2>1
  <2> QED BY <2>1, <2>2
<1>3. Len(inst) \in Nat
  OBVIOUS
<1>4. Suffixed(inst, id, taken) = name(Least(S))
  BY DEF Suffixed
<1> HIDE DEF name
<1>5. S # {}
  <2> SUFFICES ASSUME S = {} PROVE FALSE
    OBVIOUS
  <2> DEFINE f == [n \in 0 .. N |-> name(n)]
  <2>1. f \in [0 .. N -> taken]
    OBVIOUS
  <2>2. IsFiniteSet(0 .. N) /\ Cardinality(0 .. N) = N + 1
    <3> HIDE DEF N
    <3> QED BY <1>1, FS_Interval
  <2>3. PICK x, y \in 0 .. N : x # y /\ f[x] = f[y]
    <3>1. Cardinality(taken) < Cardinality(0 .. N)
      BY <1>1, <2>2
    <3> DEFINE A == 0 .. N
    <3>a. f \in [A -> taken] /\ IsFiniteSet(A) /\ Cardinality(taken) < Cardinality(A)
      <4> HIDE DEF f
      <4> QED BY <2>1, <2>2, <3>1
    <3> HIDE DEF f, A
    <3>2. \E x, y \in A : x # y /\ f[x] = f[y]
      BY <3>a, FS_PigeonHole
    <3> QED BY <3>2 DEF A
  <2>4. Len(name(x)) = Len(name(y)) /\ x \in Nat /\ y \in Nat
    BY <2>3
  <2>5. Len(inst) + x = Len(inst) + y
    BY <1>2, <2>4
  <2> QED BY <1>3, <2>3, <2>4, <2>5
<1>6. S \subseteq Int /\ \A n \in S : 0 <= n
  BY <1>1
<1>7. Least(S) \in S
  <2>1. 0 \in Int
    OBVIOUS
  <2> HIDE DEF S
  <2>2. ASSUME NEW b \in Int, \A n \in S : b <= n PROVE Least(S) \in S
    BY <1>5, <1>6, <2>2, LeastIs
  <2> QED BY <1>6, <2>1, <2>2
<1> QED BY <1>4, <1>7

LEMMA EntryRenamed ==
  ASSUME NEW comp, IsComponent(comp), NEW i, NEW j
  PROVE  [comp EXCEPT !.id = i, !.instance = j] = [id |-> i, class |-> comp.class, instance |-> j]
<1>1. [comp EXCEPT !.id = i, !.instance = j]
        = [[comp EXCEPT !.id = i] EXCEPT !.instance = j]
  OBVIOUS
<1>2. [comp EXCEPT !.id = i] = [id |-> i, class |-> comp.class, instance |-> comp.instance]
  BY DEF IsComponent
<1>3. \A a, b : [[id |-> i, class |-> a, instance |-> b] EXCEPT !.instance = j]
                 = [id |-> i, class |-> a, instance |-> j]
  OBVIOUS
<1> QED BY <1>1, <1>2, <1>3

LEMMA ComponentInstalled ==
  ASSUME NEW topo, Shaped(topo), NEW comp, IsComponent(comp),
         comp.instance \in Seq(Range(comp.instance))
  PROVE  LET new == InstallComponent(topo, comp)
         IN  /\ Shaped(new) /\ SameHead(topo, new)
             /\ Sound(topo) => Sound(new)
             /\ topo.components \subseteq new.components
             /\ new.commands = topo.commands /\ new.wiring = topo.wiring
             /\ Classes(new) = Classes(topo) \cup {comp.class}
             /\ comp.class \in Classes(topo) => new = topo
<1> DEFINE new == InstallComponent(topo, comp)
<1> DEFINE id == IF comp.id \in Ids(topo) THEN NextComponentId(topo) ELSE comp.id
<1> DEFINE instance == Suffixed(comp.instance, id, Instances(topo))
<1> DEFINE entry == [id |-> id, class |-> comp.class, instance |-> instance]
<1>1. CASE comp.class \in Classes(topo)
  <2>1. new = topo
    BY <1>1 DEF InstallComponent
  <2> QED BY <1>1, <2>1 DEF SameHead
<1>2. CASE comp.class \notin Classes(topo)
  <2>1. id \in Int /\ id \notin Ids(topo)
    BY NextIdIsFree DEF IsComponent
  <2>2. instance \notin Instances(topo)
    <3>1. IsFiniteSet(Instances(topo))
      BY EntrySets
    <3> HIDE DEF id
    <3> QED BY <3>1, SuffixedIsFree
  <2>3. [comp EXCEPT !.id = id, !.instance = Suffixed(@, id, Instances(topo))] = entry
    <3> HIDE DEF id
    <3>1. [comp EXCEPT !.id = id, !.instance = instance] = entry
      BY EntryRenamed
    <3> QED BY <3>1
  <2>4. new = WithComponent(topo, entry)
    BY <1>2, <2>3 DEF InstallComponent
  <2> HIDE DEF id, instance
  <2>5. IsComponent(entry) /\ ComponentAccepted(topo, entry)
    BY <1>2, <2>1, <2>2 DEF IsComponent, ComponentAccepted
  <2>6. /\ Shaped(new) /\ SameHead(topo, new)
        /\ Sound(topo) => Sound(new)
        /\ new.components = topo.components \cup {entry}
        /\ new.commands = topo.commands /\ new.wiring = topo.wiring
    <3> HIDE DEF entry
    <3> QED BY <2>4, <2>5, ComponentAdded
  <2>7. Classes(new) = Classes(topo) \cup {comp.class}
    <3>1. entry.class = comp.class
      OBVIOUS
    <3> HIDE DEF new, entry
    <3> QED BY <2>6, <3>1 DEF Classes
  <2>8. topo.components \subseteq new.components
    <3> HIDE DEF new
    <3> QED BY <2>6
  <2> QED BY <1>2, <2>6, <2>7, <2>8
<1> QED BY <1>1, <1>2

LEMMA OpcodeIsFree ==
  ASSUME NEW topo, Shaped(topo), NEW target, NEW opcode \in Int
  PROVE  LET free == {n \in opcode .. opcode + Len(topo.commands) :
                        <<target, n>> \notin Pairs(topo)}
         IN  Least(free) \in Int /\ <<target, Least(free)>> \notin Pairs(topo)
<1> DEFINE N == Len(topo.commands)
<1> DEFINE free == {n \in opcode .. opcode + N : <<target, n>> \notin Pairs(topo)}
<1>1. N \in Nat
  BY CommandList
<1>2. free # {}
  <2> SUFFICES ASSUME free = {} PROVE FALSE
    OBVIOUS
  <2>1. \A n \in opcode .. opcode + N : \E i \in 1 .. N :
          topo.commands[i].target = target /\ topo.commands[i].opcode = n
    <3> SUFFICES ASSUME NEW n \in opcode .. opcode + N
                 PROVE  \E i \in 1 .. N :
                          topo.commands[i].target = target /\ topo.commands[i].opcode = n
      OBVIOUS
    <3>1. <<target, n>> \in Pairs(topo)
      OBVIOUS
    <3>2. PICK k \in Commands(topo) : <<target, n>> = <<k.target, k.opcode>>
      BY <3>1 DEF Pairs
    <3>3. PICK i \in 1 .. N : k = topo.commands[i]
      BY CommandList
    <3> QED BY <3>2, <3>3
  <2> DEFINE f == [n \in opcode .. opcode + N |->
                     CHOOSE i \in 1 .. N :
                       topo.commands[i].target = target /\ topo.commands[i].opcode = n]
  <2>2. \A n \in opcode .. opcode + N : f[n] \in 1 .. N /\ topo.commands[f[n]].opcode = n
    BY <2>1
  <2>3. f \in [opcode .. opcode + N -> 1 .. N]
    BY <2>2
  <2>4. /\ IsFiniteSet(opcode .. opcode + N) /\ IsFiniteSet(1 .. N)
        /\ Cardinality(opcode .. opcode + N) = N + 1 /\ Cardinality(1 .. N) = N
    <3> HIDE DEF N
    <3>1. opcode + N \in Int /\ ~(opcode > opcode + N) /\ opcode + N - opcode + 1 = N + 1
      BY <1>1
    <3>2. (IF opcode > opcode + N THEN 0 ELSE opcode + N - opcode + 1) = N + 1
      BY <3>1
    <3>3. (IF 1 > N THEN 0 ELSE N - 1 + 1) = N
      BY <1>1
    <3> QED BY <1>1, <3>1, <3>2, <3>3, FS_Interval
  <2>5. PICK x, y \in opcode .. opcode + N : x # y /\ f[x] = f[y]
    <3>1. Cardinality(1 .. N) < Cardinality(opcode .. opcode + N)
      BY <1>1, <2>4
    <3> DEFINE A == opcode .. opcode + N
    <3>a. f \in [A -> 1 .. N] /\ IsFiniteSet(A) /\ IsFiniteSet(1 .. N)
          /\ Cardinality(1 .. N) < Cardinality(A)
      <4> HIDE DEF f
      <4> QED BY <2>3, <2>4, <3>1
    <3> HIDE DEF f, A
    <3>2. \E x, y \in A : x # y /\ f[x] = f[y]
      BY <3>a, FS_PigeonHole
    <3> QED BY <3>2 DEF A
  <2> HIDE DEF f
  <2> QED BY <2>2, <2>5
<1>3. free \subseteq Int /\ \A n \in free : opcode <= n
  BY <1>1
<1>4. Least(free) \in free
  <2> HIDE DEF free
  <2> QED BY <1>2, <1>3, LeastIs
<1> QED BY <1>3, <1>4

StandardClasses == {c.class : c \in Range(StandardComponents)}

\* A command of the table k sits with the component of its class.
AtHome(components, cmd, k) ==
  /\ k.name = cmd.name
  /\ \E c \in components :
       /\ c.id = k.target
       /\ \E s \in Range(StandardComponents) : s.id = cmd.target /\ s.class = c.class

LEMMA TargetIsHome ==
  ASSUME NEW topo, StandardClasses \subseteq Classes(topo),
         NEW target, \E s \in Range(StandardComponents) : s.id = target
  PROVE  \E c \in topo.components :
           /\ c.id = TargetOf(topo, target)
           /\ \E s \in Range(StandardComponents) : s.id = target /\ s.class = c.class
<1> DEFINE row == CHOOSE c \in Range(StandardComponents) : c.id = target
<1> DEFINE home == CHOOSE c \in topo.components : c.class = row.class
<1>1. row \in Range(StandardComponents) /\ row.id = target
  OBVIOUS
<1>2. row.class \in Classes(topo)
  <2> HIDE DEF row
  <2> QED BY <1>1 DEF StandardClasses
<1>3. \E c \in topo.components : c.class = row.class
  <2> HIDE DEF row
  <2> QED BY <1>2 DEF Classes
<1>4. home \in topo.components /\ home.class = row.class
  <2> HIDE DEF row
  <2> QED BY <1>3
<1>5. TargetOf(topo, target) = home.id
  BY DEF TargetOf
<1> HIDE DEF row, home
<1> QED BY <1>1, <1>4, <1>5

LEMMA CommandRetargeted ==
  ASSUME NEW cmd, IsCommand(cmd), NEW i, NEW j
  PROVE  [cmd EXCEPT !.target = i, !.opcode = j] = [name |-> cmd.name, target |-> i, opcode |-> j]
<1>1. [cmd EXCEPT !.target = i, !.opcode = j]
        = [[cmd EXCEPT !.target = i] EXCEPT !.opcode = j]
  OBVIOUS
<1>2. [cmd EXCEPT !.target = i] = [name |-> cmd.name, target |-> i, opcode |-> cmd.opcode]
  BY DEF IsCommand
<1>3. \A a, b : [[name |-> a, target |-> i, opcode |-> b] EXCEPT !.opcode = j]
                 = [name |-> a, target |-> i, opcode |-> j]
  OBVIOUS
<1> QED BY <1>1, <1>2, <1>3

LEMMA StandardRows ==
  /\ \A n \in 1 .. Len(StandardComponents) :
       /\ IsComponent(StandardComponents[n])
       /\ StandardComponents[n].instance \in Seq(Range(StandardComponents[n].instance))
       /\ StandardComponents[n] \in Range(StandardComponents)
  /\ \A n \in 1 .. Len(StandardCommands) :
       /\ IsCommand(StandardCommands[n])
       /\ StandardCommands[n] \in Range(StandardCommands)
       /\ \E c \in Range(StandardComponents) : c.id = StandardCommands[n].target
  /\ \A s \in Range(StandardComponents) :
       \E n \in 1 .. Len(StandardComponents) : s = StandardComponents[n]
  /\ \A s \in Range(StandardCommands) :
       \E n \in 1 .. Len(StandardCommands) : s = StandardCommands[n]
  /\ Len(StandardComponents) \in Nat /\ Len(StandardCommands) \in Nat
<1>1. /\ StandardComponents \in Seq(Range(StandardComponents))
      /\ StandardCommands \in Seq(Range(StandardCommands))
  BY StandardAssumption DEF StandardAssumption
<1>2. /\ Len(StandardComponents) \in Nat /\ Len(StandardCommands) \in Nat
      /\ DOMAIN StandardComponents = 1 .. Len(StandardComponents)
      /\ DOMAIN StandardCommands = 1 .. Len(StandardCommands)
  BY <1>1
<1>3. /\ \A n \in 1 .. Len(StandardComponents) :
           StandardComponents[n] \in Range(StandardComponents)
      /\ \A n \in 1 .. Len(StandardCommands) :
           StandardCommands[n] \in Range(StandardCommands)
      /\ \A s \in Range(StandardComponents) :
           \E n \in 1 .. Len(StandardComponents) : s = StandardComponents[n]
      /\ \A s \in Range(StandardCommands) :
           \E n \in 1 .. Len(StandardCommands) : s = StandardCommands[n]
  BY <1>2 DEF Range
<1>4. \A c \in Range(StandardComponents) :
        IsComponent(c) /\ c.instance \in Seq(Range(c.instance))
  BY StandardAssumption DEF StandardAssumption, IsComponent
<1>5. \A k \in Range(StandardCommands) :
        IsCommand(k) /\ \E c \in Range(StandardComponents) : c.id = k.target
  BY StandardAssumption DEF StandardAssumption, IsCommand
<1> QED BY <1>2, <1>3, <1>4, <1>5

LEMMA CommandInstalled ==
  ASSUME NEW topo, Shaped(topo), StandardClasses \subseteq Classes(topo),
         NEW cmd, IsCommand(cmd), \E c \in Range(StandardComponents) : c.id = cmd.target
  PROVE  LET new == InstallCommand(topo, cmd)
         IN  /\ Shaped(new) /\ SameHead(topo, new)
             /\ Sound(topo) => Sound(new)
             /\ new.components = topo.components /\ new.wiring = topo.wiring
             /\ Commands(topo) \subseteq Commands(new)
             /\ Names(new) = Names(topo) \cup {cmd.name}
             /\ \A k \in Commands(new) \ Commands(topo) : AtHome(topo.components, cmd, k)
             /\ cmd.name \in Names(topo) => new = topo
<1> DEFINE new == InstallCommand(topo, cmd)
<1> DEFINE target == TargetOf(topo, cmd.target)
<1> DEFINE free == {n \in cmd.opcode .. cmd.opcode + Len(topo.commands) :
                      <<target, n>> \notin Pairs(topo)}
<1> DEFINE entry == [name |-> cmd.name, target |-> target, opcode |-> Least(free)]
<1>1. CASE cmd.name \in Names(topo)
  <2>1. new = topo
    BY <1>1 DEF InstallCommand
  <2>2. SameHead(topo, new) /\ Commands(new) = Commands(topo) /\ Names(new) = Names(topo) \cup {cmd.name}
    BY <1>1, <2>1 DEF SameHead
  <2> QED BY <2>1, <2>2
<1>2. CASE cmd.name \notin Names(topo)
  <2>1. PICK c \in topo.components :
          /\ c.id = target
          /\ \E s \in Range(StandardComponents) : s.id = cmd.target /\ s.class = c.class
    BY TargetIsHome
  <2>2. Least(free) \in Int /\ <<target, Least(free)>> \notin Pairs(topo)
    <3>1. cmd.opcode \in Int /\ Shaped(topo)
      BY DEF IsCommand
    <3> HIDE DEF target
    <3> QED BY <3>1, OpcodeIsFree
  <2>3. [cmd EXCEPT !.target = target, !.opcode = Least(free)] = entry
    <3> HIDE DEF target, free
    <3> QED BY CommandRetargeted
  <2>4. new = WithCommand(topo, entry)
    BY <1>2, <2>3 DEF InstallCommand
  <2> HIDE DEF target, free
  <2>5. IsCommand(entry) /\ CommandAccepted(topo, entry)
    BY <2>1, <2>2 DEF IsCommand, CommandAccepted, Ids
  <2>6. /\ Shaped(new) /\ SameHead(topo, new)
        /\ Sound(topo) => Sound(new)
        /\ Commands(new) = Commands(topo) \cup {entry}
        /\ new.components = topo.components /\ new.wiring = topo.wiring
    <3> HIDE DEF entry
    <3> QED BY <2>4, <2>5, CommandAdded
  <2>7. AtHome(topo.components, cmd, entry)
    BY <2>1 DEF AtHome
  <2>8. Names(new) = Names(topo) \cup {cmd.name}
    <3>1. entry.name = cmd.name
      OBVIOUS
    <3> HIDE DEF new, entry
    <3> QED BY <2>6, <3>1 DEF Names
  <2>9. Commands(topo) \subseteq Commands(new)
        /\ \A k \in Commands(new) \ Commands(topo) : AtHome(topo.components, cmd, k)
    <3> HIDE DEF new, entry
    <3> QED BY <2>6, <2>7
  <2> HIDE DEF new
  <2>10. /\ Shaped(new) /\ SameHead(topo, new)
         /\ Sound(topo) => Sound(new)
         /\ new.components = topo.components /\ new.wiring = topo.wiring
         /\ Commands(topo) \subseteq Commands(new)
         /\ Names(new) = Names(topo) \cup {cmd.name}
         /\ \A k \in Commands(new) \ Commands(topo) : AtHome(topo.components, cmd, k)
         /\ cmd.name \in Names(topo) => new = topo
    BY <1>2, <2>6, <2>8, <2>9
  <2> QED BY <2>10 DEF new
<1> QED BY <1>1, <1>2

-----------------------------------------------------------------------------
(* The installer's loops.                                                  *)

ComponentRun(topo, g, k) ==
  g = [n \in 0 .. k |-> IF n = 0 THEN topo ELSE InstallComponent(g[n - 1], StandardComponents[n])]

CommandRun(topo, g, k) ==
  g = [n \in 0 .. k |-> IF n = 0 THEN topo ELSE InstallCommand(g[n - 1], StandardCommands[n])]

LEMMA ComponentRunExists ==
  ASSUME NEW topo, NEW L \in Nat
  PROVE  \E g : ComponentRun(topo, g, L)
<1> DEFINE S == {k \in Nat : \E g : ComponentRun(topo, g, k)}
<1>1. 0 \in S
  <2>1. ComponentRun(topo, [n \in 0 .. 0 |-> topo], 0)
    BY DEF ComponentRun
  <2> QED BY <2>1
<1>2. ASSUME NEW k \in S PROVE k + 1 \in S
  <2>1. PICK g : ComponentRun(topo, g, k)
    OBVIOUS
  <2>2. \A n \in 0 .. k :
          g[n] = IF n = 0 THEN topo ELSE InstallComponent(g[n - 1], StandardComponents[n])
    BY <2>1 DEF ComponentRun
  <2> DEFINE h == [n \in 0 .. k + 1 |->
                     IF n = k + 1 THEN InstallComponent(g[k], StandardComponents[k + 1]) ELSE g[n]]
  <2>3. \A n \in 0 .. k + 1 :
          h[n] = IF n = 0 THEN topo ELSE InstallComponent(h[n - 1], StandardComponents[n])
    <3> SUFFICES ASSUME NEW n \in 0 .. k + 1
                 PROVE  h[n] = IF n = 0 THEN topo
                               ELSE InstallComponent(h[n - 1], StandardComponents[n])
      OBVIOUS
    <3>1. CASE n = k + 1
      <4>1. n - 1 = k /\ n # 0 /\ n - 1 \in 0 .. k + 1 /\ n - 1 # k + 1
        BY <3>1
      <4>2. h[n] = InstallComponent(g[k], StandardComponents[k + 1]) /\ h[n - 1] = g[k]
        BY <3>1, <4>1
      <4> HIDE DEF h
      <4> QED BY <3>1, <4>1, <4>2
    <3>2. CASE n = 0
      <4>1. h[0] = g[0] /\ g[0] = topo
        BY <2>2
      <4> HIDE DEF h
      <4> QED BY <3>2, <4>1
    <3>3. CASE n # k + 1 /\ n # 0
      <4>1. n \in 0 .. k /\ n - 1 \in 0 .. k + 1 /\ n - 1 # k + 1
        BY <3>3
      <4>2. h[n] = g[n] /\ h[n - 1] = g[n - 1]
        BY <3>3, <4>1
      <4> HIDE DEF h
      <4> QED BY <2>2, <3>3, <4>1, <4>2
    <3> QED BY <3>1, <3>2, <3>3
  <2>4. ComponentRun(topo, h, k + 1)
    <3>1. h = [n \in 0 .. k + 1 |-> h[n]]
      OBVIOUS
    <3> HIDE DEF h
    <3> QED BY <2>3, <3>1 DEF ComponentRun
  <2> HIDE DEF h
  <2> QED BY <2>4
<1>3. L \in S
  <2>1. S \subseteq Nat /\ L \in 0 .. L
    OBVIOUS
  <2> HIDE DEF S
  <2> QED BY <1>1, <1>2, <2>1, HandedOn
<1> QED BY <1>3

LEMMA CommandRunExists ==
  ASSUME NEW topo, NEW L \in Nat
  PROVE  \E g : CommandRun(topo, g, L)
<1> DEFINE S == {k \in Nat : \E g : CommandRun(topo, g, k)}
<1>1. 0 \in S
  <2>1. CommandRun(topo, [n \in 0 .. 0 |-> topo], 0)
    BY DEF CommandRun
  <2> QED BY <2>1
<1>2. ASSUME NEW k \in S PROVE k + 1 \in S
  <2>1. PICK g : CommandRun(topo, g, k)
    OBVIOUS
  <2>2. \A n \in 0 .. k :
          g[n] = IF n = 0 THEN topo ELSE InstallCommand(g[n - 1], StandardCommands[n])
    BY <2>1 DEF CommandRun
  <2> DEFINE h == [n \in 0 .. k + 1 |->
                     IF n = k + 1 THEN InstallCommand(g[k], StandardCommands[k + 1]) ELSE g[n]]
  <2>3. \A n \in 0 .. k + 1 :
          h[n] = IF n = 0 THEN topo ELSE InstallCommand(h[n - 1], StandardCommands[n])
    <3> SUFFICES ASSUME NEW n \in 0 .. k + 1
                 PROVE  h[n] = IF n = 0 THEN topo
                               ELSE InstallCommand(h[n - 1], StandardCommands[n])
      OBVIOUS
    <3>1. CASE n = k + 1
      <4>1. n - 1 = k /\ n # 0 /\ n - 1 \in 0 .. k + 1 /\ n - 1 # k + 1
        BY <3>1
      <4>2. h[n] = InstallCommand(g[k], StandardCommands[k + 1]) /\ h[n - 1] = g[k]
        BY <3>1, <4>1
      <4> HIDE DEF h
      <4> QED BY <3>1, <4>1, <4>2
    <3>2. CASE n = 0
      <4>1. h[0] = g[0] /\ g[0] = topo
        BY <2>2
      <4> HIDE DEF h
      <4> QED BY <3>2, <4>1
    <3>3. CASE n # k + 1 /\ n # 0
      <4>1. n \in 0 .. k /\ n - 1 \in 0 .. k + 1 /\ n - 1 # k + 1
        BY <3>3
      <4>2. h[n] = g[n] /\ h[n - 1] = g[n - 1]
        BY <3>3, <4>1
      <4> HIDE DEF h
      <4> QED BY <2>2, <3>3, <4>1, <4>2
    <3> QED BY <3>1, <3>2, <3>3
  <2>4. CommandRun(topo, h, k + 1)
    <3>1. h = [n \in 0 .. k + 1 |-> h[n]]
      OBVIOUS
    <3> HIDE DEF h
    <3> QED BY <2>3, <3>1 DEF CommandRun
  <2> HIDE DEF h
  <2> QED BY <2>4
<1>3. L \in S
  <2>1. S \subseteq Nat /\ L \in 0 .. L
    OBVIOUS
  <2> HIDE DEF S
  <2> QED BY <1>1, <1>2, <2>1, HandedOn
<1> QED BY <1>3

LEMMA ComponentsInstalled ==
  ASSUME NEW topo, Shaped(topo)
  PROVE  LET new == InstallComponents(topo)
         IN  /\ Shaped(new) /\ SameHead(topo, new)
             /\ Sound(topo) => Sound(new)
             /\ topo.components \subseteq new.components
             /\ new.commands = topo.commands /\ new.wiring = topo.wiring
             /\ Classes(new) = Classes(topo) \cup StandardClasses
             /\ StandardClasses \subseteq Classes(topo) => new = topo
<1> DEFINE L == Len(StandardComponents)
<1> DEFINE g == CHOOSE f : ComponentRun(topo, f, L)
<1>1. ComponentRun(topo, g, L)
  <2>1. \E f : ComponentRun(topo, f, L)
    BY StandardRows, ComponentRunExists
  <2> HIDE DEF L
  <2> QED BY <2>1
<1>2. InstallComponents(topo) = g[L]
  BY DEF InstallComponents, ComponentRun
<1> HIDE DEF g
<1>3. /\ g[0] = topo
      /\ \A n \in 1 .. L : g[n] = InstallComponent(g[n - 1], StandardComponents[n])
  <2>1. L \in Nat
    BY StandardRows
  <2>2. \A n \in 0 .. L :
          g[n] = IF n = 0 THEN topo ELSE InstallComponent(g[n - 1], StandardComponents[n])
    BY <1>1 DEF ComponentRun
  <2> HIDE DEF L
  <2> QED BY <2>1, <2>2
<1> DEFINE Grown(k) ==
      /\ Shaped(g[k]) /\ SameHead(topo, g[k])
      /\ Sound(topo) => Sound(g[k])
      /\ topo.components \subseteq g[k].components
      /\ g[k].commands = topo.commands /\ g[k].wiring = topo.wiring
      /\ Classes(topo) \subseteq Classes(g[k])
      /\ Classes(g[k]) \subseteq Classes(topo) \cup StandardClasses
      /\ \A n \in 1 .. k : StandardComponents[n].class \in Classes(g[k])
      /\ StandardClasses \subseteq Classes(topo) => g[k] = topo
<1> DEFINE S == {k \in 0 .. L : Grown(k)}
<1>4. 0 \in S
  BY <1>3, StandardRows DEF SameHead
<1>5. ASSUME NEW k \in S, k < L PROVE k + 1 \in S
  <2>1. k \in 0 .. L /\ k + 1 \in 1 .. L /\ (k + 1) - 1 = k /\ k + 1 \in 0 .. L
    BY <1>5, StandardRows
  <2> DEFINE row == StandardComponents[k + 1]
  <2>2. g[k + 1] = InstallComponent(g[k], row)
    <3> HIDE DEF L
    <3> QED BY <1>3, <2>1
  <2>3. /\ IsComponent(row) /\ row.instance \in Seq(Range(row.instance))
        /\ row.class \in StandardClasses
    BY <2>1, StandardRows DEF StandardClasses
  <2>4. Grown(k)
    OBVIOUS
  <2> HIDE DEF row
  <2>5. /\ Shaped(g[k + 1]) /\ SameHead(g[k], g[k + 1])
        /\ Sound(g[k]) => Sound(g[k + 1])
        /\ g[k].components \subseteq g[k + 1].components
        /\ g[k + 1].commands = g[k].commands /\ g[k + 1].wiring = g[k].wiring
        /\ Classes(g[k + 1]) = Classes(g[k]) \cup {row.class}
        /\ row.class \in Classes(g[k]) => g[k + 1] = g[k]
    BY <2>2, <2>3, <2>4, ComponentInstalled
  <2>6. \A n \in 1 .. k + 1 : n = k + 1 \/ n \in 1 .. k
    BY <2>1
  <2>7. \A n \in 1 .. k + 1 : StandardComponents[n].class \in Classes(g[k + 1])
    BY <2>4, <2>5, <2>6 DEF row
  <2>8. Grown(k + 1)
    BY <2>3, <2>4, <2>5, <2>7 DEF SameHead
  <2> HIDE DEF L, Grown
  <2> QED BY <2>1, <2>8
<1>6. L \in S
  <2>1. S \subseteq Nat /\ L \in 0 .. L /\ L \in Nat
    BY StandardRows
  <2> HIDE DEF S, L
  <2> QED BY <1>4, <1>5, <2>1, HandedOn
<1>7. Grown(L)
  BY <1>6
<1>8. StandardClasses \subseteq Classes(g[L])
  <2> SUFFICES ASSUME NEW s \in Range(StandardComponents) PROVE s.class \in Classes(g[L])
    BY DEF StandardClasses
  <2>1. PICK n \in 1 .. L : s = StandardComponents[n]
    BY StandardRows
  <2> HIDE DEF L
  <2> QED BY <1>7, <2>1
<1> HIDE DEF L
<1> QED BY <1>2, <1>7, <1>8

LEMMA CommandsInstalled ==
  ASSUME NEW topo, Shaped(topo), StandardClasses \subseteq Classes(topo)
  PROVE  LET new == InstallCommands(topo)
         IN  /\ Shaped(new) /\ SameHead(topo, new)
             /\ Sound(topo) => Sound(new)
             /\ new.components = topo.components /\ new.wiring = topo.wiring
             /\ Commands(topo) \subseteq Commands(new)
             /\ \A s \in Range(StandardCommands) : s.name \in Names(new)
             /\ \A k \in Commands(new) \ Commands(topo) :
                  \E s \in Range(StandardCommands) : AtHome(topo.components, s, k)
             /\ (\A s \in Range(StandardCommands) : s.name \in Names(topo)) => new = topo
<1> DEFINE L == Len(StandardCommands)
<1> DEFINE g == CHOOSE f : CommandRun(topo, f, L)
<1>1. CommandRun(topo, g, L)
  <2>1. \E f : CommandRun(topo, f, L)
    BY StandardRows, CommandRunExists
  <2> HIDE DEF L
  <2> QED BY <2>1
<1>2. InstallCommands(topo) = g[L]
  BY DEF InstallCommands, CommandRun
<1> HIDE DEF g
<1>3. /\ g[0] = topo
      /\ \A n \in 1 .. L : g[n] = InstallCommand(g[n - 1], StandardCommands[n])
  <2>1. L \in Nat
    BY StandardRows
  <2>2. \A n \in 0 .. L :
          g[n] = IF n = 0 THEN topo ELSE InstallCommand(g[n - 1], StandardCommands[n])
    BY <1>1 DEF CommandRun
  <2> HIDE DEF L
  <2> QED BY <2>1, <2>2
<1> DEFINE Grown(k) ==
      /\ Shaped(g[k]) /\ SameHead(topo, g[k])
      /\ Sound(topo) => Sound(g[k])
      /\ g[k].components = topo.components /\ g[k].wiring = topo.wiring
      /\ Commands(topo) \subseteq Commands(g[k])
      /\ Names(topo) \subseteq Names(g[k])
      /\ \A n \in 1 .. k : StandardCommands[n].name \in Names(g[k])
      /\ \A c \in Commands(g[k]) \ Commands(topo) :
           \E s \in Range(StandardCommands) : AtHome(topo.components, s, c)
      /\ (\A s \in Range(StandardCommands) : s.name \in Names(topo)) => g[k] = topo
<1> DEFINE S == {k \in 0 .. L : Grown(k)}
<1>4. 0 \in S
  BY <1>3, StandardRows DEF SameHead
<1>5. ASSUME NEW k \in S, k < L PROVE k + 1 \in S
  <2>1. k \in 0 .. L /\ k + 1 \in 1 .. L /\ (k + 1) - 1 = k /\ k + 1 \in 0 .. L
    BY <1>5, StandardRows
  <2> DEFINE row == StandardCommands[k + 1]
  <2>2. g[k + 1] = InstallCommand(g[k], row)
    <3> HIDE DEF L
    <3> QED BY <1>3, <2>1
  <2>3. /\ IsCommand(row) /\ row \in Range(StandardCommands)
        /\ \E c \in Range(StandardComponents) : c.id = row.target
    BY <2>1, StandardRows
  <2>4. Grown(k)
    OBVIOUS
  <2> HIDE DEF row
  <2>5. StandardClasses \subseteq Classes(g[k])
    BY <2>4 DEF Classes
  <2>6. /\ Shaped(g[k + 1]) /\ SameHead(g[k], g[k + 1])
        /\ Sound(g[k]) => Sound(g[k + 1])
        /\ g[k + 1].components = g[k].components /\ g[k + 1].wiring = g[k].wiring
        /\ Commands(g[k]) \subseteq Commands(g[k + 1])
        /\ Names(g[k + 1]) = Names(g[k]) \cup {row.name}
        /\ \A c \in Commands(g[k + 1]) \ Commands(g[k]) : AtHome(g[k].components, row, c)
        /\ row.name \in Names(g[k]) => g[k + 1] = g[k]
    BY <2>2, <2>3, <2>4, <2>5, CommandInstalled
  <2>7. \A n \in 1 .. k + 1 : n = k + 1 \/ n \in 1 .. k
    BY <2>1
  <2>8. \A n \in 1 .. k + 1 : StandardCommands[n].name \in Names(g[k + 1])
    BY <2>4, <2>6, <2>7 DEF row
  <2>9. Grown(k + 1)
    BY <2>3, <2>4, <2>6, <2>8 DEF SameHead
  <2> HIDE DEF L, Grown
  <2> QED BY <2>1, <2>9
<1>6. L \in S
  <2>1. S \subseteq Nat /\ L \in 0 .. L /\ L \in Nat
    BY StandardRows
  <2> HIDE DEF S, L
  <2> QED BY <1>4, <1>5, <2>1, HandedOn
<1>7. Grown(L)
  BY <1>6
<1>8. \A s \in Range(StandardCommands) : s.name \in Names(g[L])
  <2> SUFFICES ASSUME NEW s \in Range(StandardCommands) PROVE s.name \in Names(g[L])
    OBVIOUS
  <2>1. PICK n \in 1 .. L : s = StandardCommands[n]
    BY StandardRows
  <2> HIDE DEF L
  <2> QED BY <1>7, <2>1
<1> HIDE DEF L
<1> QED BY <1>2, <1>7, <1>8

LEMMA WiringInstalled ==
  ASSUME NEW topo, Shaped(topo)
  PROVE  LET new == InstallWiring(topo)
             lines == {<<c.class, c.instance>> : c \in {d \in topo.components : d.class \in Wires}}
         IN  /\ Shaped(new) /\ SameHead(topo, new)
             /\ Sound(topo) => Sound(new)
             /\ new.components = topo.components /\ new.commands = topo.commands
             /\ new.wiring = topo.wiring \cup lines
             /\ lines \subseteq topo.wiring => new = topo
<1> DEFINE new == InstallWiring(topo)
<1> DEFINE lines == {<<c.class, c.instance>> : c \in {d \in topo.components : d.class \in Wires}}
<1>1. topo = [system |-> topo.system, components |-> topo.components,
              commands |-> topo.commands, wiring |-> topo.wiring, whole |-> topo.whole]
  BY DEF Shaped
<1>2. new = [topo EXCEPT !.wiring = topo.wiring \cup lines]
  BY DEF InstallWiring
<1> HIDE DEF lines
<1>3. new = [system |-> topo.system, components |-> topo.components,
             commands |-> topo.commands, wiring |-> topo.wiring \cup lines,
             whole |-> topo.whole]
  <2> HIDE DEF new
  <2> QED BY <1>1, <1>2
<1> HIDE DEF new
<1>4. /\ new.components = topo.components /\ new.commands = topo.commands
      /\ new.wiring = topo.wiring \cup lines /\ new.system = topo.system
      /\ new.whole = topo.whole
  BY <1>3
<1>5. new = [system |-> new.system, components |-> new.components,
             commands |-> new.commands, wiring |-> new.wiring, whole |-> new.whole]
  BY <1>3
<1>6. Commands(new) = Commands(topo) /\ Ids(new) = Ids(topo)
  BY <1>4 DEF Commands, Ids
<1>7. Shaped(new)
  BY <1>4, <1>5, <1>6 DEF Shaped
<1>8. Sound(topo) => Sound(new)
  BY <1>4, <1>6, <1>7 DEF Sound, Valid, Distinct
<1>9. lines \subseteq topo.wiring => new = topo
  <2> SUFFICES ASSUME lines \subseteq topo.wiring PROVE new = topo
    OBVIOUS
  <2>1. topo.wiring \cup lines = topo.wiring
    OBVIOUS
  <2> QED BY <1>1, <1>3, <2>1
<1> QED BY <1>4, <1>7, <1>8, <1>9 DEF new, lines, SameHead

\* What one run of the installer does to a topology, and that a second run
\* finds nothing to do.
LEMMA InstalledOnce ==
  ASSUME NEW topo, Shaped(topo)
  PROVE  LET new == Installed(topo)
         IN  /\ Shaped(new) /\ SameHead(topo, new) /\ Installed(new) = new
             /\ Sound(topo) => Sound(new)
             /\ Entries(topo) \subseteq Entries(new)
             /\ Classes(new) = Classes(topo) \cup StandardClasses
             /\ \A k \in Commands(new) \ Commands(topo) :
                  \E s \in Range(StandardCommands) : AtHome(new.components, s, k)
             /\ \A c \in new.components :
                  c.class \in Wires => <<c.class, c.instance>> \in new.wiring
<1> DEFINE apps == InstallComponents(topo)
<1> DEFINE cmds == InstallCommands(apps)
<1> DEFINE new == InstallWiring(cmds)
<1>1. new = Installed(topo)
  BY DEF Installed
<1>2. /\ Shaped(apps) /\ SameHead(topo, apps)
      /\ Sound(topo) => Sound(apps)
      /\ topo.components \subseteq apps.components
      /\ apps.commands = topo.commands
      /\ Classes(apps) = Classes(topo) \cup StandardClasses
  BY ComponentsInstalled
<1> HIDE DEF apps
<1>3. StandardClasses \subseteq Classes(apps)
  BY <1>2
<1>4. /\ Shaped(cmds) /\ SameHead(apps, cmds)
      /\ Sound(apps) => Sound(cmds)
      /\ cmds.components = apps.components
      /\ Commands(apps) \subseteq Commands(cmds)
      /\ \A s \in Range(StandardCommands) : s.name \in Names(cmds)
      /\ \A k \in Commands(cmds) \ Commands(apps) :
           \E s \in Range(StandardCommands) : AtHome(apps.components, s, k)
  BY <1>2, <1>3, CommandsInstalled
<1> HIDE DEF cmds
<1>5. /\ Shaped(new) /\ SameHead(cmds, new)
      /\ Sound(cmds) => Sound(new)
      /\ new.components = cmds.components /\ new.commands = cmds.commands
      /\ {<<c.class, c.instance>> : c \in {d \in cmds.components : d.class \in Wires}}
           \subseteq new.wiring
  BY <1>4, WiringInstalled
<1> HIDE DEF new
<1>6. Classes(new) = Classes(apps)
  BY <1>4, <1>5 DEF Classes
<1>7. Commands(new) = Commands(cmds) /\ Names(new) = Names(cmds) /\ Commands(apps) = Commands(topo)
  BY <1>2, <1>5 DEF Commands, Names
<1>8. \A c \in new.components : c.class \in Wires => <<c.class, c.instance>> \in new.wiring
  BY <1>5
<1>9. Installed(new) = new
  <2>1. InstallComponents(new) = new
    BY <1>3, <1>5, <1>6, ComponentsInstalled
  <2>2. InstallCommands(new) = new
    <3>1. StandardClasses \subseteq Classes(new)
      BY <1>3, <1>6
    <3>2. \A s \in Range(StandardCommands) : s.name \in Names(new)
      BY <1>4, <1>7
    <3> QED BY <1>5, <3>1, <3>2, CommandsInstalled
  <2>3. InstallWiring(new) = new
    <3>1. {<<c.class, c.instance>> : c \in {d \in new.components : d.class \in Wires}}
            \subseteq new.wiring
      BY <1>8
    <3> QED BY <1>5, <3>1, WiringInstalled
  <2> QED BY <2>1, <2>2, <2>3 DEF Installed
<1>10. Entries(topo) \subseteq Entries(new)
  BY <1>2, <1>4, <1>5, <1>7 DEF Entries
<1>11. \A k \in Commands(new) \ Commands(topo) :
         \E s \in Range(StandardCommands) : AtHome(new.components, s, k)
  BY <1>4, <1>5, <1>7
<1>12. SameHead(topo, new) /\ (Sound(topo) => Sound(new))
  BY <1>2, <1>4, <1>5 DEF SameHead
<1> QED BY <1>1, <1>2, <1>5, <1>6, <1>8, <1>9, <1>10, <1>11, <1>12

LEMMA ShapedSettles == Shaped(topology) => InstallSettles
<1> SUFFICES ASSUME Shaped(topology), Valid(topology), Distinct(topology) PROVE InstallSettles
  BY DEF InstallSettles
<1> DEFINE done == Installed(topology)
<1>1. /\ Sound(done) /\ Installed(done) = done
      /\ \A k \in Commands(done) \ Commands(topology) :
           \E s \in Range(StandardCommands) : AtHome(done.components, s, k)
      /\ \A c \in done.components : c.class \in Wires => <<c.class, c.instance>> \in done.wiring
  BY InstalledOnce DEF Sound
<1>2. Valid(done)
  BY <1>1 DEF Sound
<1> HIDE DEF done
<1>3. ASSUME NEW k \in Commands(done) \ Commands(topology)
      PROVE  LET std == CHOOSE s \in Range(StandardCommands) : s.name = k.name
                 home == CHOOSE c \in done.components : c.id = k.target
             IN  \E s \in Range(StandardComponents) : s.id = std.target /\ s.class = home.class
  <2> DEFINE std == CHOOSE s \in Range(StandardCommands) : s.name = k.name
  <2> DEFINE home == CHOOSE c \in done.components : c.id = k.target
  <2>1. PICK row \in Range(StandardCommands) : AtHome(done.components, row, k)
    BY <1>1
  <2>2. std = row
    <3>1. std \in Range(StandardCommands) /\ std.name = row.name
      BY <2>1 DEF AtHome
    <3> HIDE DEF std
    <3>2. PICK i \in 1 .. Len(StandardCommands) : std = StandardCommands[i]
      BY <3>1, StandardRows
    <3>3. PICK j \in 1 .. Len(StandardCommands) : row = StandardCommands[j]
      BY StandardRows
    <3>4. i \in DOMAIN StandardCommands /\ j \in DOMAIN StandardCommands
      <4>1. StandardCommands \in Seq(Range(StandardCommands))
        BY StandardAssumption DEF StandardAssumption
      <4> QED BY <4>1
    <3> QED BY <3>1, <3>2, <3>3, <3>4, StandardAssumption DEF StandardAssumption
  <2>3. PICK c \in done.components :
          /\ c.id = k.target
          /\ \E s \in Range(StandardComponents) : s.id = row.target /\ s.class = c.class
    BY <2>1 DEF AtHome
  <2>4. home = c
    <3>1. home \in done.components /\ home.id = c.id
      BY <2>3
    <3> HIDE DEF home
    <3> QED BY <1>2, <3>1 DEF Valid
  <2> HIDE DEF std, home
  <2>5. \E s \in Range(StandardComponents) : s.id = std.target /\ s.class = home.class
    BY <2>2, <2>3, <2>4
  <2> QED BY <2>5 DEF std, home
<1> QED BY <1>1, <1>2, <1>3 DEF InstallSettles, done

\* Whoever passes --check has the generated files of this very topology.
LEMMA ShapedIsServed == Shaped(topology) => OfferedIsServed
<1> SUFFICES ASSUME Shaped(topology), CheckPasses,
                    NEW n \in DOMAIN dictionary
             PROVE  /\ dictionary[n] \in manager.policies
                    /\ \/ dictionary[n][1] \in manager.routes
                       \/ \E c \in topology.components :
                            c.id = dictionary[n][1] /\ c.instance \in SystemInsts
  BY DEF OfferedIsServed
<1>1. dictionary = DictionaryOf(topology) /\ manager = ManagerOf(topology) /\ Valid(topology)
  BY DEF CheckPasses, Generates
<1> DEFINE named == {j \in DOMAIN topology.commands : topology.commands[j].name = n}
<1> DEFINE i == Greatest(named)
<1>2. n \in Names(topology) /\ dictionary[n] = <<topology.commands[i].target, topology.commands[i].opcode>>
  BY <1>1 DEF DictionaryOf
<1>3. i \in DOMAIN topology.commands
  <2>1. named \subseteq Int /\ \A m \in named : m <= Len(topology.commands)
    BY CommandList
  <2>2. named # {}
    BY <1>2 DEF Names, Commands
  <2>3. Len(topology.commands) \in Int
    BY CommandList
  <2>4. i \in named
    <3> HIDE DEF named
    <3> QED BY <2>1, <2>2, <2>3, GreatestIs
  <2> QED BY <2>4
<1> HIDE DEF i, named
<1>4. dictionary[n] \in Pairs(topology)
  BY <1>2, <1>3 DEF Pairs, Commands
<1>5. PICK c \in topology.components : c.id = topology.commands[i].target
  BY <1>1, <1>3 DEF Valid, Ids
<1>6. topology.commands[i] \in Commands(topology)
  BY <1>3 DEF Commands
<1>7. dictionary[n][1] = c.id
  BY <1>2, <1>5
<1>8. c.instance \notin SystemInsts => c.id \in manager.routes
  BY <1>1, <1>5, <1>6 DEF ManagerOf
<1> QED BY <1>1, <1>4, <1>7, <1>8 DEF ManagerOf

-----------------------------------------------------------------------------
(* The inductive invariant.                                                *)

\* Whatever the file or a copy of it reads as, within the bound on the commands.
Loose(topo) == Shaped(topo) /\ Len(topo.commands) <= MaxCommands + Len(StandardCommands)

\* A topology with nothing missing, cut off or mixed in: the autocoder takes
\* it and each class it names has its header.
Fit(topo, h) == Loose(topo) /\ Generates(topo) /\ Distinct(topo) /\ Classes(topo) \subseteq h

\* A session whose new class has its header already.
SessionFit(s, h) ==
  /\ s = [op |-> s.op, at |-> s.at, new |-> s.new, copy |-> s.copy]
  /\ s.op \in ComponentOps \cup {"none", "command", "install", "autocoder"}
  /\ s.at \in {"idle", "load", "edit", "save", "write", "part", "dict", "topo"}
  /\ s.new \subseteq NewClass
  /\ s.at = "idle" => s = Idle
  /\ s.op \in ComponentOps => s.new # {}
  /\ \A c \in s.new : c.class \in h
  /\ Loose(s.copy)

SessionsFit ==
  /\ session = [t \in Terminal |-> session[t]]
  /\ \A t \in Terminal : SessionFit(session[t], headers)

FilesInv ==
  /\ headers \subseteq Classes(Shipped) \cup {c.class : c \in NewClass} \cup StandardClasses
  /\ StandardClasses \subseteq headers
  /\ Loose(topology)
  /\ SessionsFit
  /\ left \in 0 .. MaxRuns
  /\ mixed \in BOOLEAN /\ raced \in BOOLEAN /\ torn \in BOOLEAN
  /\ torn => raced

\* As long as each save ran to its end with the file to itself: there is one
\* at a time, and every copy that may be written is fit and, but for the
\* moments of a save, so is the file.
Tended ==
  /\ ~mixed
  /\ \A t \in Terminal : Holding(t) => Fit(session[t].copy, headers)
  /\ \A t \in Terminal : Writing(t) => ~OthersWrite(t)
  /\ (\A t \in Terminal : ~Writing(t)) => Fit(topology, headers)

TendedInv == torn \/ Tended

\* As long as no two sessions overlapped either, what was reported is in every
\* copy that may be written and, but for the moments of a save, in the file.
Alone ==
  /\ \A t \in Terminal : Holding(t) => reported \subseteq Entries(session[t].copy)
  /\ \A t \in Terminal : Writing(t) => ~OthersHold(t)
  /\ (\A t \in Terminal : ~Writing(t)) => reported \subseteq Entries(topology)

AloneInv == raced \/ Alone

LEMMA EmptyLoose == Loose(Empty)
<1>1. 0 <= MaxCommands + Len(StandardCommands)
  BY DvUtilAssumption, StandardRows DEF DvUtilAssumption
<1> QED BY <1>1, EmptyShaped DEF Loose

LEMMA ShippedFit == Fit(Shipped, Classes(Shipped) \cup StandardClasses)
BY DvUtilAssumption DEF DvUtilAssumption, Fit, Loose

\* What a save that is cut between two rows leaves.
LEMMA PrefixesLoose ==
  ASSUME NEW topo, Loose(topo), NEW part \in Prefixes(topo)
  PROVE  Loose(part)
<1>1. /\ topo = [system |-> topo.system, components |-> topo.components,
                 commands |-> topo.commands, wiring |-> topo.wiring, whole |-> topo.whole]
      /\ topo.system \in BOOLEAN /\ topo.whole \in BOOLEAN
      /\ Len(topo.commands) \in Nat
  BY CommandList DEF Loose, Shaped
<1>2. CASE \E some \in SUBSET topo.components :
             part = [Empty EXCEPT !.system = topo.system, !.components = some]
  <2>1. PICK some \in SUBSET topo.components :
          part = [Empty EXCEPT !.system = topo.system, !.components = some]
    BY <1>2
  <2>2. part = [system |-> topo.system, components |-> some, commands |-> <<>>, wiring |-> {},
                whole |-> TRUE]
    BY <2>1 DEF Empty
  <2>3. /\ part.system = topo.system /\ part.components = some /\ part.commands = <<>>
        /\ part.wiring = {} /\ part.whole = TRUE
    BY <2>2
  <2>4. Commands(part) = {} /\ part.commands \in Seq({}) /\ Len(part.commands) = 0
    BY <2>3 DEF Commands
  <2>5. IsFiniteSet(some) /\ \A c \in some : IsComponent(c)
    BY FS_Subset DEF Loose, Shaped
  <2>6. Shaped(part)
    BY <1>1, <2>2, <2>3, <2>4, <2>5 DEF Shaped
  <2> QED BY <2>4, <2>6, EmptyShaped, EmptyLoose DEF Loose
<1>3. CASE \E n \in 0 .. Len(topo.commands) :
             part = [topo EXCEPT !.commands = SubSeq(@, 1, n), !.wiring = {}]
  <2>1. PICK n \in 0 .. Len(topo.commands) :
          part = [topo EXCEPT !.commands = SubSeq(@, 1, n), !.wiring = {}]
    BY <1>3
  <2> DEFINE cut == SubSeq(topo.commands, 1, n)
  <2>2. part = [system |-> topo.system, components |-> topo.components,
                commands |-> cut, wiring |-> {}, whole |-> topo.whole]
    BY <1>1, <2>1
  <2>3. n \in Int /\ 1 .. n \subseteq 1 .. Len(topo.commands)
        /\ \A i \in 1 .. n : topo.commands[i] \in Commands(topo)
    BY <1>1, CommandList DEF Loose
  <2>4. /\ cut \in Seq(Commands(topo)) /\ Len(cut) = n
        /\ \A i \in 1 .. n : cut[i] = topo.commands[i]
    <3>1. /\ cut \in Seq(Commands(topo)) /\ Len(cut) = IF 1 <= n THEN n - 1 + 1 ELSE 0
          /\ \A i \in 1 .. n - 1 + 1 : cut[i] = topo.commands[1 + i - 1]
      BY <2>3, SubSeqProperties
    <3> HIDE DEF cut
    <3> QED BY <1>1, <2>3, <3>1
  <2> HIDE DEF cut
  <2>5. /\ part.system = topo.system /\ part.components = topo.components /\ part.commands = cut
        /\ part.wiring = {} /\ part.whole = topo.whole
    BY <2>2
  <2>6. DOMAIN cut = 1 .. n
    BY <2>4
  <2>7. Commands(part) = {cut[i] : i \in 1 .. n}
    BY <2>5, <2>6 DEF Commands
  <2>8. \A k \in Commands(part) : k \in Commands(topo)
    BY <2>3, <2>4, <2>7
  <2>9. cut \in Seq(Commands(part))
    <3>1. \A i \in 1 .. n : cut[i] \in Commands(part)
      BY <2>7
    <3>2. cut = [i \in 1 .. n |-> cut[i]] /\ n \in Nat
      BY <1>1, <2>4, <2>6
    <3>3. cut \in [1 .. n -> Commands(part)]
      BY <3>1, <3>2
    <3> QED BY <3>2, <3>3
  <2>10. Shaped(part)
    BY <1>1, <2>2, <2>5, <2>8, <2>9 DEF Loose, Shaped
  <2>11. Len(part.commands) <= Len(topo.commands) /\ Len(part.commands) \in Nat
    BY <1>1, <2>4, <2>5
  <2>12. MaxCommands + Len(StandardCommands) \in Int
    BY DvUtilAssumption, StandardRows DEF DvUtilAssumption
  <2> QED BY <1>1, <2>10, <2>11, <2>12 DEF Loose
<1>4. CASE \E some \in SUBSET topo.wiring : part = [topo EXCEPT !.wiring = some]
  <2>1. PICK some \in SUBSET topo.wiring : part = [topo EXCEPT !.wiring = some]
    BY <1>4
  <2>2. part = [system |-> topo.system, components |-> topo.components,
                commands |-> topo.commands, wiring |-> some, whole |-> topo.whole]
    BY <1>1, <2>1
  <2>3. /\ part.system = topo.system /\ part.components = topo.components
        /\ part.commands = topo.commands /\ part.wiring = some /\ part.whole = topo.whole
    BY <2>2
  <2>4. Commands(part) = Commands(topo)
    BY <2>3 DEF Commands
  <2>5. Shaped(part)
    BY <2>2, <2>3, <2>4 DEF Loose, Shaped
  <2> QED BY <2>3, <2>5 DEF Loose
<1> QED BY <1>2, <1>3, <1>4 DEF Prefixes

LEMMA ScrapsLoose == \A topo \in Scraps : Loose(topo)
BY DvUtilAssumption DEF DvUtilAssumption, Loose

LEMMA FilesInit == Init => FilesInv
<1> SUFFICES ASSUME Init PROVE FilesInv
  OBVIOUS
<1>1. Loose(topology)
  BY ShippedFit DEF Init, Fit
<1>2. SessionFit(Idle, headers)
  <2>1. Idle = [op |-> Idle.op, at |-> Idle.at, new |-> Idle.new, copy |-> Idle.copy]
        /\ Idle.op = "none" /\ Idle.at = "idle" /\ Idle.new = {} /\ Idle.copy = Empty
    BY DEF Idle
  <2> QED BY <2>1, EmptyLoose DEF SessionFit, ComponentOps
<1>3. SessionsFit
  BY <1>2 DEF Init, SessionsFit
<1>4. left \in 0 .. MaxRuns
  BY DvUtilAssumption DEF Init, DvUtilAssumption
<1>5. mixed = FALSE /\ raced = FALSE /\ torn = FALSE
  BY DEF Init
<1> QED BY <1>1, <1>3, <1>4, <1>5 DEF Init, FilesInv, StandardClasses

LEMMA TendedInit == Init => TendedInv
<1> SUFFICES ASSUME Init PROVE Tended
  BY DEF TendedInv
<1>1. Fit(topology, headers)
  BY ShippedFit DEF Init, StandardClasses
<1>2. \A t \in Terminal : ~Holding(t) /\ ~Writing(t)
  BY DEF Init, Holding, Writing, Idle
<1>3. ~mixed
  BY DEF Init
<1> QED BY <1>1, <1>2, <1>3 DEF Tended

LEMMA AloneInit == Init => AloneInv
BY DEF Init, AloneInv, Alone, Holding, Writing, Idle

LEMMA FilesTyped == FilesInv => TypeOK
<1> SUFFICES ASSUME FilesInv PROVE TypeOK
  OBVIOUS
<1>1. session \in [Terminal -> [op : ComponentOps \cup {"none", "command", "install", "autocoder"},
                                at : {"idle", "load", "edit", "save", "write", "part", "dict", "topo"},
                                new : SUBSET NewClass,
                                copy : {session[t].copy : t \in Terminal}]]
  BY DEF FilesInv, SessionsFit, SessionFit
<1>2. \A t \in Terminal :
        /\ session[t].at = "idle" => session[t] = Idle
        /\ session[t].op \in ComponentOps => session[t].new # {}
  BY DEF FilesInv, SessionsFit, SessionFit
<1>3. topology.system \in BOOLEAN /\ Len(topology.commands) <= MaxCommands + Len(StandardCommands)
  BY DEF FilesInv, Loose, Shaped
<1>4. mixed \in BOOLEAN /\ raced \in BOOLEAN /\ torn \in BOOLEAN
  BY DEF FilesInv
<1> QED BY <1>1, <1>2, <1>3, <1>4 DEF FilesInv, TypeOK, StandardClasses

LEMMA FitGrows ==
  ASSUME NEW h, NEW k, h \subseteq k
  PROVE  /\ \A topo : Fit(topo, h) => Fit(topo, k)
         /\ \A s : SessionFit(s, h) => SessionFit(s, k)
BY DEF Fit, SessionFit

LEMMA IdleFit == ASSUME NEW h PROVE SessionFit(Idle, h)
<1>1. Idle = [op |-> Idle.op, at |-> Idle.at, new |-> Idle.new, copy |-> Idle.copy]
      /\ Idle.op = "none" /\ Idle.at = "idle" /\ Idle.new = {} /\ Idle.copy = Empty
  BY DEF Idle
<1> QED BY <1>1, EmptyLoose DEF SessionFit, ComponentOps

\* A terminal that starts, with nothing loaded yet.
LEMMA StartedFit ==
  ASSUME NEW h,
         NEW op \in ComponentOps \cup {"none", "command", "install", "autocoder"},
         NEW new \in SUBSET NewClass, op \in ComponentOps => new # {},
         \A c \in new : c.class \in h
  PROVE  SessionFit([op |-> op, at |-> "load", new |-> new, copy |-> Empty], h)
BY EmptyLoose DEF SessionFit

\* One session that changes and stays fit.
LEMMA SessionStep ==
  ASSUME SessionsFit, headers \subseteq headers', NEW t \in Terminal, NEW s,
         SessionFit(s, headers'), session' = [session EXCEPT ![t] = s]
  PROVE  SessionsFit'
<1>1. session' = [u \in Terminal |-> IF u = t THEN s ELSE session[u]]
  BY DEF SessionsFit
<1>2. \A u \in Terminal : SessionFit(session[u], headers')
  BY FitGrows DEF SessionsFit
<1>3. \A u \in Terminal : SessionFit(session'[u], headers')
  BY <1>1, <1>2
<1>4. session' = [u \in Terminal |-> session'[u]]
  BY <1>1
<1> QED BY <1>3, <1>4 DEF SessionsFit

LEMMA OneSession ==
  ASSUME SessionsFit, NEW t \in Terminal, NEW s, session' = [session EXCEPT ![t] = s]
  PROVE  \A u \in Terminal : session'[u] = IF u = t THEN s ELSE session[u]
BY DEF SessionsFit

\* The ways the actions start a session and move it on.
LEMMA SessionStarts ==
  ASSUME NEW op, NEW new
  PROVE  /\ [Idle EXCEPT !.op = op, !.at = "load"]
              = [op |-> op, at |-> "load", new |-> {}, copy |-> Empty]
         /\ [Idle EXCEPT !.op = op, !.at = "load", !.new = new]
              = [op |-> op, at |-> "load", new |-> new, copy |-> Empty]
<1> DEFINE named == [op |-> op, at |-> "idle", new |-> {}, copy |-> Empty]
<1> DEFINE started == [op |-> op, at |-> "load", new |-> {}, copy |-> Empty]
<1>1. [Idle EXCEPT !.op = op] = named
  BY DEF Idle
<1>2. [named EXCEPT !.at = "load"] = started
  OBVIOUS
<1>3. [started EXCEPT !.new = new] = [op |-> op, at |-> "load", new |-> new, copy |-> Empty]
  OBVIOUS
<1>4. /\ [Idle EXCEPT !.op = op, !.at = "load"] = [[Idle EXCEPT !.op = op] EXCEPT !.at = "load"]
      /\ [Idle EXCEPT !.op = op, !.at = "load", !.new = new]
           = [[[Idle EXCEPT !.op = op] EXCEPT !.at = "load"] EXCEPT !.new = new]
  OBVIOUS
<1> HIDE DEF named
<1> QED BY <1>1, <1>2, <1>3, <1>4

LEMMA SessionMoved ==
  ASSUME SessionsFit, NEW t \in Terminal, NEW a
  PROVE  [session EXCEPT ![t].at = a]
           = [session EXCEPT ![t] = [op |-> session[t].op, at |-> a,
                                     new |-> session[t].new, copy |-> session[t].copy]]
<1>1. /\ session = [u \in Terminal |-> session[u]]
      /\ session[t] = [op |-> session[t].op, at |-> session[t].at,
                       new |-> session[t].new, copy |-> session[t].copy]
  BY DEF SessionsFit, SessionFit
<1> DEFINE moved == [op |-> session[t].op, at |-> a, new |-> session[t].new, copy |-> session[t].copy]
<1>2. [session[t] EXCEPT !.at = a] = moved
  BY <1>1
<1> QED BY <1>1, <1>2

LEMMA SessionLoaded ==
  ASSUME SessionsFit, NEW t \in Terminal, NEW a, NEW topo,
         session' = [session EXCEPT ![t].at = a, ![t].copy = topo]
  PROVE  session' = [session EXCEPT ![t] = [op |-> session[t].op, at |-> a,
                                            new |-> session[t].new, copy |-> topo]]
<1> DEFINE moved == [op |-> session[t].op, at |-> a, new |-> session[t].new, copy |-> session[t].copy]
<1> DEFINE next == [session EXCEPT ![t] = moved]
<1>1. session = [u \in Terminal |-> session[u]]
  BY DEF SessionsFit
<1>2. session' = [next EXCEPT ![t].copy = topo]
  BY SessionMoved
<1>3. next = [u \in Terminal |-> IF u = t THEN moved ELSE session[u]]
  BY <1>1
<1>4. [moved EXCEPT !.copy = topo]
        = [op |-> session[t].op, at |-> a, new |-> session[t].new, copy |-> topo]
  OBVIOUS
<1> HIDE DEF next, moved
<1>5. [next EXCEPT ![t].copy = topo] = [next EXCEPT ![t] = [moved EXCEPT !.copy = topo]]
  BY <1>3
<1>6. \A x : [next EXCEPT ![t] = x] = [session EXCEPT ![t] = x]
  BY <1>1, <1>3
<1> QED BY <1>2, <1>4, <1>5, <1>6

\* A terminal that has saved is idle, or loads for what comes next.
LEMMA SavedSession ==
  ASSUME SessionsFit, NEW t \in Terminal, NEW s \in Next_op(t),
         session' = [session EXCEPT ![t] = s]
  PROVE  /\ \A u \in Terminal : u # t => session'[u] = session[u]
         /\ session'[t].at \in {"idle", "load"}
<1>1. s.at \in {"idle", "load"}
  <2>1. \/ s = Idle
        \/ s = [op |-> "autocoder", at |-> "load", new |-> {}, copy |-> Empty]
        \/ s = [op |-> "command", at |-> "load", new |-> session[t].new, copy |-> Empty]
    BY SessionStarts DEF Next_op
  <2> QED BY <2>1 DEF Idle
<1>2. \A u \in Terminal : session'[u] = IF u = t THEN s ELSE session[u]
  BY OneSession
<1> QED BY <1>1, <1>2

-----------------------------------------------------------------------------
(* What each edit makes of a copy.                                         *)

\* The new topology has the entries of the old one and is as sound as it was.
Grown(old, new, h) ==
  /\ Shaped(new) /\ SameHead(old, new)
  /\ Entries(old) \subseteq Entries(new)
  /\ Sound(old) /\ Classes(old) \subseteq h => Sound(new) /\ Classes(new) \subseteq h

LEMMA NewClassChosen ==
  ASSUME NEW t \in Terminal, SessionFit(session[t], headers), session[t].op \in ComponentOps
  PROVE  \A id \in Int : IsComponent(NewEntry(t, id)) /\ NewEntry(t, id).class \in headers
                         /\ NewEntry(t, id).id = id
<1> DEFINE new == CHOOSE c \in session[t].new : TRUE
<1>1. new \in session[t].new
  BY DEF SessionFit
<1>2. new.class \in headers
  <2> HIDE DEF new
  <2> QED BY <1>1 DEF SessionFit
<1>3. \A id : NewEntry(t, id) = [id |-> id, class |-> new.class, instance |-> new.instance]
  BY DEF NewEntry
<1> HIDE DEF new
<1> QED BY <1>2, <1>3 DEF IsComponent

LEMMA GrownByComponent ==
  ASSUME NEW old, NEW h, Shaped(old),
         NEW entry, IsComponent(entry), ComponentAccepted(old, entry), entry.class \in h
  PROVE  Grown(old, WithComponent(old, entry), h)
<1> DEFINE new == WithComponent(old, entry)
<1>1. /\ Shaped(new) /\ SameHead(old, new)
      /\ Sound(old) => Sound(new)
      /\ new.components = old.components \cup {entry}
      /\ new.commands = old.commands
  BY ComponentAdded
<1> HIDE DEF new
<1>2. Classes(old) \subseteq h => Classes(new) \subseteq h
  BY <1>1 DEF Classes
<1>3. Entries(old) \subseteq Entries(new)
  BY <1>1 DEF Entries, Commands
<1> QED BY <1>1, <1>2, <1>3 DEF Grown, new

LEMMA GrownByCommand ==
  ASSUME NEW old, NEW h, Shaped(old),
         NEW entry, IsCommand(entry), CommandAccepted(old, entry)
  PROVE  Grown(old, WithCommand(old, entry), h)
<1> DEFINE new == WithCommand(old, entry)
<1>1. /\ Shaped(new) /\ SameHead(old, new)
      /\ Sound(old) => Sound(new)
      /\ Commands(new) = Commands(old) \cup {entry}
      /\ new.components = old.components
  BY CommandAdded
<1> HIDE DEF new
<1>2. Classes(new) = Classes(old)
  BY <1>1 DEF Classes
<1>3. Entries(old) \subseteq Entries(new)
  BY <1>1 DEF Entries
<1> QED BY <1>1, <1>2, <1>3 DEF Grown, new

LEMMA GrownTwice ==
  ASSUME NEW old, NEW mid, NEW new, NEW h, Grown(old, mid, h), Grown(mid, new, h)
  PROVE  Grown(old, new, h)
BY DEF Grown, SameHead

\* Whatever a wizard or the installer makes of the copy of a terminal.
MakesOf(t, topo) ==
  \/ \E id \in ChosenId \cup {NextComponentId(session[t].copy)} :
       /\ session[t].op \in ComponentOps
       /\ ComponentAccepted(session[t].copy, NewEntry(t, id))
       /\ \/ topo = WithComponent(session[t].copy, NewEntry(t, id))
          \/ \E name \in NewName :
               LET mid == WithComponent(session[t].copy, NewEntry(t, id))
                   cmd == [name |-> name, target |-> id, opcode |-> NextOpcode(mid, id)]
               IN  CommandAccepted(mid, cmd) /\ topo = WithCommand(mid, cmd)
  \/ \E name \in NewName, target \in Ids(session[t].copy) :
       \E opcode \in {1, NextOpcode(session[t].copy, target)} :
         LET cmd == [name |-> name, target |-> target, opcode |-> opcode]
         IN  CommandAccepted(session[t].copy, cmd) /\ topo = WithCommand(session[t].copy, cmd)
  \/ topo = Installed(session[t].copy)

LEMMA MadeGrown ==
  ASSUME FilesInv, NEW t \in Terminal, NEW topo, MakesOf(t, topo)
  PROVE  Grown(session[t].copy, topo, headers)
<1> DEFINE old == session[t].copy
<1>1. SessionFit(session[t], headers) /\ Shaped(old) /\ StandardClasses \subseteq headers
  BY DEF FilesInv, SessionsFit, SessionFit, Loose
<1>2. ASSUME NEW id \in ChosenId \cup {NextComponentId(old)}, session[t].op \in ComponentOps,
             ComponentAccepted(old, NewEntry(t, id))
      PROVE  /\ id \in Int
             /\ Grown(old, WithComponent(old, NewEntry(t, id)), headers)
  <2>1. id \in Int
    BY <1>1, NextIdIsFree, DvUtilAssumption DEF DvUtilAssumption
  <2>2. IsComponent(NewEntry(t, id)) /\ NewEntry(t, id).class \in headers
    BY <1>1, <1>2, <2>1, NewClassChosen
  <2> HIDE DEF old
  <2> QED BY <1>1, <1>2, <2>1, <2>2, GrownByComponent
<1>3. ASSUME NEW mid, Grown(old, mid, headers), NEW name, NEW target, NEW opcode \in Int,
             CommandAccepted(mid, [name |-> name, target |-> target, opcode |-> opcode])
      PROVE  Grown(old, WithCommand(mid, [name |-> name, target |-> target, opcode |-> opcode]),
                   headers)
  <2> DEFINE cmd == [name |-> name, target |-> target, opcode |-> opcode]
  <2>1. IsCommand(cmd)
    BY DEF IsCommand
  <2>2. Shaped(mid)
    BY <1>3 DEF Grown
  <2> HIDE DEF cmd, old
  <2>3. Grown(mid, WithCommand(mid, cmd), headers)
    BY <1>3, <2>1, <2>2, GrownByCommand DEF cmd
  <2>4. Grown(old, WithCommand(mid, cmd), headers)
    BY <1>3, <2>3, GrownTwice
  <2> QED BY <2>4 DEF cmd
<1>4. CASE \E id \in ChosenId \cup {NextComponentId(old)} :
             /\ session[t].op \in ComponentOps
             /\ ComponentAccepted(old, NewEntry(t, id))
             /\ topo = WithComponent(old, NewEntry(t, id))
  BY <1>2, <1>4
<1>5. ASSUME NEW id \in ChosenId \cup {NextComponentId(old)}, session[t].op \in ComponentOps,
             ComponentAccepted(old, NewEntry(t, id)), NEW name \in NewName,
             LET mid == WithComponent(old, NewEntry(t, id))
                 cmd == [name |-> name, target |-> id, opcode |-> NextOpcode(mid, id)]
             IN  CommandAccepted(mid, cmd) /\ topo = WithCommand(mid, cmd)
      PROVE  Grown(old, topo, headers)
  <2> DEFINE mid == WithComponent(old, NewEntry(t, id))
  <2>1. Grown(old, mid, headers)
    BY <1>2, <1>5
  <2>2. CommandAccepted(mid, [name |-> name, target |-> id, opcode |-> NextOpcode(mid, id)])
        /\ topo = WithCommand(mid, [name |-> name, target |-> id, opcode |-> NextOpcode(mid, id)])
    BY <1>5
  <2> HIDE DEF mid, old
  <2>3. NextOpcode(mid, id) \in Int
    BY <2>1, NextOpcodeIsNumber DEF Grown
  <2> QED BY <1>3, <2>1, <2>2, <2>3
<1>6. ASSUME NEW name \in NewName, NEW target \in Ids(old),
             NEW opcode \in {1, NextOpcode(old, target)},
             CommandAccepted(old, [name |-> name, target |-> target, opcode |-> opcode]),
             topo = WithCommand(old, [name |-> name, target |-> target, opcode |-> opcode])
      PROVE  Grown(old, topo, headers)
  <2>1. opcode \in Int
    BY <1>1, <1>6, NextOpcodeIsNumber
  <2>2. Grown(old, old, headers)
    BY <1>1 DEF Grown, SameHead
  <2>3. CommandAccepted(old, [name |-> name, target |-> target, opcode |-> opcode])
        /\ topo = WithCommand(old, [name |-> name, target |-> target, opcode |-> opcode])
    BY <1>6
  <2> HIDE DEF old
  <2> QED BY <1>3, <2>1, <2>2, <2>3
<1>7. CASE topo = Installed(old)
  <2> HIDE DEF old
  <2>1. /\ Shaped(topo) /\ SameHead(old, topo)
        /\ Sound(old) => Sound(topo)
        /\ Entries(old) \subseteq Entries(topo)
        /\ Classes(topo) = Classes(old) \cup StandardClasses
    BY <1>1, <1>7, InstalledOnce
  <2>2. Classes(old) \subseteq headers => Classes(topo) \subseteq headers
    BY <1>1, <2>1
  <2> USE DEF old
  <2> QED BY <2>1, <2>2 DEF Grown
<1>8. CASE \E id \in ChosenId \cup {NextComponentId(old)}, name \in NewName :
             /\ session[t].op \in ComponentOps
             /\ ComponentAccepted(old, NewEntry(t, id))
             /\ LET mid == WithComponent(old, NewEntry(t, id))
                    cmd == [name |-> name, target |-> id, opcode |-> NextOpcode(mid, id)]
                IN  CommandAccepted(mid, cmd) /\ topo = WithCommand(mid, cmd)
  BY <1>5, <1>8
<1>9. CASE \E name \in NewName, target \in Ids(old) :
             \E opcode \in {1, NextOpcode(old, target)} :
               LET cmd == [name |-> name, target |-> target, opcode |-> opcode]
               IN  CommandAccepted(old, cmd) /\ topo = WithCommand(old, cmd)
  BY <1>6, <1>9
<1> QED BY <1>4, <1>7, <1>8, <1>9, Zenon DEF MakesOf

\* Renaming a command by hand touches nothing the entries are checked for.
LEMMA RenamedSound ==
  ASSUME NEW topo, Shaped(topo), NEW i \in DOMAIN topo.commands, NEW name
  PROVE  LET new == [topo EXCEPT !.commands[i].name = name]
         IN  /\ Shaped(new) /\ SameHead(topo, new)
             /\ Sound(topo) => Sound(new)
             /\ Len(new.commands) = Len(topo.commands)
             /\ new.components = topo.components
             /\ Entries(topo) \ {topo.commands[i]} \subseteq Entries(new)
<1> DEFINE new == [topo EXCEPT !.commands[i].name = name]
<1> DEFINE k == topo.commands[i]
<1> DEFINE renamed == [name |-> name, target |-> k.target, opcode |-> k.opcode]
<1> DEFINE N == Len(topo.commands)
<1>1. /\ topo = [system |-> topo.system, components |-> topo.components,
                 commands |-> topo.commands, wiring |-> topo.wiring, whole |-> topo.whole]
      /\ topo.commands \in Seq(Commands(topo))
      /\ N \in Nat /\ DOMAIN topo.commands = 1 .. N
      /\ k \in Commands(topo) /\ IsCommand(k)
  <2>1. k \in Commands(topo)
    BY DEF Commands
  <2> QED BY <2>1, CommandList DEF Shaped
<1>2. [k EXCEPT !.name = name] = renamed
  BY <1>1 DEF IsCommand
<1> DEFINE list == [topo.commands EXCEPT ![i] = renamed]
<1>3. new = [system |-> topo.system, components |-> topo.components,
             commands |-> list, wiring |-> topo.wiring, whole |-> topo.whole]
  <2>1. new = [topo EXCEPT !.commands = [topo.commands EXCEPT ![i] = [k EXCEPT !.name = name]]]
    OBVIOUS
  <2>2. new = [topo EXCEPT !.commands = list]
    BY <1>2, <2>1
  <2> HIDE DEF new, list
  <2> QED BY <1>1, <2>2
<1> HIDE DEF new
<1>4. /\ new.commands = list /\ new.components = topo.components
      /\ new.wiring = topo.wiring /\ new.system = topo.system /\ new.whole = topo.whole
  BY <1>3
<1>5. new = [system |-> new.system, components |-> new.components,
             commands |-> new.commands, wiring |-> new.wiring, whole |-> new.whole]
  BY <1>3
<1>6. /\ list = [j \in 1 .. N |-> IF j = i THEN renamed ELSE topo.commands[j]]
      /\ i \in 1 .. N
  <2>1. topo.commands = [j \in 1 .. N |-> topo.commands[j]]
    <3> HIDE DEF N
    <3>1. topo.commands = [j \in DOMAIN topo.commands |-> topo.commands[j]]
      BY <1>1, LenProperties
    <3> QED BY <1>1, <3>1
  <2> HIDE DEF N, renamed
  <2> QED BY <1>1, <2>1
<1>7. /\ renamed.target = k.target /\ renamed.opcode = k.opcode /\ IsCommand(renamed)
  BY <1>1 DEF IsCommand
<1> HIDE DEF list, N, renamed
<1>8. DOMAIN list = 1 .. N /\ \A j \in 1 .. N : list[j] = IF j = i THEN renamed ELSE topo.commands[j]
  BY <1>6
<1>9. /\ \A j \in 1 .. N : list[j] \in Commands(new)
      /\ \A c \in Commands(new) : \E j \in 1 .. N : c = list[j]
  BY <1>4, <1>8 DEF Commands
<1>10. list \in Seq(Commands(new)) /\ Len(list) = N
  <2>1. list = [j \in 1 .. N |-> list[j]]
    BY <1>6, <1>8
  <2>2. list \in [1 .. N -> Commands(new)]
    BY <1>9, <2>1
  <2>3. N \in Nat
    BY <1>1
  <2> QED BY <2>2, <2>3
<1>11. \A c \in Commands(new) : IsCommand(c)
  <2> SUFFICES ASSUME NEW j \in 1 .. N PROVE IsCommand(list[j])
    BY <1>9
  <2>1. topo.commands[j] \in Commands(topo)
    BY <1>1 DEF Commands
  <2> QED BY <1>7, <1>8, <2>1 DEF Shaped
<1>12. Shaped(new)
  BY <1>4, <1>5, <1>10, <1>11 DEF Shaped
<1>13. \A j \in 1 .. N : list[j].target = topo.commands[j].target
                          /\ list[j].opcode = topo.commands[j].opcode
  BY <1>7, <1>8
<1>14. Ids(new) = Ids(topo) /\ (Distinct(topo) => Distinct(new))
  BY <1>4 DEF Ids, Distinct
<1>15. Valid(topo) => Valid(new)
  BY <1>1, <1>4, <1>8, <1>13, <1>14 DEF Valid
<1>16. Entries(topo) \ {k} \subseteq Entries(new)
  <2>1. Commands(topo) \ {k} \subseteq Commands(new)
    <3> SUFFICES ASSUME NEW j \in 1 .. N, topo.commands[j] # k
                 PROVE  topo.commands[j] \in Commands(new)
      BY <1>1 DEF Commands
    <3>1. list[j] = topo.commands[j]
      BY <1>8
    <3> QED BY <1>9, <3>1
  <2> HIDE DEF k
  <2> QED BY <1>4, <2>1 DEF Entries
<1> QED BY <1>4, <1>10, <1>12, <1>14, <1>15, <1>16 DEF Sound, SameHead, N, new

-----------------------------------------------------------------------------
(* Every step keeps the files and the copies what they may be.             *)

\* All the edits are one: the copy becomes a topology made of it.
LEMMA EditsMake ==
  ASSUME NEW t \in Terminal, Works(t), session[t].at = "edit"
  PROVE  \/ \E topo : MakesOf(t, topo) /\ Edited(t, topo)
         \/ session' = [session EXCEPT ![t] = Idle]
            /\ UNCHANGED <<headers, topology, dictionary, manager, reported, mixed, raced, torn, left>>
<1> DEFINE ids == ChosenId \cup {NextComponentId(session[t].copy)}
<1>1. ASSUME NEW id \in ids, EditComponent(t, id)
      PROVE  \E topo : MakesOf(t, topo) /\ Edited(t, topo)
  BY <1>1 DEF EditComponent, MakesOf, ComponentOps
<1>2. ASSUME NEW id \in ids, NEW name \in NewName, EditQuickstart(t, id, name)
      PROVE  \E topo : MakesOf(t, topo) /\ Edited(t, topo)
  BY <1>2 DEF EditQuickstart, MakesOf, ComponentOps
<1>3. ASSUME NEW name \in NewName, NEW target \in Ids(session[t].copy),
             NEW opcode \in {1, NextOpcode(session[t].copy, target)},
             EditCommand(t, name, target, opcode)
      PROVE  \E topo : MakesOf(t, topo) /\ Edited(t, topo)
  BY <1>3 DEF EditCommand, MakesOf
<1>4. CASE EditInstall(t)
  BY <1>4 DEF EditInstall, MakesOf
<1>5. /\ ~LoadTopology(t) /\ ~SaveBegin(t) /\ ~SavePart(t) /\ ~SaveEnd(t)
      /\ ~AutocoderLoad(t) /\ ~WriteDictionary(t) /\ ~WriteManager(t)
  BY DEF LoadTopology, SaveBegin, SavePart, SaveEnd, Writing, AutocoderLoad, WriteDictionary,
         WriteManager
<1> QED BY <1>1, <1>2, <1>3, <1>4, <1>5 DEF Works

\* The flags after a step that starts from FilesInv.
Flagged == mixed' \in BOOLEAN /\ raced' \in BOOLEAN /\ torn' \in BOOLEAN /\ (torn' => raced')

LEMMA FilesKept ==
  ASSUME FilesInv, [Next]_vars
  PROVE  FilesInv'
<1> USE DEF FilesInv
<1>1. /\ SessionsFit /\ Loose(topology) /\ left \in 0 .. MaxRuns
      /\ \A t \in Terminal : SessionFit(session[t], headers) /\ Loose(session[t].copy)
  BY DEF SessionsFit, SessionFit
<1>2. ASSUME UNCHANGED headers, UNCHANGED topology, UNCHANGED left, Flagged,
             NEW t \in Terminal, NEW s, SessionFit(s, headers),
             session' = [session EXCEPT ![t] = s]
      PROVE  FilesInv'
  BY <1>1, <1>2, SessionStep DEF Flagged
<1>3. ASSUME NEW t \in Terminal, NEW op \in ComponentOps, NEW new \in NewClass,
             CreateHeader(t, op, new)
      PROVE  FilesInv'
  <2>1. /\ headers' = headers \cup {new.class} /\ left > 0 /\ left' = left - 1
        /\ UNCHANGED topology /\ UNCHANGED <<mixed, raced, torn>>
        /\ session' = [session EXCEPT ![t] = [Idle EXCEPT !.op = op, !.at = "load", !.new = {new}]]
    BY <1>3 DEF CreateHeader
  <2>2. [Idle EXCEPT !.op = op, !.at = "load", !.new = {new}]
          = [op |-> op, at |-> "load", new |-> {new}, copy |-> Empty]
    BY SessionStarts
  <2>3. new.class \in headers' /\ headers \subseteq headers'
    BY <2>1
  <2>4. SessionFit([op |-> op, at |-> "load", new |-> {new}, copy |-> Empty], headers')
    BY <2>3, StartedFit
  <2>5. SessionsFit'
    BY <1>1, <2>1, <2>2, <2>3, <2>4, SessionStep
  <2>6. left' \in 0 .. MaxRuns
    BY <1>1, <2>1, DvUtilAssumption DEF DvUtilAssumption
  <2>7. /\ headers' \subseteq Classes(Shipped) \cup {c.class : c \in NewClass} \cup StandardClasses
        /\ StandardClasses \subseteq headers'
    BY <2>1
  <2> QED BY <1>1, <2>1, <2>5, <2>6, <2>7
<1>4. ASSUME NEW t \in Terminal, NEW op \in {"command", "install", "autocoder"}, Start(t, op)
      PROVE  FilesInv'
  <2>1. /\ UNCHANGED headers /\ left > 0 /\ left' = left - 1
        /\ UNCHANGED topology /\ UNCHANGED <<mixed, raced, torn>>
        /\ session' = [session EXCEPT ![t] = [Idle EXCEPT !.op = op, !.at = "load"]]
    BY <1>4 DEF Start
  <2>2. [Idle EXCEPT !.op = op, !.at = "load"]
          = [op |-> op, at |-> "load", new |-> {}, copy |-> Empty]
    BY SessionStarts
  <2>3. SessionFit([op |-> op, at |-> "load", new |-> {}, copy |-> Empty], headers')
    BY StartedFit DEF ComponentOps
  <2>4. SessionsFit'
    BY <1>1, <2>1, <2>2, <2>3, SessionStep
  <2>5. left' \in 0 .. MaxRuns
    BY <1>1, <2>1, DvUtilAssumption DEF DvUtilAssumption
  <2> QED BY <1>1, <2>1, <2>4, <2>5
<1>5. ASSUME NEW t \in Terminal, Quit(t) \/ Kill(t) PROVE FilesInv'
  <2>1. /\ UNCHANGED headers /\ UNCHANGED left
        /\ session' = [session EXCEPT ![t] = Idle]
    BY <1>5 DEF Quit, Kill
  <2>2. Flagged
    <3>1. Quit(t) => UNCHANGED <<mixed, raced, torn>>
      BY DEF Quit
    <3>2. Kill(t) => mixed' \in BOOLEAN /\ raced' = TRUE /\ torn' = TRUE
      BY DEF Kill
    <3>3. Kill(t) => Flagged
      BY <3>2, Zenon DEF Flagged
    <3> QED BY <1>5, <3>1, <3>3 DEF Flagged
  <2>3. Loose(topology')
    <3>1. Quit(t) => topology' = topology
      BY DEF Quit
    <3>2. Kill(t) => topology' \in {topology} \cup Prefixes(session[t].copy) \cup Scraps
      BY DEF Kill
    <3> QED BY <1>1, <1>5, <3>1, <3>2, PrefixesLoose, ScrapsLoose
  <2>4. SessionsFit'
    BY <1>1, <2>1, IdleFit, SessionStep
  <2> QED BY <1>1, <2>1, <2>2, <2>3, <2>4 DEF Flagged
<1>6. ASSUME NEW t \in Terminal, session[t].at # "idle", NEW a \in {"edit", "save", "write", "part", "dict", "topo"},
             NEW topo, Loose(topo)
      PROVE  SessionFit([op |-> session[t].op, at |-> a, new |-> session[t].new, copy |-> topo],
                        headers)
  BY <1>1, <1>6 DEF SessionFit
<1>7. ASSUME NEW t \in Terminal, LoadTopology(t) \/ AutocoderLoad(t) PROVE FilesInv'
  <2>1. PICK a \in {"edit", "dict"} :
          session' = [session EXCEPT ![t].at = a, ![t].copy = topology]
    BY <1>7 DEF LoadTopology, AutocoderLoad
  <2>2. session[t].at # "idle" /\ UNCHANGED headers /\ UNCHANGED topology /\ UNCHANGED left
    BY <1>7 DEF LoadTopology, AutocoderLoad
  <2>3. Flagged
    <3>1. AutocoderLoad(t) => UNCHANGED <<mixed, raced, torn>>
      BY DEF AutocoderLoad
    <3>2. LoadTopology(t) => /\ UNCHANGED mixed
                             /\ raced' = (raced \/ OthersWrite(t)) /\ torn' = (torn \/ OthersWrite(t))
      BY DEF LoadTopology
    <3>3. LoadTopology(t) => Flagged
      BY <3>2, Zenon DEF Flagged
    <3> QED BY <1>7, <3>1, <3>3 DEF Flagged
  <2>4. session' = [session EXCEPT ![t] = [op |-> session[t].op, at |-> a,
                                           new |-> session[t].new, copy |-> topology]]
    BY <1>1, <2>1, SessionLoaded
  <2> QED BY <1>1, <1>2, <1>6, <2>2, <2>3, <2>4
<1>8. ASSUME NEW t \in Terminal, NEW topo, MakesOf(t, topo), Edited(t, topo),
             session[t].at = "edit"
      PROVE  FilesInv'
  <2>1. /\ session' = [session EXCEPT ![t].at = "save", ![t].copy = topo]
        /\ UNCHANGED headers /\ UNCHANGED topology /\ UNCHANGED left /\ UNCHANGED <<mixed, raced, torn>>
        /\ Len(topo.commands) <= MaxCommands + Len(StandardCommands)
    BY <1>8 DEF Edited
  <2>2. Loose(topo)
    BY <1>8, <2>1, MadeGrown DEF Grown, Loose
  <2>3. session' = [session EXCEPT ![t] = [op |-> session[t].op, at |-> "save",
                                           new |-> session[t].new, copy |-> topo]]
    BY <1>1, <2>1, SessionLoaded
  <2>4. Flagged
    BY <2>1 DEF Flagged
  <2>5. SessionFit([op |-> session[t].op, at |-> "save",
                    new |-> session[t].new, copy |-> topo], headers)
    BY <1>6, <1>8, <2>2
  <2> QED BY <1>2, <2>1, <2>3, <2>4, <2>5
<1>9. ASSUME NEW t \in Terminal, SaveBegin(t) PROVE FilesInv'
  <2>1. /\ session[t].at = "save" /\ topology' = Empty
        /\ session' = [session EXCEPT ![t].at = "write"]
        /\ UNCHANGED headers /\ UNCHANGED left
    BY <1>9 DEF SaveBegin
  <2>2. Flagged
    <3>1. OthersWrite(t) => OthersHold(t)
      BY DEF OthersWrite, OthersHold, Holding
    <3>2. OthersWrite(t) \in BOOLEAN /\ OthersHold(t) \in BOOLEAN
      BY DEF OthersWrite, OthersHold
    <3> QED BY <1>9, <3>1, <3>2, Zenon DEF SaveBegin, Flagged
  <2>3. session' = [session EXCEPT ![t] = [op |-> session[t].op, at |-> "write",
                                           new |-> session[t].new, copy |-> session[t].copy]]
    BY <1>1, <2>1, SessionMoved
  <2>4. SessionFit([op |-> session[t].op, at |-> "write",
                    new |-> session[t].new, copy |-> session[t].copy], headers)
    BY <1>1, <1>6, <2>1
  <2>5. SessionsFit'
    BY <1>1, <2>1, <2>3, <2>4, SessionStep
  <2> QED BY <1>1, <2>1, <2>2, <2>5, EmptyLoose DEF Flagged
<1>10. ASSUME NEW t \in Terminal, SaveEnd(t) PROVE FilesInv'
  <2>1. /\ topology' = session[t].copy \/ topology' \in Scraps
        /\ \E s \in Next_op(t) : session' = [session EXCEPT ![t] = s]
        /\ UNCHANGED headers /\ UNCHANGED left
    BY <1>10 DEF SaveEnd
  <2>2. PICK s \in Next_op(t) : session' = [session EXCEPT ![t] = s]
    BY <2>1
  <2>3. SessionFit(s, headers)
    <3>1. /\ s = Idle
          \/ s = [Idle EXCEPT !.op = "autocoder", !.at = "load"]
          \/ s = [Idle EXCEPT !.op = "command", !.at = "load", !.new = session[t].new]
      BY DEF Next_op
    <3>2. [Idle EXCEPT !.op = "autocoder", !.at = "load"]
            = [op |-> "autocoder", at |-> "load", new |-> {}, copy |-> Empty]
      BY SessionStarts
    <3>3. [Idle EXCEPT !.op = "command", !.at = "load", !.new = session[t].new]
            = [op |-> "command", at |-> "load", new |-> session[t].new, copy |-> Empty]
      BY SessionStarts
    <3>4. SessionFit([op |-> "autocoder", at |-> "load", new |-> {}, copy |-> Empty], headers)
      BY StartedFit DEF ComponentOps
    <3>5. SessionFit([op |-> "command", at |-> "load", new |-> session[t].new, copy |-> Empty],
                     headers)
      <4>1. session[t].new \in SUBSET NewClass /\ \A c \in session[t].new : c.class \in headers
        BY <1>1 DEF SessionFit
      <4> QED BY <4>1, StartedFit DEF ComponentOps
    <3> QED BY <3>1, <3>2, <3>3, <3>4, <3>5, IdleFit
  <2>4. SessionsFit'
    BY <1>1, <2>1, <2>2, <2>3, SessionStep
  <2>5. Loose(topology')
    BY <1>1, <2>1, ScrapsLoose
  <2>6. Flagged
    BY <1>10 DEF SaveEnd, Flagged
  <2> QED BY <1>1, <2>1, <2>4, <2>5, <2>6 DEF Flagged
<1>11. ASSUME NEW t \in Terminal, SavePart(t) PROVE FilesInv'
  <2>1. /\ session[t].at = "write"
        /\ topology' \in Prefixes(session[t].copy) \/ topology' \in Scraps
        /\ session' = [session EXCEPT ![t].at = "part"]
        /\ UNCHANGED headers /\ UNCHANGED left /\ UNCHANGED <<mixed, raced, torn>>
    BY <1>11 DEF SavePart
  <2>2. Loose(topology')
    BY <1>1, <2>1, PrefixesLoose, ScrapsLoose
  <2>3. session' = [session EXCEPT ![t] = [op |-> session[t].op, at |-> "part",
                                           new |-> session[t].new, copy |-> session[t].copy]]
    BY <1>1, <2>1, SessionMoved
  <2>4. SessionFit([op |-> session[t].op, at |-> "part",
                    new |-> session[t].new, copy |-> session[t].copy], headers)
    BY <1>1, <1>6, <2>1
  <2>5. SessionsFit'
    BY <1>1, <2>1, <2>3, <2>4, SessionStep
  <2> QED BY <1>1, <2>1, <2>2, <2>5
<1>12. ASSUME NEW t \in Terminal, WriteDictionary(t) PROVE FilesInv'
  <2>1. /\ session[t].at = "dict"
        /\ session' = [session EXCEPT ![t].at = "topo"]
        /\ UNCHANGED headers /\ UNCHANGED topology /\ UNCHANGED left /\ UNCHANGED <<mixed, raced, torn>>
    BY <1>12 DEF WriteDictionary
  <2>2. session' = [session EXCEPT ![t] = [op |-> session[t].op, at |-> "topo",
                                           new |-> session[t].new, copy |-> session[t].copy]]
    BY <1>1, <2>1, SessionMoved
  <2>3. SessionFit([op |-> session[t].op, at |-> "topo",
                    new |-> session[t].new, copy |-> session[t].copy], headers)
    BY <1>1, <1>6, <2>1
  <2>4. Flagged
    BY <2>1 DEF Flagged
  <2> QED BY <1>2, <2>1, <2>2, <2>3, <2>4
<1>13. ASSUME NEW t \in Terminal, session' = [session EXCEPT ![t] = Idle],
              UNCHANGED <<headers, topology, left, mixed, raced, torn>>
       PROVE  FilesInv'
  BY <1>2, <1>13, IdleFit DEF Flagged
<1>14. ASSUME NEW t \in Terminal, WriteManager(t) PROVE FilesInv'
  BY <1>13, <1>14 DEF WriteManager
<1>15. ASSUME NEW i \in DOMAIN topology.commands, NEW name \in NewName, RenameByHand(i, name)
       PROVE  FilesInv'
  <2>1. /\ topology' = [topology EXCEPT !.commands[i].name = name]
        /\ left > 0 /\ left' = left - 1
        /\ UNCHANGED headers /\ UNCHANGED session
    BY <1>15 DEF RenameByHand
  <2>2. Flagged
    BY <1>15 DEF RenameByHand, Flagged
  <2>3. Shaped(topology') /\ Len(topology'.commands) = Len(topology.commands)
    BY <1>1, <2>1, RenamedSound DEF Loose
  <2>4. Loose(topology')
    BY <1>1, <2>3 DEF Loose
  <2>5. left' \in 0 .. MaxRuns
    BY <1>1, <2>1, DvUtilAssumption DEF DvUtilAssumption
  <2>6. SessionsFit'
    BY <1>1, <2>1 DEF SessionsFit
  <2> QED BY <1>1, <2>1, <2>2, <2>4, <2>5, <2>6 DEF Flagged
<1>16. CASE UNCHANGED vars
  BY <1>16 DEF vars, SessionsFit
<1>17. ASSUME NEW t \in Terminal, Works(t) PROVE FilesInv'
  <2>1. CASE session[t].at = "edit"
    BY <1>8, <1>13, <1>17, <2>1, EditsMake
  <2>2. CASE session[t].at # "edit"
    <3>1. \/ LoadTopology(t) \/ SaveBegin(t) \/ SavePart(t) \/ SaveEnd(t)
          \/ AutocoderLoad(t) \/ WriteDictionary(t) \/ WriteManager(t)
      BY <1>17, <2>2 DEF Works, EditComponent, EditQuickstart, EditCommand, EditInstall
    <3> QED BY <1>7, <1>9, <1>10, <1>12, <1>14, <1>11, <3>1
  <2> QED BY <2>1, <2>2
<1>18. ASSUME NEW t \in Terminal, Terminates(t) PROVE FilesInv'
  BY <1>3, <1>4, <1>5, <1>18 DEF Terminates
<1> QED BY <1>15, <1>16, <1>17, <1>18 DEF Next

-----------------------------------------------------------------------------
(* One save at a time, with the file to itself, keeps it fit.              *)

\* A step beside the saves that leaves the file alone.
LEMMA TendedAside ==
  ASSUME FilesInv, Tended, NEW t \in Terminal, NEW s, session' = [session EXCEPT ![t] = s],
         ~Writing(t), s.at \notin {"write", "part"},
         s.at \in {"edit", "save"} => Fit(s.copy, headers'),
         headers \subseteq headers', UNCHANGED <<topology, mixed>>
  PROVE  Tended'
<1>1. \A u \in Terminal : session'[u] = IF u = t THEN s ELSE session[u]
  BY OneSession DEF FilesInv
<1>2. \A u \in Terminal : u # t => session'[u] = session[u]
  BY <1>1
<1>3. session'[t] = s
  BY <1>1
<1>4. \A u \in Terminal : Writing(u)' <=> Writing(u)
  BY <1>2, <1>3 DEF Writing
<1>5. \A u \in Terminal : Holding(u)' => Fit(session'[u].copy, headers')
  <2> SUFFICES ASSUME NEW u \in Terminal, Holding(u)' PROVE Fit(session'[u].copy, headers')
    OBVIOUS
  <2>1. CASE u = t
    BY <1>3, <2>1 DEF Holding, Writing
  <2>2. CASE u # t
    <3>1. Holding(u) /\ session'[u] = session[u]
      BY <1>2, <2>2 DEF Holding, Writing
    <3>2. Fit(session[u].copy, headers)
      BY <3>1 DEF Tended
    <3> QED BY <3>1, <3>2, FitGrows
  <2> QED BY <2>1, <2>2
<1>6. \A u \in Terminal : Writing(u)' => ~OthersWrite(u)'
  BY <1>4 DEF Tended, OthersWrite
<1>7. (\A u \in Terminal : ~Writing(u)') => Fit(topology', headers')
  BY <1>4, FitGrows DEF Tended
<1>8. ~mixed'
  BY DEF Tended
<1> QED BY <1>5, <1>6, <1>7, <1>8 DEF Tended

\* The save of the one terminal that has the file open.
LEMMA TendedSaves ==
  ASSUME FilesInv, NEW t \in Terminal, NEW a \in {"write", "part"},
         Fit(session[t].copy, headers), \A u \in Terminal \ {t} : ~Writing(u),
         \A u \in Terminal : Holding(u) => Fit(session[u].copy, headers),
         session' = [session EXCEPT ![t].at = a], UNCHANGED headers, ~mixed'
  PROVE  Tended'
<1> DEFINE s == [op |-> session[t].op, at |-> a, new |-> session[t].new, copy |-> session[t].copy]
<1>1. session' = [session EXCEPT ![t] = s]
  BY SessionMoved DEF FilesInv
<1>2. s.at = a /\ s.copy = session[t].copy
  OBVIOUS
<1> HIDE DEF s
<1>3. \A u \in Terminal : session'[u] = IF u = t THEN s ELSE session[u]
  BY <1>1, OneSession DEF FilesInv
<1>4. \A u \in Terminal : u # t => session'[u] = session[u]
  BY <1>3
<1>5. session'[t] = s
  BY <1>3
<1>6. \A u \in Terminal : Writing(u)' <=> u = t
  BY <1>2, <1>4, <1>5 DEF Writing
<1>7. \A u \in Terminal : Holding(u)' => Fit(session'[u].copy, headers')
  <2> SUFFICES ASSUME NEW u \in Terminal, Holding(u)' PROVE Fit(session'[u].copy, headers')
    OBVIOUS
  <2>1. CASE u = t
    BY <1>2, <1>5, <2>1
  <2>2. CASE u # t
    BY <1>4, <2>2 DEF Holding, Writing
  <2> QED BY <2>1, <2>2
<1>8. \A u \in Terminal : Writing(u)' => ~OthersWrite(u)'
  BY <1>6 DEF OthersWrite
<1>9. ~(\A u \in Terminal : ~Writing(u)')
  BY <1>6
<1> QED BY <1>7, <1>8, <1>9 DEF Tended

LEMMA TendedKept ==
  ASSUME FilesInv, TendedInv, [Next]_vars
  PROVE  TendedInv'
<1> SUFFICES ASSUME ~torn' PROVE Tended'
  BY DEF TendedInv
<1>1. ASSUME ~torn PROVE Tended
  BY <1>1 DEF TendedInv
<1>2. SessionsFit
  BY DEF FilesInv
<1>3. ASSUME NEW t \in Terminal, Terminates(t) PROVE Tended'
  <2>1. ASSUME NEW op \in ComponentOps, NEW new \in NewClass, CreateHeader(t, op, new)
        PROVE  Tended'
    <3>1. /\ ~Writing(t) /\ UNCHANGED <<topology, mixed>> /\ headers \subseteq headers'
          /\ session' = [session EXCEPT ![t] = [op |-> op, at |-> "load", new |-> {new}, copy |-> Empty]]
      BY <2>1, SessionStarts DEF CreateHeader, Writing
    <3>2. ~torn
      BY <2>1 DEF CreateHeader
    <3> QED BY <1>1, <3>1, <3>2, TendedAside
  <2>2. ASSUME NEW op \in {"command", "install", "autocoder"}, Start(t, op) PROVE Tended'
    <3>1. /\ ~Writing(t) /\ UNCHANGED <<topology, mixed>> /\ headers \subseteq headers'
          /\ session' = [session EXCEPT ![t] = [op |-> op, at |-> "load", new |-> {}, copy |-> Empty]]
      BY <2>2, SessionStarts DEF Start, Writing
    <3>2. ~torn
      BY <2>2 DEF Start
    <3> QED BY <1>1, <3>1, <3>2, TendedAside
  <2>3. CASE Quit(t)
    <3>1. /\ ~Writing(t) /\ UNCHANGED <<topology, mixed>> /\ headers \subseteq headers'
          /\ session' = [session EXCEPT ![t] = Idle] /\ Idle.at = "idle"
      BY <2>3 DEF Quit, Idle, Writing
    <3>2. ~torn
      BY <2>3 DEF Quit
    <3> QED BY <1>1, <3>1, <3>2, TendedAside
  <2>4. ~Kill(t)
    BY DEF Kill
  <2> QED BY <1>3, <2>1, <2>2, <2>3, <2>4 DEF Terminates
<1>4. ASSUME NEW t \in Terminal, LoadTopology(t) PROVE Tended'
  <2>1. /\ session' = [session EXCEPT ![t] = [op |-> session[t].op, at |-> "edit",
                                              new |-> session[t].new, copy |-> topology]]
        /\ ~Writing(t) /\ UNCHANGED <<topology, mixed>> /\ headers \subseteq headers'
    BY <1>2, <1>4, SessionLoaded DEF LoadTopology, Writing
  <2>2. ~torn /\ ~OthersWrite(t)
    BY <1>4 DEF LoadTopology
  <2>3. Tended /\ Fit(topology, headers)
    BY <1>1, <2>1, <2>2 DEF Tended, OthersWrite
  <2>4. Fit(topology, headers')
    BY <2>1, <2>3, FitGrows
  <2> QED BY <2>1, <2>3, <2>4, TendedAside
<1>5. ASSUME NEW t \in Terminal, NEW topo, MakesOf(t, topo), Edited(t, topo),
             session[t].at = "edit"
      PROVE  Tended'
  <2>1. /\ session' = [session EXCEPT ![t].at = "save", ![t].copy = topo]
        /\ ~Writing(t) /\ UNCHANGED <<topology, mixed, headers>>
        /\ Len(topo.commands) <= MaxCommands + Len(StandardCommands)
    BY <1>5 DEF Edited, Writing
  <2>2. session' = [session EXCEPT ![t] = [op |-> session[t].op, at |-> "save",
                                           new |-> session[t].new, copy |-> topo]]
    BY <1>2, <2>1, SessionLoaded
  <2>3. Tended
    <3>1. ~torn
      BY <1>5 DEF Edited
    <3> QED BY <1>1, <3>1
  <2>4. Fit(session[t].copy, headers)
    BY <1>5, <2>3 DEF Tended, Holding
  <2>5. Grown(session[t].copy, topo, headers)
    BY <1>5, MadeGrown
  <2>6. Fit(topo, headers)
    BY <2>1, <2>4, <2>5 DEF Fit, Loose, Grown, SameHead, Sound, Generates
  <2> QED BY <2>1, <2>2, <2>3, <2>6, TendedAside
<1>6. ASSUME NEW t \in Terminal, SaveBegin(t) PROVE Tended'
  <2>1. /\ session[t].at = "save" /\ session' = [session EXCEPT ![t].at = "write"]
        /\ UNCHANGED headers
    BY <1>6 DEF SaveBegin
  <2>2. ~torn /\ ~OthersWrite(t) /\ ~mixed'
    BY <1>6 DEF SaveBegin
  <2>3. \A u \in Terminal : Holding(u) => Fit(session[u].copy, headers)
    BY <1>1, <2>2 DEF Tended
  <2>4. Fit(session[t].copy, headers) /\ \A u \in Terminal \ {t} : ~Writing(u)
    BY <2>1, <2>2, <2>3 DEF Holding, OthersWrite
  <2> QED BY <2>1, <2>2, <2>3, <2>4, TendedSaves
<1>7. ASSUME NEW t \in Terminal, SavePart(t) PROVE Tended'
  <2>1. /\ session[t].at = "write" /\ session' = [session EXCEPT ![t].at = "part"]
        /\ UNCHANGED <<headers, mixed>>
    BY <1>7 DEF SavePart
  <2>2. Tended
    <3>1. ~torn
      BY <1>7 DEF SavePart
    <3> QED BY <1>1, <3>1
  <2>3. \A u \in Terminal : Holding(u) => Fit(session[u].copy, headers)
    BY <2>2 DEF Tended
  <2>4. Writing(t) /\ Holding(t)
    BY <2>1 DEF Writing, Holding
  <2>5. Fit(session[t].copy, headers) /\ (\A u \in Terminal \ {t} : ~Writing(u)) /\ ~mixed'
    BY <2>1, <2>2, <2>3, <2>4 DEF Tended, OthersWrite
  <2> QED BY <2>1, <2>3, <2>5, TendedSaves
<1>8. ASSUME NEW t \in Terminal, SaveEnd(t) PROVE Tended'
  <2>1. /\ Writing(t) /\ UNCHANGED headers
        /\ topology' \in {session[t].copy} \cup (IF mixed THEN Scraps ELSE {})
    BY <1>8 DEF SaveEnd
  <2>2. Tended
    <3>1. ~torn
      BY <1>8 DEF SaveEnd
    <3> QED BY <1>1, <3>1
  <2>3. PICK s \in Next_op(t) : session' = [session EXCEPT ![t] = s]
    BY <1>8 DEF SaveEnd
  <2>4. topology' = session[t].copy /\ ~mixed'
    <3>1. ~mixed
      BY <2>2 DEF Tended
    <3>2. mixed' = (mixed /\ OthersWrite(t))
      BY <1>8 DEF SaveEnd
    <3> QED BY <2>1, <3>1, <3>2
  <2>5. /\ \A u \in Terminal : u # t => session'[u] = session[u]
        /\ session'[t].at \in {"idle", "load"}
    BY <1>2, <2>3, SavedSession
  <2>6. \A u \in Terminal : ~Writing(u)'
    BY <2>1, <2>2, <2>5 DEF Tended, OthersWrite, Writing
  <2>7. \A u \in Terminal : Holding(u)' => Fit(session'[u].copy, headers')
    BY <2>1, <2>2, <2>5 DEF Tended, Holding, Writing
  <2>8. Fit(topology', headers')
    BY <2>1, <2>2, <2>4 DEF Tended, Holding
  <2> QED BY <2>4, <2>6, <2>7, <2>8 DEF Tended
<1>9. ASSUME NEW t \in Terminal, AutocoderLoad(t) PROVE Tended'
  <2>1. /\ session' = [session EXCEPT ![t] = [op |-> session[t].op, at |-> "dict",
                                              new |-> session[t].new, copy |-> topology]]
        /\ ~Writing(t) /\ UNCHANGED <<topology, mixed>> /\ headers \subseteq headers'
    <3>1. session' = [session EXCEPT ![t].at = "dict", ![t].copy = topology]
          /\ ~Writing(t) /\ UNCHANGED <<topology, mixed>> /\ headers \subseteq headers'
      BY <1>9 DEF AutocoderLoad, Writing
    <3> QED BY <1>2, <3>1, SessionLoaded
  <2>2. ~torn
    BY <1>9 DEF AutocoderLoad
  <2> QED BY <1>1, <2>1, <2>2, TendedAside
<1>10. ASSUME NEW t \in Terminal, WriteDictionary(t) PROVE Tended'
  <2>1. /\ session' = [session EXCEPT ![t].at = "topo"] /\ headers \subseteq headers'
        /\ ~Writing(t) /\ UNCHANGED <<topology, mixed>>
    BY <1>10 DEF WriteDictionary, Writing
  <2>2. session' = [session EXCEPT ![t] = [op |-> session[t].op, at |-> "topo",
                                           new |-> session[t].new, copy |-> session[t].copy]]
    BY <1>2, <2>1, SessionMoved
  <2>3. ~torn
    BY <1>10 DEF WriteDictionary
  <2> QED BY <1>1, <2>1, <2>2, <2>3, TendedAside
<1>11. ASSUME NEW t \in Terminal, session[t].at \in {"edit", "topo"},
              session' = [session EXCEPT ![t] = Idle],
              UNCHANGED <<topology, headers, mixed, torn>>
       PROVE  Tended'
  <2>1. Idle.at = "idle" /\ ~Writing(t) /\ headers \subseteq headers' /\ UNCHANGED <<topology, mixed>>
    BY <1>11 DEF Idle, Writing
  <2>2. ~torn
    BY <1>11
  <2> QED BY <1>1, <1>11, <2>1, <2>2, TendedAside
<1>12. ASSUME NEW t \in Terminal, WriteManager(t) PROVE Tended'
  BY <1>11, <1>12 DEF WriteManager
<1>13. ASSUME NEW t \in Terminal, Works(t) PROVE Tended'
  <2>1. CASE session[t].at = "edit"
    BY <1>5, <1>11, <1>13, <2>1, EditsMake
  <2>2. CASE session[t].at # "edit"
    <3>1. \/ LoadTopology(t) \/ SaveBegin(t) \/ SavePart(t) \/ SaveEnd(t)
          \/ AutocoderLoad(t) \/ WriteDictionary(t) \/ WriteManager(t)
      BY <1>13, <2>2 DEF Works, EditComponent, EditQuickstart, EditCommand, EditInstall
    <3> QED BY <1>4, <1>6, <1>7, <1>8, <1>9, <1>10, <1>12, <3>1
  <2> QED BY <2>1, <2>2
<1>14. ASSUME NEW i \in DOMAIN topology.commands, NEW name \in NewName, RenameByHand(i, name)
       PROVE  Tended'
  <2>1. /\ topology' = [topology EXCEPT !.commands[i].name = name]
        /\ UNCHANGED <<session, headers, mixed>> /\ \A t \in Terminal : ~Writing(t)
    BY <1>14 DEF RenameByHand
  <2>2. Tended
    <3>1. ~torn
      BY <1>14 DEF RenameByHand
    <3> QED BY <1>1, <3>1
  <2>3. Fit(topology, headers)
    BY <2>1, <2>2 DEF Tended
  <2>4. /\ Shaped(topology') /\ SameHead(topology, topology')
        /\ Sound(topology) => Sound(topology')
        /\ Len(topology'.commands) = Len(topology.commands)
        /\ topology'.components = topology.components
    BY <2>1, <2>3, RenamedSound DEF Fit, Loose
  <2>5. Classes(topology') = Classes(topology)
    BY <2>4 DEF Classes
  <2>6. Fit(topology', headers')
    BY <2>1, <2>3, <2>4, <2>5 DEF Fit, Loose, SameHead, Sound, Generates
  <2> QED BY <2>1, <2>2, <2>6 DEF Tended, Holding, Writing, OthersWrite
<1>15. CASE UNCHANGED vars
  <2>1. ~torn /\ UNCHANGED <<session, topology, headers, mixed>>
    BY <1>15 DEF vars
  <2>2. Tended
    BY <1>1, <2>1
  <2> QED BY <2>1, <2>2 DEF Tended, Holding, Writing, OthersWrite
<1> QED BY <1>3, <1>13, <1>14, <1>15 DEF Next

-----------------------------------------------------------------------------
(* Nothing is lost by one session at a time.                               *)

\* A session that holds no copy afterwards and was not saving.
LEMMA AloneAside ==
  ASSUME FilesInv, Alone, NEW t \in Terminal, NEW s, session' = [session EXCEPT ![t] = s],
         s.at \notin {"edit", "save", "write", "part"}, ~Writing(t),
         UNCHANGED <<topology, reported>>
  PROVE  Alone'
<1>1. \A u \in Terminal : session'[u] = IF u = t THEN s ELSE session[u]
  BY OneSession DEF FilesInv
<1>2. \A u \in Terminal : u # t => session'[u] = session[u]
  BY <1>1
<1>3. session'[t].at \notin {"edit", "save", "write", "part"}
  BY <1>1
<1>4. ASSUME NEW u \in Terminal, Holding(u)'
      PROVE  /\ u # t /\ Holding(u) /\ session'[u] = session[u]
  BY <1>2, <1>3, <1>4 DEF Holding, Writing
<1>5. \A u \in Terminal : Holding(u)' => reported' \subseteq Entries(session[u].copy)'
  BY <1>4 DEF Alone, Entries, Commands
<1>6. \A u \in Terminal : Writing(u)' => ~OthersHold(u)'
  <2> SUFFICES ASSUME NEW u \in Terminal, Writing(u)',
                      NEW v \in Terminal \ {u}, Holding(v)'
               PROVE  FALSE
    BY DEF OthersHold
  <2>1. Writing(u)
    BY <1>2, <1>3 DEF Writing
  <2>2. Holding(v)
    BY <1>4
  <2> QED BY <2>1, <2>2 DEF Alone, OthersHold
<1>7. (\A u \in Terminal : ~Writing(u)') => \A u \in Terminal : ~Writing(u)
  BY <1>2 DEF Writing
<1> QED BY <1>5, <1>6, <1>7 DEF Alone, Entries, Commands

\* A session that holds a copy with everything in it, while nobody saves.
LEMMA AloneHolds ==
  ASSUME FilesInv, Alone, NEW t \in Terminal, NEW s, session' = [session EXCEPT ![t] = s],
         s.at \in {"edit", "save"}, reported \subseteq Entries(s.copy),
         \A u \in Terminal : ~Writing(u),
         UNCHANGED <<topology, reported>>
  PROVE  Alone'
<1>1. \A u \in Terminal : session'[u] = IF u = t THEN s ELSE session[u]
  BY OneSession DEF FilesInv
<1>2. \A u \in Terminal : u # t => session'[u] = session[u]
  BY <1>1
<1>3. session'[t] = s
  BY <1>1
<1>4. \A u \in Terminal : ~Writing(u)'
  BY <1>2, <1>3 DEF Writing
<1>5. \A u \in Terminal : Holding(u)' => reported' \subseteq Entries(session[u].copy)'
  <2> SUFFICES ASSUME NEW u \in Terminal, Holding(u)'
               PROVE  reported \subseteq Entries(session'[u].copy)
    BY DEF Entries, Commands
  <2>1. CASE u = t
    BY <1>3, <2>1
  <2>2. CASE u # t
    BY <1>2, <2>2 DEF Holding, Writing, Alone
  <2> QED BY <2>1, <2>2
<1>6. reported \subseteq Entries(topology)
  BY DEF Alone
<1> QED BY <1>4, <1>5, <1>6 DEF Alone, Entries, Commands

\* An edit while another session saves would make two that hold a copy.
LEMMA NoneSaves ==
  ASSUME Alone, NEW t \in Terminal, Holding(t), ~Writing(t)
  PROVE  \A u \in Terminal : ~Writing(u)
<1> SUFFICES ASSUME NEW u \in Terminal, Writing(u) PROVE FALSE
  OBVIOUS
<1>1. t \in Terminal \ {u}
  OBVIOUS
<1> QED BY <1>1 DEF Alone, OthersHold

LEMMA AloneKept ==
  ASSUME FilesInv, TendedInv, AloneInv, [Next]_vars
  PROVE  AloneInv'
<1> SUFFICES ASSUME ~raced' PROVE Alone'
  BY DEF AloneInv
<1>1. ASSUME ~raced PROVE Alone /\ ~mixed
  BY <1>1 DEF AloneInv, FilesInv, TendedInv, Tended
<1>2. SessionsFit
  BY DEF FilesInv
<1>3. ASSUME NEW t \in Terminal, Terminates(t) PROVE Alone'
  <2>1. ASSUME NEW op \in ComponentOps, NEW new \in NewClass, CreateHeader(t, op, new)
        PROVE  Alone'
    <3>1. /\ ~Writing(t) /\ UNCHANGED <<topology, reported>>
          /\ session' = [session EXCEPT ![t] = [op |-> op, at |-> "load", new |-> {new}, copy |-> Empty]]
      BY <2>1, SessionStarts DEF CreateHeader, Writing
    <3>2. ~raced
      BY <2>1 DEF CreateHeader
    <3> QED BY <1>1, <3>1, <3>2, AloneAside
  <2>2. ASSUME NEW op \in {"command", "install", "autocoder"}, Start(t, op) PROVE Alone'
    <3>1. /\ ~Writing(t) /\ UNCHANGED <<topology, reported>>
          /\ session' = [session EXCEPT ![t] = [op |-> op, at |-> "load", new |-> {}, copy |-> Empty]]
      BY <2>2, SessionStarts DEF Start, Writing
    <3>2. ~raced
      BY <2>2 DEF Start
    <3> QED BY <1>1, <3>1, <3>2, AloneAside
  <2>3. CASE Quit(t)
    <3>1. /\ ~Writing(t) /\ UNCHANGED <<topology, reported>>
          /\ session' = [session EXCEPT ![t] = Idle] /\ Idle.at = "idle"
      BY <2>3 DEF Quit, Idle, Writing
    <3>2. ~raced
      BY <2>3 DEF Quit
    <3> QED BY <1>1, <3>1, <3>2, AloneAside
  <2>4. ~Kill(t)
    BY DEF Kill
  <2> QED BY <1>3, <2>1, <2>2, <2>3, <2>4 DEF Terminates
<1>4. ASSUME NEW t \in Terminal, LoadTopology(t) PROVE Alone'
  <2>1. /\ session' = [session EXCEPT ![t] = [op |-> session[t].op, at |-> "edit",
                                              new |-> session[t].new, copy |-> topology]]
        /\ UNCHANGED <<topology, reported>>
    BY <1>2, <1>4, SessionLoaded DEF LoadTopology
  <2>2. ~raced /\ \A u \in Terminal : ~Writing(u)
    BY <1>4 DEF LoadTopology, OthersWrite, Writing
  <2>3. Alone /\ reported \subseteq Entries(topology)
    BY <1>1, <2>2 DEF Alone
  <2> QED BY <2>1, <2>2, <2>3, AloneHolds
<1>5. ASSUME NEW t \in Terminal, NEW topo, MakesOf(t, topo), Edited(t, topo),
             session[t].at = "edit"
      PROVE  Alone'
  <2>1. session' = [session EXCEPT ![t].at = "save", ![t].copy = topo]
        /\ UNCHANGED <<topology, reported>>
    BY <1>5 DEF Edited
  <2>2. session' = [session EXCEPT ![t] = [op |-> session[t].op, at |-> "save",
                                           new |-> session[t].new, copy |-> topo]]
    BY <1>2, <2>1, SessionLoaded
  <2>3. Alone
    <3>1. ~raced
      BY <1>5 DEF Edited
    <3> QED BY <1>1, <3>1
  <2>4. reported \subseteq Entries(topo)
    <3>1. reported \subseteq Entries(session[t].copy)
      BY <1>5, <2>3 DEF Alone, Holding
    <3> QED BY <1>5, <3>1, MadeGrown DEF Grown
  <2>5. \A u \in Terminal : ~Writing(u)
    BY <1>5, <2>3, NoneSaves DEF Holding, Writing
  <2> QED BY <2>1, <2>2, <2>3, <2>4, <2>5, AloneHolds
<1>6. ASSUME NEW t \in Terminal, NEW a \in {"write", "part"}, session[t].at \in {"save", "write"},
             session' = [session EXCEPT ![t].at = a], UNCHANGED reported,
             ~raced, ~OthersHold(t)
      PROVE  Alone'
  <2> DEFINE s == [op |-> session[t].op, at |-> a, new |-> session[t].new, copy |-> session[t].copy]
  <2>1. session' = [session EXCEPT ![t] = s]
    BY <1>2, <1>6, SessionMoved
  <2>2. s.at = a /\ s.copy = session[t].copy
    OBVIOUS
  <2> HIDE DEF s
  <2>3. \A u \in Terminal : session'[u] = IF u = t THEN s ELSE session[u]
    BY <1>2, <2>1, OneSession
  <2>4. \A u \in Terminal : u # t => session'[u] = session[u] /\ ~Holding(u)
    BY <1>6, <2>3 DEF OthersHold
  <2>5. session'[t].at = a /\ session'[t].copy = session[t].copy
    BY <2>2, <2>3
  <2>6. reported \subseteq Entries(session[t].copy)
    BY <1>1, <1>6 DEF Alone, Holding, Writing
  <2>7. \A u \in Terminal : Holding(u)' => u = t
    BY <2>4 DEF Holding, Writing
  <2>8. \A u \in Terminal : Holding(u)' => reported' \subseteq Entries(session[u].copy)'
    BY <1>6, <2>5, <2>6, <2>7 DEF Entries, Commands
  <2>9. \A u \in Terminal : Writing(u)' => ~OthersHold(u)'
    BY <2>7 DEF OthersHold, Holding, Writing
  <2>10. Writing(t)'
    BY <1>6, <2>5 DEF Writing
  <2> QED BY <2>8, <2>9, <2>10 DEF Alone
<1>7. ASSUME NEW t \in Terminal, SaveEnd(t) PROVE Alone'
  <2>1. /\ Writing(t) /\ topology' \in {session[t].copy} \cup (IF mixed THEN Scraps ELSE {})
        /\ reported' = reported \cup (Entries(session[t].copy) \ Entries(Shipped))
    BY <1>7 DEF SaveEnd
  <2>2. PICK s \in Next_op(t) : session' = [session EXCEPT ![t] = s]
    BY <1>7 DEF SaveEnd
  <2>3. Alone /\ ~mixed
    <3>1. ~raced
      BY <1>7 DEF SaveEnd
    <3> QED BY <1>1, <3>1
  <2>4. topology' = session[t].copy
    BY <2>1, <2>3
  <2>5. \A u \in Terminal : u # t => ~Holding(u)
    BY <2>1, <2>3 DEF Alone, OthersHold
  <2>6. \A u \in Terminal : ~Holding(u)'
    <3>1. /\ \A u \in Terminal : u # t => session'[u] = session[u]
          /\ session'[t].at \in {"idle", "load"}
      BY <1>2, <2>2, SavedSession
    <3> QED BY <2>5, <3>1 DEF Holding, Writing
  <2>7. reported' \subseteq Entries(topology)'
    <3>1. reported \subseteq Entries(session[t].copy)
      BY <2>1, <2>3 DEF Alone, Holding
    <3> QED BY <2>1, <2>4, <3>1 DEF Entries, Commands
  <2> QED BY <2>6, <2>7 DEF Alone, Holding
<1>8. ASSUME NEW t \in Terminal, AutocoderLoad(t) PROVE Alone'
  <2>1. /\ session' = [session EXCEPT ![t] = [op |-> session[t].op, at |-> "dict",
                                              new |-> session[t].new, copy |-> topology]]
        /\ ~Writing(t) /\ UNCHANGED <<topology, reported>>
    <3>1. session' = [session EXCEPT ![t].at = "dict", ![t].copy = topology]
          /\ ~Writing(t) /\ UNCHANGED <<topology, reported>>
      BY <1>8 DEF AutocoderLoad, Writing
    <3> QED BY <1>2, <3>1, SessionLoaded
  <2>2. ~raced
    BY <1>8 DEF AutocoderLoad
  <2> QED BY <1>1, <2>1, <2>2, AloneAside
<1>9. ASSUME NEW t \in Terminal, WriteDictionary(t) PROVE Alone'
  <2>1. ~Writing(t) /\ session' = [session EXCEPT ![t].at = "topo"]
        /\ UNCHANGED <<topology, reported>>
    BY <1>9 DEF WriteDictionary, Writing
  <2>2. session' = [session EXCEPT ![t] = [op |-> session[t].op, at |-> "topo",
                                           new |-> session[t].new, copy |-> session[t].copy]]
    BY <1>2, <2>1, SessionMoved
  <2>3. ~raced
    BY <1>9 DEF WriteDictionary
  <2> QED BY <1>1, <2>1, <2>2, <2>3, AloneAside
<1>10. ASSUME NEW t \in Terminal, session[t].at \in {"edit", "topo"},
              session' = [session EXCEPT ![t] = Idle],
              UNCHANGED <<topology, reported, raced>>
       PROVE  Alone'
  <2>1. Idle.at = "idle" /\ ~Writing(t)
    BY <1>10 DEF Idle, Writing
  <2>2. ~raced
    BY <1>10
  <2> QED BY <1>1, <1>10, <2>1, <2>2, AloneAside
<1>11. ASSUME NEW t \in Terminal, SaveBegin(t) PROVE Alone'
  <2>1. /\ session[t].at = "save" /\ session' = [session EXCEPT ![t].at = "write"]
        /\ UNCHANGED reported
    BY <1>11 DEF SaveBegin
  <2>2. ~raced /\ ~OthersHold(t)
    BY <1>11 DEF SaveBegin
  <2> QED BY <1>6, <2>1, <2>2
<1>12. ASSUME NEW t \in Terminal, SavePart(t) PROVE Alone'
  <2>1. /\ session[t].at = "write" /\ session' = [session EXCEPT ![t].at = "part"]
        /\ UNCHANGED reported
    BY <1>12 DEF SavePart
  <2>2. ~raced
    BY <1>12 DEF SavePart
  <2>3. ~OthersHold(t)
    BY <1>1, <2>1, <2>2 DEF Alone, Writing
  <2> QED BY <1>6, <2>1, <2>2, <2>3
<1>13. ASSUME NEW t \in Terminal, WriteManager(t) PROVE Alone'
  BY <1>10, <1>13 DEF WriteManager
<1>14. ASSUME NEW t \in Terminal, Works(t) PROVE Alone'
  <2>1. CASE session[t].at = "edit"
    BY <1>5, <1>10, <1>14, <2>1, EditsMake
  <2>2. CASE session[t].at # "edit"
    <3>1. \/ LoadTopology(t) \/ SaveBegin(t) \/ SavePart(t) \/ SaveEnd(t)
          \/ AutocoderLoad(t) \/ WriteDictionary(t) \/ WriteManager(t)
      BY <1>14, <2>2 DEF Works, EditComponent, EditQuickstart, EditCommand, EditInstall
    <3> QED BY <1>4, <1>7, <1>8, <1>9, <1>13, <1>11, <1>12, <3>1
  <2> QED BY <2>1, <2>2
<1>15. ASSUME NEW i \in DOMAIN topology.commands, NEW name \in NewName, RenameByHand(i, name)
       PROVE  Alone'
  <2>1. /\ topology' = [topology EXCEPT !.commands[i].name = name]
        /\ reported' = reported \ {topology.commands[i]} /\ UNCHANGED session
    BY <1>15 DEF RenameByHand
  <2>2. ~raced /\ \A t \in Terminal : ~Holding(t)
    BY <1>15 DEF RenameByHand
  <2>3. reported \subseteq Entries(topology)
    BY <1>1, <2>2 DEF Alone, Holding
  <2>4. Entries(topology) \ {topology.commands[i]} \subseteq Entries(topology')
    BY <2>1, RenamedSound DEF FilesInv, Loose
  <2>5. reported' \subseteq Entries(topology)'
    <3>1. reported' \subseteq Entries(topology')
      BY <2>1, <2>3, <2>4
    <3> QED BY <3>1 DEF Entries, Commands
  <2>6. \A t \in Terminal : ~Holding(t)'
    BY <2>1, <2>2 DEF Holding, Writing
  <2> QED BY <2>5, <2>6 DEF Alone, Holding
<1>16. CASE UNCHANGED vars
  <2>1. ~raced /\ UNCHANGED <<session, topology, reported>>
    BY <1>16 DEF vars
  <2> QED BY <1>1, <2>1 DEF Alone, Holding, Writing, OthersHold, Entries, Commands
<1> QED BY <1>3, <1>14, <1>15, <1>16 DEF Next

-----------------------------------------------------------------------------
(* The theorems.                                                           *)

LEMMA Invariance == Spec => [](FilesInv /\ TendedInv /\ AloneInv)
<1>1. Init => FilesInv /\ TendedInv /\ AloneInv
  BY FilesInit, TendedInit, AloneInit
<1>2. FilesInv /\ TendedInv /\ AloneInv /\ [Next]_vars => (FilesInv /\ TendedInv /\ AloneInv)'
  BY FilesKept, TendedKept, AloneKept
<1> QED BY <1>1, <1>2, PTL DEF Spec

(* Every variable of the tools stays of its type, for any tables, ids and  *)
(* number of terminals (dv-util.py, autocoder.py).                         *)
THEOREM TypeCorrect == Spec => []TypeOK
BY Invariance, FilesTyped, PTL

(* However the sessions of any number of terminals interleave, as long as  *)
(* each save ran to its end and had the file to itself while it did,       *)
(* topology.yaml is one the autocoder generates from, with each class and  *)
(* instance once and a header for each class (dv-util.py:431-494).  It is  *)
(* not claimed for a file that a save was cut short in or two were mixed   *)
(* in: dv-util.py:409-411 can leave that in any state.                     *)
THEOREM ToolsAlwaysKeepItValid == Spec => []ToolsKeepItValid
<1>1. TendedInv => ToolsKeepItValid
  BY DEF TendedInv, Tended, Fit, ToolsKeepItValid
<1> QED BY <1>1, Invariance, PTL

(* The installer, run on any topology the tools can leave whose rows are   *)
(* whole and agree, puts each command of the table, whatever the two       *)
(* tables hold, at the component of its class and is done after one run    *)
(* (dv-util.py:505-598).                                                   *)
THEOREM InstallAlwaysSettles == Spec => []InstallSettles
<1>1. FilesInv => InstallSettles
  BY ShapedSettles DEF FilesInv, Loose
<1> QED BY <1>1, Invariance, PTL

(* What one session at a time, never killed in a save, reports as added    *)
(* stays in the file until it is edited out (dv-util.py:409-430).          *)
THEOREM NothingIsLostAlone == Spec => []NothingLostAlone
<1>1. AloneInv => NothingLostAlone
  BY DEF AloneInv, Alone, NothingLostAlone
<1> QED BY <1>1, Invariance, PTL

(* Files that pass autocoder.py --check offer the ground no command the    *)
(* vehicle has no policy and no route for (autocoder.py:540-555), whatever *)
(* the saves were cut short to or mixed up into.                           *)
THEOREM OfferedIsAlwaysServed == Spec => []OfferedIsServed
<1>1. FilesInv => OfferedIsServed
  BY ShapedIsServed DEF FilesInv, Loose
<1> QED BY <1>1, Invariance, PTL

=============================================================================
