----------------------------- MODULE StorageProofs -----------------------------
(***************************************************************************)
(* What the process keeps in files: the parameter database, for every set  *)
(* of parameters, values and callers, every size and every number of calls *)
(* and starts; and the update session, for every CRC, every size of images *)
(* and of the stream's buffer.                                             *)
(***************************************************************************)
EXTENDS ParamDb, Ota, FiniteSetTheorems, TLAPS

-----------------------------------------------------------------------------
(* Tables.                                                                 *)

\* A parameter of a sound table has one slot, which a lookup finds.
LEMMA Lookup ==
  ASSUME NEW table, Sound(table)
  PROVE  /\ Ids(table) \subseteq Param
         /\ \A p \in Ids(table) :
              /\ SlotOf(table, p) \in Slots(table)
              /\ table[SlotOf(table, p)].id = p
         /\ \A i \in Slots(table) :
              /\ table[i] \in Entry /\ table[i].id \in Ids(table)
              /\ SlotOf(table, table[i].id) = i
              /\ AsMap(table)[table[i].id] = table[i].value
<1>1. \A i \in Slots(table) : table[i] \in Entry /\ table[i].id \in Ids(table)
  BY DEF Sound, Slots, Ids
<1>2. Ids(table) \subseteq Param
  BY <1>1 DEF Ids, Entry
<1>3. ASSUME NEW p \in Ids(table)
      PROVE  SlotOf(table, p) \in Slots(table) /\ table[SlotOf(table, p)].id = p
  <2>1. \E i \in Slots(table) : table[i].id = p
    BY DEF Ids
  <2> QED BY <2>1 DEF SlotOf
<1>4. ASSUME NEW i \in Slots(table) PROVE SlotOf(table, table[i].id) = i
  BY <1>1, <1>3 DEF Sound
<1> QED BY <1>1, <1>2, <1>3, <1>4 DEF AsMap

\* A table has as many parameters as entries.
LEMMA Counted ==
  ASSUME NEW table, Sound(table)
  PROVE  IsFiniteSet(Ids(table)) /\ Cardinality(Ids(table)) = Len(table)
<1> DEFINE name == [i \in Slots(table) |-> table[i].id]
<1>1. Len(table) \in Nat
  BY DEF Sound
<1>2. IsFiniteSet(Slots(table)) /\ Cardinality(Slots(table)) = Len(table)
  <2>1. 1 \in Int /\ Len(table) \in Int
    BY <1>1
  <2>2. /\ IsFiniteSet(1 .. Len(table))
        /\ Cardinality(1 .. Len(table)) = IF 1 > Len(table) THEN 0 ELSE Len(table) - 1 + 1
    BY <2>1, FS_Interval
  <2> QED BY <1>1, <2>2 DEF Slots
<1>3. name \in Bijection(Slots(table), Ids(table))
  BY DEF Bijection, Injection, IsInjective, Surjection, Ids, Sound
<1> QED BY <1>2, <1>3, FS_Bijection DEF ExistsBijection

\* What setParam makes of a table: the map it stands for is set at the
\* parameter, or left alone if the parameter is new and there is no room;
\* what was in a slot stays there, and its name with it.
LEMMA StoredSound ==
  ASSUME NEW table, Sound(table), NEW p \in Param, NEW v \in Value
  PROVE  LET new == Stored(table, p, v)
             fits == p \in Ids(table) \/ Len(table) < MAX_PARAMS IN
         /\ Sound(new)
         /\ Len(table) <= Len(new)
         /\ \A i \in Slots(table) : new[i].id = table[i].id
         /\ fits => /\ Ids(new) = Ids(table) \cup {p}
                    /\ \A q \in Ids(new) : AsMap(new)[q] = IF q = p THEN v ELSE AsMap(table)[q]
         /\ ~fits => new = table
<1> DEFINE new == Stored(table, p, v)
<1>0. /\ Len(table) \in Nat /\ table \in Seq(Entry) /\ MAX_PARAMS \in Nat
      /\ Line(p, v) \in Entry /\ Line(p, v).id = p /\ Line(p, v).value = v
  BY ParamAssumption DEF Sound, Line, Entry
<1>1. CASE p \in Ids(table)
  <2> DEFINE s == SlotOf(table, p)
  <2>1. s \in Slots(table) /\ table[s].id = p
    BY <1>1, Lookup
  <2>2. new = [table EXCEPT ![s] = [@ EXCEPT !.value = v]]
    BY <1>1 DEF Stored
  <2>3. \A i \in Slots(table) : table[i] \in Entry
    BY Lookup
  <2>4. [table[s] EXCEPT !.value = v] \in Entry
    BY <2>1, <2>3 DEF Entry
  <2>5. /\ new \in Seq(Entry) /\ Len(new) = Len(table) /\ Slots(new) = Slots(table)
        /\ \A i \in Slots(table) : /\ new[i].id = table[i].id
                                   /\ new[i].value = IF i = s THEN v ELSE table[i].value
    BY <1>0, <2>1, <2>2, <2>3, <2>4 DEF Slots, Entry
  <2>6. Sound(new)
    BY <2>5 DEF Sound
  <2>7. Ids(new) = Ids(table) \cup {p}
    BY <1>1, <2>5 DEF Ids
  <2> HIDE DEF new, s
  <2>8. ASSUME NEW q \in Ids(new)
        PROVE  AsMap(new)[q] = IF q = p THEN v ELSE AsMap(table)[q]
    <3>1. PICK i \in Slots(table) : table[i].id = q /\ new[i].id = q
      BY <2>5 DEF Ids
    <3>2. AsMap(new)[q] = new[i].value /\ AsMap(table)[q] = table[i].value
      BY <2>5, <2>6, <3>1, Lookup
    <3>3. q = p <=> i = s
      BY <2>1, <3>1 DEF Sound
    <3> QED BY <2>5, <3>2, <3>3
  <2> QED BY <1>0, <1>1, <2>5, <2>6, <2>7, <2>8 DEF new
<1>2. CASE p \notin Ids(table) /\ Len(table) < MAX_PARAMS
  <2>1. new = Append(table, Line(p, v))
    BY <1>2 DEF Stored
  <2>2. /\ new \in Seq(Entry) /\ Len(new) = Len(table) + 1
        /\ \A i \in Slots(table) : new[i] = table[i]
        /\ new[Len(table) + 1] = Line(p, v)
    BY <1>0, <2>1 DEF Slots
  <2> HIDE DEF new
  <2>3. Slots(new) = Slots(table) \cup {Len(table) + 1}
    BY <1>0, <2>2 DEF Slots
  <2>4. \A i \in Slots(table) : table[i].id # p
    BY <1>2 DEF Ids
  <2>5. Sound(new)
    BY <1>0, <1>2, <2>2, <2>3, <2>4 DEF Sound
  <2>6. Ids(new) = Ids(table) \cup {p}
    BY <1>0, <2>2, <2>3 DEF Ids
  <2>7. ASSUME NEW q \in Ids(new)
        PROVE  AsMap(new)[q] = IF q = p THEN v ELSE AsMap(table)[q]
    <3>1. CASE q = p
      BY <1>0, <2>2, <2>3, <2>5, <3>1, Lookup
    <3>2. CASE q # p
      <4>1. PICK i \in Slots(table) : table[i].id = q
        BY <2>6, <3>2 DEF Ids
      <4>2. AsMap(new)[q] = new[i].value /\ AsMap(table)[q] = table[i].value
        BY <2>2, <2>3, <2>5, <4>1, Lookup
      <4> QED BY <2>2, <3>2, <4>1, <4>2
    <3> QED BY <3>1, <3>2
  <2> QED BY <1>0, <1>2, <2>2, <2>5, <2>6, <2>7 DEF new
<1>3. CASE ~(p \in Ids(table) \/ Len(table) < MAX_PARAMS)
  <2>1. new = table
    BY <1>3 DEF Stored
  <2> QED BY <1>0, <1>3, <2>1
<1> QED BY <1>1, <1>2, <1>3

\* What a particle makes of it.
LEMMA UpsetStores ==
  ASSUME Sound(params), NEW i \in Slots(params), NEW v \in Value, Upset(i, v)
  PROVE  /\ params' = Stored(params, params[i].id, v)
         /\ params[i].id \in Ids(params) /\ params[i].id \in Param
BY Lookup DEF Upset, Stored

\* A table that is printed is a table.
LEMMA PrintedSound ==
  ASSUME NEW table, Sound(table)
  PROVE  /\ Sound(AsPrinted(table)) /\ Len(AsPrinted(table)) = Len(table)
         /\ \A i \in Slots(table) : AsPrinted(table)[i].value = Printed[table[i].value]
         /\ Ids(AsPrinted(table)) = Ids(table)
<1> DEFINE new == AsPrinted(table)
<1>1. Len(table) \in Nat /\ \A i \in Slots(table) : table[i] \in Entry
  BY Lookup DEF Sound
<1>2. /\ new \in Seq(Entry) /\ Len(new) = Len(table) /\ Slots(new) = Slots(table)
      /\ \A i \in Slots(table) : new[i] = Line(table[i].id, Printed[table[i].value])
  BY <1>1, ParamAssumption DEF AsPrinted, Slots, Entry, Line
<1> HIDE DEF new
<1>3. ASSUME NEW i \in Slots(table)
      PROVE  new[i].id = table[i].id /\ new[i].value = Printed[table[i].value]
  <2>1. new[i] = Line(table[i].id, Printed[table[i].value])
    BY <1>2
  <2> QED BY <2>1 DEF Line
<1>4. Sound(new) /\ Ids(new) = Ids(table)
  BY <1>2, <1>3 DEF Sound, Ids
<1> QED BY <1>2, <1>3, <1>4 DEF new

LEMMA EmptySound ==
  Sound(<<>>) /\ AsMap(<<>>) = <<>> /\ Ids(<<>>) = {} /\ AsPrinted(<<>>) = <<>>
<1>1. Slots(<<>>) = {}
  BY DEF Slots
<1>2. Ids(<<>>) = {}
  BY <1>1 DEF Ids
<1> QED BY <1>1, <1>2, ParamAssumption DEF Sound, AsMap, AsPrinted
-----------------------------------------------------------------------------
(* The calls.                                                              *)

LEMMA CallStates ==
  ASSUME NEW s \in CallState
  PROVE  /\ s.at \in {"idle", "found", "lock", "held", "checksum"}
         /\ s.at = "idle" => s = Idle
         /\ s.at = "found" => s.param \in Param
         /\ s.at \in {"lock", "held"} =>
              /\ s.does \in {"get", "set", "verify"}
              /\ s.does \in {"get", "set"} => s.param \in Param
              /\ s.does = "set" => s.value \in Value
         /\ s.at = "lock" => /\ [s EXCEPT !.at = "held"] \in CallState
                            /\ [s EXCEPT !.at = "held"].at = "held"
         /\ s.at = "held" /\ s.does \in {"get", "set"} =>
              /\ [s EXCEPT !.at = "checksum"] \in CallState
              /\ [s EXCEPT !.at = "checksum"].at = "checksum"
<1>1. CASE s = Idle
  BY <1>1 DEF Idle
<1>2. CASE s \in [at : {"found"}, param : Param, slot : 1 .. MAX_PARAMS]
  BY <1>2
<1>3. CASE s \in [at : {"lock", "held", "checksum"}, does : {"get"}, param : Param]
  BY <1>3 DEF CallState
<1>4. CASE s \in [at : {"lock", "held", "checksum"}, does : {"set"}, param : Param, value : Value]
  BY <1>4 DEF CallState
<1>5. CASE s \in [at : {"lock", "held"}, does : {"verify"}]
  BY <1>5 DEF CallState
<1> QED BY <1>1, <1>2, <1>3, <1>4, <1>5 DEF CallState

LEMMA IdleState == Idle \in CallState /\ Idle.at = "idle"
BY DEF Idle, CallState

\* A caller that found its parameter still finds it where it was.
Positions ==
  \A c \in Caller : call[c].at = "found" =>
    call[c].slot \in Slots(params) /\ params[call[c].slot].id = call[c].param

\* Between two changes the checksum is that of the table, unless it was struck.
Summed == struck \/ expected_crc = params \/ \E c \in Caller : call[c].at = "checksum"

\* The file is the table that was saved, and what load has read of it is in
\* memory.
Filed == kept.whole => file = AsPrinted(kept.table)
Loading == phase = "load" /\ kept.whole /\ Readable(kept.table) => params \o left = file

\* Who is in a call is a thread of a process that runs.
Resting == phase # "run" => \A c \in Caller : call[c] = Idle

ParamInv == ParamTypeOK /\ Positions /\ Resting /\ Summed /\ AlarmIsTrue /\ Filed /\ Loading

LEMMA ParamStarts == ParamInit => ParamInv
<1> SUFFICES ASSUME ParamInit PROVE ParamInv
  OBVIOUS
<1>1. ParamTypeOK
  <2>1. <<>> \in Seq(Entry) /\ kept.table = <<>> /\ kept.whole = TRUE
    BY DEF ParamInit
  <2>2. \A c \in Caller : call[c] = Idle
    BY DEF ParamInit
  <2>3. call \in [Caller -> CallState]
    BY IdleState DEF ParamInit
  <2>4. calls \in 0 .. MaxCalls /\ boots \in 0 .. MaxBoots
    BY ParamAssumption DEF ParamInit
  <2> QED
    BY <2>1, <2>2, <2>3, <2>4, EmptySound, IdleState, ParamAssumption
       DEF ParamInit, ParamTypeOK
<1>2. Positions /\ Resting
  BY IdleState DEF ParamInit, Positions, Resting
<1>3. Summed /\ AlarmIsTrue /\ Filed /\ Loading
  BY EmptySound DEF ParamInit, Summed, AlarmIsTrue, NoReport, Filed, Loading
<1> QED BY <1>1, <1>2, <1>3 DEF ParamInv

\* A caller goes on to another state of its call: what that can disturb.
LEMMA CallerMoves ==
  ASSUME ParamInv, phase = "run", NEW c \in Caller, NEW s \in CallState,
         call' = [call EXCEPT ![c] = s],
         UNCHANGED <<phase, left, persistent>>,
         calls' \in 0 .. MaxCalls, struck' \in BOOLEAN, expected_crc' \in Seq(Entry),
         answer' \in {Unasked} \cup (Param \X Value),
         Sound(params'), Len(params) <= Len(params'),
         \A i \in Slots(params) : params'[i].id = params[i].id,
         s.at = "found" => s.slot \in Slots(params) /\ params[s.slot].id = s.param,
         s.at \in {"held", "checksum"} <=> write_mutex' = c,
         write_mutex' # write_mutex => c \in {write_mutex, write_mutex'}
                                      /\ Nobody \in {write_mutex, write_mutex'}
  PROVE  ParamTypeOK' /\ Positions' /\ Resting' /\ Filed' /\ Loading'
<1>0. ParamTypeOK /\ call \in [Caller -> CallState]
  BY DEF ParamInv, ParamTypeOK
<1>1. /\ call' \in [Caller -> CallState] /\ call'[c] = s
      /\ \A d \in Caller \ {c} : call'[d] = call[d]
  BY <1>0
<1>2. \A d \in Caller \ {c} : write_mutex = d <=> write_mutex' = d
  BY ParamAssumption
<1>3. \A d \in Caller : call'[d].at \in {"held", "checksum"} <=> write_mutex' = d
  BY <1>0, <1>1, <1>2 DEF ParamTypeOK
<1>4. ParamTypeOK'
  BY <1>0, <1>1, <1>3 DEF ParamTypeOK, persistent
<1>5. Slots(params) \subseteq Slots(params')
  BY <1>0 DEF ParamTypeOK, Sound, Slots
<1>6. Positions'
  <2> SUFFICES ASSUME NEW d \in Caller, call'[d].at = "found"
               PROVE  /\ call'[d].slot \in Slots(params')
                      /\ params'[call'[d].slot].id = call'[d].param
    BY DEF Positions
  <2>1. call'[d].slot \in Slots(params) /\ params[call'[d].slot].id = call'[d].param
    BY <1>1 DEF ParamInv, Positions
  <2> QED BY <1>5, <2>1
<1>7. Resting' /\ Filed' /\ Loading'
  BY DEF ParamInv, Resting, Filed, Loading, persistent
<1> QED BY <1>4, <1>6, <1>7

\* What a caller stores.
LEMMA StoreStep ==
  ASSUME ParamInv, phase = "run", NEW c \in Caller, call[c].at = "held",
         call[c].does \in {"get", "set"}, NEW p \in Param, NEW v \in Value, Store(c, p, v),
         answer' \in {Unasked} \cup (Param \X Value),
         UNCHANGED <<phase, expected_crc, left, struck, report, calls, persistent>>
  PROVE  ParamInv'
<1>0. ParamTypeOK /\ call \in [Caller -> CallState] /\ Sound(params) /\ write_mutex = c
  BY DEF ParamInv, ParamTypeOK
<1>1. /\ Sound(params') /\ Len(params) <= Len(params')
      /\ \A i \in Slots(params) : params'[i].id = params[i].id
      /\ p \in Ids(params) \/ Len(params) < MAX_PARAMS \/ params' = params
  BY <1>0, StoredSound DEF Store
<1>2. calls \in 0 .. MaxCalls /\ struck \in BOOLEAN /\ expected_crc \in Seq(Entry)
  BY <1>0 DEF ParamTypeOK
<1>3. CASE p \in Ids(params) \/ Len(params) < MAX_PARAMS
  <2> DEFINE s == [call[c] EXCEPT !.at = "checksum"]
  <2>1. s \in CallState /\ s.at = "checksum"
    BY <1>0, CallStates
  <2>2. call' = [call EXCEPT ![c] = s] /\ write_mutex' = c
    BY <1>0, <1>3 DEF Store
  <2> HIDE DEF s
  <2>3. ParamTypeOK' /\ Positions' /\ Resting' /\ Filed' /\ Loading'
    BY <1>0, <1>1, <1>2, <2>1, <2>2, CallerMoves
  <2>4. call'[c].at = "checksum"
    BY <1>0, <2>1, <2>2
  <2> QED BY <2>3, <2>4 DEF ParamInv, Summed, AlarmIsTrue
<1>4. CASE ~(p \in Ids(params) \/ Len(params) < MAX_PARAMS)
  <2>1. call' = [call EXCEPT ![c] = Idle] /\ write_mutex' = Nobody /\ params' = params
    BY <1>1, <1>4 DEF Store, Unlock
  <2>2. ParamTypeOK' /\ Positions' /\ Resting' /\ Filed' /\ Loading'
    BY <1>0, <1>1, <1>2, <2>1, CallerMoves, IdleState, ParamAssumption
  <2>3. \A d \in Caller : call[d].at = "checksum" => call'[d].at = "checksum"
    BY <1>0, <2>1
  <2> QED BY <2>1, <2>2, <2>3 DEF ParamInv, Summed, AlarmIsTrue
<1> QED BY <1>3, <1>4

LEMMA CallerStep ==
  ASSUME ParamInv, NEW c \in Caller, Step(c)
  PROVE  ParamInv'
<1>0. /\ ParamTypeOK /\ call \in [Caller -> CallState] /\ Sound(params)
      /\ calls \in 0 .. MaxCalls /\ struck \in BOOLEAN /\ expected_crc \in Seq(Entry)
      /\ answer \in {Unasked} \cup (Param \X Value)
      /\ \A d \in Caller : call[d].at \in {"held", "checksum"} <=> write_mutex = d
      /\ Summed /\ AlarmIsTrue /\ MAX_PARAMS \in Nat
  BY ParamAssumption DEF ParamInv, ParamTypeOK
<1>a. Len(params) \in Nat /\ Len(params) <= Len(params)
  BY <1>0 DEF Sound
<1>1. ASSUME NEW s \in CallState, Begin(c, s), s.at \in {"found", "lock"},
             s.at = "found" => s.slot \in Slots(params) /\ params[s.slot].id = s.param
      PROVE  ParamInv'
  <2>1. /\ phase = "run" /\ call[c] = Idle /\ call' = [call EXCEPT ![c] = s]
        /\ UNCHANGED <<phase, params, expected_crc, write_mutex, answer, left, struck,
                       report, persistent>>
    BY <1>1 DEF Begin
  <2>2. calls' \in 0 .. MaxCalls
    BY <1>0, <1>1, ParamAssumption DEF Begin
  <2>3. write_mutex # c
    BY <1>0, <2>1, IdleState
  <2>4. ParamTypeOK' /\ Positions' /\ Resting' /\ Filed' /\ Loading'
    BY <1>0, <1>1, <1>a, <2>1, <2>2, <2>3, CallerMoves
  <2>5. \A d \in Caller : call[d].at = "checksum" => call'[d].at = "checksum"
    BY <1>0, <2>1, IdleState
  <2> QED BY <1>0, <2>1, <2>4, <2>5 DEF ParamInv, Summed, AlarmIsTrue
<1>2. ASSUME NEW p \in Param, GetParam(c, p) PROVE ParamInv'
  <2>1. CASE p \in Ids(params)
    <3> DEFINE s == [at |-> "found", param |-> p, slot |-> SlotOf(params, p)]
    <3>1. SlotOf(params, p) \in Slots(params) /\ params[SlotOf(params, p)].id = p
      BY <1>0, <2>1, Lookup
    <3>2. s \in CallState
      BY <1>0, <1>a, <3>1 DEF CallState, Slots, Sound
    <3> QED BY <1>1, <1>2, <2>1, <3>1, <3>2 DEF GetParam
  <2>2. CASE p \notin Ids(params)
    <3>1. [at |-> "lock", does |-> "get", param |-> p] \in CallState
      BY DEF CallState
    <3> QED BY <1>1, <1>2, <2>2, <3>1 DEF GetParam
  <2> QED BY <2>1, <2>2
<1>3. ASSUME NEW p \in Param, NEW v \in Value, SetParam(c, p, v) PROVE ParamInv'
  <2>1. [at |-> "lock", does |-> "set", param |-> p, value |-> v] \in CallState
    BY DEF CallState
  <2> QED BY <1>1, <1>3, <2>1 DEF SetParam
<1>4. CASE VerifyIntegrity(c)
  <2>1. [at |-> "lock", does |-> "verify"] \in CallState
    BY DEF CallState
  <2> QED BY <1>1, <1>4, <2>1 DEF VerifyIntegrity
<1>b. ASSUME call[c].at # "idle" PROVE phase = "run"
  BY <1>b, IdleState DEF ParamInv, Resting
<1>5. CASE LoadFound(c)
  <2>1. phase = "run" /\ call' = [call EXCEPT ![c] = Idle] /\ write_mutex # c
    BY <1>0, <1>5, <1>b DEF LoadFound
  <2>2. params[call[c].slot] \in Entry /\ call[c].param \in Param
    BY <1>0, <1>5, Lookup, CallStates DEF LoadFound, ParamInv, Positions
  <2>3. answer' \in {Unasked} \cup (Param \X Value)
    BY <1>5, <2>2 DEF LoadFound, Entry
  <2>4. ParamTypeOK' /\ Positions' /\ Resting' /\ Filed' /\ Loading'
    BY <1>0, <1>5, <1>a, <2>1, <2>3, CallerMoves, IdleState DEF LoadFound
  <2>5. \A d \in Caller : call[d].at = "checksum" => call'[d].at = "checksum"
    BY <1>0, <1>5, <2>1 DEF LoadFound
  <2> QED BY <1>0, <1>5, <2>4, <2>5 DEF ParamInv, Summed, AlarmIsTrue, LoadFound
<1>6. CASE Lock(c)
  <2> DEFINE s == [call[c] EXCEPT !.at = "held"]
  <2>1. s \in CallState /\ s.at = "held"
    BY <1>0, <1>6, CallStates DEF Lock
  <2>2. /\ phase = "run" /\ call' = [call EXCEPT ![c] = s] /\ write_mutex' = c
        /\ write_mutex = Nobody
    BY <1>6, <1>b DEF Lock
  <2> HIDE DEF s
  <2>3. ParamTypeOK' /\ Positions' /\ Resting' /\ Filed' /\ Loading'
    BY <1>0, <1>6, <1>a, <2>1, <2>2, CallerMoves DEF Lock
  <2>4. \A d \in Caller : call[d].at = "checksum" => call'[d].at = "checksum"
    BY <1>0, <1>6, <2>2 DEF Lock
  <2> QED BY <1>0, <1>6, <2>3, <2>4 DEF ParamInv, Summed, AlarmIsTrue, Lock
<1>7. CASE GetAgain(c)
  <2> DEFINE p == call[c].param
  <2>0. /\ phase = "run" /\ p \in Param /\ write_mutex = c /\ call[c].at = "held"
        /\ Default[p] \in Value
    BY <1>0, <1>7, <1>b, CallStates, ParamAssumption DEF GetAgain, Held
  <2>1. CASE p \in Ids(params)
    <3>1. /\ call' = [call EXCEPT ![c] = Idle] /\ write_mutex' = Nobody
          /\ answer' = <<p, params[SlotOf(params, p)].value>>
          /\ UNCHANGED <<phase, params, expected_crc, left, struck, report, calls, persistent>>
      BY <1>7, <2>1 DEF GetAgain, Unlock
    <3>2. params[SlotOf(params, p)] \in Entry
      BY <1>0, <2>1, Lookup
    <3>3. answer' \in {Unasked} \cup (Param \X Value)
      BY <2>0, <3>1, <3>2 DEF Entry
    <3>4. ParamTypeOK' /\ Positions' /\ Resting' /\ Filed' /\ Loading'
      BY <1>0, <1>a, <2>0, <3>1, <3>3, CallerMoves, IdleState, ParamAssumption
    <3>5. \A d \in Caller : call[d].at = "checksum" => call'[d].at = "checksum"
      BY <1>0, <2>0, <3>1
    <3> QED BY <1>0, <3>1, <3>4, <3>5 DEF ParamInv, Summed, AlarmIsTrue
  <2>2. CASE p \notin Ids(params)
    <3>1. /\ Store(c, p, Default[p]) /\ answer' = <<p, Default[p]>> /\ call[c].does = "get"
          /\ UNCHANGED <<phase, expected_crc, left, struck, report, calls, persistent>>
      BY <1>7, <2>2 DEF GetAgain, Held
    <3> QED BY <2>0, <3>1, StoreStep
  <2> QED BY <2>1, <2>2
<1>8. CASE StoreValue(c)
  <2>1. call[c].param \in Param /\ call[c].value \in Value /\ phase = "run"
    BY <1>0, <1>8, <1>b, CallStates DEF StoreValue, Held
  <2> QED BY <1>0, <1>8, <2>1, StoreStep DEF StoreValue, Held
<1>9. CASE UpdateChecksum(c)
  <2>1. /\ phase = "run" /\ call' = [call EXCEPT ![c] = Idle] /\ write_mutex' = Nobody
        /\ write_mutex = c /\ expected_crc' = params /\ struck' = FALSE
        /\ params \in Seq(Entry)
    BY <1>0, <1>9, <1>b DEF UpdateChecksum, Unlock, Sound
  <2>2. ParamTypeOK' /\ Positions' /\ Resting' /\ Filed' /\ Loading'
    BY <1>0, <1>9, <1>a, <2>1, CallerMoves, IdleState, ParamAssumption DEF UpdateChecksum
  <2> QED BY <1>0, <1>9, <2>1, <2>2 DEF ParamInv, Summed, AlarmIsTrue, UpdateChecksum
<1>10. CASE Compare(c)
  <2>1. /\ phase = "run" /\ call' = [call EXCEPT ![c] = Idle] /\ write_mutex' = Nobody
        /\ write_mutex = c /\ call[c].at = "held"
    BY <1>0, <1>10, <1>b DEF Compare, Held, Unlock
  <2>2. ParamTypeOK' /\ Positions' /\ Resting' /\ Filed' /\ Loading'
    BY <1>0, <1>10, <1>a, <2>1, CallerMoves, IdleState, ParamAssumption DEF Compare
  <2>3. \A d \in Caller : call[d].at # "checksum"
    BY <1>0, <2>1
  <2>4. struck \/ expected_crc = params
    BY <1>0, <2>3 DEF Summed
  <2> QED BY <1>10, <2>2, <2>4 DEF ParamInv, Summed, AlarmIsTrue, Compare
<1> QED BY <1>2, <1>3, <1>4, <1>5, <1>6, <1>7, <1>8, <1>9, <1>10 DEF Step

LEMMA UpsetStep ==
  ASSUME ParamInv, NEW i \in Slots(params), NEW v \in Value, Upset(i, v)
  PROVE  ParamInv'
<1>0. ParamTypeOK /\ Sound(params) /\ params[i].id \in Param
  BY Lookup DEF ParamInv, ParamTypeOK
<1>1. params' = Stored(params, params[i].id, v) /\ params[i].id \in Ids(params)
  BY <1>0, UpsetStores
<1>2. /\ Sound(params') /\ Len(params) <= Len(params')
      /\ \A j \in Slots(params) : params'[j].id = params[j].id
  BY <1>0, <1>1, StoredSound
<1>3. ParamTypeOK'
  BY <1>0, <1>2 DEF ParamTypeOK, Upset, persistent
<1>4. Positions'
  BY <1>0, <1>2 DEF ParamInv, Positions, Upset, Slots, Sound
<1> QED BY <1>3, <1>4 DEF ParamInv, Resting, Summed, AlarmIsTrue, Filed, Loading, Upset, persistent

\* A process that starts, or is gone.
LEMMA EmptyStep ==
  ASSUME ParamInv, Empty, phase' \in {"off", "load"}, left' \in Seq(Entry),
         Sound(file'), Sound(kept.table'), kept.whole' \in BOOLEAN, boots' \in 0 .. MaxBoots,
         Filed', phase' = "load" => left' = file' /\ file' \in Seq(Entry)
  PROVE  ParamInv'
<1>1. params' = <<>> /\ <<>> \in Seq(Entry) /\ Sound(params') /\ Sound(<<>>)
  BY EmptySound DEF Empty
<1>2. \A c \in Caller : call'[c] = Idle
  BY DEF Empty
<1>3. call' \in [Caller -> CallState]
  BY IdleState DEF Empty
<1>4. 0 \in 0 .. MaxCalls
  BY ParamAssumption
<1>5. ParamTypeOK'
  BY <1>1, <1>2, <1>3, <1>4, IdleState, ParamAssumption DEF ParamTypeOK, Empty
<1>6. Positions' /\ Resting' /\ Summed' /\ AlarmIsTrue'
  BY <1>2, IdleState DEF Positions, Resting, Summed, AlarmIsTrue, Empty, NoReport
<1>7. Loading'
  <2>1. CASE phase' = "load"
    <3>1. \A t \in Seq(Entry) : <<>> \o t = t
      OBVIOUS
    <3> QED BY <1>1, <2>1, <3>1 DEF Loading
  <2>2. CASE phase' # "load"
    BY <2>2 DEF Loading
  <2> QED BY <2>1, <2>2
<1> QED BY <1>5, <1>6, <1>7 DEF ParamInv

\* The line that load reads next is of a parameter that is not there yet.
LEMMA LineStep ==
  ASSUME ParamInv, LoadLine
  PROVE  ParamInv'
<1> DEFINE p == Head(left).id
           v == Head(left).value
<1>0. /\ ParamTypeOK /\ Sound(params) /\ Sound(file) /\ phase = "load"
      /\ left \in Seq(Entry) /\ left # <<>> /\ MAX_PARAMS \in Nat
      /\ params \in Seq(Entry) /\ file \in Seq(Entry)
  BY ParamAssumption DEF ParamInv, ParamTypeOK, LoadLine, Ended, Sound
<1>1. Head(left) \in Entry /\ Tail(left) \in Seq(Entry) /\ p \in Param /\ v \in Value
  <2>1. Head(left) \in Entry /\ Tail(left) \in Seq(Entry)
    BY <1>0
  <2> QED BY <2>1 DEF Entry
<1>2. params' = Stored(params, p, v)
  BY DEF LoadLine
<1>3. /\ Sound(params') /\ Len(params) <= Len(params')
      /\ \A j \in Slots(params) : params'[j].id = params[j].id
  BY <1>0, <1>1, <1>2, StoredSound
<1>4. ParamTypeOK'
  BY <1>0, <1>1, <1>3 DEF ParamTypeOK, LoadLine, persistent, Sound
<1>5. Positions' /\ Resting' /\ Summed' /\ AlarmIsTrue' /\ Filed'
  <2>1. Positions' /\ Resting'
    <3>1. \A c \in Caller : call'[c] = Idle
      BY <1>0 DEF ParamInv, Resting, LoadLine
    <3> QED BY <3>1, IdleState DEF Positions, Resting
  <2>2. Summed' /\ AlarmIsTrue' /\ Filed'
    BY DEF ParamInv, Summed, AlarmIsTrue, Filed, LoadLine, persistent
  <2> QED BY <2>1, <2>2
<1>6. Loading'
  <2> SUFFICES ASSUME kept.whole, Readable(kept.table)
               PROVE  params' \o Tail(left) = file
    BY DEF Loading, LoadLine, persistent
  <2>1. params \o left = file
    BY <1>0 DEF ParamInv, Loading
  <2>2. Len(params) \in Nat /\ Len(left) \in Nat \ {0} /\ Len(file) = Len(params) + Len(left)
    BY <1>0, <2>1
  <2>3. file[Len(params) + 1] = Head(left) /\ \A i \in Slots(params) : file[i] = params[i]
    BY <1>0, <2>1, <2>2 DEF Slots
  <2>4. p \notin Ids(params)
    <3> SUFFICES ASSUME NEW i \in Slots(params), params[i].id = p PROVE FALSE
      BY DEF Ids
    <3>1. i \in Slots(file) /\ Len(params) + 1 \in Slots(file) /\ i # Len(params) + 1
      BY <2>2 DEF Slots
    <3> QED BY <1>0, <2>3, <3>1 DEF Sound
  <2>5. Len(params) < MAX_PARAMS
    BY <1>0, <2>2 DEF Sound
  <2>6. Line(p, v) = Head(left)
    BY <1>1 DEF Line, Entry
  <2>7. params' = Append(params, Head(left))
    BY <1>2, <2>4, <2>5, <2>6 DEF Stored
  <2>8. Append(params, Head(left)) \o Tail(left) = params \o left
    BY <1>0, <1>1
  <2> QED BY <2>1, <2>7, <2>8
<1> QED BY <1>4, <1>5, <1>6 DEF ParamInv

LEMMA ProcessStep ==
  ASSUME ParamInv, Process
  PROVE  ParamInv'
<1>0. /\ ParamTypeOK /\ Sound(params) /\ Sound(file) /\ Sound(kept.table) /\ Filed
      /\ kept.whole \in BOOLEAN /\ boots \in 0 .. MaxBoots /\ file \in Seq(Entry)
      /\ <<>> \in Seq(Entry) /\ Sound(<<>>) /\ params \in Seq(Entry)
  BY EmptySound DEF ParamInv, ParamTypeOK, Sound
<1>1. CASE Boot
  BY <1>0, <1>1, EmptyStep, ParamAssumption DEF Boot, Filed
<1>2. CASE LoadLine
  BY <1>2, LineStep
<1>3. CASE StartThreads
  BY <1>0, <1>3
     DEF StartThreads, ParamInv, ParamTypeOK, Positions, Resting, Summed, AlarmIsTrue, Filed, Loading,
         persistent
<1>4. CASE StopThreads
  BY <1>0, <1>4
     DEF StopThreads, ParamInv, ParamTypeOK, Positions, Resting, Summed, AlarmIsTrue, Filed, Loading,
         persistent, volatile
<1>5. CASE SaveFails \/ Crash
  BY <1>0, <1>5, EmptyStep DEF SaveFails, Crash, Gone, Filed, persistent
<1>6. CASE Truncate
  <2>1. kept'.whole = FALSE /\ kept'.table = kept.table /\ file' = <<>> /\ phase' = "write"
    BY <1>6 DEF Truncate, ParamInv, ParamTypeOK
  <2>2. UNCHANGED volatile /\ UNCHANGED boots /\ phase = "save"
    BY <1>6 DEF Truncate
  <2>3. ParamTypeOK'
    BY <1>0, <2>1, <2>2 DEF ParamTypeOK, volatile
  <2> QED
    BY <2>1, <2>2, <2>3
       DEF ParamInv, Positions, Resting, Summed, AlarmIsTrue, Filed, Loading, volatile
<1>7. CASE WriteFile
  <2>1. /\ file' = AsPrinted(params) /\ kept'.table = params /\ kept'.whole = TRUE
        /\ Empty /\ phase' = "off" /\ left' = <<>> /\ boots' = boots
    BY <1>7 DEF WriteFile, Gone
  <2>2. Sound(AsPrinted(params))
    BY <1>0, PrintedSound
  <2> QED BY <1>0, <2>1, <2>2, EmptyStep DEF Filed
<1> QED BY <1>1, <1>2, <1>3, <1>4, <1>5, <1>6, <1>7 DEF Process

LEMMA ParamKeeps == ParamInv /\ [ParamNext]_paramVars => ParamInv'
<1> SUFFICES ASSUME ParamInv, [ParamNext]_paramVars PROVE ParamInv'
  OBVIOUS
<1>1. CASE UNCHANGED paramVars
  BY <1>1
     DEF paramVars, volatile, persistent, ParamInv, ParamTypeOK, Positions, Resting, Summed,
         AlarmIsTrue, Filed, Loading
<1>2. CASE ParamNext
  BY <1>2, CallerStep, UpsetStep, ProcessStep DEF ParamNext
<1> QED BY <1>1, <1>2

LEMMA ParamInvariant == ParamSpec => []ParamInv
BY ParamStarts, ParamKeeps, PTL DEF ParamSpec

(* Whatever the callers do at once, no parameter has two entries, the      *)
(* database is never over its size, and the lock is held by the one that   *)
(* is inside (ParamTypeOK).                                                *)
THEOREM ParamTypeCorrect == ParamSpec => []ParamTypeOK
<1>1. ParamInv => ParamTypeOK
  BY DEF ParamInv
<1> QED BY <1>1, ParamInvariant, PTL

(* A mismatch that verifyIntegrity reports is one a particle made, never   *)
(* one of a caller that is in between its value and its checksum           *)
(* (AlarmIsTrue).                                                          *)
THEOREM AlarmsAreTrue == ParamSpec => []AlarmIsTrue
<1>1. ParamInv => AlarmIsTrue
  BY DEF ParamInv
<1> QED BY <1>1, ParamInvariant, PTL

(* A table that was saved whole and can be read is what the next process   *)
(* starts with (SurvivesReboot).                                           *)
THEOREM SavedIsLoaded == ParamSpec => []SurvivesReboot
<1>1. ParamInv => SurvivesReboot
  <2> SUFFICES ASSUME ParamInv, phase = "load", Ended, kept.whole, Readable(kept.table)
               PROVE  params = AsPrinted(kept.table)
    BY DEF SurvivesReboot
  <2>0. Sound(params) /\ Sound(kept.table) /\ Sound(file) /\ left \in Seq(Entry)
    BY DEF ParamInv, ParamTypeOK
  <2>1. file = AsPrinted(kept.table) /\ params \o left = file
    BY DEF ParamInv, Filed, Loading
  <2>2. \A i \in Slots(file) : file[i].value \notin Unreadable
    <3> SUFFICES ASSUME NEW i \in Slots(file) PROVE file[i].value \notin Unreadable
      OBVIOUS
    <3>1. i \in Slots(kept.table) /\ file[i].value = Printed[kept.table[i].value]
      BY <2>0, <2>1, PrintedSound DEF Slots
    <3>2. kept.table[i].value \in Value
      BY <2>0, <3>1, Lookup DEF Entry
    <3> QED BY <3>1, <3>2, ParamAssumption DEF Readable
  <2>3. CASE left = <<>>
    <3>1. params \in Seq(Entry)
      BY <2>0 DEF Sound
    <3> QED BY <2>1, <2>3, <3>1
  <2>4. CASE left # <<>>
    <3>1. /\ params \in Seq(Entry) /\ Len(params) \in Nat /\ Len(left) \in Nat \ {0}
          /\ Len(file) = Len(params) + Len(left)
      BY <2>0, <2>1, <2>4 DEF Sound
    <3>2. Len(params) + 1 \in Slots(file) /\ file[Len(params) + 1] = Head(left)
      BY <2>0, <2>1, <2>4, <3>1 DEF Slots
    <3> QED BY <2>2, <2>4, <3>2 DEF Ended
  <2> QED BY <2>3, <2>4
<1> QED BY <1>1, ParamInvariant, PTL

(* It is only for the values that cannot be read back that a parameter     *)
(* which was saved is unknown to the next process: were there none,        *)
(* KnownAfterReboot, which a saved NaN makes false, would hold.            *)
THEOREM AllKnownAgain ==
  ASSUME Unreadable = {}
  PROVE  ParamSpec => []KnownAfterReboot
<1>1. ParamInv /\ SurvivesReboot => KnownAfterReboot
  BY PrintedSound DEF ParamInv, ParamTypeOK, SurvivesReboot, KnownAfterReboot, Readable
<1> QED BY <1>1, ParamInvariant, SavedIsLoaded, PTL

-----------------------------------------------------------------------------
(* The map.                                                                *)

\* What is stored in the table is put into the map.
LEMMA StoredIsPut ==
  ASSUME Sound(params), NEW p \in Param, NEW v \in Value, params' = Stored(params, p, v),
         p \in Ids(params) \/ Len(params) < MAX_PARAMS
  PROVE  AsMap(params') = Map!Put(p, v)
<1>1. /\ Ids(params') = Ids(params) \cup {p}
      /\ \A q \in Ids(params') : AsMap(params')[q] = IF q = p THEN v ELSE AsMap(params)[q]
  BY StoredSound
<1>2. AsMap(params') = [q \in Ids(params') |-> AsMap(params')[q]] /\ DOMAIN AsMap(params) = Ids(params)
  BY DEF AsMap
<1> QED BY <1>1, <1>2 DEF Map!Put, Map!Known

\* Cardinality is the same operator in ParamMap.
LEMMA SameCount == \A S : Map!Cardinality(S) = Cardinality(S)
BY DEF Map!Cardinality, Cardinality

LEMMA MapStep ==
  ASSUME ParamInv, [ParamNext]_paramVars
  PROVE  [Map!MapNext]_<<AsMap(params), answer>>
<1>0. /\ Sound(params) /\ call \in [Caller -> CallState] /\ MAX_PARAMS \in Nat
      /\ DOMAIN AsMap(params) = Ids(params)
      /\ Map!Room <=> Len(params) < MAX_PARAMS
  BY Counted, SameCount, ParamAssumption DEF ParamInv, ParamTypeOK, AsMap, Map!Room, Map!Known
<1>1. ASSUME NEW p \in Param, NEW v \in Value, UNCHANGED answer, params' = Stored(params, p, v)
      PROVE  [Map!MapNext]_<<AsMap(params), answer>>
  <2>1. CASE p \in Ids(params) \/ Len(params) < MAX_PARAMS
    <3>1. AsMap(params') = Map!Put(p, v)
      BY <1>0, <1>1, <2>1, StoredIsPut
    <3>2. Map!Set(p, v)
      BY <1>0, <1>1, <2>1, <3>1 DEF Map!Set, Map!Known
    <3> QED BY <3>2 DEF Map!MapNext
  <2>2. CASE ~(p \in Ids(params) \/ Len(params) < MAX_PARAMS)
    BY <1>0, <1>1, <2>2, StoredSound
  <2> QED BY <2>1, <2>2
<1>2. ASSUME NEW c \in Caller, Step(c) PROVE [Map!MapNext]_<<AsMap(params), answer>>
  <2>1. CASE UNCHANGED <<params, answer>>
    BY <2>1
  <2>2. CASE LoadFound(c)
    <3> DEFINE p == call[c].param
    <3>1. /\ p \in Param /\ call[c].slot \in Slots(params) /\ params[call[c].slot].id = p
      BY <1>0, <2>2, CallStates DEF LoadFound, ParamInv, Positions
    <3>2. p \in Ids(params) /\ AsMap(params)[p] = params[call[c].slot].value
      BY <1>0, <3>1, Lookup
    <3>3. Map!Get(p)
      BY <1>0, <2>2, <3>2 DEF LoadFound, Map!Get, Map!Known
    <3> QED BY <3>1, <3>3 DEF Map!MapNext
  <2>3. CASE GetAgain(c)
    <3> DEFINE p == call[c].param
    <3>1. p \in Param /\ Default[p] \in Value
      BY <1>0, <2>3, CallStates, ParamAssumption DEF GetAgain, Held
    <3>2. CASE p \in Ids(params)
      <4>1. AsMap(params)[p] = params[SlotOf(params, p)].value
        BY <3>2 DEF AsMap
      <4>2. Map!Get(p)
        BY <1>0, <2>3, <3>2, <4>1 DEF GetAgain, Map!Get, Map!Known
      <4> QED BY <3>1, <4>2 DEF Map!MapNext
    <3>3. CASE p \notin Ids(params)
      <4>1. params' = Stored(params, p, Default[p]) /\ answer' = <<p, Default[p]>>
        BY <2>3, <3>3 DEF GetAgain, Store
      <4>2. AsMap(params') = IF Map!Room THEN Map!Put(p, Default[p]) ELSE AsMap(params)
        <5>1. CASE Len(params) < MAX_PARAMS
          BY <1>0, <3>1, <4>1, <5>1, StoredIsPut
        <5>2. CASE ~(Len(params) < MAX_PARAMS)
          <6>1. Stored(params, p, Default[p]) = params
            BY <3>3, <5>2 DEF Stored
          <6> QED BY <1>0, <4>1, <5>2, <6>1
        <5> QED BY <5>1, <5>2
      <4>3. Map!Get(p)
        BY <1>0, <3>3, <4>1, <4>2 DEF Map!Get, Map!Known
      <4> QED BY <3>1, <4>3 DEF Map!MapNext
    <3> QED BY <3>2, <3>3
  <2>4. CASE StoreValue(c)
    <3>1. /\ call[c].param \in Param /\ call[c].value \in Value /\ UNCHANGED answer
          /\ params' = Stored(params, call[c].param, call[c].value)
      BY <1>0, <2>4, CallStates DEF StoreValue, Held, Store
    <3> QED BY <1>1, <3>1
  <2> QED
    BY <1>2, <2>1, <2>2, <2>3, <2>4
       DEF Step, GetParam, SetParam, VerifyIntegrity, Begin, Lock, UpdateChecksum, Compare
<1>3. ASSUME NEW i \in Slots(params), NEW v \in Value, Upset(i, v)
      PROVE  [Map!MapNext]_<<AsMap(params), answer>>
  <2>1. /\ params' = Stored(params, params[i].id, v) /\ params[i].id \in Param
        /\ UNCHANGED answer
    BY <1>0, <1>3, UpsetStores DEF Upset
  <2> QED BY <1>1, <1>3, <2>1
<1>4. CASE Process
  <2>1. CASE Empty
    <3>1. Map!Restart
      BY <2>1, EmptySound DEF Empty, Map!Restart, Map!Unasked, Unasked
    <3> QED BY <3>1 DEF Map!MapNext
  <2>2. CASE LoadLine
    <3> DEFINE p == Head(left).id
               v == Head(left).value
    <3>1. left \in Seq(Entry) /\ left # <<>>
      BY <2>2 DEF LoadLine, Ended, ParamInv, ParamTypeOK
    <3>2. Head(left) \in Entry
      BY <3>1
    <3>3. p \in Param /\ v \in Value
      BY <3>2 DEF Entry
    <3>4. params' = Stored(params, p, v) /\ UNCHANGED answer
      BY <2>2 DEF LoadLine
    <3> QED BY <1>1, <3>3, <3>4
  <2>3. CASE StartThreads \/ StopThreads \/ Truncate
    BY <2>3 DEF StartThreads, StopThreads, Truncate, volatile
  <2> QED BY <1>4, <2>1, <2>2, <2>3 DEF Process, Boot, SaveFails, WriteFile, Crash, Gone
<1>5. CASE UNCHANGED paramVars
  BY <1>5 DEF paramVars, volatile
<1> QED BY <1>2, <1>3, <1>4, <1>5 DEF ParamNext

(* The database is the map its callers think it is (ImplementsParamMap),   *)
(* for any number of callers: the entries never have two of a parameter,   *)
(* a lookup without the lock finds a value that was there during the call, *)
(* and one that finds nothing looks again before it inserts.               *)
THEOREM DatabaseIsAMap == ParamSpec => ImplementsParamMap
<1>1. ParamInit => Map!MapInit
  BY EmptySound DEF ParamInit, Map!MapInit, Map!Unasked, Unasked
<1>2. ParamInv /\ [ParamNext]_paramVars => [Map!MapNext]_<<AsMap(params), answer>>
  BY MapStep
<1> QED BY <1>1, <1>2, ParamInvariant, PTL DEF ParamSpec, ImplementsParamMap, Map!MapSpec

-----------------------------------------------------------------------------
(* The update session.                                                     *)

\* What a verified image is worth while something may change: the CRC the
\* ground gave is that of a verified image unless it set another one, the
\* image has the CRC of a verified one unless bytes were added, and the two
\* agree if neither happened.
Vouched ==
  image_verified =>
    /\ "crc" \notin drift => expected_crc32 \in accepted
    /\ "bytes" \notin drift => Crc32[image] \in accepted
    /\ drift = {} => Crc32[image] = expected_crc32

\* Staging writes a verified image, and its manifest, once written, is about
\* that image; a failure to write it leaves none.  A process that is not there
\* requests nothing.
StagedFrom ==
  /\ at \notin {"off", "idle"} => image_verified
  /\ at = "off" => ~reboot_requested
  /\ at = "closing" => manifest = <<>>
  /\ at = "closed" /\ ~spoilt =>
       manifest = <<[bytes |-> Len(image), crc |-> expected_crc32]>> /\ signed = drift

\* A manifest has the CRC of a verified image, unless the ground set another.
ManifestVouched == manifest # <<>> /\ "crc" \notin signed => manifest[1].crc \in accepted

OtaInv == OtaTypeOK /\ Vouched /\ StagedFrom /\ ManifestVouched /\ RequestedIsReady

LEMMA ImageLemma ==
  /\ <<>> \in Image
  /\ \A i \in Image : /\ i \in Seq(Byte) /\ Len(i) \in 0 .. MAX_IMAGE_BYTES
                     /\ Crc32[i] \in Half \X Half
                     /\ Prefixes(i) \subseteq Image
                     /\ \A b \in Byte : Len(i) < MAX_IMAGE_BYTES =>
                          Append(i, b) \in Image /\ Append(i, b) # <<>>
<1>1. MAX_IMAGE_BYTES \in Nat /\ Crc32 \in [Image -> Half \X Half]
  BY OtaAssumption
<1>2. ASSUME NEW n \in 0 .. MAX_IMAGE_BYTES, NEW i \in [1 .. n -> Byte] PROVE i \in Image
  BY DEF Image
<1>3. <<>> \in Image
  <2>1. <<>> \in [1 .. 0 -> Byte] /\ 0 \in 0 .. MAX_IMAGE_BYTES
    BY <1>1
  <2> QED BY <2>1, <1>2
<1>4. ASSUME NEW i \in Image
      PROVE  i \in Seq(Byte) /\ Len(i) \in 0 .. MAX_IMAGE_BYTES /\ i \in [1 .. Len(i) -> Byte]
  <2>1. PICK n \in 0 .. MAX_IMAGE_BYTES : i \in [1 .. n -> Byte]
    BY DEF Image
  <2>2. n \in Nat
    BY <1>1
  <2>3. i \in Seq(Byte) /\ Len(i) = n
    BY <2>1, <2>2
  <2> QED BY <2>1, <2>3
<1>5. ASSUME NEW i \in Image, NEW n \in 0 .. Len(i) PROVE SubSeq(i, 1, n) \in Image
  <2>1. i \in [1 .. Len(i) -> Byte] /\ n \in 0 .. MAX_IMAGE_BYTES /\ n \in Nat
    BY <1>1, <1>4
  <2>2. SubSeq(i, 1, n) = [k \in 1 .. n |-> i[k]]
    <3>1. \A k \in 1 .. n : (1 + k) - 1 = k
      BY <2>1
    <3> QED BY <1>4, <2>1, <3>1
  <2>3. \A k \in 1 .. n : i[k] \in Byte
    BY <1>4, <2>1
  <2>4. SubSeq(i, 1, n) \in [1 .. n -> Byte]
    BY <2>2, <2>3
  <2> QED BY <1>2, <2>1, <2>4
<1>6. ASSUME NEW i \in Image, NEW b \in Byte, Len(i) < MAX_IMAGE_BYTES
      PROVE  Append(i, b) \in Image /\ Append(i, b) # <<>>
  <2>1. Len(i) + 1 \in 0 .. MAX_IMAGE_BYTES
    BY <1>1, <1>4, <1>6
  <2>2. Append(i, b) \in Seq(Byte) /\ Len(Append(i, b)) = Len(i) + 1
    BY <1>4
  <2> DEFINE more == Append(i, b)
  <2> HIDE DEF more
  <2>3. more \in Seq(Byte) /\ Len(more) = Len(i) + 1
    BY <2>2 DEF more
  <2>4. more \in [1 .. Len(more) -> Byte]
    BY <2>3
  <2>5. more \in Image
    BY <1>2, <2>1, <2>3, <2>4
  <2>6. more # <<>>
    BY <1>4, <2>3
  <2> QED BY <2>5, <2>6 DEF more
<1> QED BY <1>1, <1>3, <1>4, <1>5, <1>6 DEF Prefixes

LEMMA OtaStarts == OtaInit => OtaInv
<1> SUFFICES ASSUME OtaInit PROVE OtaInv
  OBVIOUS
<1>1. MAX_IMAGE_BYTES \in Nat /\ 0 \in Half
  BY OtaAssumption
<1>2. OtaTypeOK
  <2>1. manifest \in Seq([bytes : Nat, crc : Half \X Half]) /\ Len(manifest) <= 1
    BY DEF OtaInit
  <2>2. image \in Image /\ artifact \in Image /\ expected_crc32 \in Half \X Half
    BY <1>1, ImageLemma DEF OtaInit
  <2>3. /\ at \in {"off", "idle", "artifact", "manifest", "closing", "closed"}
        /\ session_active \in BOOLEAN /\ image_verified \in BOOLEAN
        /\ reboot_requested \in BOOLEAN /\ spoilt \in BOOLEAN
        /\ image_verified => session_active /\ image # <<>>
    BY DEF OtaInit
  <2>4. expected_bytes \in 0 .. MAX_IMAGE_BYTES
    BY <1>1 DEF OtaInit
  <2>5. /\ accepted \subseteq Half \X Half
        /\ drift \subseteq {"bytes", "crc"} /\ signed \subseteq {"bytes", "crc"}
    BY DEF OtaInit
  <2> QED BY <2>1, <2>2, <2>3, <2>4, <2>5 DEF OtaTypeOK
<1> QED
  BY <1>2 DEF OtaInit, OtaInv, Vouched, StagedFrom, ManifestVouched, RequestedIsReady

\* A command touches no file, and what was accepted stays accepted.
LEMMA CommandStep == OtaInv /\ Command => OtaInv'
<1> SUFFICES ASSUME OtaInv, Command PROVE OtaInv'
  OBVIOUS
<1>1. /\ OtaTypeOK /\ Vouched /\ StagedFrom /\ ManifestVouched /\ RequestedIsReady
      /\ at = "idle" /\ at' = at /\ UNCHANGED files /\ accepted \subseteq accepted'
      /\ reboot_requested' => reboot_requested
  BY DEF OtaInv, Command, Reset, ResetSession, BeginSession, IngestChunk, SetExpectedCrc,
         VerifyImage, OtaTypeOK
<1>2. StagedFrom' /\ ManifestVouched' /\ RequestedIsReady'
  BY <1>1 DEF StagedFrom, ManifestVouched, RequestedIsReady, Passes, files
<1>3. CASE Reset
  BY <1>1, <1>2, <1>3, ImageLemma, OtaAssumption
     DEF Reset, ResetSession, OtaTypeOK, OtaInv, Vouched, files
<1>4. ASSUME NEW expected \in 0 .. MAX_IMAGE_BYTES, BeginSession(expected) PROVE OtaInv'
  BY <1>1, <1>2, <1>4, ImageLemma DEF BeginSession, OtaTypeOK, OtaInv, Vouched, files
<1>5. ASSUME NEW b \in Byte, IngestChunk(b) PROVE OtaInv'
  <2>1. image' \in Image /\ image' # <<>>
    BY <1>1, <1>5, ImageLemma DEF IngestChunk, OtaTypeOK
  <2>2. OtaTypeOK'
    BY <1>1, <1>5, <2>1 DEF IngestChunk, OtaTypeOK, files
  <2>3. Vouched'
    BY <1>1, <1>5 DEF IngestChunk, Vouched
  <2> QED BY <1>2, <2>2, <2>3 DEF OtaInv
<1>6. ASSUME NEW half \in {1, 2}, NEW v \in Half, SetExpectedCrc(half, v) PROVE OtaInv'
  <2>1. expected_crc32' \in Half \X Half
    BY <1>1, <1>6 DEF SetExpectedCrc, OtaTypeOK
  <2>2. OtaTypeOK'
    BY <1>1, <1>6, <2>1 DEF SetExpectedCrc, OtaTypeOK, files
  <2>3. Vouched'
    BY <1>1, <1>6 DEF SetExpectedCrc, Vouched
  <2> QED BY <1>2, <2>2, <2>3 DEF OtaInv
<1>7. CASE VerifyImage
  <2>1. Crc32[image] \in Half \X Half
    BY <1>1, ImageLemma DEF OtaTypeOK
  <2>2. image_verified' \in BOOLEAN
    BY <1>7 DEF VerifyImage
  <2>3. CASE image_verified'
    <3>1. OtaTypeOK'
      BY <1>1, <1>7, <2>1, <2>2, <2>3 DEF VerifyImage, OtaTypeOK, files
    <3>2. Vouched'
      BY <1>7, <2>3 DEF VerifyImage, Vouched
    <3> QED BY <1>2, <3>1, <3>2 DEF OtaInv
  <2>4. CASE ~image_verified'
    <3>1. OtaTypeOK'
      BY <1>1, <1>7, <2>2, <2>4 DEF VerifyImage, OtaTypeOK, files
    <3> QED BY <1>2, <2>4, <3>1 DEF OtaInv, Vouched
  <2> QED BY <2>3, <2>4
<1> QED BY <1>3, <1>4, <1>5, <1>6, <1>7 DEF Command

\* Staging leaves the session as it is.
LEMMA StagingStep == OtaInv /\ Staging => OtaInv'
<1> SUFFICES ASSUME OtaInv, Staging PROVE OtaInv'
  OBVIOUS
<1>1. OtaTypeOK /\ Vouched /\ StagedFrom /\ ManifestVouched /\ RequestedIsReady
  BY DEF OtaInv
<1>2. UNCHANGED session /\ UNCHANGED accepted /\ Vouched'
  <2>1. UNCHANGED session /\ UNCHANGED accepted
    BY DEF Staging, StageActivate, WriteArtifact, WriteFails, ManifestFails, RequestReboot,
           CloseManifest, CloseArtifact
  <2> QED BY <1>1, <2>1 DEF session, Vouched
<1>3. /\ image \in Image /\ <<>> \in Image /\ Prefixes(image) \subseteq Image
      /\ Len(image) \in Nat
  BY <1>1, ImageLemma, OtaAssumption DEF OtaTypeOK
<1> DEFINE Lines == Seq([bytes : Nat, crc : Half \X Half])
<1>a. manifest \in Lines /\ Len(manifest) <= 1
  BY <1>1 DEF OtaTypeOK
<1>b. /\ at' \in {"idle", "artifact", "manifest", "closing", "closed"}
      /\ artifact' \in Image /\ manifest' \in Lines /\ Len(manifest') <= 1
      /\ reboot_requested' \in BOOLEAN /\ spoilt' \in BOOLEAN
      /\ signed' \subseteq {"bytes", "crc"}
      => OtaTypeOK'
  BY <1>1, <1>2 DEF OtaTypeOK, session
<1> HIDE DEF Lines
<1> USE DEF session
<1>4. CASE StageActivate
  <2>1. OtaTypeOK'
    BY <1>1, <1>3, <1>4, <1>a, <1>b DEF StageActivate, OtaTypeOK
  <2> QED BY <1>1, <1>2, <1>4, <2>1
          DEF StageActivate, OtaInv, StagedFrom, ManifestVouched, RequestedIsReady
<1>5. CASE WriteArtifact
  <2>1. OtaTypeOK'
    BY <1>1, <1>3, <1>5, <1>a, <1>b DEF WriteArtifact, OtaTypeOK
  <2> QED BY <1>1, <1>2, <1>5, <2>1
          DEF WriteArtifact, OtaInv, StagedFrom, ManifestVouched, RequestedIsReady
<1>6. CASE WriteFails \/ ManifestFails
  <2>1. /\ artifact' \in Image /\ at' = "idle" /\ spoilt' = TRUE
        /\ UNCHANGED <<reboot_requested, manifest, signed>>
    BY <1>3, <1>6 DEF WriteFails, ManifestFails
  <2>2. OtaTypeOK'
    BY <1>1, <2>1, <1>a, <1>b DEF OtaTypeOK
  <2> QED BY <1>1, <1>2, <2>1, <2>2
          DEF OtaInv, StagedFrom, ManifestVouched, RequestedIsReady
<1>7. CASE RequestReboot
  <2>1. manifest' \in Lines /\ Len(manifest') <= 1
    BY <1>7 DEF RequestReboot, Lines
  <2>2. OtaTypeOK'
    BY <1>1, <1>7, <1>b, <2>1 DEF RequestReboot, OtaTypeOK
  <2> QED BY <1>1, <1>2, <1>7, <2>2
          DEF RequestReboot, OtaInv, StagedFrom, ManifestVouched, RequestedIsReady
<1>8. CASE CloseManifest
  <2> DEFINE about == [bytes |-> Len(image), crc |-> expected_crc32]
  <2>1. at = "closing" /\ at' = "closed" /\ signed' = drift /\ image_verified
    BY <1>1, <1>8 DEF CloseManifest, StagedFrom
  <2>2. \/ manifest' = <<about>> /\ spoilt' = spoilt
        \/ manifest' = manifest /\ spoilt' = TRUE
    BY <1>8 DEF CloseManifest
  <2>3. about \in [bytes : Nat, crc : Half \X Half]
    BY <1>1, <1>3 DEF OtaTypeOK
  <2>c. <<about>>[1].crc = expected_crc32 /\ Len(<<about>>) = 1 /\ <<about>> \in Lines
    BY <2>3 DEF Lines
  <2> HIDE DEF about
  <2>4. manifest' \in Lines /\ Len(manifest') <= 1
    <3>1. CASE manifest' = <<about>>
      BY <2>c, <3>1
    <3>2. CASE manifest' = manifest
      BY <1>a, <3>2
    <3> QED BY <2>2, <3>1, <3>2
  <2>5. OtaTypeOK'
    BY <1>1, <1>8, <1>b, <2>1, <2>2, <2>4 DEF CloseManifest, OtaTypeOK
  <2>6. ManifestVouched'
    <3>1. CASE manifest' = <<about>>
      <4>1. manifest'[1].crc = expected_crc32
        BY <2>c, <3>1
      <4>2. "crc" \notin drift => expected_crc32 \in accepted
        BY <1>1, <2>1 DEF Vouched
      <4>3. accepted' = accepted /\ signed' = drift
        BY <1>2, <2>1
      <4> QED BY <4>1, <4>2, <4>3 DEF ManifestVouched
    <3>2. CASE manifest' = manifest
      BY <1>1, <2>1, <3>2 DEF ManifestVouched, StagedFrom
    <3> QED BY <2>2, <3>1, <3>2
  <2> QED
    BY <1>1, <1>2, <2>1, <2>2, <2>5, <2>6 DEF OtaInv, StagedFrom, RequestedIsReady, about
<1>9. CASE CloseArtifact
  <2>1. /\ at = "closed" /\ at' = "idle" /\ image_verified
        /\ UNCHANGED <<reboot_requested, manifest, signed>>
    BY <1>1, <1>9 DEF CloseArtifact, StagedFrom
  <2>2. \/ artifact' = image /\ spoilt' = spoilt
        \/ artifact' \in Image /\ spoilt' = TRUE
    BY <1>3, <1>9 DEF CloseArtifact
  <2>3. OtaTypeOK'
    BY <1>1, <1>3, <1>a, <1>b, <2>1, <2>2 DEF OtaTypeOK
  <2>4. RequestedIsReady'
    <3> SUFFICES ASSUME ~spoilt', signed' = {}
                 PROVE  Passes' /\ manifest' # <<>> /\ (Crc32[artifact] \in accepted)'
      BY DEF RequestedIsReady
    <3>1. artifact' = image /\ ~spoilt
      BY <2>2
    <3>2. manifest' = <<[bytes |-> Len(image), crc |-> expected_crc32]>> /\ drift = {}
      BY <1>1, <2>1, <3>1 DEF StagedFrom
    <3>3. Crc32[image] \in accepted /\ Crc32[image] = expected_crc32 /\ image # <<>>
      BY <1>1, <2>1, <3>2 DEF Vouched, OtaTypeOK
    <3> QED BY <1>2, <3>1, <3>2, <3>3 DEF Passes
  <2> QED BY <1>1, <1>2, <2>1, <2>3, <2>4 DEF OtaInv, StagedFrom, ManifestVouched
<1> QED BY <1>4, <1>5, <1>6, <1>7, <1>8, <1>9 DEF Staging

LEMMA OtaProcessStep == OtaInv /\ (OtaBoot \/ OtaGone) => OtaInv'
<1> SUFFICES ASSUME OtaInv, OtaBoot \/ OtaGone PROVE OtaInv'
  OBVIOUS
<1>1. OtaTypeOK /\ Vouched /\ StagedFrom /\ ManifestVouched /\ RequestedIsReady
  BY DEF OtaInv
<1>2. CASE OtaBoot
  <2>1. OtaTypeOK'
    BY <1>1, <1>2 DEF OtaBoot, OtaTypeOK, session, files
  <2>2. ~reboot_requested
    BY <1>1, <1>2 DEF OtaBoot, StagedFrom
  <2> QED BY <1>1, <1>2, <2>1, <2>2
          DEF OtaBoot, OtaInv, Vouched, StagedFrom, ManifestVouched, RequestedIsReady, session, files
<1>3. CASE OtaGone
  <2>1. OtaTypeOK'
    BY <1>1, <1>3, ImageLemma, OtaAssumption DEF OtaGone, ResetSession, OtaTypeOK
  <2> QED BY <1>1, <1>3, <2>1
          DEF OtaGone, ResetSession, OtaInv, Vouched, StagedFrom, ManifestVouched, RequestedIsReady
<1> QED BY <1>2, <1>3

LEMMA OtaInvariant == OtaSpec => []OtaInv
<1>1. OtaInv /\ [OtaNext]_otaVars => OtaInv'
  <2> SUFFICES ASSUME OtaInv, [OtaNext]_otaVars PROVE OtaInv'
    OBVIOUS
  <2>1. CASE UNCHANGED otaVars
    BY <2>1 DEF otaVars, session, files, OtaInv, OtaTypeOK, Vouched, StagedFrom,
                ManifestVouched, RequestedIsReady, Passes
  <2> QED BY <2>1, CommandStep, StagingStep, OtaProcessStep DEF OtaNext
<1> QED BY <1>1, OtaStarts, PTL DEF OtaSpec

\* The session, its files and what is known of them are what OtaTypeOK says:
\* only a session that received bytes has a verified image.
THEOREM OtaTypeCorrect == OtaSpec => []OtaTypeOK
BY OtaInvariant, PTL DEF OtaInv

\* A staged image that passes the tool with a manifest was verified
\* (PassedIsVerified): the CRC of the manifest is that of a verified image,
\* and the tool compares it with the artifact, whatever left the two files.
THEOREM StagedImagesAreVerified == OtaSpec => []PassedIsVerified
<1>1. OtaInv => PassedIsVerified
  BY DEF OtaInv, ManifestVouched, PassedIsVerified, Passes
<1> QED BY <1>1, OtaInvariant, PTL

\* A requested reboot finds an image that is verified and passes the tool
\* (RequestedIsReady), unless staging failed or the session changed after the
\* verification: what the last close writes is the image of Vouched.
THEOREM RequestsAreReady == OtaSpec => []RequestedIsReady
BY OtaInvariant, PTL DEF OtaInv

\* What VerifiedBeforeReboot wants holds as long as no byte comes after the
\* verification (OtaComponent.hpp:80): every image whose reboot is requested
\* was verified, also after a new expected CRC.
THEOREM VerifiedUnlessPushed == OtaSpec => []("bytes" \notin drift => VerifiedBeforeReboot)
<1>1. OtaInv => ("bytes" \notin drift => VerifiedBeforeReboot)
  BY DEF OtaInv, StagedFrom, Vouched, VerifiedBeforeReboot
<1> QED BY <1>1, OtaInvariant, PTL
=================================================================================
