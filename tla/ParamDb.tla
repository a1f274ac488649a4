-------------------------------- MODULE ParamDb --------------------------------
(***************************************************************************)
(* The parameter database of the host build (src/src/ParamDb.hpp) and the  *)
(* process around it: main loads the file, the threads of the rate groups  *)
(* call it concurrently, the supervisor has its checksum verified, main    *)
(* saves it.  A step is what is atomic to the other threads: a lock-free   *)
(* lookup is one (the names of published entries never change), the load   *)
(* of the value it found another; under write_mutex the change and the     *)
(* checksum over it are two steps.  The checksum stands for what it was    *)
(* computed over: CRC-32 tells any two tables apart that differ in one     *)
(* word.  Particles upset values, never names.                             *)
(***************************************************************************)
EXTENDS Naturals, Sequences, FiniteSets

CONSTANTS
  Param, Value, Default, MAX_PARAMS,  \* as in ParamMap
  Printed,      \* what a value reads back as: operator<< writes six digits
  Unreadable,   \* the values operator<< prints and operator>> does not read
  Caller,       \* the threads of the rate groups
  MaxCalls,     \* bound: calls of a process
  MaxBoots      \* bound: starts of the process

\* write_mutex when no caller holds it.
Nobody == "nobody"

ASSUME ParamAssumption ==
  /\ Nobody \notin Caller
  /\ Default \in [Param -> Value]
  /\ Printed \in [Value -> Value]
  /\ \A v \in Value : Printed[v] \in Unreadable <=> v \in Unreadable
  /\ MAX_PARAMS \in Nat /\ MaxCalls \in Nat /\ MaxBoots \in Nat

VARIABLES
  phase,         \* off, load, run, save (before the file), write (it is empty)
  params,        \* the entries that are published: count of them
  expected_crc,  \* the table the checksum was computed over
  write_mutex,   \* the caller that holds it
  call,          \* where each caller is in its call
  answer,        \* what the last getParam that took effect returns
  file,          \* mission_params.db
  left,          \* the lines of it that load has not read
  struck,        \* history: a value was upset since the checksum was computed
  report,        \* history: the last result of verifyIntegrity
  kept,          \* history: the table of the last save, until the next begins
  calls, boots   \* how many calls and starts there were

volatile == <<params, expected_crc, write_mutex, call, answer, left, struck, report, calls>>
persistent == <<file, kept, boots>>
paramVars == <<phase, volatile, persistent>>

-----------------------------------------------------------------------------
\* Tables.

Entry == [id : Param, value : Value]
Line(p, v) == [id |-> p, value |-> v]
Slots(table) == 1 .. Len(table)
Ids(table) == {table[i].id : i \in Slots(table)}
SlotOf(table, p) == CHOOSE i \in Slots(table) : table[i].id = p
\* The map a table is, as a lookup sees it.
AsMap(table) == [p \in Ids(table) |-> table[SlotOf(table, p)].value]

Readable(table) == \A i \in Slots(table) : table[i].value \notin Unreadable
AsPrinted(table) == [i \in Slots(table) |-> Line(table[i].id, Printed[table[i].value])]

\* setParam: an entry is overwritten, or appended if there is room.
Stored(table, p, v) ==
  IF p \in Ids(table) THEN [table EXCEPT ![SlotOf(table, p)].value = v]
  ELSE IF Len(table) < MAX_PARAMS THEN Append(table, Line(p, v))
  ELSE table

Idle == [at |-> "idle"]
Unasked == <<>>
NoReport == [intact |-> TRUE, struck |-> FALSE]

ParamInit ==
  /\ phase = "off" /\ file = <<>> /\ kept = [table |-> <<>>, whole |-> TRUE] /\ boots = 0
  /\ params = <<>> /\ expected_crc = <<>> /\ write_mutex = Nobody
  /\ call = [c \in Caller |-> Idle] /\ answer = Unasked /\ left = <<>>
  /\ struck = FALSE /\ report = NoReport /\ calls = 0
-----------------------------------------------------------------------------
\* The calls of the threads.

Begin(c, state) ==
  /\ phase = "run" /\ call[c] = Idle /\ calls < MaxCalls
  /\ calls' = calls + 1
  /\ call' = [call EXCEPT ![c] = state]
  /\ UNCHANGED <<phase, params, expected_crc, write_mutex, answer, left, struck, report,
                 persistent>>

\* getParam looks among the entries that are published, without a lock.
GetParam(c, p) ==
  Begin(c, IF p \in Ids(params)
           THEN [at |-> "found", param |-> p, slot |-> SlotOf(params, p)]
           ELSE [at |-> "lock", does |-> "get", param |-> p])

SetParam(c, p, v) == Begin(c, [at |-> "lock", does |-> "set", param |-> p, value |-> v])

VerifyIntegrity(c) == Begin(c, [at |-> "lock", does |-> "verify"])

\* The fast path: the value as it is by now.
LoadFound(c) ==
  /\ call[c].at = "found"
  /\ answer' = <<call[c].param, params[call[c].slot].value>>
  /\ call' = [call EXCEPT ![c] = Idle]
  /\ UNCHANGED <<phase, params, expected_crc, write_mutex, left, struck, report, calls,
                 persistent>>

Lock(c) ==
  /\ call[c].at = "lock" /\ write_mutex = Nobody
  /\ write_mutex' = c
  /\ call' = [call EXCEPT ![c].at = "held"]
  /\ UNCHANGED <<phase, params, expected_crc, answer, left, struck, report, calls,
                 persistent>>

Held(c, does) == call[c].at = "held" /\ call[c].does = does

\* Release of the lock and return, or on to the checksum if a table changed.
Unlock(c) == write_mutex' = Nobody /\ call' = [call EXCEPT ![c] = Idle]
Store(c, p, v) ==
  /\ params' = Stored(params, p, v)
  /\ IF p \in Ids(params) \/ Len(params) < MAX_PARAMS
     THEN /\ call' = [call EXCEPT ![c].at = "checksum"]
          /\ UNCHANGED write_mutex
     ELSE Unlock(c)

\* MUTANT of GetAgain: the entry is appended without a second look (F-06).
GetAgainUnseen(c) ==
  /\ Held(c, "get") /\ Len(params) < MAX_PARAMS
  /\ LET p == call[c].param IN
     /\ answer' = <<p, Default[p]>>
     /\ params' = Append(params, Line(p, Default[p]))
  /\ call' = [call EXCEPT ![c].at = "checksum"]
  /\ UNCHANGED <<phase, expected_crc, write_mutex, left, struck, report, calls, persistent>>

\* The second look, under the lock: another thread may have been quicker.
GetAgain(c) ==
  /\ Held(c, "get")
  /\ LET p == call[c].param IN
     IF p \in Ids(params)
     THEN /\ answer' = <<p, params[SlotOf(params, p)].value>>
          /\ Unlock(c) /\ UNCHANGED params
     ELSE /\ answer' = <<p, Default[p]>>
          /\ Store(c, p, Default[p])
  /\ UNCHANGED <<phase, expected_crc, left, struck, report, calls, persistent>>

StoreValue(c) ==
  /\ Held(c, "set")
  /\ Store(c, call[c].param, call[c].value)
  /\ UNCHANGED <<phase, expected_crc, answer, left, struck, report, calls, persistent>>

UpdateChecksum(c) ==
  /\ call[c].at = "checksum"
  /\ expected_crc' = params /\ struck' = FALSE
  /\ Unlock(c)
  /\ UNCHANGED <<phase, params, answer, left, report, calls, persistent>>

\* MUTANT of Compare: verifyIntegrity does not take the lock (PRCA-006).
CompareUnlocked(c) ==
  /\ call[c].at = "lock" /\ call[c].does = "verify"
  /\ report' = [intact |-> params = expected_crc, struck |-> struck]
  /\ call' = [call EXCEPT ![c] = Idle]
  /\ UNCHANGED <<phase, params, expected_crc, write_mutex, answer, left, struck, calls,
                 persistent>>

Compare(c) ==
  /\ Held(c, "verify")
  /\ report' = [intact |-> params = expected_crc, struck |-> struck]
  /\ Unlock(c)
  /\ UNCHANGED <<phase, params, expected_crc, answer, left, struck, calls, persistent>>

\* A particle changes a value in memory.
Upset(i, v) ==
  /\ phase \in {"run", "save"}
  /\ params' = [params EXCEPT ![i].value = v] /\ struck' = TRUE
  /\ UNCHANGED <<phase, expected_crc, write_mutex, call, answer, left, report, calls,
                 persistent>>
-----------------------------------------------------------------------------
\* The process.

\* Memory as a process that starts or is gone has it.
Empty ==
  /\ params' = <<>> /\ expected_crc' = <<>> /\ write_mutex' = Nobody
  /\ call' = [c \in Caller |-> Idle] /\ answer' = Unasked
  /\ struck' = FALSE /\ report' = NoReport /\ calls' = 0

Boot ==
  /\ phase = "off" /\ boots < MaxBoots
  /\ phase' = "load" /\ boots' = boots + 1 /\ left' = file
  /\ Empty /\ UNCHANGED <<file, kept>>

\* The stream gives no more lines: it is at its end, or it has failed.
Ended == left # <<>> => Head(left).value \in Unreadable

\* setParam of a line, by the only thread there is.
LoadLine ==
  /\ phase = "load" /\ ~Ended
  /\ LET p == Head(left).id
         v == Head(left).value IN
     /\ params' = Stored(params, p, v)
     /\ expected_crc' = params'
  /\ left' = Tail(left)
  /\ UNCHANGED <<phase, write_mutex, call, answer, struck, report, calls, persistent>>

StartThreads ==
  /\ phase = "load" /\ Ended
  /\ phase' = "run" /\ expected_crc' = params /\ left' = <<>>
  /\ UNCHANGED <<params, write_mutex, call, answer, struck, report, calls, persistent>>

\* main has joined the threads.
StopThreads ==
  /\ phase = "run" /\ \A c \in Caller : call[c] = Idle
  /\ phase' = "save"
  /\ UNCHANGED <<volatile, persistent>>

\* The process is over, with nothing of its memory left.
Gone == phase' = "off" /\ left' = <<>> /\ Empty

\* The file cannot be opened, or it is emptied by being opened.
SaveFails == phase = "save" /\ Gone /\ UNCHANGED persistent
Truncate ==
  /\ phase = "save"
  /\ phase' = "write" /\ file' = <<>> /\ kept' = [kept EXCEPT !.whole = FALSE]
  /\ UNCHANGED <<volatile, boots>>

\* MUTANT of WriteFile: the loop stops one entry early.
WriteFileShort ==
  /\ phase = "write"
  /\ file' = SubSeq(AsPrinted(params), 1, Len(params) - 1)
  /\ kept' = [table |-> params, whole |-> TRUE]
  /\ Gone /\ UNCHANGED boots

\* The stream buffers all of a table and writes it when save returns.
WriteFile ==
  /\ phase = "write"
  /\ file' = AsPrinted(params) /\ kept' = [table |-> params, whole |-> TRUE]
  /\ Gone /\ UNCHANGED boots

Crash == phase # "off" /\ Gone /\ UNCHANGED persistent
-----------------------------------------------------------------------------
Step(c) ==
  \/ \E p \in Param : GetParam(c, p) \/ \E v \in Value : SetParam(c, p, v)
  \/ VerifyIntegrity(c)
  \/ LoadFound(c) \/ Lock(c) \/ GetAgain(c) \/ StoreValue(c) \/ UpdateChecksum(c) \/ Compare(c)

Process ==
  \/ Boot \/ LoadLine \/ StartThreads \/ StopThreads
  \/ SaveFails \/ Truncate \/ WriteFile \/ Crash

ParamNext ==
  \/ \E c \in Caller : Step(c)
  \/ \E i \in Slots(params), v \in Value : Upset(i, v)
  \/ Process

ParamSpec == ParamInit /\ [][ParamNext]_paramVars
-----------------------------------------------------------------------------
\* Where a caller can be.
CallState ==
  {Idle}
  \cup [at : {"found"}, param : Param, slot : 1 .. MAX_PARAMS]
  \cup [at : {"lock", "held", "checksum"}, does : {"get"}, param : Param]
  \cup [at : {"lock", "held", "checksum"}, does : {"set"}, param : Param, value : Value]
  \cup [at : {"lock", "held"}, does : {"verify"}]

\* A table fits the database and has one entry per parameter.
Sound(table) ==
  /\ table \in Seq(Entry) /\ Len(table) <= MAX_PARAMS
  /\ \A i, j \in Slots(table) : table[i].id = table[j].id => i = j

\* Tables are sound, and the lock is held by who is inside.
ParamTypeOK ==
  /\ phase \in {"off", "load", "run", "save", "write"}
  /\ Sound(params) /\ Sound(file) /\ Sound(kept.table)
  /\ expected_crc \in Seq(Entry) /\ left \in Seq(Entry)
  /\ call \in [Caller -> CallState]
  /\ \A c \in Caller : call[c].at \in {"held", "checksum"} <=> write_mutex = c
  /\ answer \in {Unasked} \cup (Param \X Value)
  /\ struck \in BOOLEAN /\ kept.whole \in BOOLEAN
  /\ calls \in 0 .. MaxCalls /\ boots \in 0 .. MaxBoots

\* The database is the map its callers think it is, whatever the threads do
\* at once (ParamDb.hpp:9-13): each call takes effect at one moment between
\* its start and its return, no parameter has two entries and none is lost.
Map == INSTANCE ParamMap WITH map <- AsMap(params)
ImplementsParamMap == Map!MapSpec

\* FDIR's CRITICAL event and the fall to SAFE_MODE are never raised by a
\* thread that was writing: verifyIntegrity returns false only if a value
\* in memory changed by itself since the checksum was computed
\* (ParamDb.hpp:137-144, WatchdogComponent.hpp:143-147).
AlarmIsTrue == ~report.intact => report.struck

\* What was saved is what the next process starts with, entry by entry and
\* to six digits, if no later save was begun and all of it can be read
\* (ParamDb.hpp:194-199, 246-252).
SurvivesReboot ==
  phase = "load" /\ Ended /\ kept.whole /\ Readable(kept.table)
    => params = AsPrinted(kept.table)

\* ParamDb.hpp:6: the database "Persists to filesystem for SITL across
\* reboots": a parameter that was saved is there again.
KnownAfterReboot ==
  phase = "load" /\ Ended /\ kept.whole => Ids(params) = Ids(kept.table)
=================================================================================
