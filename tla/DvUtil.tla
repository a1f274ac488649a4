------------------------------- MODULE DvUtil --------------------------------
(***************************************************************************)
(* The developer tools at work on one checkout: tools/dv-util.py from the  *)
(* command line or its boot menu, and tools/autocoder.py, in several       *)
(* terminals at once.  Nothing locks topology.yaml: a tool loads it, the   *)
(* wizards prompt, and the copy is written back over a file that is        *)
(* emptied first and filled a buffer at a time: whoever comes, or dies, in *)
(* between finds or leaves a part of it, and two saves at once a mixture   *)
(* of both.  A class is claimed by its header, which is written before the *)
(* entry; a die() or Ctrl-C in between leaves the header.                  *)
(***************************************************************************)
EXTENDS Topology

CONSTANTS
  Terminal,
  Shipped,        \* the topology of the repository
  NewClass,       \* classes a developer may add: [class, instance] of each
  NewName,        \* command names a developer may choose
  Scraps,         \* what a text that is cut inside a row, or mixed of two, may read as
  ChosenId,       \* ids a developer may type instead of the suggestion
  MaxCommands,    \* bound on the commands beside the standard ones
  MaxRuns         \* bound on the tool runs and edits by hand

\* Of a scrap only the shape is assumed: its rows may clash, dangle or be
\* incomplete.
ASSUME DvUtilAssumption ==
  /\ Shaped(Shipped) /\ Generates(Shipped) /\ Distinct(Shipped)
  /\ MaxCommands \in Nat /\ MaxRuns \in Nat
  /\ \A topo \in {Shipped} \cup Scraps :
       Shaped(topo) /\ Len(topo.commands) <= MaxCommands + Len(StandardCommands)
  /\ ChosenId \subseteq Int

VARIABLES
  headers,        \* the classes with a src/<class>.hpp
  topology,       \* topology.yaml
  dictionary,     \* dictionary.json
  manager,        \* src/TopologyManager.hpp
  session,        \* what each terminal is doing, with its loaded copy
  reported,       \* history: entries a tool said it had added
  left,           \* how many more runs and edits there may be
  mixed,          \* two saves met, and one of them has the file open still
  raced,          \* history: two sessions overlapped or a save was cut short
  torn            \* history: a save was cut short, or met by another or by a load

vars == <<headers, topology, dictionary, manager, session, reported, left, mixed, raced, torn>>

Idle == [op |-> "none", at |-> "idle", new |-> {}, copy |-> Empty]
ComponentOps == {"add_component", "quickstart", "wizard"}
Entries(topo) == topo.components \cup Commands(topo)

TypeOK ==
  /\ headers \subseteq Classes(Shipped) \cup {c.class : c \in NewClass}
                         \cup {c.class : c \in Range(StandardComponents)}
  /\ topology.system \in BOOLEAN
  /\ Len(topology.commands) <= MaxCommands + Len(StandardCommands)
  /\ session \in [Terminal -> [op : ComponentOps \cup {"none", "command", "install", "autocoder"},
                               at : {"idle", "load", "edit", "save", "write", "part", "dict", "topo"},
                               new : SUBSET NewClass,
                               copy : {session[t].copy : t \in Terminal}]]
  /\ \A t \in Terminal :
       /\ session[t].at = "idle" => session[t] = Idle
       /\ session[t].op \in ComponentOps => session[t].new # {}
  /\ left \in 0 .. MaxRuns
  /\ mixed \in BOOLEAN /\ raced \in BOOLEAN /\ torn \in BOOLEAN

Init ==
  /\ headers = Classes(Shipped) \cup {c.class : c \in Range(StandardComponents)}
  /\ topology = Shipped
  /\ dictionary = DictionaryOf(Shipped)
  /\ manager = ManagerOf(Shipped)
  /\ session = [t \in Terminal |-> Idle]
  /\ reported = {}
  /\ left = MaxRuns
  /\ mixed = FALSE /\ raced = FALSE /\ torn = FALSE

\* The terminals that have the file open for writing, and those that work on
\* a copy of it.
Writing(t) == session[t].at \in {"write", "part"}
Holding(t) == session[t].at \in {"edit", "save"} \/ Writing(t)
OthersWrite(t) == \E u \in Terminal \ {t} : Writing(u)
OthersHold(t) == \E u \in Terminal \ {t} : Holding(u)

-----------------------------------------------------------------------------
(* Starting a command.                                                     *)

\* create_component_header refuses a class whose header exists.
CreateHeader(t, op, new) ==
  /\ left > 0 /\ left' = left - 1
  /\ session[t].at = "idle"
  /\ new.class \notin headers
  /\ headers' = headers \cup {new.class}
  /\ session' = [session EXCEPT ![t] = [Idle EXCEPT !.op = op, !.at = "load", !.new = {new}]]
  /\ UNCHANGED <<topology, dictionary, manager, reported, mixed, raced, torn>>

Start(t, op) ==
  /\ left > 0 /\ left' = left - 1
  /\ session[t].at = "idle"
  /\ session' = [session EXCEPT ![t] = [Idle EXCEPT !.op = op, !.at = "load"]]
  /\ UNCHANGED <<headers, topology, dictionary, manager, reported, mixed, raced, torn>>

\* die(), a cancelled prompt, --register not given, or Ctrl-C.
Quit(t) ==
  /\ session[t].at \in {"load", "edit", "dict", "topo"}
  /\ session' = [session EXCEPT ![t] = Idle]
  /\ UNCHANGED <<headers, topology, dictionary, manager, reported, mixed, raced, torn, left>>

\* MUTANT of LoadTopology: the boot menu loads it once, when it is started.
LoadTopologyOnce(t) ==
  /\ session[t].op # "autocoder" /\ session[t].at = "load"
  /\ session' = [session EXCEPT ![t].at = "edit", ![t].copy = Shipped]
  /\ raced' = (raced \/ OthersWrite(t)) /\ torn' = (torn \/ OthersWrite(t))
  /\ UNCHANGED <<headers, topology, dictionary, manager, reported, mixed, left>>

LoadTopology(t) ==
  /\ session[t].op # "autocoder" /\ session[t].at = "load"
  /\ session' = [session EXCEPT ![t].at = "edit", ![t].copy = topology]
  /\ raced' = (raced \/ OthersWrite(t)) /\ torn' = (torn \/ OthersWrite(t))
  /\ UNCHANGED <<headers, topology, dictionary, manager, reported, mixed, left>>

-----------------------------------------------------------------------------
(* Editing the loaded copy.  An entry that is refused ends a command       *)
(* (Quit) or is asked for again by a wizard.                               *)

Edited(t, topo) ==
  /\ Len(topo.commands) <= MaxCommands + Len(StandardCommands)
  /\ session' = [session EXCEPT ![t].at = "save", ![t].copy = topo]
  /\ UNCHANGED <<headers, topology, dictionary, manager, reported, mixed, raced, torn, left>>

NewEntry(t, id) ==
  LET new == CHOOSE c \in session[t].new : TRUE
  IN  [id |-> id, class |-> new.class, instance |-> new.instance]

EditComponent(t, id) ==
  /\ session[t].at = "edit" /\ session[t].op \in {"add_component", "wizard"}
  /\ ComponentAccepted(session[t].copy, NewEntry(t, id))
  /\ Edited(t, WithComponent(session[t].copy, NewEntry(t, id)))

\* Component and command are saved together or not at all.
EditQuickstart(t, id, name) ==
  LET topo == WithComponent(session[t].copy, NewEntry(t, id))
      cmd == [name |-> name, target |-> id, opcode |-> NextOpcode(topo, id)]
  IN  /\ session[t].at = "edit" /\ session[t].op = "quickstart"
      /\ ComponentAccepted(session[t].copy, NewEntry(t, id))
      /\ CommandAccepted(topo, cmd)
      /\ Edited(t, WithCommand(topo, cmd))

EditCommand(t, name, target, opcode) ==
  LET cmd == [name |-> name, target |-> target, opcode |-> opcode]
  IN  /\ session[t].at = "edit" /\ session[t].op = "command"
      /\ CommandAccepted(session[t].copy, cmd)
      /\ Edited(t, WithCommand(session[t].copy, cmd))

EditInstall(t) ==
  /\ session[t].at = "edit" /\ session[t].op = "install"
  /\ IF Installed(session[t].copy) = session[t].copy
       THEN /\ session' = [session EXCEPT ![t] = Idle]
            /\ UNCHANGED <<headers, topology, dictionary, manager, reported, mixed, raced, torn,
                           left>>
       ELSE Edited(t, Installed(session[t].copy))

-----------------------------------------------------------------------------
(* save_topology: open(..., "w") empties the file, yaml.dump fills it      *)
(* through a buffer that is written when it is full and by the close.      *)

SaveBegin(t) ==
  /\ session[t].at = "save"
  /\ topology' = Empty
  /\ session' = [session EXCEPT ![t].at = "write"]
  /\ mixed' = OthersWrite(t)
  /\ raced' = (raced \/ OthersHold(t)) /\ torn' = (torn \/ OthersWrite(t))
  /\ UNCHANGED <<headers, dictionary, manager, reported, left>>

\* A full buffer: the text is less than two.
SavePart(t) ==
  /\ session[t].at = "write"
  /\ topology' \in Prefixes(session[t].copy) \cup Scraps
  /\ session' = [session EXCEPT ![t].at = "part"]
  /\ UNCHANGED <<headers, dictionary, manager, reported, mixed, raced, torn, left>>

\* What comes after the save: the wizard may go on to a command, and any of
\* them to the autocoder.
Next_op(t) ==
  {Idle, [Idle EXCEPT !.op = "autocoder", !.at = "load"]} \cup
  (IF session[t].op = "wizard"
     THEN {[Idle EXCEPT !.op = "command", !.at = "load", !.new = session[t].new]} ELSE {})

SaveEnd(t) ==
  /\ Writing(t)
  /\ topology' \in {session[t].copy} \cup (IF mixed THEN Scraps ELSE {})
  /\ reported' = reported \cup (Entries(session[t].copy) \ Entries(Shipped))
  /\ \E s \in Next_op(t) : session' = [session EXCEPT ![t] = s]
  /\ mixed' = (mixed /\ OthersWrite(t))
  /\ UNCHANGED <<headers, dictionary, manager, raced, torn, left>>

\* After Ctrl-C in the dump the close still writes what is in the buffer.
Kill(t) ==
  /\ Writing(t)
  /\ topology' \in {topology} \cup Prefixes(session[t].copy) \cup Scraps
  /\ session' = [session EXCEPT ![t] = Idle]
  /\ mixed' = (mixed /\ OthersWrite(t)) /\ raced' = TRUE /\ torn' = TRUE
  /\ UNCHANGED <<headers, dictionary, manager, reported, left>>

-----------------------------------------------------------------------------
(* autocoder.py writes the dictionary, then the wiring of the vehicle.     *)
(* Types.hpp, between them, is the same text for every topology.           *)

\* It may come in the middle of a save, and take a part for the whole.
AutocoderLoad(t) ==
  /\ session[t].op = "autocoder" /\ session[t].at = "load"
  /\ Generates(topology)
  /\ session' = [session EXCEPT ![t].at = "dict", ![t].copy = topology]
  /\ UNCHANGED <<headers, topology, dictionary, manager, reported, mixed, raced, torn, left>>

WriteDictionary(t) ==
  /\ session[t].at = "dict"
  /\ dictionary' = DictionaryOf(session[t].copy)
  /\ session' = [session EXCEPT ![t].at = "topo"]
  /\ UNCHANGED <<headers, topology, manager, reported, mixed, raced, torn, left>>

WriteManager(t) ==
  /\ session[t].at = "topo"
  /\ manager' = ManagerOf(session[t].copy)
  /\ session' = [session EXCEPT ![t] = Idle]
  /\ UNCHANGED <<headers, topology, dictionary, reported, mixed, raced, torn, left>>

\* MUTANT of CheckPasses: TopologyManager.hpp is not compared.
CheckPassesOnDictionary ==
  /\ Generates(topology)
  /\ dictionary = DictionaryOf(topology)

\* autocoder.py --check exits with 0.
CheckPasses ==
  /\ Generates(topology)
  /\ dictionary = DictionaryOf(topology)
  /\ manager = ManagerOf(topology)

\* A developer renames a command in the file, as "after ANY edit" allows; not
\* in the instant of a save.
RenameByHand(i, name) ==
  /\ left > 0 /\ left' = left - 1
  /\ \A t \in Terminal : ~Writing(t)
  /\ topology.commands[i].name # name
  /\ topology' = [topology EXCEPT !.commands[i].name = name]
  /\ reported' = reported \ {topology.commands[i]}
  /\ raced' = (raced \/ \E t \in Terminal : Holding(t))
  /\ UNCHANGED <<headers, dictionary, manager, session, mixed, torn>>

Terminates(t) ==
  \/ \E op \in ComponentOps, new \in NewClass : CreateHeader(t, op, new)
  \/ \E op \in {"command", "install", "autocoder"} : Start(t, op)
  \/ Quit(t)
  \/ Kill(t)

Works(t) ==
  LET ids == ChosenId \cup {NextComponentId(session[t].copy)}
  IN  \/ LoadTopology(t)
      \/ \E id \in ids : EditComponent(t, id)
      \/ \E id \in ids, name \in NewName : EditQuickstart(t, id, name)
      \/ \E name \in NewName, target \in Ids(session[t].copy) :
           \E opcode \in {1, NextOpcode(session[t].copy, target)} :
             EditCommand(t, name, target, opcode)
      \/ EditInstall(t)
      \/ SaveBegin(t)
      \/ SavePart(t)
      \/ SaveEnd(t)
      \/ AutocoderLoad(t)
      \/ WriteDictionary(t)
      \/ WriteManager(t)

Next ==
  \/ \E t \in Terminal : Terminates(t) \/ Works(t)
  \/ \E i \in DOMAIN topology.commands, name \in NewName : RenameByHand(i, name)

Spec == Init /\ [][Next]_vars

-----------------------------------------------------------------------------
(* Sessions that lose each other's edits still leave a file the autocoder  *)
(* generates from, with each class and instance once and a header for each *)
(* class it names (dv-util.py:431-494), as long as each save ran to its    *)
(* end and had the file to itself while it did (dv-util.py:409-411).       *)
ToolsKeepItValid ==
  \/ torn
  \/ \E t \in Terminal : Writing(t)
  \/ Generates(topology) /\ Distinct(topology) /\ Classes(topology) \subseteq headers

(* install-standard-apps, run on any topology a cut-short save, a mixture  *)
(* of two or a developer can leave and the autocoder has nothing against,  *)
(* adds each standard command to the component of its class, wherever that *)
(* had to move, wires each class to its own instance, and run again        *)
(* changes nothing (dv-util.py:505-598).                                   *)
InstallSettles ==
  LET done == Installed(topology)
  IN  topology.whole /\ Valid(topology) /\ Distinct(topology) =>
        /\ Valid(done) /\ Installed(done) = done
        /\ \A k \in Commands(done) \ Commands(topology) :
             LET std == CHOOSE s \in Range(StandardCommands) : s.name = k.name
                 home == CHOOSE c \in done.components : c.id = k.target
             IN  \E s \in Range(StandardComponents) : s.id = std.target /\ s.class = home.class
        /\ \A c \in done.components :
             c.class \in Wires => <<c.class, c.instance>> \in done.wiring

(* One session at a time, none killed in a save: what a tool reported as   *)
(* added is in topology.yaml until the developer edits it out.  With two   *)
(* terminals the later save drops the earlier one (dv-util.py:409).        *)
NothingLostAlone ==
  \/ raced
  \/ \E t \in Terminal : Writing(t)
  \/ reported \subseteq Entries(topology)

(* Files that pass autocoder.py --check agree with each other, whichever   *)
(* runs wrote them and wherever those were cut short: each command the     *)
(* ground is offered has a policy on the vehicle and, unless it is for     *)
(* the infrastructure, a route (autocoder.py:540-555).                     *)
OfferedIsServed ==
  CheckPasses =>
    \A n \in DOMAIN dictionary :
      /\ dictionary[n] \in manager.policies
      /\ \/ dictionary[n][1] \in manager.routes
         \/ \E c \in topology.components : c.id = dictionary[n][1] /\ c.instance \in SystemInsts

=============================================================================
