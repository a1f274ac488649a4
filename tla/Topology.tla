------------------------------ MODULE Topology -------------------------------
(***************************************************************************)
(* topology.yaml and what the tools compute from it: the entry rules and   *)
(* the standard bundle of tools/dv-util.py, the validation and the         *)
(* generated files of tools/autocoder.py.  A component is [id, class,      *)
(* instance], a command [name, target, opcode]; an instance name is a      *)
(* sequence, a base and the id suffixes that keep it unique.  Display      *)
(* names, types, rates and descriptions are left out: nothing here is      *)
(* decided by them.  `whole' says that the text parses and that no row     *)
(* lacks one of these fields, as a row may where a text was cut.           *)
(***************************************************************************)
EXTENDS Integers, FiniteSets, Sequences, Functions

CONSTANTS
  StandardComponents, \* STANDARD_COMPONENTS, a sequence of components
  StandardCommands,   \* STANDARD_COMMANDS, a sequence of commands
  Wires,              \* wiring_specs: the classes with a custom wiring line
  SystemInsts         \* SYSTEM_INSTS: instances wired by hand, never routed

\* The two tables: each command is of a component of the table, under a name
\* of its own.
ASSUME StandardAssumption ==
  /\ StandardComponents \in Seq(Range(StandardComponents))
  /\ StandardCommands \in Seq(Range(StandardCommands))
  /\ \A c \in Range(StandardComponents) :
       /\ c = [id |-> c.id, class |-> c.class, instance |-> c.instance]
       /\ c.id \in Int /\ c.instance \in Seq(Range(c.instance))
  /\ \A k \in Range(StandardCommands) :
       /\ k = [name |-> k.name, target |-> k.target, opcode |-> k.opcode]
       /\ k.opcode \in Int
       /\ \E c \in Range(StandardComponents) : c.id = k.target
  /\ \A i, j \in DOMAIN StandardCommands :
       StandardCommands[i].name = StandardCommands[j].name => i = j

Least(S) == CHOOSE n \in S : \A m \in S : n <= m
Greatest(S) == CHOOSE n \in S : \A m \in S : m <= n

\* A file of no bytes: yaml yields None, load_topology an empty dict.
Empty == [system |-> FALSE, components |-> {}, commands |-> <<>>, wiring |-> {}, whole |-> TRUE]

Commands(topo) == {topo.commands[i] : i \in DOMAIN topo.commands}
Ids(topo) == {c.id : c \in topo.components}
Classes(topo) == {c.class : c \in topo.components}
Instances(topo) == {c.instance : c \in topo.components}
Pairs(topo) == {<<k.target, k.opcode>> : k \in Commands(topo)}
Names(topo) == {k.name : k \in Commands(topo)}

IsComponent(c) ==
  /\ c = [id |-> c.id, class |-> c.class, instance |-> c.instance]
  /\ c.id \in Int

IsCommand(k) ==
  /\ k = [name |-> k.name, target |-> k.target, opcode |-> k.opcode]
  /\ k.opcode \in Int

Shaped(topo) ==
  /\ topo = [system |-> topo.system, components |-> topo.components,
             commands |-> topo.commands, wiring |-> topo.wiring, whole |-> topo.whole]
  /\ topo.system \in BOOLEAN /\ topo.whole \in BOOLEAN
  /\ IsFiniteSet(topo.components)
  /\ \A c \in topo.components : IsComponent(c)
  /\ topo.commands \in Seq(Commands(topo))
  /\ \A k \in Commands(topo) : IsCommand(k)

\* The dump, cut between two rows: the sections come in this order.
Prefixes(topo) ==
  {[Empty EXCEPT !.system = topo.system, !.components = part] : part \in SUBSET topo.components}
  \cup {[topo EXCEPT !.commands = SubSeq(@, 1, n), !.wiring = {}] : n \in 0 .. Len(topo.commands)}
  \cup {[topo EXCEPT !.wiring = part] : part \in SUBSET topo.wiring}

NextComponentId(topo) == IF Ids(topo) = {} THEN 100 ELSE Greatest(Ids(topo)) + 1

NextOpcode(topo, target) ==
  LET used == {k.opcode : k \in {c \in Commands(topo) : c.target = target}}
  IN  IF used = {} THEN 1 ELSE Greatest(used) + 1

ComponentAccepted(topo, entry) ==
  /\ entry.id \notin Ids(topo)
  /\ entry.class \notin Classes(topo)
  /\ entry.instance \notin Instances(topo)

\* MUTANT of CommandAccepted: the (target, opcode) pair is not looked up.
CommandAcceptedTwice(topo, entry) == entry.target \in Ids(topo)

\* The name is not looked up.
CommandAccepted(topo, entry) ==
  /\ entry.target \in Ids(topo)
  /\ <<entry.target, entry.opcode>> \notin Pairs(topo)

WithComponent(topo, entry) == [topo EXCEPT !.components = @ \cup {entry}]
WithCommand(topo, entry) == [topo EXCEPT !.commands = Append(@, entry)]

-----------------------------------------------------------------------------
(* install_standard_apps.                                                  *)

Suffixed(inst, id, taken) ==
  LET name(n) == inst \o [i \in 1 .. n |-> id]
  IN  name(Least({n \in 0 .. Cardinality(taken) : name(n) \notin taken}))

InstallComponent(topo, comp) ==
  LET id == IF comp.id \in Ids(topo) THEN NextComponentId(topo) ELSE comp.id
      entry == [comp EXCEPT !.id = id, !.instance = Suffixed(@, id, Instances(topo))]
  IN  IF comp.class \in Classes(topo) THEN topo ELSE WithComponent(topo, entry)

\* MUTANT of TargetOf: the id of the table, whoever has it by now.
TargetOfTable(topo, target) == target

\* The id the class of the table's target has in this topology; only a file
\* that two saves were mixed in has a class twice.
TargetOf(topo, target) ==
  LET class == (CHOOSE c \in Range(StandardComponents) : c.id = target).class
  IN  (CHOOSE c \in topo.components : c.class = class).id

InstallCommand(topo, cmd) ==
  LET target == TargetOf(topo, cmd.target)
      free == {n \in cmd.opcode .. cmd.opcode + Len(topo.commands) :
                 <<target, n>> \notin Pairs(topo)}
  IN  IF cmd.name \in Names(topo) THEN topo
      ELSE WithCommand(topo, [cmd EXCEPT !.target = target, !.opcode = Least(free)])

InstallWiring(topo) ==
  [topo EXCEPT !.wiring =
     @ \cup {<<c.class, c.instance>> : c \in {d \in topo.components : d.class \in Wires}}]

\* The loops over the two tables.
InstallComponents(topo) ==
  LET done[n \in 0 .. Len(StandardComponents)] ==
        IF n = 0 THEN topo ELSE InstallComponent(done[n - 1], StandardComponents[n])
  IN  done[Len(StandardComponents)]

InstallCommands(topo) ==
  LET done[n \in 0 .. Len(StandardCommands)] ==
        IF n = 0 THEN topo ELSE InstallCommand(done[n - 1], StandardCommands[n])
  IN  done[Len(StandardCommands)]

Installed(topo) == InstallWiring(InstallCommands(InstallComponents(topo)))

-----------------------------------------------------------------------------
(* autocoder.py: validate, render_dict and render_topo.                    *)

\* The rows agree with each other.
Valid(topo) ==
  /\ \A c, d \in topo.components : c.id = d.id => c = d
  /\ \A i, j \in DOMAIN topo.commands :
       /\ topo.commands[i].target \in Ids(topo)
       /\ topo.commands[i].target = topo.commands[j].target
            /\ topo.commands[i].opcode = topo.commands[j].opcode => i = j

\* validate passes and nothing is missing to render: of an empty file it has
\* None, of one without its system section a KeyError.
Generates(topo) == topo.system /\ topo.whole /\ Valid(topo)

\* What the entry rules keep beside that.
Distinct(topo) ==
  \A c, d \in topo.components : c # d => c.class # d.class /\ c.instance # d.instance

\* dictionary.json is keyed by name: of two commands the later one stays.
DictionaryOf(topo) ==
  [n \in Names(topo) |->
     LET i == Greatest({j \in DOMAIN topo.commands : topo.commands[j].name = n})
     IN  <<topo.commands[i].target, topo.commands[i].opcode>>]

\* The components TopologyManager routes commands to, and the policies it
\* registers with the command hub.
ManagerOf(topo) ==
  [routes |-> {c.id : c \in {d \in topo.components :
                 /\ d.instance \notin SystemInsts
                 /\ \E k \in Commands(topo) : k.target = d.id}},
   policies |-> Pairs(topo),
   wiring |-> topo.wiring]

=============================================================================
