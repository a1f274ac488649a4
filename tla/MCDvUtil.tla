------------------------------ MODULE MCDvUtil -------------------------------
EXTENDS DvUtil, TLC
Comp(id, class, base) == [id |-> id, class |-> class, instance |-> <<base>>]
Cmd(name, target, opcode) == [name |-> name, target |-> target, opcode |-> opcode]

MCStandardComponents == <<Comp(4, "Sequencer", "seq"), Comp(5, "Ota", "ota")>>
MCStandardCommands == <<Cmd("SEQ_CLEAR", 4, 1), Cmd("OTA_BEGIN", 5, 1), Cmd("OTA_PUSH", 5, 2)>>
MCWires == {"Sequencer"}
MCSystemInsts == {<<"cmd_hub">>}
MCShipped == [system |-> TRUE, components |-> {Comp(1, "CommandHub", "cmd_hub")},
              commands |-> <<>>, wiring |-> {}, whole |-> TRUE]
MCNewClass == {[class |-> "Thermal", instance |-> <<"seq">>]}

\* A row cut within, a row twice whose component is in neither part, a class
\* under two ids.
MCThermal == [MCShipped EXCEPT !.components = @ \cup {Comp(4, "Thermal", "seq")}]
MCScraps ==
  {[MCThermal EXCEPT !.whole = FALSE],
   [MCShipped EXCEPT !.commands = <<Cmd("SET", 4, 1), Cmd("SET", 4, 1)>>],
   [MCThermal EXCEPT !.components = @ \cup {Comp(2, "Thermal", "seq")}]}
Symmetry == Permutations(Terminal)
=============================================================================
