------------------------------- MODULE ParamMap -------------------------------
(***************************************************************************)
(* What the parameter database promises its callers (ParamDb.hpp:1-17):    *)
(* every call acts at one moment on a map from parameters to values that   *)
(* holds at most MAX_PARAMS of them.  A parameter that is asked for and    *)
(* unknown gets the default the caller brought; one that is set while the  *)
(* map is full is dropped.  The map does not outlive the process.          *)
(***************************************************************************)
EXTENDS Naturals, FiniteSets

CONSTANTS
  Param,       \* the names of parameters, by their hashes
  Value,       \* the values of a float that matter
  Default,     \* the default a caller of getParam brings for a parameter
  MAX_PARAMS   \* the entries the database has room for

VARIABLES
  map,         \* the parameters there are and their values
  answer       \* what the last getParam that took effect returns

Unasked == <<>>
Known == DOMAIN map
Put(p, v) == [q \in Known \cup {p} |-> IF q = p THEN v ELSE map[q]]
Room == Cardinality(Known) < MAX_PARAMS

MapInit == map = <<>> /\ answer = Unasked

\* A parameter is read; one that is not there comes into being if there is room.
Get(p) ==
  \/ p \in Known /\ answer' = <<p, map[p]>> /\ UNCHANGED map
  \/ p \notin Known /\ answer' = <<p, Default[p]>>
     /\ map' = IF Room THEN Put(p, Default[p]) ELSE map

\* A parameter is given a value by a caller, by the file that is loaded, or
\* by a particle.
Set(p, v) == (p \in Known \/ Room) /\ map' = Put(p, v) /\ UNCHANGED answer

Restart == map' = <<>> /\ answer' = Unasked

MapNext ==
  \/ \E p \in Param : Get(p) \/ \E v \in Value : Set(p, v)
  \/ Restart

MapSpec == MapInit /\ [][MapNext]_<<map, answer>>
===============================================================================
