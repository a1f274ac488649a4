------------------------------- MODULE MCParamDb -------------------------------
(***************************************************************************)
(* The parameter database with more parameters than it has room for: a     *)
(* value that printing rounds, the value it is rounded to, and one that    *)
(* cannot be read back.                                                    *)
(***************************************************************************)
EXTENDS ParamDb, TLC

CONSTANTS p1, p2, p3, pi, rounded, nan, fast, norm

MCParam == {p1, p2, p3}
MCValue == {pi, rounded, nan}
MCDefault == [p \in MCParam |-> pi]
MCPrinted == [v \in MCValue |-> IF v = pi THEN rounded ELSE v]
MCCaller == {fast, norm}
Symmetric == Permutations(MCParam) \cup Permutations(MCCaller)
=================================================================================
