------------------------------ MODULE MCSrvman ------------------------------
(* Model-checking instance of Srvman: two listeners in list order, the     *)
(* first with max-children 1 and the second unlimited, a global limit of   *)
(* two, and a kernel that has three pids to hand out.                      *)
EXTENDS Srvman, TLC

CONSTANTS p1, p2, p3

MCPids == {p1, p2, p3}
MCMaxChildren == [s \in 1..2 |-> IF s = 1 THEN 1 ELSE 0]
MCSymmetry == Permutations(MCPids)
=============================================================================
