---------------------------- MODULE MCToolCalls ----------------------------
(* ToolCalls for TLC: two files and room for one node, so that a look-up may *)
(* hit, miss and drive out the other.                                       *)
EXTENDS ToolCalls, TLC
CONSTANTS f1, f2
Symmetry == Permutations({f1, f2})
=============================================================================
