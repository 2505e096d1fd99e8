----------------------------- MODULE MCCommands -----------------------------
(* Instances of Commands for TLC: two runs with disjoint globs.             *)
EXTENDS Commands, TLC

CONSTANTS r1, r2, ga, gb

MCPaths == [r \in Run |-> IF r = r1 THEN {ga} ELSE {gb}]
MCOverlap == {<<ga, ga>>, <<gb, gb>>}
Symmetry == Permutations(Proc)
=============================================================================
