----------------------------- MODULE MCRepoLock -----------------------------
(* Instances of RepoLock for TLC: three processes, four runs whose globs     *)
(* are disjoint, overlapping, and empty (which means exclusive).             *)
EXTENDS RepoLock, TLC

CONSTANTS r1, r2, r3, r4, ga, gb

MCPaths == (r1 :> {ga}) @@ (r2 :> {gb}) @@ (r3 :> {ga, gb}) @@ (r4 :> {})
MCOverlap == {<<ga, ga>>, <<gb, gb>>}
Symmetry == Permutations(Proc)
=============================================================================
