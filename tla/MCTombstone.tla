----------------------------- MODULE MCTombstone -----------------------------
(***************************************************************************)
(* An instance of Tombstone: the engine that starts a run, one that        *)
(* resumes it, and cancels.                                                *)
(***************************************************************************)
EXTENDS Tombstone, TLC

Symmetry == Permutations(Engines) \cup Permutations(Cancels)
=============================================================================
