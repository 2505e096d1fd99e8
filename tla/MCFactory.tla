----------------------------- MODULE MCFactory ------------------------------
(* Instances of Factory for TLC: DAGs of two units, in a chain and           *)
(* independent, and a review that passes or fails in one gate.               *)
EXTENDS Factory

Chain == [u \in 1 .. 2 |-> IF u = 1 THEN {} ELSE {1}]
Pair  == [u \in 1 .. 2 |-> {}]

Pass == [outer |-> TRUE, boundary |-> TRUE, plugin |-> TRUE, bound |-> TRUE]

MCPlans == {Chain, Pair}
MCGates == {Pass, [Pass EXCEPT !.outer = FALSE], [Pass EXCEPT !.boundary = FALSE],
            [Pass EXCEPT !.plugin = FALSE], [Pass EXCEPT !.bound = FALSE]}
=============================================================================
