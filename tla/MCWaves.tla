------------------------------ MODULE MCWaves -------------------------------
(* Instances of Waves for TLC: three units, of which 1 and 3 share globs, so  *)
(* that a wave comes before the third unit, or after the first.               *)
EXTENDS Waves

WaveFirst == [u \in 1 .. 3 |-> IF u = 3 THEN {1} ELSE {}]
WaveLast  == [u \in 1 .. 3 |-> IF u = 1 THEN {} ELSE {1}]

MCPlans == {WaveFirst, WaveLast}
MCMeet == {<<u, u>> : u \in 1 .. 3} \cup {<<1, 3>>, <<3, 1>>}
=============================================================================
