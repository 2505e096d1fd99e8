------------------------------ MODULE MCImprove ------------------------------
(* Two processes on one repository: improve with three iterations, and a start. *)
EXTENDS Improve, TLC

CONSTANTS improve, start, red, both

MCIterations == improve :> 3 @@ start :> 1
=============================================================================
