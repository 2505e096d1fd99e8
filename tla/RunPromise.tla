---------------------------- MODULE RunPromise -----------------------------
(***************************************************************************)
(* What a factory run promises to who started it (docs/PRD.md FR-013 and   *)
(* FR-014, as far as the engine keeps it): it is accepted only when every  *)
(* unit it knows of has an accept for its newest verdict, an accept is     *)
(* never taken back, the single unit of a run is reworked MaxRework times  *)
(* at most, and a run that is over stays as it is.                         *)
(***************************************************************************)
EXTENDS Naturals

CONSTANTS Units, MaxRework

VARIABLES
    status,     \* "open", or how the run ended
    todo,       \* the units known so far
    judged,     \* the units whose newest verdict is an accept
    reworks     \* rework verdicts on the single unit

vars == <<status, todo, judged, reworks>>

Endings == {"accepted", "rejected", "cancelled", "budget_exhausted", "failed", "escalate"}

Init ==
    /\ status = "open"
    /\ todo = {}
    /\ judged = {}
    /\ reworks = 0

Replan ==
    /\ status = "open"
    /\ todo' \in SUBSET Units
    /\ UNCHANGED <<status, judged, reworks>>

Judge(u) ==
    /\ status = "open"
    /\ judged' = judged \cup {u}
    /\ UNCHANGED <<status, todo, reworks>>

Rework ==
    /\ status = "open"
    /\ reworks < MaxRework
    /\ reworks' = reworks + 1
    /\ UNCHANGED <<status, todo, judged>>

Accept ==
    /\ status = "open"
    /\ todo # {} /\ todo \subseteq judged
    /\ status' = "accepted"
    /\ UNCHANGED <<todo, judged, reworks>>

Stop ==
    /\ status = "open"
    /\ status' \in Endings \ {"accepted"}
    /\ UNCHANGED <<todo, judged, reworks>>

Next == Replan \/ (\E u \in Units : Judge(u)) \/ Rework \/ Accept \/ Stop

Spec == Init /\ [][Next]_vars
=============================================================================
