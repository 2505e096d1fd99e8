------------------------------- MODULE Review -------------------------------
(***************************************************************************)
(* The outer reviews of one unit, one after another, with every outcome of *)
(* the gates: what the verdict part of drive_factory (engine.rs) makes of  *)
(* AcceptGates.  The inner work before a review is an input: it may use up *)
(* the budget, and what the review measures is arbitrary.                  *)
(***************************************************************************)
EXTENDS AcceptGates

CONSTANT NoReview       \* before the first review

ASSUME NoReviewDistinct == NoReview \notin Gates

VARIABLES
    status,     \* "open", or how the run ended
    stage,      \* "work" before a review, "measured" when its gates are known
    rework,     \* rework_count of the unit
    exhausted,  \* is_budget_exhausted
    gates,      \* the gates of the latest review
    proposed,   \* what was proposed in it
    ruling      \* and what enforce_decision made of that

reviewVars == <<status, stage, rework, exhausted, gates, proposed, ruling>>

Statuses == {"open", "accepted", "rejected", "escalate", "budget_exhausted"}

ReviewTypeOK ==
    /\ status \in Statuses
    /\ stage \in {"work", "measured"}
    /\ rework \in 0 .. MaxRework
    /\ exhausted \in BOOLEAN
    /\ gates \in Gates \/ gates = NoReview
    /\ proposed \in Decisions \cup {"none"}
    /\ ruling \in (Decisions \cup {"none"}) \X Notes

\* A run may be started without a budget.
ReviewInit ==
    /\ status = "open"
    /\ stage = "work"
    /\ rework = 0
    /\ exhausted \in BOOLEAN
    /\ gates = NoReview
    /\ proposed = "none"
    /\ ruling = <<"none", "none">>

\* The loop head finds the budget spent.
BudgetStop ==
    /\ status = "open" /\ stage = "work"
    /\ exhausted
    /\ status' = "budget_exhausted"
    /\ UNCHANGED <<stage, rework, exhausted, gates, proposed, ruling>>

\* The worker delivers a receipt, and the outer review measures it.
Measure ==
    /\ status = "open" /\ stage = "work"
    /\ ~exhausted
    /\ gates' \in [outer : BOOLEAN, boundary : BOOLEAN, command : BOOLEAN,
                   descendant : BOOLEAN, changed : BOOLEAN, exhausted : BOOLEAN,
                   plugin : BOOLEAN, bound : BOOLEAN, secrets : BOOLEAN, must : BOOLEAN,
                   rework : {rework}]
    /\ exhausted' = gates'.exhausted
    /\ stage' = "measured"
    /\ UNCHANGED <<status, rework, proposed, ruling>>

\* What a ruling does to the run; over: no budget is left after the verdict.
Outcome(r, over) ==
    IF r[2] = "budget" \/ (r[1] = "accept" /\ over) THEN "budget_exhausted"
    ELSE IF r[1] = "accept" THEN "accepted"
    ELSE IF r[1] = "reject" THEN "rejected"
    ELSE IF r[1] = "escalate" THEN "escalate"
    ELSE "open"

\* The verdict, which may cost the rest of the budget.
Rule(d, over) ==
    /\ status = "open" /\ stage = "measured"
    /\ d \in Proposals(gates)
    /\ exhausted => over
    /\ exhausted' = over
    /\ proposed' = d
    /\ ruling' = EnforceDecision(d, gates)
    /\ status' = Outcome(ruling', over)
    /\ rework' = IF ruling'[1] = "rework" THEN rework + 1 ELSE rework
    /\ stage' = "work"
    /\ UNCHANGED gates

ReviewNext ==
    \/ BudgetStop
    \/ Measure
    \/ \E d \in Decisions, over \in BOOLEAN : Rule(d, over)

ReviewSpec == ReviewInit /\ [][ReviewNext]_reviewVars

-----------------------------------------------------------------------------
(* Properties *)

\* FR-014: a run is accepted only by a review in which every gate was open and
\* accept was proposed, and only if the verdict's price left some budget.
AcceptedThroughGates ==
    status = "accepted" =>
        /\ gates \in Gates
        /\ gates.outer /\ gates.boundary /\ gates.command /\ gates.descendant
        /\ gates.changed /\ gates.plugin /\ gates.bound /\ gates.secrets /\ gates.must
        /\ proposed = "accept"
        /\ ~gates.exhausted /\ ~exhausted

\* FR-012: whatever is proposed, enforce_decision lets no accept pass a shut
\* gate, grants no rework beyond the limit, and turns an accept of a change
\* outside its boundaries, or with a secret in it, into a reject.
EnforceSafe ==
    gates \in Gates => \A d \in Decisions :
        LET r == EnforceDecision(d, gates)
        IN  /\ r[1] = "accept" /\ r[2] # "budget" => d = "accept" /\ CanAccept(gates)
            /\ r[1] = "rework" => gates.rework < MaxRework
            /\ d = "accept" /\ gates.outer /\ ~gates.exhausted
                   /\ (~gates.boundary \/ ~gates.secrets) => r[1] = "reject"

\* FR-013: a red outer test costs a rework or, once they are used up, ends in an
\* escalation; the run is neither accepted nor rejected for it.
RedTestReworks ==
    stage = "work" /\ gates \in Gates /\ ~gates.outer => ruling[1] \in {"rework", "escalate"}

\* A run is escalated because the commander asked for it or because all its
\* reworks are used up, never earlier.
EscalatesAtLimit ==
    status = "escalate" => proposed = "escalate" \/ rework = MaxRework
=============================================================================
