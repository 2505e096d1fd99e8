---------------------------- MODULE AcceptGates ----------------------------
(***************************************************************************)
(* The mechanical side of a verdict (crates/wanax-core/src/accept.rs): the *)
(* gates an accept has to pass, what becomes of a decision the commander   *)
(* proposes when a gate is shut, and the mechanical commander that decides *)
(* alone when no accept is possible (crates/wanax-llm/src/lib.rs).         *)
(***************************************************************************)
EXTENDS Naturals

CONSTANT MaxRework      \* MAX_REWORK

ASSUME MaxReworkType == MaxRework \in Nat

Decisions == {"accept", "reject", "rework", "escalate"}
Notes     == {"none", "override", "budget", "boundary", "secret", "plugin", "rework_limit"}

\* One field per gate; outer is "the outer test exited 0".
Gates == [outer : BOOLEAN, boundary : BOOLEAN, command : BOOLEAN,
          descendant : BOOLEAN, changed : BOOLEAN, exhausted : BOOLEAN,
          plugin : BOOLEAN, bound : BOOLEAN, secrets : BOOLEAN, must : BOOLEAN,
          rework : Nat]

CanAccept(g) ==
    /\ g.outer /\ g.boundary /\ g.command /\ g.descendant /\ g.changed
    /\ ~g.exhausted
    /\ g.rework <= MaxRework
    /\ g.plugin /\ g.bound /\ g.secrets /\ g.must

\* MUTANT: a file out of bounds is sent back for rework like a failing test.
RefusalLenient(g) ==
    IF ~g.secrets THEN <<"reject", "secret">>
    ELSE IF ~g.changed \/ ~g.command \/ ~g.descendant THEN <<"reject", "none">>
    ELSE IF ~g.bound \/ ~g.must THEN <<"rework", "none">>
    ELSE IF ~g.plugin THEN <<"rework", "plugin">>
    ELSE IF g.rework > MaxRework THEN <<"escalate", "rework_limit">>
    ELSE <<"rework", "none">>

\* What an accept turns into when a gate other than the budget is shut: the
\* first of these that applies.
Refusal(g) ==
    IF ~g.boundary THEN <<"reject", "boundary">>
    ELSE IF ~g.secrets THEN <<"reject", "secret">>
    ELSE IF ~g.changed \/ ~g.command \/ ~g.descendant THEN <<"reject", "none">>
    ELSE IF ~g.bound \/ ~g.must THEN <<"rework", "none">>
    ELSE IF ~g.plugin THEN <<"rework", "plugin">>
    ELSE IF g.rework > MaxRework THEN <<"escalate", "rework_limit">>
    ELSE <<"rework", "none">>

\* MUTANT: one rework too few.
LimitedEarly(dn, g) ==
    IF dn[1] = "rework" /\ g.rework + 1 >= MaxRework THEN <<"escalate", "rework_limit">> ELSE dn

\* A rework beyond the limit is an escalation.
Limited(dn, g) ==
    IF dn[1] = "rework" /\ g.rework >= MaxRework THEN <<"escalate", "rework_limit">> ELSE dn

\* MUTANT: a green outer test is enough, the other gates are not asked again.
EnforceDecisionGreen(proposed, g) ==
    IF proposed # "accept"     THEN Limited(<<proposed, "none">>, g)
    ELSE IF ~g.outer           THEN Limited(<<"rework", "override">>, g)
    ELSE IF g.exhausted        THEN <<"accept", "budget">>
    ELSE <<"accept", "none">>

\* enforce_decision: the decision and the note.  An accept that only the budget
\* forbids comes back as an accept with the note "budget", for the caller.
EnforceDecision(proposed, g) ==
    IF proposed # "accept"     THEN Limited(<<proposed, "none">>, g)
    ELSE IF ~g.outer           THEN Limited(<<"rework", "override">>, g)
    ELSE IF CanAccept(g)       THEN <<"accept", "none">>
    ELSE IF g.exhausted        THEN <<"accept", "budget">>
    ELSE Limited(Refusal(g), g)

\* MechanicalCommander::verdict
MechanicalVerdict(g) ==
    IF ~g.outer THEN "rework"
    ELSE IF ~g.boundary \/ ~g.changed THEN "reject"
    ELSE "accept"

\* Who decides in drive_factory: the commander is asked only when an accept is
\* possible, and may then answer anything.
Proposals(g) == IF CanAccept(g) THEN Decisions ELSE {MechanicalVerdict(g)}
=============================================================================
