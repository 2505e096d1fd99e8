------------------------------ MODULE Spending ------------------------------
(***************************************************************************)
(* What a run of one unit pays for and what it is charged: the questions   *)
(* to the commander with their retries (wanax-llm, drive_factory), the     *)
(* goal loop with a worker, a test and a self review in every iteration    *)
(* (run_goal_loop, wanax-llm/src/goal.rs), and the checks of the budget    *)
(* between them (wanax-core/src/budget.rs).                                *)
(*                                                                         *)
(* A call costs any amount up to the maximum of its kind, in the rates of  *)
(* the configuration.  A worker that reports no usage, or one side of its  *)
(* tokens only, costs nothing here: it is charged nothing.  The verdict on *)
(* the gates is abstracted to what follows from it; Review has it in full. *)
(***************************************************************************)
EXTENDS Integers

CONSTANTS
    MaxUsd, MaxTurns,           \* the budget of the run
    MaxIters, MaxRework,        \* MAX_GOAL_ITERS, MAX_REWORK
    WorkerTurns,                \* bound on the turns of one worker
    Worker, Reviewer, Commander, Mechanical,    \* highest charge of a call
    Reviewed                    \* a reviewer model of its own is configured

ASSUME BudgetIsNat == MaxUsd \in Nat /\ MaxTurns \in Nat
ASSUME LimitsAreNat == MaxIters \in Nat \ {0} /\ MaxRework \in Nat /\ WorkerTurns \in Nat \ {0}
ASSUME CostsAreNat ==
    /\ Worker \in Nat /\ Reviewer \in Nat /\ Commander \in Nat /\ Mechanical \in Nat
    /\ Reviewed \in BOOLEAN

VARIABLES
    phase,      \* where drive_factory is, or the state the run ended in
    spent,      \* spent_usd_micros of the run
    turns,      \* spent_inner_turns
    attempt,    \* which try of the question to the commander
    iter,       \* which iteration of the goal loop
    work,       \* "some" when the unit has changed a file
    reworks,    \* rework_count
    paid,       \* history: what the calls have cost
    asked       \* history: questions put to the commander

vars == <<phase, spent, turns, attempt, iter, work, reworks, paid, asked>>

Ended  == {"accepted", "budget", "failed", "closed"}
Phases == {"loop", "dispatch", "goal", "test", "review", "next", "receipt", "judge", "verdict"} \cup Ended

TypeOK ==
    /\ phase \in Phases
    /\ spent \in Nat /\ paid \in Nat /\ asked \in Nat
    /\ turns \in 0 .. MaxTurns + WorkerTurns
    /\ attempt \in 1 .. 3
    /\ iter \in 1 .. MaxIters + 1
    /\ work \in {"none", "some"}
    /\ reworks \in 0 .. MaxRework + 1

Init ==
    /\ phase = "loop"
    /\ spent = 0 /\ turns = 0 /\ paid = 0
    /\ attempt = 1 /\ iter = 1 /\ work = "none" /\ reworks = 0 /\ asked = 0

-----------------------------------------------------------------------------
(* The budget *)

TurnsOut == turns >= MaxTurns

\* MUTANT: the last of the budget may be spent twice.
ExhaustedLate == spent > MaxUsd \/ TurnsOut

\* is_budget_exhausted
Exhausted == spent >= MaxUsd \/ TurnsOut

\* The same after another c and t.
ExhaustedBy(c, t) == spent + c >= MaxUsd \/ turns + t >= MaxTurns

\* MUTANT: the charge goes to a copy of the run.
ChargedCopy(c) == paid' = paid + c /\ UNCHANGED spent

\* charge_and_tick
Charged(c) == paid' = paid + c /\ spent' = spent + c

\* A call without a result: its usage is dropped with the error.
Lost(c) == paid' = paid + c /\ UNCHANGED spent

-----------------------------------------------------------------------------
(* The loop and the plan *)

BudgetStop ==
    /\ phase = "loop" /\ Exhausted
    /\ phase' = "budget"
    /\ UNCHANGED <<spent, turns, attempt, iter, work, reworks, paid, asked>>

Question(next) == phase' = next /\ attempt' = 1 /\ asked' = asked + 1

AskPlan ==
    /\ phase = "loop" /\ ~Exhausted
    /\ Question("dispatch")
    /\ UNCHANGED <<spent, turns, iter, work, reworks, paid>>

\* A plan is charged, and the budget is checked before anybody works on it.
Planned(c) ==
    /\ phase = "dispatch"
    /\ Charged(c)
    /\ phase' = IF ExhaustedBy(c, 0) THEN "budget" ELSE "goal"
    /\ iter' = 1
    /\ UNCHANGED <<turns, attempt, work, reworks, asked>>

\* for _ in 0..3
Tries == 3

\* An answer that cannot be read is asked for again.
Malformed(c) ==
    /\ phase \in {"dispatch", "verdict"}
    /\ Lost(c)
    /\ \/ attempt < Tries /\ attempt' = attempt + 1 /\ UNCHANGED phase
       \/ attempt = Tries /\ phase' = "failed" /\ UNCHANGED attempt
    /\ UNCHANGED <<turns, iter, work, reworks, asked>>

\* Any other error, a time-out for instance, is not.
CommanderFails(c) ==
    /\ phase \in {"dispatch", "verdict"}
    /\ Lost(c)
    /\ phase' = "failed"
    /\ UNCHANGED <<turns, attempt, iter, work, reworks, asked>>

-----------------------------------------------------------------------------
(* The goal loop *)

\* Without a handle of an earlier iteration there is nothing to go on with.
GoalOut ==
    /\ phase = "goal" /\ (iter > MaxIters \/ Exhausted)
    /\ phase' = IF iter = 1 THEN "failed" ELSE "receipt"
    /\ UNCHANGED <<spent, turns, attempt, iter, work, reworks, paid, asked>>

Starting == phase = "goal" /\ iter <= MaxIters /\ ~Exhausted

\* The worker is charged what it reports.
RunWorker(c, t) ==
    /\ Starting
    /\ Charged(c) /\ turns' = turns + t
    /\ phase' = "test"
    /\ UNCHANGED <<attempt, iter, work, reworks, asked>>

\* A handle that says crashed ends the loop, and the run if no turn is left.
WorkerCrashes(c, t) ==
    /\ Starting
    /\ Charged(c) /\ turns' = turns + t
    /\ phase' = IF turns + t >= MaxTurns THEN "failed" ELSE "receipt"
    /\ work' \in {work, "some"}
    /\ UNCHANGED <<attempt, iter, reworks, asked>>

\* A time-out, or an exit status other than 0: no handle.
WorkerFails(c) ==
    /\ Starting
    /\ Lost(c)
    /\ phase' = "failed"
    /\ UNCHANGED <<turns, attempt, iter, work, reworks, asked>>

\* The inner test has run on what the worker has left.
Test ==
    /\ phase = "test"
    /\ work' \in {work, "some"}
    /\ phase' = IF Reviewed THEN "review" ELSE "next"
    /\ UNCHANGED <<spent, turns, attempt, iter, reworks, paid, asked>>

\* The self review is asked for whatever the worker has left of the budget.
SelfReview(c) ==
    /\ phase = "review"
    /\ Charged(c) \/ Lost(c)
    /\ phase' = "next"
    /\ UNCHANGED <<turns, attempt, iter, work, reworks, asked>>

\* MUTANT: a stalled worker is started again, as often as it likes.
GoAround == iter

NextIter == iter + 1

\* Again, unless the test is green, the budget out, or nothing has changed.
GoalNext ==
    /\ phase = "next"
    /\ \/ phase' = "receipt" /\ UNCHANGED iter
       \/ ~Exhausted /\ phase' = "goal" /\ iter' = NextIter
    /\ UNCHANGED <<spent, turns, attempt, work, reworks, paid, asked>>

-----------------------------------------------------------------------------
(* The outer review *)

Receipt ==
    /\ phase = "receipt"
    /\ phase' = IF TurnsOut /\ work = "none" THEN "budget" ELSE "judge"
    /\ UNCHANGED <<spent, turns, attempt, iter, work, reworks, paid, asked>>

Error ==
    /\ phase \in {"receipt", "judge"}
    /\ phase' = "failed"
    /\ UNCHANGED <<spent, turns, attempt, iter, work, reworks, paid, asked>>

\* The gate of the budget is one of those that must be open for a question.
Askable == ~Exhausted

AskVerdict ==
    /\ phase = "judge" /\ Askable
    /\ Question("verdict")
    /\ UNCHANGED <<spent, turns, iter, work, reworks, paid>>

SendBack ==
    /\ reworks' = reworks + 1
    /\ phase' = IF reworks + 1 > MaxRework THEN "closed" ELSE "loop"

\* The mechanical verdict on shut gates; it is charged, by its characters,
\* although nobody is paid for it.
JudgeMechanically(c) ==
    /\ phase = "judge"
    /\ spent' = spent + c
    /\ \/ SendBack
       \/ phase' = "closed" /\ UNCHANGED reworks
       \/ Exhausted /\ phase' = "budget" /\ UNCHANGED reworks
    /\ UNCHANGED <<turns, attempt, iter, work, paid, asked>>

\* An accept is checked against the budget once more, after its own charge.
Verdict(c) ==
    /\ phase = "verdict"
    /\ Charged(c)
    /\ \/ SendBack
       \/ phase' = "closed" /\ UNCHANGED reworks
       \/ /\ phase' = IF ExhaustedBy(c, 0) THEN "budget" ELSE "accepted"
          /\ UNCHANGED reworks
    /\ UNCHANGED <<turns, attempt, iter, work, asked>>

-----------------------------------------------------------------------------

Asking == \E c \in 0 .. Commander : Planned(c) \/ Malformed(c) \/ CommanderFails(c) \/ Verdict(c)

Working == \E c \in 0 .. Worker :
    \/ \E t \in 0 .. WorkerTurns : RunWorker(c, t) \/ WorkerCrashes(c, t)
    \/ WorkerFails(c)

Next ==
    \/ BudgetStop \/ AskPlan \/ Asking
    \/ GoalOut \/ Working \/ Test \/ (\E c \in 0 .. Reviewer : SelfReview(c)) \/ GoalNext
    \/ Receipt \/ Error \/ AskVerdict \/ (\E c \in 0 .. Mechanical : JudgeMechanically(c))

Spec == Init /\ [][Next]_vars

\* The engine is one task, and every call has a time-out or ends: see Child for
\* the three waits of which that is not true.
FairSpec == Spec /\ WF_vars(Next)

-----------------------------------------------------------------------------
(* Properties *)

\* The budget is checked between the calls, never in one.  What a run is charged
\* beyond max_usd is one question, or one worker with its self review and the
\* mechanical verdict on what it has left; never a second round of them.
OvershootBounded ==
    \/ spent = 0
    \/ spent < MaxUsd + Commander
    \/ spent < MaxUsd + Worker + Reviewer + Mechanical

\* What is paid and not charged: two unreadable answers for every question, the
\* self reviews that failed, and the call that the run has failed in.
UnchargedBounded ==
    paid <= spent + asked * (2 * Commander + MaxIters * Reviewer)
                  + (IF phase = "failed" THEN Worker + Commander ELSE 0)

\* PRD FR-015: with the budget spent no further question goes to the commander,
\* in whichever of the three tries it is.
CommanderWithinBudget ==
    [][(phase \in {"dispatch", "verdict"} /\ paid' # paid) => ~Exhausted]_vars

\* The turns, the reworks, the tries and the iterations are all that ends a run
\* that is never accepted, and they do, also with workers that cost nothing.
RunEnds == <>(phase \in Ended)
=============================================================================
