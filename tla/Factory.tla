------------------------------ MODULE Factory ------------------------------
(***************************************************************************)
(* One factory run and the engine that drives it                           *)
(* (crates/wanax-cli/src/engine.rs): run_factory, continue_factory and     *)
(* drive_factory, with the replay of the tombstone envelope that a resume  *)
(* starts from (replay.rs).                                                *)
(*                                                                         *)
(* row, db, verdict, envelope and trees are on disk; m is the memory of    *)
(* the engine process, lost when it dies.  Every action ends with the      *)
(* write that makes it visible on disk, so that a Crash between two        *)
(* actions is a crash between two writes.                                  *)
(*                                                                         *)
(* The work of a run is one unit (unit 0), or the units 1..n of a DAG that *)
(* the commander answers with, numbered in topological order.  Units that  *)
(* declare allowed_globs, which run_peer_batch may work on in parallel,    *)
(* are not part of this module.                                            *)
(***************************************************************************)
EXTENDS AcceptGates, RunState, FiniteSetsExt

CONSTANTS
    DagPlans,   \* the DAGs the commander may answer: functions 1..n -> deps
    FreeGates,  \* outcomes of the gates that a review itself measures
    MaxUsd,     \* max_usd_micros, in charges of one unit
    MaxTurns,   \* max_inner_turns
    MaxCrash,   \* bound on the crashes of a behaviour
    MaxUnits    \* the longest DAG that parse_dispatch_plan takes

ASSUME BoundsAreNat ==
    MaxUsd \in Nat /\ MaxTurns \in Nat /\ MaxCrash \in Nat /\ MaxUnits \in Nat

ASSUME PlansAreSorted ==
    \A p \in DagPlans :
        \E n \in 1 .. MaxUnits : /\ p \in [1 .. n -> SUBSET (1 .. n)]
                                \* a unit comes after its dependencies
                                /\ \A u \in 1 .. n : \A d \in p[u] : d < u

Units  == 0 .. MaxUnits
NoUnit == [state |-> "none", rework |-> 0, receipt |-> "none"]
Fresh(state) == [state |-> state, rework |-> 0, receipt |-> "none"]

UnitRec == [state : {"none", "queued", "assigned", "implementing",
                     "receipt_ready", "accepted", "rejected"},
            rework : Nat,
            receipt : {"none", "empty", "full"}]
Table == [Units -> UnitRec]

NoEnvelope == [u \in {} |-> NoUnit]
NoDag      == [u \in {} |-> NoUnit]
NoPlan     == [u \in {} |-> {}]

VARIABLES
    row,        \* factory_runs: state, and what is spent of the two budgets
    db,         \* work_units: NoUnit where there is no row
    verdict,    \* verdicts: the newest decision on each unit
    envelope,   \* the tombstone envelope as envelope_snapshot folds it
    trees,      \* outer worktrees on disk: <run>-outer-1 .. <run>-outer-trees
    plan,       \* the newest answer of the commander, NoPlan for a single unit
    m,          \* the engine
    crashes,
    refused     \* history: set_state refused a transition

vars == <<row, db, verdict, envelope, trees, plan, m, crashes, refused>>

PC == {"off", "setup", "ready", "loop", "planned", "seed", "seed_event",
       "dispatch_event", "work", "goal", "receipt", "receipt_event",
       "receipt_set", "turns", "outer", "judge", "ruled", "verdict_event",
       "apply", "accept_set", "rework_set", "redispatch"}

\* unit is -1 before there is one; rec is the WorkUnit in memory.
Off == [pc |-> "off", unit |-> -1, rec |-> NoUnit, dags |-> NoDag,
        pending |-> FALSE, reuse |-> FALSE, outer |-> 0, ruling |-> <<"none", "none">>]

IsEngine(e) ==
    /\ DOMAIN e.dags \subseteq Units /\ e.dags \in [DOMAIN e.dags -> UnitRec]
    /\ e \in [pc : PC, unit : Units \cup {-1}, rec : UnitRec, dags : {e.dags},
              pending : BOOLEAN, reuse : BOOLEAN, outer : Nat,
              ruling : (Decisions \cup {"none"}) \X Notes]

TypeOK ==
    /\ row \in [state : RunStates, usd : 0 .. MaxUsd, turns : 0 .. MaxTurns]
    /\ db \in Table
    /\ verdict \in [Units -> Decisions \cup {"none"}]
    /\ envelope \in Table \cup {NoEnvelope}
    /\ trees \in Nat
    /\ plan \in DagPlans \cup {NoPlan}
    /\ IsEngine(m)
    /\ crashes \in 0 .. MaxCrash
    /\ refused \in BOOLEAN

\* insert_run has just been called.
Init ==
    /\ row = [state |-> "contract_ready", usd |-> 0, turns |-> 0]
    /\ db = [u \in Units |-> NoUnit]
    /\ verdict = [u \in Units |-> "none"]
    /\ envelope = NoEnvelope
    /\ trees = 0
    /\ plan = NoPlan
    /\ m = [Off EXCEPT !.pc = "setup"]
    /\ crashes = 0
    /\ refused = FALSE

-----------------------------------------------------------------------------
(* Budget, state and the two ways to fail *)

Exhausted(r)    == r.usd >= MaxUsd \/ r.turns >= MaxTurns
TurnsOut(r)     == r.turns >= MaxTurns
Least(a, b)     == IF a < b THEN a ELSE b
Charge(r, c, t) == [r EXCEPT !.usd = Least(@ + c, MaxUsd), !.turns = Least(@ + t, MaxTurns)]

Charges == {0, 1}

\* set_state(to): an illegal transition is an error that ends drive_factory.
SetState(to, next) ==
    IF CanTransition(row.state, to)
    THEN /\ row' = [row EXCEPT !.state = to]
         /\ m' = IF to \in Terminal THEN Off ELSE next
         /\ UNCHANGED refused
    ELSE /\ m' = Off
         /\ refused' = TRUE
         /\ UNCHANGED row

FailRun    == SetState("failed", Off)
FailBudget == SetState("budget_exhausted", Off)

OnlyRun == UNCHANGED <<db, verdict, envelope, trees, plan, crashes>>

HasEnvelope == envelope # NoEnvelope

\* append_event loads the envelope first: while there is none, nothing is added.
Append(u, rec) == envelope' = IF HasEnvelope THEN [envelope EXCEPT ![u] = rec] ELSE envelope

\* insert_work_unit
InsertUnit(u, rec) == db' = [db EXCEPT ![u] = rec]

\* update_work_unit, which does nothing where there is no row.
UpdateUnit(u, rec) == db' = IF db[u] = NoUnit THEN db ELSE [db EXCEPT ![u] = rec]

-----------------------------------------------------------------------------
(* run_factory and continue_factory *)

\* An early return in the set-up leaves what a Crash leaves.
InitEnvelope ==
    /\ m.pc = "setup"
    /\ envelope' = [u \in Units |-> NoUnit]
    /\ m' = [m EXCEPT !.pc = "ready"]
    /\ UNCHANGED <<row, db, verdict, trees, plan, crashes, refused>>

EnterLoop ==
    /\ m.pc = "ready"
    /\ SetState("dispatched", [m EXCEPT !.pc = "loop"])
    /\ OnlyRun

Present(t) == {u \in DOMAIN t : t[u] # NoUnit}
Only(t)    == [u \in Present(t) |-> t[u]]

\* The units a resume goes on with: those of the envelope as soon as it has any.
Existing == IF HasEnvelope /\ Present(envelope) # {} THEN Only(envelope) ELSE Only(db)

\* MUTANT: the rows are not rebuilt from the envelope.
HealedNot == db

\* Rows that differ from the envelope are rewritten from it.
Healed == [u \in Units |-> IF u \in DOMAIN Existing THEN Existing[u] ELSE db[u]]

Reviewable == row.state \in {"receipt_ready", "outer_reviewing"}

\* The unit whose receipt still waits for a verdict: from the replay, else the
\* last unit, if it has a receipt at all.
PendingUnits ==
    LET waiting == {u \in DOMAIN Existing : /\ HasEnvelope /\ Present(envelope) # {}
                                            /\ Existing[u].state = "receipt_ready"
                                            /\ Existing[u].receipt # "none"}
        last == {u \in DOMAIN Existing : /\ \A w \in DOMAIN Existing : w <= u
                                         /\ Existing[u].receipt # "none"}
    IN  IF ~Reviewable THEN {} ELSE IF waiting # {} THEN waiting ELSE last

Resumed ==
    LET pending == PendingUnits # {}
        u == IF pending THEN Max(PendingUnits)
             ELSE IF Existing = NoDag THEN -1 ELSE Max(DOMAIN Existing)
        dag == \E w \in DOMAIN Existing : w > 0
    IN [Off EXCEPT !.pc = "loop", !.unit = u,
                   !.rec = IF u = -1 THEN NoUnit ELSE Existing[u],
                   !.dags = IF dag THEN Existing ELSE NoDag,
                   !.pending = pending,
                   !.reuse = u # -1 /\ ~pending /\ ~dag]

Resume ==
    /\ m.pc = "off"
    /\ row.state \notin Terminal
    /\ db' = Healed
    /\ m' = Resumed
    /\ row' = IF row.state = "contract_ready" THEN [row EXCEPT !.state = "dispatched"] ELSE row
    /\ UNCHANGED <<verdict, envelope, trees, plan, crashes, refused>>

\* The process dies; only what is on disk is left.
Crash ==
    /\ m.pc # "off"
    /\ crashes < MaxCrash
    /\ m' = Off
    /\ crashes' = crashes + 1
    /\ UNCHANGED <<row, db, verdict, envelope, trees, plan, refused>>

-----------------------------------------------------------------------------
(* The head of the loop in drive_factory *)

BudgetCheck ==
    /\ m.pc = "loop"
    /\ Exhausted(row)
    /\ FailBudget
    /\ OnlyRun

AtLoop == m.pc = "loop" /\ ~Exhausted(row)

TakePending ==
    /\ AtLoop
    /\ m.pending
    /\ m' = [m EXCEPT !.pc = "turns", !.pending = FALSE]
    /\ UNCHANGED <<row, db, verdict, envelope, trees, plan, crashes, refused>>

\* run_single_unit begins: a new unit, or the given one as being worked on.
RunUnit(u, rec) ==
    /\ m' = [m EXCEPT !.pc = "dispatch_event", !.unit = u, !.rec = rec, !.reuse = FALSE]
    /\ IF rec.state = "assigned" THEN InsertUnit(u, rec) ELSE UpdateUnit(u, rec)
    /\ UNCHANGED <<row, verdict, envelope, trees, plan, crashes, refused>>

Working(rec) == [rec EXCEPT !.state = "implementing"]

Accepted(t) == {u \in DOMAIN t : t[u].state = "accepted"}
Deps(u)     == IF u \in DOMAIN plan THEN plan[u] ELSE {}

\* MUTANT: only a unit that was never begun is ready.
ReadyQueued(t) == {u \in DOMAIN t : t[u].state = "queued" /\ Deps(u) \subseteq Accepted(t)}

ReadyUnits(t) ==
    {u \in DOMAIN t : t[u].state \notin {"accepted", "rejected"} /\ Deps(u) \subseteq Accepted(t)}

\* The unit is a copy of the entry of dag_units; with none ready the run is
\* accepted or failed (E_DAG_CYCLE).
NextDagUnit ==
    /\ AtLoop
    /\ ~m.pending
    /\ m.dags # NoDag
    /\ IF ReadyUnits(m.dags) # {}
       THEN LET u == Min(ReadyUnits(m.dags)) IN RunUnit(u, Working(m.dags[u]))
       ELSE /\ IF Accepted(m.dags) = DOMAIN m.dags THEN SetState("accepted", Off) ELSE FailRun
            /\ OnlyRun

ReuseUnit ==
    /\ AtLoop
    /\ m.reuse
    /\ RunUnit(m.unit, Working(m.rec))

Dispatching == AtLoop /\ ~m.pending /\ m.dags = NoDag /\ ~m.reuse

\* The commander is asked for a plan, and the call is charged.
AskCommander(p, c) ==
    /\ Dispatching
    /\ row' = Charge(row, c, 0)
    /\ plan' = p
    /\ m' = [m EXCEPT !.pc = "planned"]
    /\ UNCHANGED <<db, verdict, envelope, trees, crashes, refused>>

\* dispatch_with_retry gives up, or peers are proposed for a rework.
DispatchFails ==
    /\ Dispatching
    /\ FailRun
    /\ OnlyRun

Planned ==
    /\ m.pc = "planned"
    /\ IF Exhausted(row) THEN FailBudget /\ OnlyRun
       ELSE IF plan # NoPlan
            THEN /\ m' = [m EXCEPT !.pc = "seed"]
                 /\ UNCHANGED <<row, db, verdict, envelope, trees, plan, crashes, refused>>
       ELSE IF m.unit = -1 THEN RunUnit(0, Fresh("assigned"))
       ELSE RunUnit(m.unit, Working(m.rec))

\* seed_dag_units: for each unit a row, then an event.
NextSeed == Min(DOMAIN plan \ DOMAIN m.dags)

SeedUnit ==
    /\ m.pc = "seed"
    /\ InsertUnit(NextSeed, Fresh("queued"))
    /\ m' = [m EXCEPT !.pc = "seed_event"]
    /\ UNCHANGED <<row, verdict, envelope, trees, plan, crashes, refused>>

SeedEvent ==
    /\ m.pc = "seed_event"
    /\ Append(NextSeed, Fresh("queued"))
    /\ LET seeded == DOMAIN m.dags \cup {NextSeed} IN
       m' = [m EXCEPT !.dags = [u \in seeded |-> Fresh("queued")],
                      !.pc = IF seeded = DOMAIN plan THEN "loop" ELSE "seed"]
    /\ UNCHANGED <<row, db, verdict, trees, plan, crashes, refused>>

-----------------------------------------------------------------------------
(* The inner phase: run_single_unit up to the receipt *)

DispatchEvent ==
    /\ m.pc = "dispatch_event"
    /\ Append(m.unit, IF HasEnvelope /\ envelope[m.unit] # NoUnit
                      THEN Working(envelope[m.unit]) ELSE Fresh("implementing"))
    /\ m' = [m EXCEPT !.pc = "work"]
    /\ UNCHANGED <<row, db, verdict, trees, plan, crashes, refused>>

\* Here a refused transition comes back as an error of the inner phase, and
\* drive_factory fails the run.
StartWork ==
    /\ m.pc = "work"
    /\ IF CanTransition(row.state, "inner_working")
       THEN SetState("inner_working", [m EXCEPT !.pc = "goal"])
       ELSE /\ row' = [row EXCEPT !.state = "failed"]
            /\ m' = Off
            /\ refused' = TRUE
    /\ OnlyRun

\* run_goal_loop: an iteration starts the worker, which costs a turn or more,
\* and may cost money.  After it the loop may go on.
GoalIteration(c) ==
    /\ m.pc = "goal"
    /\ ~Exhausted(row)
    /\ row' = Charge(row, c, 1)
    /\ m' \in {m, [m EXCEPT !.pc = "receipt"]}
    /\ UNCHANGED <<refused>> /\ OnlyRun

\* The budget ends the loop before another iteration.
GoalLoopOut ==
    /\ m.pc = "goal"
    /\ Exhausted(row)
    /\ m' = [m EXCEPT !.pc = "receipt"]
    /\ UNCHANGED <<row, refused>> /\ OnlyRun

\* The adapter fails, or crashes with no turns left; so may taking the receipt.
InnerFails ==
    /\ m.pc \in {"goal", "receipt"}
    /\ FailRun
    /\ OnlyRun

\* insert_receipt and update_work_unit; full: the diff against base is not empty.
RecordReceipt(kind) ==
    /\ m.pc = "receipt"
    /\ LET rec == [m.rec EXCEPT !.state = "receipt_ready", !.receipt = kind] IN
       /\ UpdateUnit(m.unit, rec)
       /\ m' = [m EXCEPT !.pc = "receipt_event", !.rec = rec]
    /\ UNCHANGED <<row, verdict, envelope, trees, plan, crashes, refused>>

ReceiptEvent ==
    /\ m.pc = "receipt_event"
    /\ Append(m.unit, [envelope[m.unit] EXCEPT !.state = "receipt_ready",
                                               !.receipt = m.rec.receipt])
    /\ m' = [m EXCEPT !.pc = "receipt_set"]
    /\ UNCHANGED <<row, db, verdict, trees, plan, crashes, refused>>

SetReceiptReady ==
    /\ m.pc = "receipt_set"
    /\ SetState("receipt_ready", [m EXCEPT !.pc = "turns"])
    /\ OnlyRun

-----------------------------------------------------------------------------
(* The outer review *)

BeginReview ==
    /\ m.pc = "turns"
    /\ IF TurnsOut(row) /\ m.rec.receipt = "empty"
       THEN FailBudget
       ELSE SetState("outer_reviewing", [m EXCEPT !.pc = "outer"])
    /\ OnlyRun

\* git worktree add fails when the directory exists, and the error leaves
\* drive_factory at once, whatever the state of the run.  The numbers start
\* again from 1 in every process; nothing removes the worktrees of a live run.
OuterWorktree ==
    /\ m.pc = "outer"
    /\ IF m.outer + 1 > trees
       THEN /\ trees' = m.outer + 1
            /\ m' = [m EXCEPT !.pc = "judge", !.outer = @ + 1]
       ELSE /\ m' = Off
            /\ UNCHANGED trees
    /\ UNCHANGED <<row, db, verdict, envelope, plan, crashes, refused>>

GatesOf(free) ==
    [outer |-> free.outer, boundary |-> free.boundary, command |-> TRUE,
     descendant |-> TRUE, changed |-> m.rec.receipt = "full", exhausted |-> Exhausted(row),
     plugin |-> free.plugin, bound |-> free.bound, secrets |-> TRUE, must |-> TRUE,
     rework |-> m.rec.rework]

\* Tests, boundary, gates; the verdict of the commander (or the mechanical
\* one), its price, and what enforce_decision makes of it.
Judge(free, proposed, c) ==
    /\ m.pc = "judge"
    /\ proposed \in Proposals(GatesOf(free))
    /\ row' = Charge(row, c, 0)
    /\ m' = [m EXCEPT !.pc = "ruled", !.ruling = EnforceDecision(proposed, GatesOf(free))]
    /\ UNCHANGED <<refused>> /\ OnlyRun

\* A plugin cannot be run, or no valid verdict comes back.
JudgeFails ==
    /\ m.pc = "judge"
    /\ FailRun
    /\ OnlyRun

Decision == m.ruling[1]
\* MUTANT: the price of the verdict itself is not looked at.
OverBudgetNoted == m.ruling[2] = "budget"

OverBudget == m.ruling[2] = "budget" \/ (Decision = "accept" /\ Exhausted(row))

\* insert_verdict, and update_work_unit with the verdict's id.
RecordVerdict ==
    /\ m.pc = "ruled"
    /\ IF OverBudget THEN FailBudget /\ OnlyRun
       ELSE /\ verdict' = [verdict EXCEPT ![m.unit] = Decision]
            /\ UpdateUnit(m.unit, m.rec)
            /\ m' = [m EXCEPT !.pc = "verdict_event"]
            /\ UNCHANGED <<row, envelope, trees, plan, crashes, refused>>

\* apply_verdict_to
Replayed(rec, decision) ==
    CASE decision = "accept" -> [rec EXCEPT !.state = "accepted"]
      [] decision = "reject" -> [rec EXCEPT !.state = "rejected"]
      [] decision = "rework" -> [rec EXCEPT !.state = "queued", !.rework = @ + 1]
      [] OTHER -> rec

VerdictEvent ==
    /\ m.pc = "verdict_event"
    /\ Append(m.unit, Replayed(envelope[m.unit], Decision))
    /\ m' = [m EXCEPT !.pc = "apply"]
    /\ UNCHANGED <<row, db, verdict, trees, plan, crashes, refused>>

\* MUTANT: the entry of dag_units is not updated from the accepted unit.
AcceptUnitOnly ==
    /\ m.pc = "apply" /\ Decision = "accept"
    /\ UpdateUnit(m.unit, [m.rec EXCEPT !.state = "accepted"])
    /\ m' = [m EXCEPT !.pc = "accept_set"]
    /\ UNCHANGED <<row, verdict, envelope, trees, plan, crashes, refused>>

AcceptUnit ==
    /\ m.pc = "apply" /\ Decision = "accept"
    /\ LET rec == [m.rec EXCEPT !.state = "accepted"] IN
       /\ UpdateUnit(m.unit, rec)
       /\ m' = [m EXCEPT !.pc = "accept_set", !.rec = rec,
                         !.dags = [u \in DOMAIN @ |-> IF u = m.unit THEN rec ELSE @[u]]]
    /\ UNCHANGED <<row, verdict, envelope, trees, plan, crashes, refused>>

\* MUTANT: the first accepted unit of a DAG accepts the run.
AcceptRunEarly ==
    /\ m.pc = "accept_set"
    /\ SetState("accepted", Off)
    /\ OnlyRun

\* MUTANT: a DAG always goes back to the head of the loop.
AcceptRunLate ==
    /\ m.pc = "accept_set"
    /\ IF m.dags # NoDag
       THEN SetState("dispatched", [m EXCEPT !.pc = "loop"])
       ELSE SetState("accepted", Off)
    /\ OnlyRun

\* The run is accepted when no unit of the DAG is left, else it goes on.
AcceptRun ==
    /\ m.pc = "accept_set"
    /\ IF Accepted(m.dags) # DOMAIN m.dags
       THEN SetState("dispatched", [m EXCEPT !.pc = "loop"])
       ELSE SetState("accepted", Off)
    /\ OnlyRun

CloseRun ==
    /\ m.pc = "apply" /\ Decision \in {"reject", "escalate"}
    /\ SetState(IF Decision = "reject" THEN "rejected" ELSE "escalate", Off)
    /\ OnlyRun

\* Only the unit counts the rework; its entry in dag_units stays as it was.
ReworkUnit ==
    /\ m.pc = "apply" /\ Decision = "rework"
    /\ LET rec == [m.rec EXCEPT !.rework = @ + 1, !.state = "queued"] IN
       IF rec.rework > MaxRework THEN SetState("escalate", Off) /\ OnlyRun
       ELSE /\ UpdateUnit(m.unit, rec)
            /\ m' = [m EXCEPT !.pc = "rework_set", !.rec = rec]
            /\ UNCHANGED <<row, verdict, envelope, trees, plan, crashes, refused>>

SetRework ==
    /\ m.pc = "rework_set"
    /\ SetState("rework", [m EXCEPT !.pc = "redispatch"])
    /\ OnlyRun

Redispatch ==
    /\ m.pc = "redispatch"
    /\ SetState("dispatched", [m EXCEPT !.pc = "loop"])
    /\ OnlyRun

Engine ==
    \/ InitEnvelope \/ EnterLoop
    \/ BudgetCheck \/ TakePending \/ NextDagUnit \/ ReuseUnit
    \/ \E p \in DagPlans \cup {NoPlan}, c \in Charges : AskCommander(p, c)
    \/ DispatchFails \/ Planned \/ SeedUnit \/ SeedEvent
    \/ DispatchEvent \/ StartWork
    \/ \E c \in Charges : GoalIteration(c)
    \/ GoalLoopOut \/ InnerFails
    \/ \E kind \in {"empty", "full"} : RecordReceipt(kind)
    \/ ReceiptEvent \/ SetReceiptReady
    \/ BeginReview \/ OuterWorktree
    \/ \E free \in FreeGates, d \in Decisions, c \in Charges : Judge(free, d, c)
    \/ JudgeFails \/ RecordVerdict \/ VerdictEvent
    \/ AcceptUnit \/ AcceptRun \/ CloseRun \/ ReworkUnit \/ SetRework \/ Redispatch

Next == Engine \/ Resume \/ Crash

Spec == Init /\ [][Next]_vars

\* A live engine takes its next step: every await in it ends, the workers and
\* the tests by their timeouts.  Nobody has to resume a dead one.
FairSpec == Spec /\ WF_vars(Engine)

\* The user resumes whenever the engine is gone, and MaxCrash bounds the crashes.
ResumedSpec == FairSpec /\ WF_vars(Resume)

-----------------------------------------------------------------------------
(* Properties *)

\* The units the engine answers for: those of the DAG, else the single one.
Known ==
    LET dag == {u \in DOMAIN Existing : u > 0} IN IF dag # {} THEN dag ELSE DOMAIN Existing

Promise == INSTANCE RunPromise WITH
    status  <- IF row.state \in Terminal THEN row.state ELSE "open",
    todo    <- Known,
    judged  <- {u \in Units : verdict[u] = "accept"},
    reworks <- IF HasEnvelope THEN envelope[0].rework ELSE db[0].rework

\* FR-013, FR-014: the engine, crashed and resumed at any write, keeps the
\* promise of RunPromise: no accept without a verdict on every recorded unit,
\* no verdict lost or taken back by a resume, no rework beyond the limit for a
\* single unit, nothing after the end.
KeepsPromise == Promise!Spec

\* A DAG never wedges: at the head of the loop some unit can be dispatched, so
\* E_DAG_CYCLE and an accept without a review stay out of reach, also for the
\* part of a DAG that a crash left behind.  A rejected unit ends the run, and is
\* met here only by a resume after a crash that came before the run was closed.
NoDagDeadEnd ==
    m.pc = "loop" /\ m.dags # NoDag /\ ~m.pending
        => \/ ReadyUnits(m.dags) # {}
           \/ crashes > 0 /\ \E u \in DOMAIN m.dags : m.dags[u].state = "rejected"

\* replay.rs: the work_units table is a cache of the envelope.  At the head of
\* the loop the two agree on the state of every unit of the envelope.
TablesAgree ==
    m.pc = "loop" /\ HasEnvelope =>
        \A u \in Present(envelope) : db[u].state = envelope[u].state

\* A unit that was accepted is not worked on again, in this process or after a
\* resume.
AcceptedWorkStands ==
    [][\A u \in Units : db[u].state = "accepted" => db'[u].state = "accepted"]_vars

\* FR-014 (6): a run is accepted with budget left, although the verdict itself
\* and every call before it is charged.
AcceptedWithinBudget == row.state = "accepted" => ~Exhausted(row)

\* An engine that is not interrupted never asks for an illegal transition.
NoRefusedMove == crashes = 0 => ~refused

\* An engine that is not interrupted brings its run to an end: reworks, DAGs
\* and worker iterations stop at the latest when the turns are spent.
Ends == <>(row.state \in Terminal \/ crashes > 0)

\* README: resume continues an interrupted non-terminal run.  Violated: the
\* first review after a resume meets the worktree of a review before it.
ResumeFinishes == <>(row.state \in Terminal)

\* docs/PRD.md: at most max_rework=3 per work unit, then escalate.  Violated by
\* the units of a DAG: the count is kept in a copy that the next turn drops.
ReworkLimit == HasEnvelope => \A u \in Units : envelope[u].rework <= MaxRework

\* engine.rs: the envelope alone must be enough to rebuild the dag set after a
\* crash.  Violated by a crash between two seeds: the resumed run is accepted
\* without the units that were not seeded yet.
AcceptedWholePlan ==
    row.state = "accepted" /\ (\E u \in DOMAIN plan : db[u] # NoUnit)
        => \A u \in DOMAIN plan : db[u].state = "accepted"
=============================================================================
