---------------------------- MODULE FactoryProofs ----------------------------
(***************************************************************************)
(* Proofs about Factory, for any DAGs, budgets and number of crashes: the  *)
(* engine asks for legal transitions unless a crash came between, a run is *)
(* accepted with budget left, accepted work is not taken up again, the     *)
(* tables agree, the engine implements RunPromise, and a DAG never wedges. *)
(***************************************************************************)
EXTENDS Factory, WellFoundedInduction, TLAPS

USE BoundsAreNat, MaxReworkType

(* The least and the greatest of some units *)

Below == {ss \in Nat \X Nat : ss[1] < ss[2]}

LEMMA BelowIsWellFounded == IsWellFoundedOn(Below, Nat)
  BY NatLessThanWellFounded DEF OpToRel, Below

LEMMA LeastExists ==
    ASSUME NEW S \in SUBSET Nat, S # {}
    PROVE  \E x \in S : \A y \in S : x <= y
<1>1. PICK x \in S : \A y \in S : ~ (<<y, x>> \in Below)
  BY BelowIsWellFounded, WFMin
<1>2. \A y \in S : x \in Nat /\ y \in Nat /\ ~ (y < x)
  BY <1>1 DEF Below
<1> QED
  BY <1>2

LEMMA MinIsMember == ASSUME NEW S \in SUBSET Units, S # {} PROVE Min(S) \in S
<1>1. S \subseteq Nat
  BY DEF Units
<1> QED
  BY <1>1, LeastExists DEF Min

LEMMA MaxIsMember ==
    ASSUME NEW S \in SUBSET Units, S # {}
    PROVE  Max(S) \in S /\ \A y \in S : y <= Max(S)
<1> DEFINE Co == {MaxUnits - x : x \in S}
<1>1. Co \subseteq Nat
  BY DEF Units
<1>0. Co # {}
  <2>1. PICK x \in S : TRUE
    OBVIOUS
  <2> QED
    BY <2>1
<1>2. PICK c \in Co : \A y \in Co : c <= y
  BY <1>0, <1>1, LeastExists
<1>3. PICK x \in S : c = MaxUnits - x
  OBVIOUS
<1>4. \A y \in S : x >= y
  <2> SUFFICES ASSUME NEW y \in S PROVE x >= y
    OBVIOUS
  <2>1. c <= MaxUnits - y
    BY <1>2
  <2> QED
    BY <2>1, <1>3 DEF Units
<1>5. Max(S) \in S /\ \A y \in S : Max(S) >= y
  BY <1>4 DEF Max
<1> QED
  BY <1>5 DEF Units

-----------------------------------------------------------------------------
(* Types *)

HasUnit == {"dispatch_event", "work", "goal", "receipt", "receipt_event",
            "receipt_set", "turns", "outer", "judge", "ruled", "verdict_event",
            "apply", "accept_set", "rework_set", "redispatch"}

\* There is a unit where one is used, and one to seed while units are seeded.
InHand ==
    /\ m.pc \in HasUnit \/ m.pending \/ m.reuse => m.unit \in Units
    /\ m.pc = "planned" => m.dags = NoDag
    /\ m.pc \in {"seed", "seed_event"} => /\ plan # NoPlan
                                          /\ DOMAIN m.dags \subseteq DOMAIN plan
                                          /\ DOMAIN m.dags # DOMAIN plan

Typed == TypeOK /\ InHand

LEMMA OffIsEngine == IsEngine(Off)
  BY DEF IsEngine, Off, NoDag, NoUnit, UnitRec, PC, Notes

LEMMA FreshIsUnit ==
    ASSUME NEW state \in {"queued", "assigned", "implementing"}
    PROVE  Fresh(state) \in UnitRec
  BY DEF Fresh, UnitRec

LEMMA PlanUnits == TypeOK => DOMAIN plan \subseteq Units \ {0}
<1> SUFFICES ASSUME TypeOK PROVE DOMAIN plan \subseteq Units \ {0}
  OBVIOUS
<1>1. CASE plan = NoPlan
  BY <1>1 DEF NoPlan
<1>2. CASE plan \in DagPlans
  BY <1>2, PlansAreSorted DEF Units
<1> QED
  BY <1>1, <1>2 DEF TypeOK

LEMMA ChargeIsTyped ==
    ASSUME TypeOK, NEW c \in Charges, NEW t \in {0, 1}
    PROVE  /\ Charge(row, c, t) \in [state : RunStates, usd : 0 .. MaxUsd, turns : 0 .. MaxTurns]
           /\ Charge(row, c, t).state = row.state
<1> DEFINE r == Charge(row, c, t)
<1>1. /\ row \in [state : RunStates, usd : 0 .. MaxUsd, turns : 0 .. MaxTurns]
      /\ c \in Nat /\ t \in Nat
  BY DEF TypeOK, Charges
<1>2. Least(row.usd + c, MaxUsd) \in 0 .. MaxUsd /\ Least(row.turns + t, MaxTurns) \in 0 .. MaxTurns
  BY <1>1 DEF Least
<1> QED
  BY <1>1, <1>2 DEF Charge

LEMMA SetStateIsTyped ==
    ASSUME TypeOK, NEW to \in RunStates, NEW next, IsEngine(next), SetState(to, next)
    PROVE  /\ row' \in [state : RunStates, usd : 0 .. MaxUsd, turns : 0 .. MaxTurns]
           /\ IsEngine(m') /\ m' \in {Off, next}
           /\ refused' \in BOOLEAN
<1>1. CASE CanTransition(row.state, to)
  <2>1. row' = [row EXCEPT !.state = to] /\ m' \in {Off, next} /\ refused' = refused
    BY <1>1 DEF SetState
  <2> QED
    BY <2>1, OffIsEngine DEF TypeOK
<1>2. CASE ~CanTransition(row.state, to)
  <2>1. row' = row /\ m' = Off /\ refused' = TRUE
    BY <1>2 DEF SetState
  <2> QED
    BY <2>1, OffIsEngine DEF TypeOK
<1> QED
  BY <1>1, <1>2

LEMMA InitTyped == Init => Typed
<1> SUFFICES ASSUME Init PROVE Typed
  OBVIOUS
<1>1. IsEngine(m) /\ m.pc = "setup" /\ ~m.pending /\ ~m.reuse
  BY OffIsEngine DEF Init, IsEngine, Off, PC
<1>2. db \in Table /\ row \in [state : RunStates, usd : 0 .. MaxUsd, turns : 0 .. MaxTurns]
  BY DEF Init, RunStates, Table, NoUnit, UnitRec
<1>3. InHand
  BY <1>1 DEF InHand, HasUnit
<1>4. verdict \in [Units -> Decisions \cup {"none"}]
  BY DEF Init
<1>5. /\ envelope = NoEnvelope /\ plan = NoPlan
      /\ trees = 0 /\ crashes = 0 /\ refused = FALSE
  BY DEF Init
<1>6. TypeOK
  <2>1. IsEngine(m)
    BY <1>1
  <2>2. envelope \in Table \cup {NoEnvelope} /\ plan \in DagPlans \cup {NoPlan}
    BY <1>5
  <2>3. trees \in Nat /\ crashes \in 0 .. MaxCrash
    BY <1>5
  <2>4. refused \in BOOLEAN
    BY <1>5
  <2> QED
    BY <1>2, <1>4, <2>1, <2>2, <2>3, <2>4, Zenon DEF TypeOK
<1> QED
  BY <1>3, <1>6 DEF Typed

LEMMA Moved ==
    ASSUME IsEngine(m), NEW p \in PC
    PROVE  /\ IsEngine([m EXCEPT !.pc = p])
           /\ IsEngine([m EXCEPT !.pc = p, !.pending = FALSE])
           /\ [m EXCEPT !.pc = p].pc = p
  BY DEF IsEngine

\* Steps that do no more than set_state.
LEMMA StateStepTyped ==
    ASSUME Typed, OnlyRun, NEW to \in RunStates, NEW p \in PC,
           SetState(to, [m EXCEPT !.pc = p]),
           p \notin {"planned", "seed", "seed_event"},
           m.pending \/ m.reuse \/ m.pc \in HasUnit \/ p \notin HasUnit
    PROVE  Typed'
<1>1. IsEngine(m) /\ TypeOK /\ InHand
  BY DEF Typed, TypeOK
<1>2. /\ row' \in [state : RunStates, usd : 0 .. MaxUsd, turns : 0 .. MaxTurns]
      /\ IsEngine(m') /\ m' \in {Off, [m EXCEPT !.pc = p]} /\ refused' \in BOOLEAN
  BY <1>1, Moved, SetStateIsTyped
<1>3. TypeOK'
  BY <1>1, <1>2 DEF OnlyRun, TypeOK
<1>4. CASE m' = Off
  BY <1>3, <1>4 DEF Typed, InHand, HasUnit, Off
<1>5. CASE m' = [m EXCEPT !.pc = p]
  <2>1. m'.pc = p /\ m'.unit = m.unit /\ m'.pending = m.pending /\ m'.reuse = m.reuse
    BY <1>1, <1>5 DEF IsEngine
  <2> QED
    BY <1>1, <1>3, <2>1 DEF Typed, InHand
<1> QED
  BY <1>2, <1>4, <1>5

LEMMA FailsTyped ==
    ASSUME Typed, OnlyRun, NEW to \in RunStates, SetState(to, Off)
    PROVE  Typed'
<1>1. TypeOK
  BY DEF Typed
<1>2. /\ row' \in [state : RunStates, usd : 0 .. MaxUsd, turns : 0 .. MaxTurns]
      /\ IsEngine(m') /\ m' = Off /\ refused' \in BOOLEAN
  BY <1>1, OffIsEngine, SetStateIsTyped
<1>3. TypeOK'
  BY <1>1, <1>2 DEF OnlyRun, TypeOK
<1> QED
  BY <1>2, <1>3 DEF Typed, InHand, HasUnit, Off

StateStep == \/ EnterLoop \/ BudgetCheck \/ DispatchFails \/ StartWork \/ InnerFails
             \/ SetReceiptReady \/ BeginReview \/ JudgeFails \/ AcceptRun
             \/ CloseRun \/ SetRework \/ Redispatch

LEMMA StateStepsTyped == ASSUME Typed, StateStep PROVE Typed'
<1> USE DEF RunStates, Terminal
<1>1. CASE EnterLoop
  BY <1>1, StateStepTyped DEF EnterLoop, PC, HasUnit
<1>2. CASE BudgetCheck
  BY <1>2, FailsTyped DEF BudgetCheck, FailBudget
<1>3. CASE DispatchFails
  BY <1>3, FailsTyped DEF DispatchFails, FailRun
<1>4. CASE StartWork
  <2>1. CASE CanTransition(row.state, "inner_working")
    BY <1>4, <2>1, StateStepTyped DEF StartWork, PC, HasUnit
  <2>2. CASE ~CanTransition(row.state, "inner_working")
    <3>1. row' = [row EXCEPT !.state = "failed"] /\ m' = Off /\ refused' = TRUE /\ OnlyRun
      BY <1>4, <2>2 DEF StartWork
    <3>2. row' \in [state : RunStates, usd : 0 .. MaxUsd, turns : 0 .. MaxTurns]
      BY <3>1 DEF Typed, TypeOK
    <3>3. TypeOK'
      BY <3>1, <3>2, OffIsEngine DEF Typed, OnlyRun, TypeOK
    <3> QED
      BY <3>1, <3>3 DEF Typed, InHand, HasUnit, Off
  <2> QED
    BY <2>1, <2>2
<1>5. CASE InnerFails
  BY <1>5, FailsTyped DEF InnerFails, FailRun
<1>6. CASE SetReceiptReady
  BY <1>6, StateStepTyped DEF SetReceiptReady, PC, HasUnit
<1>7. CASE BeginReview
  <2>1. CASE TurnsOut(row) /\ m.rec.receipt = "empty"
    BY <1>7, <2>1, FailsTyped DEF BeginReview, FailBudget
  <2>2. CASE ~(TurnsOut(row) /\ m.rec.receipt = "empty")
    BY <1>7, <2>2, StateStepTyped DEF BeginReview, PC, HasUnit
  <2> QED
    BY <2>1, <2>2
<1>8. CASE JudgeFails
  BY <1>8, FailsTyped DEF JudgeFails, FailRun
<1>9. CASE AcceptRun
  <2>1. CASE Accepted(m.dags) # DOMAIN m.dags
    BY <1>9, <2>1, StateStepTyped DEF AcceptRun, PC, HasUnit
  <2>2. CASE Accepted(m.dags) = DOMAIN m.dags
    BY <1>9, <2>2, FailsTyped DEF AcceptRun
  <2> QED
    BY <2>1, <2>2
<1>10. CASE CloseRun
  BY <1>10, FailsTyped DEF CloseRun
<1>11. CASE SetRework
  BY <1>11, StateStepTyped DEF SetRework, PC, HasUnit
<1>12. CASE Redispatch
  BY <1>12, StateStepTyped DEF Redispatch, PC, HasUnit
<1> QED
  BY <1>1, <1>2, <1>3, <1>4, <1>5, <1>6, <1>7, <1>8, <1>9, <1>10, <1>11, <1>12 DEF StateStep

\* run_single_unit takes up a unit.
LEMMA RunUnitTyped ==
    ASSUME Typed, NEW u \in Units, NEW rec \in UnitRec, RunUnit(u, rec)
    PROVE  Typed'
<1>1. TypeOK /\ IsEngine(m)
  BY DEF Typed, TypeOK
<1>2. m' = [m EXCEPT !.pc = "dispatch_event", !.unit = u, !.rec = rec, !.reuse = FALSE]
  BY DEF RunUnit
<1>3. IsEngine(m') /\ m'.pc = "dispatch_event" /\ m'.unit = u
  BY <1>1, <1>2 DEF IsEngine, PC
<1>4. db' \in Table
  BY <1>1 DEF RunUnit, InsertUnit, UpdateUnit, TypeOK, Table
<1>5. TypeOK'
  BY <1>1, <1>3, <1>4 DEF RunUnit, TypeOK
<1> QED
  BY <1>3, <1>5 DEF Typed, InHand, Units

LEMMA WorkingIsUnit == ASSUME NEW rec \in UnitRec PROVE Working(rec) \in UnitRec
  BY DEF Working, UnitRec

LEMMA AppendIsTyped ==
    ASSUME TypeOK, NEW u \in Units, NEW rec, HasEnvelope => rec \in UnitRec, Append(u, rec)
    PROVE  envelope' \in Table \cup {NoEnvelope}
  BY DEF Append, HasEnvelope, TypeOK, Table

HeadStep == \/ InitEnvelope \/ TakePending \/ NextDagUnit \/ ReuseUnit
            \/ \E p \in DagPlans \cup {NoPlan}, c \in Charges : AskCommander(p, c)
            \/ Planned \/ SeedUnit \/ SeedEvent

LEMMA HeadStepsTyped == ASSUME Typed, HeadStep PROVE Typed'
<1>0. TypeOK /\ InHand /\ IsEngine(m)
  BY DEF Typed, TypeOK
<1>1. CASE InitEnvelope
  <2>1. IsEngine(m') /\ m' = [m EXCEPT !.pc = "ready"]
    BY <1>0, <1>1, Moved DEF InitEnvelope, PC
  <2>2. m'.pc = "ready" /\ m'.pending = m.pending /\ m'.reuse = m.reuse /\ m'.unit = m.unit
    BY <1>0, <2>1 DEF IsEngine
  <2>3. envelope' \in Table
    BY <1>1 DEF InitEnvelope, Table, NoUnit, UnitRec
  <2>4. TypeOK'
    BY <1>0, <1>1, <2>1, <2>3 DEF InitEnvelope, TypeOK
  <2> QED
    BY <1>0, <2>2, <2>4 DEF Typed, InHand, HasUnit
<1>2. CASE TakePending
  <2>1. IsEngine(m') /\ m' = [m EXCEPT !.pc = "turns", !.pending = FALSE]
    BY <1>0, <1>2, Moved DEF TakePending, PC
  <2>2. m'.pc = "turns" /\ m'.unit = m.unit /\ m.pending
    BY <1>0, <1>2, <2>1 DEF TakePending, IsEngine
  <2>3. TypeOK'
    BY <1>0, <1>2, <2>1 DEF TakePending, TypeOK
  <2> QED
    BY <1>0, <2>2, <2>3 DEF Typed, InHand
<1>3. CASE NextDagUnit
  <2>1. CASE ReadyUnits(m.dags) # {}
    <3> DEFINE u == Min(ReadyUnits(m.dags))
    <3>1. u \in ReadyUnits(m.dags) /\ ReadyUnits(m.dags) \subseteq DOMAIN m.dags
      BY <1>0, <2>1, MinIsMember DEF ReadyUnits, IsEngine
    <3>2. u \in Units /\ Working(m.dags[u]) \in UnitRec
      BY <1>0, <3>1, WorkingIsUnit DEF IsEngine
    <3>3. RunUnit(u, Working(m.dags[u]))
      BY <1>3, <2>1 DEF NextDagUnit
    <3> QED
      BY <3>2, <3>3, RunUnitTyped
  <2>2. CASE ReadyUnits(m.dags) = {}
    BY <1>3, <2>2, FailsTyped DEF NextDagUnit, FailRun, RunStates, Terminal
  <2> QED
    BY <2>1, <2>2
<1>4. CASE ReuseUnit
  <2>1. m.unit \in Units /\ Working(m.rec) \in UnitRec
    BY <1>0, <1>4, WorkingIsUnit DEF ReuseUnit, InHand, IsEngine
  <2> QED
    BY <1>4, <2>1, RunUnitTyped DEF ReuseUnit
<1>5. ASSUME NEW p \in DagPlans \cup {NoPlan}, NEW c \in Charges, AskCommander(p, c)
      PROVE Typed'
  <2>1. IsEngine(m') /\ m' = [m EXCEPT !.pc = "planned"]
    BY <1>0, <1>5, Moved DEF AskCommander, PC
  <2>2. /\ m'.pc = "planned" /\ m'.dags = NoDag
        /\ m'.pending = m.pending /\ m'.reuse = m.reuse /\ m'.unit = m.unit
    BY <1>0, <1>5, <2>1 DEF AskCommander, Dispatching, IsEngine
  <2>3. row' \in [state : RunStates, usd : 0 .. MaxUsd, turns : 0 .. MaxTurns]
    BY <1>0, <1>5, ChargeIsTyped DEF AskCommander
  <2>4. TypeOK'
    BY <1>0, <1>5, <2>1, <2>3 DEF AskCommander, TypeOK
  <2> QED
    BY <1>0, <2>2, <2>4 DEF Typed, InHand, HasUnit
<1>6. CASE Planned
  <2>1. CASE Exhausted(row)
    BY <1>6, <2>1, FailsTyped DEF Planned, FailBudget, RunStates, Terminal
  <2>2. CASE ~Exhausted(row) /\ plan # NoPlan
    <3>1. m' = [m EXCEPT !.pc = "seed"] /\ m.pc = "planned"
          /\ UNCHANGED <<row, db, verdict, envelope, trees, plan, crashes, refused>>
      BY <1>6, <2>2 DEF Planned
    <3>2. IsEngine(m')
      BY <1>0, <3>1, Moved DEF PC
    <3>3. /\ m'.pc = "seed" /\ m'.dags = NoDag
          /\ m'.pending = m.pending /\ m'.reuse = m.reuse /\ m'.unit = m.unit
      BY <1>0, <3>1 DEF IsEngine, InHand
    <3>4. DOMAIN NoDag = {} /\ DOMAIN plan # {}
      BY <1>0, <2>2, PlansAreSorted DEF TypeOK, NoDag
    <3>5. TypeOK'
      BY <1>0, <3>1, <3>2 DEF TypeOK
    <3> QED
      BY <1>0, <2>2, <3>1, <3>3, <3>4, <3>5 DEF Typed, InHand, HasUnit
  <2>3. CASE ~Exhausted(row) /\ plan = NoPlan /\ m.unit = -1
    <3>1. RunUnit(0, Fresh("assigned")) /\ 0 \in Units
      BY <1>6, <2>3 DEF Planned, Units
    <3> QED
      BY <3>1, FreshIsUnit, RunUnitTyped
  <2>4. CASE ~Exhausted(row) /\ plan = NoPlan /\ m.unit # -1
    <3>1. RunUnit(m.unit, Working(m.rec)) /\ m.unit \in Units /\ m.rec \in UnitRec
      BY <1>0, <1>6, <2>4 DEF Planned, IsEngine
    <3> QED
      BY <3>1, WorkingIsUnit, RunUnitTyped
  <2> QED
    BY <2>1, <2>2, <2>3, <2>4
<1>7. ASSUME m.pc \in {"seed", "seed_event"}
      PROVE  NextSeed \in DOMAIN plan \ DOMAIN m.dags /\ NextSeed \in Units
  <2>1. DOMAIN plan \ DOMAIN m.dags # {} /\ DOMAIN plan \ DOMAIN m.dags \in SUBSET Units
    BY <1>0, <1>7, PlanUnits DEF InHand
  <2> QED
    BY <2>1, MinIsMember DEF NextSeed
<1>8. CASE SeedUnit
  <2>1. IsEngine(m') /\ m' = [m EXCEPT !.pc = "seed_event"]
    BY <1>0, <1>8, Moved DEF SeedUnit, PC
  <2>2. /\ m'.pc = "seed_event" /\ m'.dags = m.dags
        /\ m'.pending = m.pending /\ m'.reuse = m.reuse /\ m'.unit = m.unit
    BY <1>0, <2>1 DEF IsEngine
  <2>3. db' \in Table
    BY <1>0, <1>7, <1>8, FreshIsUnit DEF SeedUnit, InsertUnit, TypeOK, Table
  <2>4. TypeOK' /\ plan' = plan
    BY <1>0, <1>8, <2>1, <2>3 DEF SeedUnit, TypeOK
  <2> QED
    BY <1>0, <1>8, <2>2, <2>4 DEF Typed, InHand, HasUnit, SeedUnit
<1>9. CASE SeedEvent
  <2> DEFINE seeded == DOMAIN m.dags \cup {NextSeed}
             d == [u \in seeded |-> Fresh("queued")]
             p == IF seeded = DOMAIN plan THEN "loop" ELSE "seed"
  <2>1. m' = [m EXCEPT !.dags = d, !.pc = p] /\ m.pc = "seed_event"
    BY <1>9 DEF SeedEvent
  <2>2. seeded \subseteq DOMAIN plan /\ seeded \subseteq Units /\ p \in PC
    BY <1>0, <1>7, <2>1 DEF InHand, IsEngine, PC
  <2>3. d \in [seeded -> UnitRec] /\ DOMAIN d = seeded
    BY FreshIsUnit
  <2>4. /\ m'.dags = d /\ m'.pc = p /\ m'.unit = m.unit
        /\ m'.pending = m.pending /\ m'.reuse = m.reuse
    BY <1>0, <2>1 DEF IsEngine
  <2>5. IsEngine(m')
    <3> HIDE DEF d, p, seeded
    <3>1. m' \in [pc : PC, unit : Units \cup {-1}, rec : UnitRec, dags : {d},
                  pending : BOOLEAN, reuse : BOOLEAN, outer : Nat,
                  ruling : (Decisions \cup {"none"}) \X Notes]
      BY <1>0, <2>1, <2>2 DEF IsEngine
    <3> QED
      BY <2>2, <2>3, <2>4, <3>1 DEF IsEngine
  <2>6. envelope' \in Table \cup {NoEnvelope}
    BY <1>0, <1>7, <1>9, FreshIsUnit, AppendIsTyped DEF SeedEvent
  <2>7. TypeOK' /\ plan' = plan
    BY <1>0, <1>9, <2>5, <2>6 DEF SeedEvent, TypeOK
  <2>8. m'.pc \in {"loop", "seed"} /\ (m'.pc = "seed" => DOMAIN m'.dags # DOMAIN plan)
    BY <2>3, <2>4
  <2>9. DOMAIN m'.dags \subseteq DOMAIN plan /\ plan # NoPlan
    BY <1>0, <2>1, <2>2, <2>3, <2>4 DEF InHand
  <2> HIDE DEF d, p, seeded
  <2> QED
    BY <1>0, <2>4, <2>7, <2>8, <2>9 DEF Typed, InHand, HasUnit
<1> QED
  BY <1>1, <1>2, <1>3, <1>4, <1>5, <1>6, <1>8, <1>9 DEF HeadStep

LEMMA ReworkedIsUnit ==
    ASSUME NEW rec \in UnitRec
    PROVE  /\ [rec EXCEPT !.rework = @ + 1, !.state = "queued"] \in UnitRec
           /\ [rec EXCEPT !.state = "queued", !.rework = @ + 1] \in UnitRec
<1>1. rec.rework + 1 \in Nat
  BY DEF UnitRec
<1> QED
  BY <1>1 DEF UnitRec

LEMMA ReplayedIsUnit ==
    ASSUME NEW rec \in UnitRec, NEW decision
    PROVE  Replayed(rec, decision) \in UnitRec
<1>1. [rec EXCEPT !.state = "accepted"] \in UnitRec /\ [rec EXCEPT !.state = "rejected"] \in UnitRec
  BY DEF UnitRec
<1> QED
  BY <1>1, ReworkedIsUnit DEF Replayed

\* A step that leaves the plan alone and stays with the unit in hand.
LEMMA UnitStepTyped ==
    ASSUME Typed, TypeOK', plan' = plan, m'.unit = m.unit, m.unit \in Units,
           m'.pc \notin {"planned", "seed", "seed_event"}
    PROVE  Typed'
  BY DEF Typed, InHand

UnitStep == \/ DispatchEvent \/ (\E c \in Charges : GoalIteration(c)) \/ GoalLoopOut
            \/ (\E kind \in {"empty", "full"} : RecordReceipt(kind))
            \/ ReceiptEvent \/ OuterWorktree
            \/ (\E free \in FreeGates, d \in Decisions, c \in Charges : Judge(free, d, c))
            \/ RecordVerdict \/ VerdictEvent \/ AcceptUnit \/ ReworkUnit

LEMMA UnitStepsTyped == ASSUME Typed, UnitStep PROVE Typed'
<1>0. TypeOK /\ InHand /\ IsEngine(m)
  BY DEF Typed, TypeOK
<1>a. m.pc \in HasUnit /\ m.unit \in Units
  BY <1>0 DEF UnitStep, InHand, HasUnit, DispatchEvent, GoalIteration, GoalLoopOut,
              RecordReceipt, ReceiptEvent, OuterWorktree, Judge, RecordVerdict,
              VerdictEvent, AcceptUnit, ReworkUnit
<1>b. HasEnvelope => envelope[m.unit] \in UnitRec
  BY <1>0, <1>a DEF HasEnvelope, TypeOK, Table
<1>1. CASE DispatchEvent
  <2>1. m' = [m EXCEPT !.pc = "work"]
    BY <1>1 DEF DispatchEvent
  <2>2. IsEngine(m') /\ m'.pc = "work" /\ m'.unit = m.unit
    BY <1>0, <2>1 DEF IsEngine, PC
  <2>3. envelope' \in Table \cup {NoEnvelope}
    BY <1>0, <1>1, <1>a, <1>b, FreshIsUnit, WorkingIsUnit, AppendIsTyped DEF DispatchEvent
  <2>4. TypeOK' /\ plan' = plan
    BY <1>0, <1>1, <2>2, <2>3 DEF DispatchEvent, TypeOK
  <2> QED
    BY <1>a, <2>2, <2>4, UnitStepTyped
<1>2. ASSUME NEW c \in Charges, GoalIteration(c) PROVE Typed'
  <2>1. m' \in {m, [m EXCEPT !.pc = "receipt"]} /\ m.pc = "goal"
    BY <1>2 DEF GoalIteration
  <2>2. IsEngine(m') /\ m'.pc \in {"goal", "receipt"} /\ m'.unit = m.unit
    BY <1>0, <2>1 DEF IsEngine, PC
  <2>3. row' \in [state : RunStates, usd : 0 .. MaxUsd, turns : 0 .. MaxTurns]
    BY <1>0, <1>2, ChargeIsTyped DEF GoalIteration
  <2>4. TypeOK' /\ plan' = plan
    BY <1>0, <1>2, <2>2, <2>3 DEF GoalIteration, OnlyRun, TypeOK
  <2> QED
    BY <1>a, <2>2, <2>4, UnitStepTyped
<1>3. CASE GoalLoopOut
  <2>1. m' = [m EXCEPT !.pc = "receipt"]
    BY <1>3 DEF GoalLoopOut
  <2>2. IsEngine(m') /\ m'.pc = "receipt" /\ m'.unit = m.unit
    BY <1>0, <2>1 DEF IsEngine, PC
  <2>3. TypeOK' /\ plan' = plan
    BY <1>0, <1>3, <2>2 DEF GoalLoopOut, OnlyRun, TypeOK
  <2> QED
    BY <1>a, <2>2, <2>3, UnitStepTyped
<1>4. ASSUME NEW kind \in {"empty", "full"}, RecordReceipt(kind) PROVE Typed'
  <2> DEFINE rec == [m.rec EXCEPT !.state = "receipt_ready", !.receipt = kind]
  <2>1. rec \in UnitRec
    BY <1>0 DEF IsEngine, UnitRec
  <2>2. m' = [m EXCEPT !.pc = "receipt_event", !.rec = rec] /\ UpdateUnit(m.unit, rec)
    BY <1>4 DEF RecordReceipt
  <2> HIDE DEF rec
  <2>3. IsEngine(m') /\ m'.pc = "receipt_event" /\ m'.unit = m.unit
    BY <1>0, <2>1, <2>2 DEF IsEngine, PC
  <2>4. db' \in Table
    BY <1>0, <1>a, <2>1, <2>2 DEF UpdateUnit, TypeOK, Table
  <2>5. TypeOK' /\ plan' = plan
    BY <1>0, <1>4, <2>3, <2>4 DEF RecordReceipt, TypeOK
  <2> QED
    BY <1>a, <2>3, <2>5, UnitStepTyped
<1>5. CASE ReceiptEvent
  <2>1. m' = [m EXCEPT !.pc = "receipt_set"]
    BY <1>5 DEF ReceiptEvent
  <2>2. IsEngine(m') /\ m'.pc = "receipt_set" /\ m'.unit = m.unit
    BY <1>0, <2>1 DEF IsEngine, PC
  <2>3. HasEnvelope => [envelope[m.unit] EXCEPT !.state = "receipt_ready",
                                               !.receipt = m.rec.receipt] \in UnitRec
    BY <1>0, <1>b DEF IsEngine, UnitRec
  <2>4. envelope' \in Table \cup {NoEnvelope}
    BY <1>0, <1>5, <1>a, <2>3, AppendIsTyped DEF ReceiptEvent
  <2>5. TypeOK' /\ plan' = plan
    BY <1>0, <1>5, <2>2, <2>4 DEF ReceiptEvent, TypeOK
  <2> QED
    BY <1>a, <2>2, <2>5, UnitStepTyped
<1>6. CASE OuterWorktree
  <2>1. CASE m.outer + 1 > trees
    <3>1. m' = [m EXCEPT !.pc = "judge", !.outer = m.outer + 1] /\ trees' = m.outer + 1
      BY <1>6, <2>1 DEF OuterWorktree
    <3>2. trees' \in Nat
      BY <1>0, <3>1 DEF IsEngine
    <3>3. IsEngine(m') /\ m'.pc = "judge" /\ m'.unit = m.unit
      BY <1>0, <3>1, <3>2 DEF IsEngine, PC
    <3>4. TypeOK' /\ plan' = plan
      BY <1>0, <1>6, <3>2, <3>3 DEF OuterWorktree, TypeOK
    <3> QED
      BY <1>a, <3>3, <3>4, UnitStepTyped
  <2>2. CASE ~(m.outer + 1 > trees)
    <3>1. m' = Off
      BY <1>6, <2>2 DEF OuterWorktree
    <3>2. TypeOK'
      BY <1>0, <1>6, <2>2, <3>1, OffIsEngine DEF OuterWorktree, TypeOK
    <3> QED
      BY <3>1, <3>2 DEF Typed, InHand, HasUnit, Off
  <2> QED
    BY <2>1, <2>2
<1>7. ASSUME NEW free \in FreeGates, NEW d \in Decisions, NEW c \in Charges, Judge(free, d, c)
      PROVE  Typed'
  <2> DEFINE ruling == EnforceDecision(d, GatesOf(free))
  <2>1. m' = [m EXCEPT !.pc = "ruled", !.ruling = ruling]
    BY <1>7 DEF Judge
  <2>2. ruling \in (Decisions \cup {"none"}) \X Notes
    BY DEF EnforceDecision, Limited, Refusal, Decisions, Notes
  <2> HIDE DEF ruling
  <2>3. IsEngine(m') /\ m'.pc = "ruled" /\ m'.unit = m.unit
    BY <1>0, <2>1, <2>2 DEF IsEngine, PC
  <2>4. row' \in [state : RunStates, usd : 0 .. MaxUsd, turns : 0 .. MaxTurns]
    BY <1>0, <1>7, ChargeIsTyped DEF Judge
  <2>5. TypeOK' /\ plan' = plan
    BY <1>0, <1>7, <2>3, <2>4 DEF Judge, OnlyRun, TypeOK
  <2> QED
    BY <1>a, <2>3, <2>5, UnitStepTyped
<1>8. CASE RecordVerdict
  <2>1. CASE OverBudget
    BY <1>8, <2>1, FailsTyped DEF RecordVerdict, FailBudget, RunStates, Terminal
  <2>2. CASE ~OverBudget
    <3>1. m' = [m EXCEPT !.pc = "verdict_event"] /\ m.rec \in UnitRec
      BY <1>0, <1>8, <2>2 DEF RecordVerdict, IsEngine
    <3>2. IsEngine(m') /\ m'.pc = "verdict_event" /\ m'.unit = m.unit
      BY <1>0, <3>1 DEF IsEngine, PC
    <3>3. db' \in Table
      BY <1>0, <1>8, <1>a, <2>2, <3>1 DEF RecordVerdict, UpdateUnit, TypeOK, Table
    <3>4. verdict' \in [Units -> Decisions \cup {"none"}]
      BY <1>0, <1>8, <2>2 DEF RecordVerdict, Decision, TypeOK, IsEngine
    <3>5. TypeOK' /\ plan' = plan
      BY <1>0, <1>8, <2>2, <3>2, <3>3, <3>4 DEF RecordVerdict, TypeOK
    <3> QED
      BY <1>a, <3>2, <3>5, UnitStepTyped
  <2> QED
    BY <2>1, <2>2
<1>9. CASE VerdictEvent
  <2>1. m' = [m EXCEPT !.pc = "apply"]
    BY <1>9 DEF VerdictEvent
  <2>2. IsEngine(m') /\ m'.pc = "apply" /\ m'.unit = m.unit
    BY <1>0, <2>1 DEF IsEngine, PC
  <2>3. HasEnvelope => Replayed(envelope[m.unit], Decision) \in UnitRec
    BY <1>b, ReplayedIsUnit
  <2>4. envelope' \in Table \cup {NoEnvelope}
    BY <1>0, <1>9, <1>a, <2>3, AppendIsTyped DEF VerdictEvent
  <2>5. TypeOK' /\ plan' = plan
    BY <1>0, <1>9, <2>2, <2>4 DEF VerdictEvent, TypeOK
  <2> QED
    BY <1>a, <2>2, <2>5, UnitStepTyped
<1>10. CASE AcceptUnit
  <2> DEFINE rec == [m.rec EXCEPT !.state = "accepted"]
             d == [u \in DOMAIN m.dags |-> IF u = m.unit THEN rec ELSE m.dags[u]]
  <2>1. rec \in UnitRec
    BY <1>0 DEF IsEngine, UnitRec
  <2>2. m' = [m EXCEPT !.pc = "accept_set", !.rec = rec, !.dags = d] /\ UpdateUnit(m.unit, rec)
    BY <1>10 DEF AcceptUnit
  <2>3. DOMAIN d = DOMAIN m.dags /\ d \in [DOMAIN m.dags -> UnitRec]
    BY <1>0, <2>1 DEF IsEngine
  <2> HIDE DEF rec, d
  <2>4. /\ m' \in [pc : PC, unit : Units \cup {-1}, rec : UnitRec, dags : {d},
                  pending : BOOLEAN, reuse : BOOLEAN, outer : Nat,
                  ruling : (Decisions \cup {"none"}) \X Notes]
        /\ m'.pc = "accept_set" /\ m'.unit = m.unit /\ m'.dags = d
    BY <1>0, <2>1, <2>2 DEF IsEngine, PC
  <2>5. IsEngine(m')
    BY <1>0, <2>3, <2>4 DEF IsEngine
  <2>6. db' \in Table
    BY <1>0, <1>a, <2>1, <2>2 DEF UpdateUnit, TypeOK, Table
  <2>7. TypeOK' /\ plan' = plan
    BY <1>0, <1>10, <2>5, <2>6 DEF AcceptUnit, TypeOK
  <2> QED
    BY <1>a, <2>4, <2>7, UnitStepTyped
<1>11. CASE ReworkUnit
  <2> DEFINE rec == [m.rec EXCEPT !.rework = @ + 1, !.state = "queued"]
  <2>1. rec \in UnitRec
    BY <1>0, ReworkedIsUnit DEF IsEngine
  <2>2. CASE rec.rework > MaxRework
    BY <1>11, <2>2, FailsTyped DEF ReworkUnit, RunStates, Terminal
  <2>3. CASE ~(rec.rework > MaxRework)
    <3>1. m' = [m EXCEPT !.pc = "rework_set", !.rec = rec] /\ UpdateUnit(m.unit, rec)
          /\ UNCHANGED <<row, verdict, envelope, trees, plan, crashes, refused>>
      BY <1>11, <2>3 DEF ReworkUnit
    <3> HIDE DEF rec
    <3>2. IsEngine(m') /\ m'.pc = "rework_set" /\ m'.unit = m.unit
      BY <1>0, <2>1, <3>1 DEF IsEngine, PC
    <3>3. db' \in Table
      BY <1>0, <1>a, <2>1, <3>1 DEF UpdateUnit, TypeOK, Table
    <3>4. TypeOK' /\ plan' = plan
      BY <1>0, <3>1, <3>2, <3>3 DEF TypeOK
    <3> QED
      BY <1>a, <3>2, <3>4, UnitStepTyped
  <2> QED
    BY <2>2, <2>3
<1> QED
  BY <1>1, <1>2, <1>3, <1>4, <1>5, <1>6, <1>7, <1>8, <1>9, <1>10, <1>11 DEF UnitStep

(* A resume, a crash, and the type theorem *)

LEMMA ExistingIsTyped ==
    ASSUME TypeOK
    PROVE  DOMAIN Existing \subseteq Units /\ Existing \in [DOMAIN Existing -> UnitRec]
<1>1. CASE HasEnvelope /\ Present(envelope) # {}
  <2>1. Existing = Only(envelope) /\ envelope \in Table
    BY <1>1 DEF Existing, HasEnvelope, TypeOK
  <2> QED
    BY <2>1 DEF Only, Present, Table
<1>2. CASE ~(HasEnvelope /\ Present(envelope) # {})
  <2>1. Existing = Only(db) /\ db \in Table
    BY <1>2 DEF Existing, TypeOK
  <2> QED
    BY <2>1 DEF Only, Present, Table
<1> QED
  BY <1>1, <1>2

\* What a resume finds: the unit it goes on with is one on record.
LEMMA ResumedIsTyped ==
    ASSUME TypeOK
    PROVE  /\ Resumed \in [pc : PC, unit : Units \cup {-1}, rec : UnitRec, dags : {Resumed.dags},
                         pending : BOOLEAN, reuse : BOOLEAN, outer : Nat,
                         ruling : (Decisions \cup {"none"}) \X Notes]
           /\ Resumed.dags \in {Existing, NoDag}
           /\ Resumed.pc = "loop" /\ Resumed.outer = 0
           /\ Resumed.unit # -1 => /\ Resumed.unit \in DOMAIN Existing
                                   /\ Resumed.rec = Existing[Resumed.unit]
           /\ Resumed.unit = -1 => DOMAIN Existing = {}
           /\ Resumed.pending => Resumed.unit \in PendingUnits
           /\ Resumed.pending <=> PendingUnits # {}
           /\ IF \E w \in DOMAIN Existing : w > 0
              THEN Resumed.dags = Existing /\ ~Resumed.reuse
              ELSE /\ Resumed.dags = NoDag
                   /\ Resumed.reuse <=> Resumed.unit # -1 /\ ~Resumed.pending
<1> DEFINE pending == PendingUnits # {}
           u == IF pending THEN Max(PendingUnits)
                ELSE IF Existing = NoDag THEN -1 ELSE Max(DOMAIN Existing)
           dag == \E w \in DOMAIN Existing : w > 0
           rec == IF u = -1 THEN NoUnit ELSE Existing[u]
           dags == IF dag THEN Existing ELSE NoDag
           reuse == u # -1 /\ ~pending /\ ~dag
<1>1. DOMAIN Existing \subseteq Units /\ Existing \in [DOMAIN Existing -> UnitRec]
  BY ExistingIsTyped
<1>2. PendingUnits \subseteq DOMAIN Existing
  BY DEF PendingUnits
<1>3. Resumed = [Off EXCEPT !.pc = "loop", !.unit = u, !.rec = rec, !.dags = dags,
                           !.pending = pending, !.reuse = reuse]
  BY DEF Resumed
<1>4. /\ pending => u \in PendingUnits
      /\ ~pending => (u = -1 /\ DOMAIN Existing = {}) \/ u \in DOMAIN Existing
  <2>1. CASE pending
    BY <1>1, <1>2, <2>1, MaxIsMember
  <2>2. CASE ~pending /\ Existing = NoDag
    BY <2>2 DEF NoDag
  <2>3. CASE ~pending /\ Existing # NoDag
    <3>1. DOMAIN Existing # {}
      BY <1>1, <2>3 DEF NoDag
    <3> QED
      BY <1>1, <2>3, <3>1, MaxIsMember
  <2> QED
    BY <2>1, <2>2, <2>3
<1>5. -1 \notin DOMAIN Existing /\ u \in Units \cup {-1}
  BY <1>1, <1>2, <1>4 DEF Units
<1>6. rec \in UnitRec
  BY <1>1, <1>2, <1>4, <1>5 DEF UnitRec, NoUnit
<1>7. /\ u = -1 => DOMAIN Existing = {}
      /\ u # -1 => u \in DOMAIN Existing /\ rec = Existing[u]
  BY <1>2, <1>4, <1>5
<1>8. pending \in BOOLEAN /\ reuse \in BOOLEAN /\ dags \in {Existing, NoDag} /\ "loop" \in PC
  BY DEF PC
<1>9. IF dag THEN dags = Existing /\ ~reuse
      ELSE dags = NoDag /\ (reuse <=> u # -1 /\ ~pending)
  OBVIOUS
<1>10. pending <=> PendingUnits # {}
  OBVIOUS
<1> HIDE DEF u, rec, dags, pending, reuse
<1> DEFINE resumed == [pc |-> "loop", unit |-> u, rec |-> rec, dags |-> dags,
                       pending |-> pending, reuse |-> reuse, outer |-> 0,
                       ruling |-> <<"none", "none">>]
<1>14. Resumed = resumed
  BY <1>3 DEF Off
<1>11. /\ Resumed.pc = "loop" /\ Resumed.unit = u /\ Resumed.rec = rec /\ Resumed.dags = dags
       /\ Resumed.outer = 0
  BY <1>14
<1>12. (Resumed.pending <=> pending) /\ (Resumed.reuse <=> reuse)
  BY <1>14
<1>13. Resumed \in [pc : PC, unit : Units \cup {-1}, rec : UnitRec, dags : {Resumed.dags},
                    pending : BOOLEAN, reuse : BOOLEAN, outer : Nat,
                    ruling : (Decisions \cup {"none"}) \X Notes]
  BY <1>14, <1>5, <1>6, <1>8 DEF Notes
<1> QED
  BY <1>4, <1>7, <1>8, <1>9, <1>10, <1>11, <1>12, <1>13

LEMMA HealedIsTyped ==
    ASSUME TypeOK
    PROVE  /\ Healed \in Table
           /\ \A u \in Units : Healed[u] = IF u \in DOMAIN Existing THEN Existing[u] ELSE db[u]
  BY ExistingIsTyped DEF Healed, Table, TypeOK

LEMMA ResumeTyped == ASSUME Typed, Resume PROVE Typed'
<1>0. TypeOK
  BY DEF Typed
<1>1. m' = Resumed /\ db' = Healed
      /\ UNCHANGED <<verdict, envelope, trees, plan, crashes, refused>>
  BY DEF Resume
<1>2. DOMAIN m'.dags \subseteq Units /\ m'.dags \in [DOMAIN m'.dags -> UnitRec]
  <2>1. m'.dags \in {Existing, NoDag}
    BY <1>0, <1>1, ResumedIsTyped
  <2>2. DOMAIN NoDag \subseteq Units /\ NoDag \in [DOMAIN NoDag -> UnitRec]
    BY DEF NoDag
  <2> QED
    BY <1>0, <2>1, <2>2, ExistingIsTyped
<1>3. IsEngine(m')
  BY <1>0, <1>1, <1>2, ResumedIsTyped DEF IsEngine
<1>4. row' \in [state : RunStates, usd : 0 .. MaxUsd, turns : 0 .. MaxTurns]
  BY <1>0 DEF Resume, TypeOK, RunStates
<1>5. TypeOK'
  BY <1>0, <1>1, <1>3, <1>4, HealedIsTyped DEF TypeOK
<1>6. m'.pc = "loop" /\ (m'.pending \/ m'.reuse => m'.unit \in Units)
  <2>1. m'.pending \/ m'.reuse => m'.unit \in DOMAIN Existing
    <3>1. PendingUnits \subseteq DOMAIN Existing
      BY DEF PendingUnits
    <3> QED
      BY <1>0, <1>1, <3>1, ResumedIsTyped
  <2> QED
    BY <1>0, <1>1, <2>1, ResumedIsTyped, ExistingIsTyped
<1> QED
  BY <1>5, <1>6 DEF Typed, InHand, HasUnit

LEMMA CrashTyped == ASSUME Typed, Crash PROVE Typed'
<1>1. crashes' \in 0 .. MaxCrash
  BY DEF Crash, Typed, TypeOK
<1>2. TypeOK'
  BY <1>1, OffIsEngine DEF Crash, Typed, TypeOK
<1>3. m' = Off
  BY DEF Crash
<1> QED
  BY <1>2, <1>3 DEF Typed, InHand, HasUnit, Off

LEMMA EngineSteps == ASSUME Engine PROVE StateStep \/ HeadStep \/ UnitStep
  BY DEF Engine, StateStep, HeadStep, UnitStep

LEMMA NextTyped == ASSUME Typed, [Next]_vars PROVE Typed'
<1>1. CASE Engine
  BY <1>1, EngineSteps, StateStepsTyped, HeadStepsTyped, UnitStepsTyped
<1>2. CASE Resume
  BY <1>2, ResumeTyped
<1>3. CASE Crash
  BY <1>3, CrashTyped
<1>4. CASE UNCHANGED vars
  BY <1>4 DEF vars, Typed, TypeOK, InHand
<1> QED
  BY <1>1, <1>2, <1>3, <1>4 DEF Next

\* The tables, the envelope and the engine keep their types.
THEOREM TypeCorrect == Spec => []TypeOK
<1>1. Typed => TypeOK
  BY DEF Typed
<1> QED
  BY <1>1, InitTyped, NextTyped, PTL DEF Spec

-----------------------------------------------------------------------------
(* The budget *)

\* From the verdict that is not over budget up to the accept nothing is charged.
WithinBudget ==
    /\ AcceptedWithinBudget
    /\ m.pc # "off" => row.state \notin Terminal
    /\ m.pc \in {"verdict_event", "apply"} /\ Decision = "accept" => ~Exhausted(row)
    /\ m.pc = "accept_set" => ~Exhausted(row)

Settling == {"verdict_event", "apply", "accept_set"}

LEMMA SetStateBudget ==
    ASSUME TypeOK, WithinBudget, NEW to \in RunStates, NEW next, next.pc \notin Settling,
           to = "accepted" => ~Exhausted(row), SetState(to, next)
    PROVE  WithinBudget'
<1>1. CASE CanTransition(row.state, to)
  <2>1. row' = [row EXCEPT !.state = to] /\ m' = IF to \in Terminal THEN Off ELSE next
    BY <1>1 DEF SetState
  <2>2. row'.state = to /\ (Exhausted(row') <=> Exhausted(row))
    BY <2>1 DEF TypeOK, Exhausted
  <2>3. m'.pc \notin Settling /\ (m'.pc # "off" => to \notin Terminal)
    BY <2>1 DEF Off, Settling
  <2> QED
    BY <2>2, <2>3 DEF WithinBudget, AcceptedWithinBudget, Settling
<1>2. CASE ~CanTransition(row.state, to)
  <2>1. row' = row /\ m' = Off
    BY <1>2 DEF SetState
  <2> QED
    BY <2>1 DEF WithinBudget, AcceptedWithinBudget, Off
<1> QED
  BY <1>1, <1>2

LEMMA StateStepsBudget == ASSUME Typed, WithinBudget, StateStep PROVE WithinBudget'
<1>0. TypeOK
  BY DEF Typed
<1>1. \A p \in PC : [m EXCEPT !.pc = p].pc = p
  BY <1>0, Moved DEF TypeOK
<1>2. Off.pc \notin Settling
  BY DEF Off, Settling
<1> USE DEF RunStates, Terminal
<1>3. CASE EnterLoop
  BY <1>0, <1>1, <1>3, SetStateBudget DEF EnterLoop, PC, Settling
<1>4. CASE BudgetCheck \/ DispatchFails \/ InnerFails \/ JudgeFails
  BY <1>0, <1>2, <1>4, SetStateBudget
     DEF BudgetCheck, DispatchFails, InnerFails, JudgeFails, FailBudget, FailRun
<1>5. CASE StartWork
  <2>1. CASE CanTransition(row.state, "inner_working")
    BY <1>0, <1>1, <1>5, <2>1, SetStateBudget DEF StartWork, PC, Settling
  <2>2. CASE ~CanTransition(row.state, "inner_working")
    <3>1. row' = [row EXCEPT !.state = "failed"] /\ m' = Off
      BY <1>5, <2>2 DEF StartWork
    <3> QED
      BY <1>0, <3>1 DEF TypeOK, WithinBudget, AcceptedWithinBudget, Off
  <2> QED
    BY <2>1, <2>2
<1>6. CASE SetReceiptReady
  BY <1>0, <1>1, <1>6, SetStateBudget DEF SetReceiptReady, PC, Settling
<1>7. CASE BeginReview
  <2>1. CASE TurnsOut(row) /\ m.rec.receipt = "empty"
    BY <1>0, <1>2, <1>7, <2>1, SetStateBudget DEF BeginReview, FailBudget
  <2>2. CASE ~(TurnsOut(row) /\ m.rec.receipt = "empty")
    BY <1>0, <1>1, <1>7, <2>2, SetStateBudget DEF BeginReview, PC, Settling
  <2> QED
    BY <2>1, <2>2
<1>8. CASE AcceptRun
  <2>1. CASE Accepted(m.dags) # DOMAIN m.dags
    BY <1>0, <1>1, <1>8, <2>1, SetStateBudget DEF AcceptRun, PC, Settling
  <2>2. CASE Accepted(m.dags) = DOMAIN m.dags
    <3>1. ~Exhausted(row)
      BY <1>8 DEF AcceptRun, WithinBudget
    <3> QED
      BY <1>0, <1>2, <1>8, <2>2, <3>1, SetStateBudget DEF AcceptRun
  <2> QED
    BY <2>1, <2>2
<1>9. CASE CloseRun
  BY <1>0, <1>2, <1>9, SetStateBudget DEF CloseRun
<1>10. CASE SetRework
  BY <1>0, <1>1, <1>10, SetStateBudget DEF SetRework, PC, Settling
<1>11. CASE Redispatch
  BY <1>0, <1>1, <1>11, SetStateBudget DEF Redispatch, PC, Settling
<1> QED
  BY <1>3, <1>4, <1>5, <1>6, <1>7, <1>8, <1>9, <1>10, <1>11 DEF StateStep

\* A step that keeps the state of the run and is not on the way to an accept.
LEMMA PlainBudget ==
    ASSUME TypeOK, WithinBudget, m.pc # "off", row'.state = row.state, m'.pc \notin Settling
    PROVE  WithinBudget'
  BY DEF WithinBudget, AcceptedWithinBudget, Settling, Terminal

LEMMA HeadStepsBudget == ASSUME Typed, WithinBudget, HeadStep PROVE WithinBudget'
<1>0. TypeOK /\ IsEngine(m) /\ Off.pc \notin Settling
  BY DEF Typed, TypeOK, Off, Settling
<1> USE DEF IsEngine, Settling
<1>1. ASSUME NEW u, NEW rec, RunUnit(u, rec) PROVE m'.pc = "dispatch_event" /\ row' = row
  BY <1>0, <1>1 DEF RunUnit
<1>2. CASE InitEnvelope
  BY <1>0, <1>2, PlainBudget DEF InitEnvelope
<1>3. CASE TakePending
  BY <1>0, <1>3, PlainBudget DEF TakePending, AtLoop
<1>4. CASE NextDagUnit
  <2>1. CASE ReadyUnits(m.dags) # {}
    <3>1. m.pc = "loop" /\ m'.pc = "dispatch_event" /\ row' = row
      BY <1>1, <1>4, <2>1 DEF NextDagUnit, AtLoop
    <3> QED
      BY <1>0, <3>1, PlainBudget
  <2>2. CASE ReadyUnits(m.dags) = {}
    <3>1. ~Exhausted(row) /\ (SetState("accepted", Off) \/ SetState("failed", Off))
      BY <1>4, <2>2 DEF NextDagUnit, AtLoop, FailRun
    <3> QED
      BY <1>0, <3>1, SetStateBudget DEF RunStates, Terminal
  <2> QED
    BY <2>1, <2>2
<1>5. CASE ReuseUnit
  <2>1. m.pc = "loop" /\ m'.pc = "dispatch_event" /\ row' = row
    BY <1>1, <1>5 DEF ReuseUnit, AtLoop
  <2> QED
    BY <1>0, <2>1, PlainBudget
<1>6. ASSUME NEW p \in DagPlans \cup {NoPlan}, NEW c \in Charges, AskCommander(p, c)
      PROVE  WithinBudget'
  <2>1. m.pc = "loop" /\ m'.pc = "planned" /\ row'.state = row.state
    BY <1>0, <1>6, ChargeIsTyped DEF AskCommander, Dispatching, AtLoop
  <2> QED
    BY <1>0, <2>1, PlainBudget
<1>7. CASE Planned
  <2>1. CASE Exhausted(row)
    BY <1>0, <1>7, <2>1, SetStateBudget DEF Planned, FailBudget, RunStates, Terminal
  <2>2. CASE ~Exhausted(row)
    <3>1. m.pc = "planned" /\ row' = row /\ m'.pc \in {"seed", "dispatch_event"}
      BY <1>0, <1>1, <1>7, <2>2 DEF Planned
    <3> QED
      BY <1>0, <3>1, PlainBudget
  <2> QED
    BY <2>1, <2>2
<1>8. CASE SeedUnit
  BY <1>0, <1>8, PlainBudget DEF SeedUnit
<1>9. CASE SeedEvent
  <2>1. m.pc = "seed_event" /\ row' = row /\ m'.pc \in {"loop", "seed"}
    BY <1>0, <1>9 DEF SeedEvent
  <2> QED
    BY <1>0, <2>1, PlainBudget
<1> QED
  BY <1>2, <1>3, <1>4, <1>5, <1>6, <1>7, <1>8, <1>9 DEF HeadStep

LEMMA UnitStepsBudget == ASSUME Typed, WithinBudget, UnitStep PROVE WithinBudget'
<1>0. TypeOK /\ IsEngine(m) /\ Off.pc \notin Settling
  BY DEF Typed, TypeOK, Off, Settling
<1> USE DEF IsEngine, Settling
<1>1. CASE DispatchEvent
  BY <1>0, <1>1, PlainBudget DEF DispatchEvent
<1>2. ASSUME NEW c \in Charges, GoalIteration(c) PROVE WithinBudget'
  <2>1. m.pc = "goal" /\ m'.pc \in {"goal", "receipt"} /\ row'.state = row.state
    BY <1>0, <1>2, ChargeIsTyped DEF GoalIteration
  <2> QED
    BY <1>0, <2>1, PlainBudget
<1>3. CASE GoalLoopOut
  BY <1>0, <1>3, PlainBudget DEF GoalLoopOut
<1>4. ASSUME NEW kind \in {"empty", "full"}, RecordReceipt(kind) PROVE WithinBudget'
  <2>1. m.pc = "receipt" /\ m'.pc = "receipt_event" /\ row' = row
    BY <1>0, <1>4 DEF RecordReceipt
  <2> QED
    BY <1>0, <2>1, PlainBudget
<1>5. CASE ReceiptEvent
  BY <1>0, <1>5, PlainBudget DEF ReceiptEvent
<1>6. CASE OuterWorktree
  <2>1. /\ m.pc = "outer" /\ row' = row
        /\ m' \in {Off, [m EXCEPT !.pc = "judge", !.outer = m.outer + 1]}
    BY <1>6 DEF OuterWorktree
  <2>2. m'.pc \in {"judge", "off"}
    <3>1. CASE m' = Off
      BY <3>1 DEF Off
    <3>2. CASE m' = [m EXCEPT !.pc = "judge", !.outer = m.outer + 1]
      BY <1>0, <3>2
    <3> QED
      BY <2>1, <3>1, <3>2
  <2> QED
    BY <1>0, <2>1, <2>2, PlainBudget
<1>7. ASSUME NEW free \in FreeGates, NEW d \in Decisions, NEW c \in Charges, Judge(free, d, c)
      PROVE  WithinBudget'
  <2>1. m.pc = "judge" /\ m'.pc = "ruled" /\ row'.state = row.state
    BY <1>0, <1>7, ChargeIsTyped DEF Judge
  <2> QED
    BY <1>0, <2>1, PlainBudget
<1>8. CASE RecordVerdict
  <2>1. CASE OverBudget
    BY <1>0, <1>8, <2>1, SetStateBudget DEF RecordVerdict, FailBudget, RunStates, Terminal
  <2>2. CASE ~OverBudget
    <3>1. m.pc = "ruled" /\ m' = [m EXCEPT !.pc = "verdict_event"] /\ row' = row
      BY <1>8, <2>2 DEF RecordVerdict
    <3>2. m'.pc = "verdict_event" /\ m'.ruling = m.ruling
      BY <1>0, <3>1
    <3>3. Decision' = "accept" => ~Exhausted(row')
      BY <2>2, <3>1, <3>2 DEF OverBudget, Decision
    <3> QED
      BY <3>1, <3>2, <3>3 DEF WithinBudget, AcceptedWithinBudget
  <2> QED
    BY <2>1, <2>2
<1>9. CASE VerdictEvent
  <2>1. m.pc = "verdict_event" /\ m'.pc = "apply" /\ m'.ruling = m.ruling /\ row' = row
    BY <1>0, <1>9 DEF VerdictEvent
  <2> QED
    BY <2>1 DEF WithinBudget, AcceptedWithinBudget, Decision
<1>10. CASE AcceptUnit
  <2>1. m.pc = "apply" /\ Decision = "accept" /\ m'.pc = "accept_set" /\ row' = row
    BY <1>0, <1>10 DEF AcceptUnit
  <2> QED
    BY <2>1 DEF WithinBudget, AcceptedWithinBudget
<1>11. CASE ReworkUnit
  <2>1. CASE SetState("escalate", Off)
    BY <1>0, <2>1, SetStateBudget DEF RunStates, Terminal
  <2>2. CASE ~SetState("escalate", Off)
    <3>1. m.pc = "apply" /\ m'.pc = "rework_set" /\ row' = row
      BY <1>0, <1>11, <2>2 DEF ReworkUnit
    <3> QED
      BY <1>0, <3>1, PlainBudget
  <2> QED
    BY <2>1, <2>2
<1> QED
  BY <1>1, <1>2, <1>3, <1>4, <1>5, <1>6, <1>7, <1>8, <1>9, <1>10, <1>11 DEF UnitStep

LEMMA NextBudget == ASSUME Typed, WithinBudget, [Next]_vars PROVE WithinBudget'
<1>1. CASE Engine
  BY <1>1, EngineSteps, StateStepsBudget, HeadStepsBudget, UnitStepsBudget
<1>2. CASE Resume
  <2>1. m'.pc = "loop" /\ row.state \notin Terminal /\ row'.state \in {row.state, "dispatched"}
    BY <1>2, ResumedIsTyped DEF Typed, TypeOK, Resume
  <2> QED
    BY <2>1 DEF WithinBudget, AcceptedWithinBudget, Terminal
<1>3. CASE Crash
  <2>1. m'.pc = "off" /\ row' = row
    BY <1>3 DEF Crash, Off
  <2> QED
    BY <2>1 DEF WithinBudget, AcceptedWithinBudget
<1>4. CASE UNCHANGED vars
  BY <1>4 DEF vars, WithinBudget, AcceptedWithinBudget, Decision, Exhausted
<1> QED
  BY <1>1, <1>2, <1>3, <1>4 DEF Next

LEMMA InitBudget == Init => WithinBudget
<1> SUFFICES ASSUME Init PROVE WithinBudget
  OBVIOUS
<1>1. row.state = "contract_ready" /\ m.pc = "setup"
  BY DEF Init, Off
<1> QED
  BY <1>1 DEF WithinBudget, AcceptedWithinBudget, Terminal

\* FR-014 (6): whatever a verdict and the calls before it cost, a run is only
\* accepted with budget left (Store::set_state after the check of the verdict).
THEOREM BudgetHolds == Spec => []AcceptedWithinBudget
<1>1. Typed /\ WithinBudget /\ [Next]_vars => Typed' /\ WithinBudget'
  BY NextTyped, NextBudget
<1>2. WithinBudget => AcceptedWithinBudget
  BY DEF WithinBudget
<1> QED
  BY <1>1, <1>2, InitTyped, InitBudget, PTL DEF Spec

-----------------------------------------------------------------------------
(* Legal transitions *)

\* The state of the run while the engine is at p.
Due(p) ==
    CASE p \in {"setup", "ready"} -> "contract_ready"
      [] p \in {"loop", "planned", "seed", "seed_event", "dispatch_event", "work"} -> "dispatched"
      [] p \in {"goal", "receipt", "receipt_event", "receipt_set"} -> "inner_working"
      [] p = "turns" -> "receipt_ready"
      [] p = "redispatch" -> "rework"
      [] OTHER -> "outer_reviewing"

Unfinished(d) == d # NoDag => Accepted(d) # DOMAIN d

\* Where a run is that no crash has touched.  The first engine has made every
\* worktree there is, has nothing pending, and ends only with the run.
OnCourse ==
    crashes = 0 =>
        /\ ~refused
        /\ m.pc = "off" => row.state \in Terminal
        /\ m.pc # "off" => row.state = Due(m.pc) /\ trees = m.outer /\ ~m.pending
        /\ m.pc # "accept_set" => Unfinished(m.dags)

\* A part of OnCourse', spared in the lemmas below: there was no crash.
Uncrashed == crashes = 0 /\ crashes' = crashes

LEMMA DueIsOpen == ASSUME NEW p PROVE Due(p) \in RunStates \ Terminal
  BY DEF Due, RunStates, Terminal

LEMMA EndOnCourse ==
    ASSUME TypeOK, OnCourse, Uncrashed, m.pc # "off",
           NEW to \in Terminal, CanTransition(Due(m.pc), to), SetState(to, Off)
    PROVE  OnCourse'
<1>1. CanTransition(row.state, to)
  BY DEF OnCourse, Uncrashed
<1>2. row' = [row EXCEPT !.state = to] /\ m' = Off /\ refused' = refused
  BY <1>1 DEF SetState
<1>3. row'.state = to /\ m'.pc = "off" /\ m'.dags = NoDag
  BY <1>2 DEF TypeOK, Off
<1> QED
  BY <1>2, <1>3 DEF OnCourse, Uncrashed, Unfinished

LEMMA FailOnCourse ==
    ASSUME TypeOK, OnCourse, Uncrashed, m.pc # "off", FailRun \/ FailBudget
    PROVE  OnCourse'
<1>1. \A to \in {"failed", "budget_exhausted"} : CanTransition(Due(m.pc), to) /\ to \in Terminal
  BY DueIsOpen DEF CanTransition, Exits, Terminal
<1> QED
  BY <1>1, EndOnCourse DEF FailRun, FailBudget

LEMMA MoveOnCourse ==
    ASSUME TypeOK, OnCourse, Uncrashed, trees' = trees, m.pc # "off",
           NEW p \in PC \ {"off"}, p # "accept_set" => Unfinished(m.dags),
           CanTransition(Due(m.pc), Due(p)), SetState(Due(p), [m EXCEPT !.pc = p])
    PROVE  OnCourse'
<1>1. CanTransition(row.state, Due(p)) /\ Due(p) \notin Terminal
  BY DueIsOpen DEF OnCourse, Uncrashed
<1>2. row' = [row EXCEPT !.state = Due(p)] /\ m' = [m EXCEPT !.pc = p] /\ refused' = refused
  BY <1>1 DEF SetState
<1>3. /\ row'.state = Due(p) /\ m'.pc = p /\ m'.outer = m.outer
      /\ m'.pending = m.pending /\ m'.dags = m.dags
  BY <1>2 DEF TypeOK, IsEngine
<1> QED
  BY <1>2, <1>3 DEF OnCourse, Uncrashed

\* The other steps stay in the state of the run.
LEMMA StayOnCourse ==
    ASSUME OnCourse, Uncrashed, m.pc # "off", m'.pc # "off", refused' = refused,
           row'.state = row.state, Due(m'.pc) = Due(m.pc), trees' = m'.outer, ~m'.pending,
           m'.pc # "accept_set" => Unfinished(m'.dags)
    PROVE  OnCourse'
  BY DEF OnCourse, Uncrashed

\* The moves of the engine are arcs.
LEMMA Legal ==
    /\ CanTransition("contract_ready", "dispatched")
    /\ CanTransition("dispatched", "inner_working")
    /\ CanTransition("inner_working", "receipt_ready")
    /\ CanTransition("receipt_ready", "outer_reviewing")
    /\ \A to \in {"accepted", "rejected", "rework", "escalate", "dispatched"} :
           CanTransition("outer_reviewing", to)
    /\ CanTransition("rework", "dispatched")
  BY DEF CanTransition, Arcs, Terminal

LEMMA StateStepsOnCourse ==
    ASSUME Typed, OnCourse, Uncrashed, StateStep PROVE OnCourse'
<1>0. TypeOK
  BY DEF Typed
<1>1. m.pc \notin {"off", "accept_set"} => Unfinished(m.dags)
  BY DEF OnCourse, Uncrashed
<1>2. CASE EnterLoop
  BY <1>0, <1>1, <1>2, Legal, MoveOnCourse DEF EnterLoop, OnlyRun, PC, Due
<1>3. CASE BudgetCheck \/ DispatchFails \/ InnerFails \/ JudgeFails
  <2>1. m.pc # "off" /\ (FailRun \/ FailBudget)
    BY <1>3 DEF BudgetCheck, DispatchFails, InnerFails, JudgeFails, Dispatching, AtLoop
  <2> QED
    BY <1>0, <2>1, FailOnCourse
<1>4. CASE StartWork
  <2>1. m.pc = "work" /\ row.state = "dispatched" /\ OnlyRun
    BY <1>4 DEF StartWork, OnCourse, Uncrashed, Due
  <2>2. SetState("inner_working", [m EXCEPT !.pc = "goal"])
    BY <1>4, <2>1, Legal DEF StartWork
  <2> QED
    BY <1>0, <1>1, <2>1, <2>2, Legal, MoveOnCourse DEF OnlyRun, PC, Due
<1>5. CASE SetReceiptReady
  BY <1>0, <1>1, <1>5, Legal, MoveOnCourse DEF SetReceiptReady, OnlyRun, PC, Due
<1>6. CASE BeginReview
  <2>1. m.pc = "turns" /\ OnlyRun
    BY <1>6 DEF BeginReview
  <2>2. CASE FailBudget
    BY <1>0, <2>1, <2>2, FailOnCourse
  <2>3. CASE SetState("outer_reviewing", [m EXCEPT !.pc = "outer"])
    BY <1>0, <1>1, <2>1, <2>3, Legal, MoveOnCourse DEF OnlyRun, PC, Due
  <2> QED
    BY <1>6, <2>2, <2>3 DEF BeginReview
<1>7. CASE AcceptRun
  <2>1. m.pc = "accept_set" /\ OnlyRun /\ Due(m.pc) = "outer_reviewing"
    BY <1>7 DEF AcceptRun, Due
  <2>2. CASE Accepted(m.dags) # DOMAIN m.dags
    <3>1. SetState("dispatched", [m EXCEPT !.pc = "loop"])
      BY <1>7, <2>2 DEF AcceptRun
    <3> QED
      BY <1>0, <2>1, <2>2, <3>1, Legal, MoveOnCourse DEF OnlyRun, PC, Due, Unfinished
  <2>3. CASE Accepted(m.dags) = DOMAIN m.dags
    <3>1. SetState("accepted", Off)
      BY <1>7, <2>3 DEF AcceptRun
    <3> QED
      BY <1>0, <2>1, <3>1, Legal, EndOnCourse DEF Terminal
  <2> QED
    BY <2>2, <2>3
<1>8. CASE CloseRun
  <2>1. m.pc = "apply" /\ Due(m.pc) = "outer_reviewing"
    BY <1>8 DEF CloseRun, Due
  <2>2. \E to \in {"rejected", "escalate"} : SetState(to, Off)
    BY <1>8 DEF CloseRun
  <2> QED
    BY <1>0, <2>1, <2>2, Legal, EndOnCourse DEF Terminal
<1>9. CASE SetRework
  BY <1>0, <1>1, <1>9, Legal, MoveOnCourse DEF SetRework, OnlyRun, PC, Due
<1>10. CASE Redispatch
  BY <1>0, <1>1, <1>10, Legal, MoveOnCourse DEF Redispatch, OnlyRun, PC, Due
<1> QED
  BY <1>2, <1>3, <1>4, <1>5, <1>6, <1>7, <1>8, <1>9, <1>10 DEF StateStep

LEMMA RunUnitOnCourse ==
    ASSUME TypeOK, OnCourse, Uncrashed, m.pc \in {"loop", "planned"},
           NEW u, NEW rec, RunUnit(u, rec)
    PROVE  OnCourse'
<1>1. /\ m' = [m EXCEPT !.pc = "dispatch_event", !.unit = u, !.rec = rec, !.reuse = FALSE]
      /\ UNCHANGED <<row, trees, refused>>
  BY DEF RunUnit
<1>2. m'.pc = "dispatch_event" /\ m'.outer = m.outer /\ m'.pending = m.pending /\ m'.dags = m.dags
  BY <1>1 DEF TypeOK, IsEngine
<1>3. Due(m'.pc) = Due(m.pc)
  BY <1>2 DEF Due
<1> QED
  BY <1>1, <1>2, <1>3, StayOnCourse DEF OnCourse, Uncrashed

LEMMA HeadStepsOnCourse == ASSUME Typed, OnCourse, Uncrashed, HeadStep PROVE OnCourse'
<1>0. TypeOK /\ InHand /\ IsEngine(m)
  BY DEF Typed, TypeOK
<1>1. /\ m.pc # "off" => trees = m.outer /\ ~m.pending
      /\ m.pc # "accept_set" => Unfinished(m.dags)
  BY DEF OnCourse, Uncrashed
<1>2. CASE InitEnvelope
  <2>1. /\ m.pc = "setup" /\ m'.pc = "ready" /\ m'.outer = m.outer
        /\ m'.pending = m.pending /\ m'.dags = m.dags
        /\ UNCHANGED <<row, trees, refused>>
    BY <1>0, <1>2 DEF InitEnvelope, IsEngine
  <2> QED
    BY <1>1, <2>1, StayOnCourse DEF Due
<1>3. CASE TakePending
  BY <1>1, <1>3 DEF TakePending, AtLoop
<1>4. CASE NextDagUnit
  <2>1. m.pc = "loop" /\ m.dags # NoDag
    BY <1>4 DEF NextDagUnit, AtLoop
  <2>2. CASE ReadyUnits(m.dags) # {}
    BY <1>0, <1>4, <2>1, <2>2, RunUnitOnCourse DEF NextDagUnit
  <2>3. CASE ReadyUnits(m.dags) = {}
    <3>1. Accepted(m.dags) # DOMAIN m.dags
      BY <1>1, <2>1 DEF Unfinished
    <3>2. FailRun
      BY <1>4, <2>3, <3>1 DEF NextDagUnit
    <3> QED
      BY <1>0, <2>1, <3>2, FailOnCourse
  <2> QED
    BY <2>2, <2>3
<1>5. CASE ReuseUnit
  <2>1. m.pc = "loop" /\ RunUnit(m.unit, Working(m.rec))
    BY <1>5 DEF ReuseUnit, AtLoop
  <2> QED
    BY <1>0, <2>1, RunUnitOnCourse
<1>6. ASSUME NEW p \in DagPlans \cup {NoPlan}, NEW c \in Charges, AskCommander(p, c)
      PROVE  OnCourse'
  <2>1. m.pc = "loop" /\ m' = [m EXCEPT !.pc = "planned"] /\ UNCHANGED <<trees, refused>>
    BY <1>6 DEF AskCommander, Dispatching, AtLoop
  <2>2. m'.pc = "planned" /\ m'.outer = m.outer /\ m'.pending = m.pending /\ m'.dags = m.dags
    BY <1>0, <2>1 DEF IsEngine
  <2>3. row'.state = row.state
    BY <1>0, <1>6, ChargeIsTyped DEF AskCommander
  <2> QED
    BY <1>1, <2>1, <2>2, <2>3, StayOnCourse DEF Due
<1>7. CASE Planned
  <2>1. m.pc = "planned"
    BY <1>7 DEF Planned
  <2>2. CASE FailBudget
    BY <1>0, <2>1, <2>2, FailOnCourse
  <2>3. CASE m' = [m EXCEPT !.pc = "seed"] /\ UNCHANGED <<row, trees, refused>>
    <3>1. m'.pc = "seed" /\ m'.outer = m.outer /\ m'.pending = m.pending /\ m'.dags = m.dags
      BY <1>0, <2>3 DEF IsEngine
    <3> QED
      BY <1>1, <2>1, <2>3, <3>1, StayOnCourse DEF Due
  <2>4. CASE RunUnit(0, Fresh("assigned")) \/ RunUnit(m.unit, Working(m.rec))
    BY <1>0, <2>1, <2>4, RunUnitOnCourse
  <2> QED
    BY <1>7, <2>2, <2>3, <2>4 DEF Planned
<1>8. CASE SeedUnit
  <2>1. /\ m.pc = "seed" /\ m'.pc = "seed_event" /\ m'.outer = m.outer
        /\ m'.pending = m.pending /\ m'.dags = m.dags
        /\ UNCHANGED <<row, trees, refused>>
    BY <1>0, <1>8 DEF SeedUnit, IsEngine
  <2> QED
    BY <1>1, <2>1, StayOnCourse DEF Due
<1>9. CASE SeedEvent
  <2> DEFINE seeded == DOMAIN m.dags \cup {NextSeed}
             d == [u \in seeded |-> Fresh("queued")]
             p == IF seeded = DOMAIN plan THEN "loop" ELSE "seed"
  <2>1. m' = [m EXCEPT !.dags = d, !.pc = p] /\ m.pc = "seed_event"
        /\ UNCHANGED <<row, trees, refused>>
    BY <1>9 DEF SeedEvent
  <2>2. Unfinished(d)
    <3>1. NextSeed \in DOMAIN d /\ d[NextSeed].state = "queued"
      BY DEF Fresh
    <3>2. NextSeed \notin Accepted(d)
      BY <3>1 DEF Accepted
    <3> QED
      BY <3>1, <3>2 DEF Unfinished
  <2>3. p \in {"loop", "seed"}
    OBVIOUS
  <2> HIDE DEF d, p
  <2>4. m'.dags = d /\ m'.pc = p /\ m'.outer = m.outer /\ m'.pending = m.pending
    BY <1>0, <2>1 DEF IsEngine
  <2>5. Due(m'.pc) = Due(m.pc)
    BY <2>1, <2>3, <2>4 DEF Due
  <2> QED
    BY <1>1, <2>1, <2>2, <2>3, <2>4, <2>5, StayOnCourse
<1> QED
  BY <1>2, <1>3, <1>4, <1>5, <1>6, <1>7, <1>8, <1>9 DEF HeadStep

LEMMA UnitStepsOnCourse == ASSUME Typed, OnCourse, Uncrashed, UnitStep PROVE OnCourse'
<1>0. TypeOK /\ IsEngine(m)
  BY DEF Typed, TypeOK
<1>1. /\ m.pc # "off" => trees = m.outer /\ ~m.pending
      /\ m.pc # "accept_set" => Unfinished(m.dags)
  BY DEF OnCourse, Uncrashed
<1>2. CASE DispatchEvent
  <2>1. /\ m.pc = "dispatch_event" /\ m'.pc = "work" /\ m'.outer = m.outer
        /\ m'.pending = m.pending /\ m'.dags = m.dags
        /\ UNCHANGED <<row, trees, refused>>
    BY <1>0, <1>2 DEF DispatchEvent, IsEngine
  <2> QED
    BY <1>1, <2>1, StayOnCourse DEF Due
<1>3. ASSUME NEW c \in Charges, GoalIteration(c) PROVE OnCourse'
  <2>1. /\ m.pc = "goal" /\ m' \in {m, [m EXCEPT !.pc = "receipt"]}
        /\ UNCHANGED <<trees, refused>>
    BY <1>3 DEF GoalIteration, OnlyRun
  <2>2. /\ m'.pc \in {"goal", "receipt"} /\ m'.outer = m.outer
        /\ m'.pending = m.pending /\ m'.dags = m.dags
    BY <1>0, <2>1 DEF IsEngine
  <2>3. row'.state = row.state
    BY <1>0, <1>3, ChargeIsTyped DEF GoalIteration
  <2> QED
    BY <1>1, <2>1, <2>2, <2>3, StayOnCourse DEF Due
<1>4. CASE GoalLoopOut
  <2>1. /\ m.pc = "goal" /\ m'.pc = "receipt" /\ m'.outer = m.outer
        /\ m'.pending = m.pending /\ m'.dags = m.dags
        /\ UNCHANGED <<row, trees, refused>>
    BY <1>0, <1>4 DEF GoalLoopOut, OnlyRun, IsEngine
  <2> QED
    BY <1>1, <2>1, StayOnCourse DEF Due
<1>5. ASSUME NEW kind \in {"empty", "full"}, RecordReceipt(kind) PROVE OnCourse'
  <2>1. /\ m.pc = "receipt" /\ m'.pc = "receipt_event" /\ m'.outer = m.outer
        /\ m'.pending = m.pending /\ m'.dags = m.dags
        /\ UNCHANGED <<row, trees, refused>>
    BY <1>0, <1>5 DEF RecordReceipt, IsEngine
  <2> QED
    BY <1>1, <2>1, StayOnCourse DEF Due
<1>6. CASE ReceiptEvent
  <2>1. /\ m.pc = "receipt_event" /\ m'.pc = "receipt_set" /\ m'.outer = m.outer
        /\ m'.pending = m.pending /\ m'.dags = m.dags
        /\ UNCHANGED <<row, trees, refused>>
    BY <1>0, <1>6 DEF ReceiptEvent, IsEngine
  <2> QED
    BY <1>1, <2>1, StayOnCourse DEF Due
<1>7. CASE OuterWorktree
  <2>1. m.pc = "outer" /\ trees = m.outer /\ m.outer \in Nat
    BY <1>0, <1>1, <1>7 DEF OuterWorktree, IsEngine
  <2>2. m.outer + 1 > trees
    BY <2>1
  <2>3. /\ m' = [m EXCEPT !.pc = "judge", !.outer = m.outer + 1] /\ trees' = m.outer + 1
        /\ UNCHANGED <<row, refused>>
    BY <1>7, <2>2 DEF OuterWorktree
  <2>4. /\ m'.pc = "judge" /\ m'.outer = trees'
        /\ m'.pending = m.pending /\ m'.dags = m.dags
    BY <1>0, <2>3 DEF IsEngine
  <2> QED
    BY <1>1, <2>1, <2>3, <2>4, StayOnCourse DEF Due
<1>8. ASSUME NEW free \in FreeGates, NEW d \in Decisions, NEW c \in Charges, Judge(free, d, c)
      PROVE  OnCourse'
  <2> DEFINE ruling == EnforceDecision(d, GatesOf(free))
  <2>1. /\ m.pc = "judge" /\ m' = [m EXCEPT !.pc = "ruled", !.ruling = ruling]
        /\ UNCHANGED <<trees, refused>>
    BY <1>8 DEF Judge, OnlyRun
  <2> HIDE DEF ruling
  <2>2. m'.pc = "ruled" /\ m'.outer = m.outer /\ m'.pending = m.pending /\ m'.dags = m.dags
    BY <1>0, <2>1 DEF IsEngine
  <2>3. row'.state = row.state
    BY <1>0, <1>8, ChargeIsTyped DEF Judge
  <2> QED
    BY <1>1, <2>1, <2>2, <2>3, StayOnCourse DEF Due
<1>9. CASE RecordVerdict
  <2>1. m.pc = "ruled"
    BY <1>9 DEF RecordVerdict
  <2>2. CASE OverBudget
    <3>1. FailBudget
      BY <1>9, <2>2 DEF RecordVerdict
    <3> QED
      BY <1>0, <2>1, <3>1, FailOnCourse
  <2>3. CASE ~OverBudget
    <3>1. /\ m'.pc = "verdict_event" /\ m'.outer = m.outer
          /\ m'.pending = m.pending /\ m'.dags = m.dags
          /\ UNCHANGED <<row, trees, refused>>
      BY <1>0, <1>9, <2>3 DEF RecordVerdict, IsEngine
    <3> QED
      BY <1>1, <2>1, <3>1, StayOnCourse DEF Due
  <2> QED
    BY <2>2, <2>3
<1>10. CASE VerdictEvent
  <2>1. /\ m.pc = "verdict_event" /\ m'.pc = "apply" /\ m'.outer = m.outer
        /\ m'.pending = m.pending /\ m'.dags = m.dags
        /\ UNCHANGED <<row, trees, refused>>
    BY <1>0, <1>10 DEF VerdictEvent, IsEngine
  <2> QED
    BY <1>1, <2>1, StayOnCourse DEF Due
<1>11. CASE AcceptUnit
  <2>1. /\ m.pc = "apply" /\ m'.pc = "accept_set" /\ m'.outer = m.outer
        /\ m'.pending = m.pending
        /\ UNCHANGED <<row, trees, refused>>
    BY <1>0, <1>11 DEF AcceptUnit, IsEngine
  <2> QED
    BY <1>1, <2>1, StayOnCourse DEF Due
<1>12. CASE ReworkUnit
  <2>1. m.pc = "apply" /\ Due(m.pc) = "outer_reviewing"
    BY <1>12 DEF ReworkUnit, Due
  <2>2. CASE SetState("escalate", Off)
    BY <1>0, <2>1, <2>2, Legal, EndOnCourse DEF Terminal
  <2>3. CASE ~SetState("escalate", Off)
    <3>1. /\ m'.pc = "rework_set" /\ m'.outer = m.outer
          /\ m'.pending = m.pending /\ m'.dags = m.dags
          /\ UNCHANGED <<row, trees, refused>>
      BY <1>0, <1>12, <2>3 DEF ReworkUnit, IsEngine
    <3> QED
      BY <1>1, <2>1, <3>1, StayOnCourse DEF Due
  <2> QED
    BY <2>2, <2>3
<1> QED
  BY <1>2, <1>3, <1>4, <1>5, <1>6, <1>7, <1>8, <1>9, <1>10, <1>11, <1>12 DEF UnitStep

LEMMA EngineDoesNotCrash == Engine => crashes' = crashes
<1>1. StateStep => crashes' = crashes
  BY DEF StateStep, EnterLoop, BudgetCheck, DispatchFails, StartWork, InnerFails,
         SetReceiptReady, BeginReview, JudgeFails, AcceptRun, CloseRun, SetRework,
         Redispatch, OnlyRun
<1>2. HeadStep => crashes' = crashes
  BY DEF HeadStep, InitEnvelope, TakePending, NextDagUnit, ReuseUnit, AskCommander,
         Planned, SeedUnit, SeedEvent, RunUnit, OnlyRun
<1>3. UnitStep => crashes' = crashes
  BY DEF UnitStep, DispatchEvent, GoalIteration, GoalLoopOut, RecordReceipt,
         ReceiptEvent, OuterWorktree, Judge, RecordVerdict, VerdictEvent, AcceptUnit,
         ReworkUnit, OnlyRun
<1> QED
  BY <1>1, <1>2, <1>3, EngineSteps

LEMMA NextOnCourse == ASSUME Typed, OnCourse, [Next]_vars PROVE OnCourse'
<1>1. CASE crashes # 0
  <2>1. crashes' # 0
    <3>1. crashes' \in {crashes, crashes + 1} /\ crashes \in Nat
      BY EngineDoesNotCrash DEF Next, Resume, Crash, vars, Typed, TypeOK
    <3> QED
      BY <1>1, <3>1
  <2> QED
    BY <2>1 DEF OnCourse
<1>2. CASE crashes = 0
  <2>1. CASE Engine
    BY <1>2, <2>1, EngineDoesNotCrash, EngineSteps, StateStepsOnCourse, HeadStepsOnCourse,
       UnitStepsOnCourse DEF Uncrashed
  <2>2. CASE Resume
    BY <1>2, <2>2 DEF Resume, OnCourse
  <2>3. CASE Crash
    BY <1>2, <2>3 DEF Crash, OnCourse
  <2>4. CASE UNCHANGED vars
    BY <2>4 DEF vars, OnCourse
  <2> QED
    BY <2>1, <2>2, <2>3, <2>4 DEF Next
<1> QED
  BY <1>1, <1>2

LEMMA InitOnCourse == Init => OnCourse
<1> SUFFICES ASSUME Init PROVE OnCourse
  OBVIOUS
<1>1. /\ m.pc = "setup" /\ m.outer = 0 /\ m.dags = NoDag /\ ~m.pending
      /\ trees = 0 /\ ~refused /\ row.state = "contract_ready"
  BY DEF Init, Off
<1> QED
  BY <1>1 DEF OnCourse, Due, Unfinished

\* As long as no crash comes between, Store::set_state accepts every transition
\* drive_factory asks for, for every DAG and every course of the reviews.
THEOREM NothingRefused == Spec => []NoRefusedMove
<1>1. Init => OnCourse
  BY InitOnCourse
<1>2. Typed /\ OnCourse /\ [Next]_vars => Typed' /\ OnCourse'
  BY NextTyped, NextOnCourse
<1>3. OnCourse => NoRefusedMove
  BY DEF OnCourse, NoRefusedMove
<1> QED
  BY <1>1, <1>2, <1>3, InitTyped, PTL DEF Spec

-----------------------------------------------------------------------------
(* Accepted work *)

Done(t, u)  == t[u].state = "accepted"
NoneDone(t) == \A u \in DOMAIN t : ~Done(t, u)

Bare    == HasEnvelope /\ Present(envelope) = {}
Record  == IF HasEnvelope THEN envelope ELSE db     \* what a resume goes by
Alone   == \A w \in Units \ {0} : Record[w] = NoUnit
Blocked == m.outer < trees      \* the next outer worktree exists already

\* The envelope learns of an accept first; an accept has a review behind it, and
\* a single unit that is accepted waits for a review or for nothing.
TablesLead ==
    /\ HasEnvelope => \A u \in Units : Done(db, u) => Done(envelope, u)
    /\ trees = 0 => NoneDone(db) /\ NoneDone(envelope)
    /\ row.state \notin Terminal /\ Done(Record, 0) /\ Alone
          => row.state = "outer_reviewing" /\ Record[0].receipt # "none"
    /\ \A u \in Units : db[u].state = "none" => db[u] = NoUnit
    /\ HasEnvelope => \A u \in Units : envelope[u].state = "none" => envelope[u] = NoUnit
    /\ Bare => /\ \A u \in Units : db[u].receipt = "none"
               /\ db[0] = NoUnit \/ \A w \in Units \ {0} : db[w] = NoUnit

\* What the engine knows of the units of a DAG.
DagKnown ==
    /\ \A u \in DOMAIN m.dags : Done(db, u) => Done(m.dags, u)
    /\ m.dags # NoDag /\ m.pc \notin {"off", "seed", "seed_event"} => Bare \/ ~Alone
    /\ m.dags # NoDag /\ m.pc \in {"seed", "seed_event"} => ~Alone
    /\ m.dags # NoDag /\ m.pc = "dispatch_event" => m.unit \in DOMAIN m.dags
    /\ m.pc = "seed_event" => \E w \in Units \ {0} : db[w] # NoUnit

Doing     == {"dispatch_event", "work", "goal", "receipt", "receipt_event", "receipt_set",
              "judge", "ruled", "verdict_event", "apply"}
Reviewing == {"judge", "ruled", "verdict_event", "apply", "accept_set"}
Receipted == {"receipt_set", "turns", "outer", "judge", "ruled", "verdict_event", "apply"}
Waiting   == m.pc \in {"turns", "outer"} \/ m.pending

\* A unit in hand is not accepted, unless it waits for a review that is blocked.
UnitOpen ==
    /\ m.pc \in Doing \/ (Waiting /\ ~Blocked) => ~Done(db, m.unit) /\ m.rec.state # "accepted"
    /\ m.pc = "apply" /\ Decision = "accept" /\ HasEnvelope => Done(envelope, m.unit)
    /\ m.pc \in Reviewing => trees > 0
    /\ m.pc \in Reviewing \cup {"outer", "rework_set"} => row.state = "outer_reviewing"
    /\ m.pc = "redispatch" => row.state = "rework"
    /\ m.reuse => m.pc = "loop" /\ m.dags = NoDag /\ ~m.pending
    /\ m.pending => m.pc = "loop"
    /\ m.pc \in HasUnit \/ m.pending => m.rec.state # "none"
    /\ m.pc \in Receipted \cup {"receipt_event"} \/ m.pending => m.rec.receipt # "none"
    /\ (m.pc \in Receipted \cup {"accept_set"} \/ m.pending) /\ HasEnvelope
          => envelope[m.unit].receipt # "none"

\* A single unit that was accepted stays that way only where the engine is stuck.
SingleOpen ==
    /\ m.dags = NoDag /\ m.pc \notin {"off", "accept_set"}
          => NoneDone(db) \/ (Blocked /\ Waiting)
    /\ m.dags = NoDag /\ m.pc \notin {"off", "accept_set"} /\ ~(m.pc = "apply" /\ Decision = "accept")
          => NoneDone(envelope) \/ (Blocked /\ Waiting)
    /\ m.pc \in {"planned", "seed", "seed_event"} => NoneDone(db)

\* An envelope without a unit is that of a run that has hardly begun.
BareEarly ==
    /\ m.pc \in {"setup", "ready"} => /\ m.dags = NoDag /\ m.rec = NoUnit
                                    /\ \A u \in Units : db[u] = NoUnit
    /\ Bare => /\ 0 \notin DOMAIN m.dags
               /\ \A u \in DOMAIN m.dags : m.dags[u].receipt = "none"
               /\ m.rec.receipt = "none"
               /\ m.pc \notin HasUnit \ {"dispatch_event"} /\ ~m.pending
               /\ m.pc \in {"seed", "seed_event"} => db[0] = NoUnit
               /\ m.pc = "planned" \/ (m.pc = "loop" /\ m.dags = NoDag /\ ~m.reuse)
                     => \A u \in Units : db[u] = NoUnit

Standing == TablesLead /\ DagKnown /\ UnitOpen /\ SingleOpen /\ BareEarly

\* The engine is gone, and the tables are as they were.
LEMMA GoneStanding ==
    ASSUME TypeOK, Standing, m' = Off, UNCHANGED <<db, envelope, trees>>,
           row'.state \in Terminal \/ row'.state = row.state
    PROVE  Standing'
<1>1. /\ m'.pc = "off" /\ m'.dags = NoDag /\ ~m'.pending /\ ~m'.reuse /\ m'.rec.receipt = "none"
      /\ DOMAIN m'.dags = {}
  BY DEF Off, NoDag, NoUnit
<1>2. /\ Bare' <=> Bare
      /\ HasEnvelope' <=> HasEnvelope
      /\ Record' = Record
  BY DEF Bare, HasEnvelope, Present, Record
<1>3. TablesLead'
  BY <1>2 DEF Standing, TablesLead, Done, NoneDone, Alone
<1>4. DagKnown'
  BY <1>1 DEF DagKnown
<1>5. UnitOpen'
  BY <1>1 DEF UnitOpen, Doing, Reviewing, Receipted, Waiting, HasUnit
<1>6. SingleOpen'
  <2>1. m'.pc \in {"off", "accept_set"} /\ m'.pc \notin {"planned", "seed", "seed_event"}
    BY <1>1
  <2> QED
    BY <2>1 DEF SingleOpen
<1>7. BareEarly'
  BY <1>1 DEF BareEarly, HasUnit
<1> QED
  BY <1>3, <1>4, <1>5, <1>6, <1>7 DEF Standing

\* The points between which the engine moves and touches only the row of the run.
Moves == {<<"ready", "loop">>, <<"loop", "planned">>, <<"planned", "seed">>, <<"work", "goal">>,
          <<"goal", "goal">>, <<"goal", "receipt">>, <<"receipt_set", "turns">>,
          <<"turns", "outer">>, <<"judge", "ruled">>, <<"rework_set", "redispatch">>,
          <<"redispatch", "loop">>, <<"accept_set", "loop">>}

LEMMA MovedStanding ==
    ASSUME Typed, Standing, row.state \notin Terminal, NEW p \in PC, <<m.pc, p>> \in Moves,
           m'.pc = p, m'.unit = m.unit, m'.rec = m.rec, m'.dags = m.dags,
           m'.pending = m.pending, m'.reuse = m.reuse, m'.outer = m.outer,
           UNCHANGED <<db, envelope, trees>>,
           \/ row'.state \in Terminal \cup {row.state, "outer_reviewing"}
           \/ ~Done(Record, 0) \/ ~Alone,
           p \in {"outer", "ruled"} => row'.state = "outer_reviewing",
           p = "redispatch" => row'.state = "rework",
           m.pc = "loop" => m.dags = NoDag /\ ~m.pending /\ ~m.reuse,
           m.pc = "accept_set" => m.dags # NoDag
    PROVE  Standing'
<1>1. /\ Bare' <=> Bare
      /\ HasEnvelope' <=> HasEnvelope
      /\ Record' = Record /\ (Alone' <=> Alone)
      /\ Blocked' <=> Blocked
  BY DEF Bare, HasEnvelope, Present, Record, Alone, Blocked
<1>2. TablesLead'
  BY <1>1 DEF Standing, TablesLead, Done, NoneDone
<1> USE DEF Standing, Moves, Done
<1>3. DagKnown'
  BY <1>1 DEF DagKnown, Typed, InHand
<1>4. UnitOpen'
  BY <1>1 DEF UnitOpen, Doing, Reviewing, Receipted, Waiting, HasUnit
<1>5. SingleOpen'
  BY <1>1 DEF SingleOpen, UnitOpen, NoneDone, Waiting
<1>6. BareEarly'
  <2>1. CASE Bare
    <3>1. m.pc \in {"ready", "loop", "planned"} /\ p \in {"loop", "planned", "seed"}
      BY <2>1 DEF BareEarly, HasUnit
    <3>2. \A u \in Units : db[u] = NoUnit
      BY <2>1, <3>1 DEF BareEarly
    <3> QED
      BY <1>1, <2>1, <3>1, <3>2 DEF BareEarly, HasUnit, Units
  <2>2. CASE ~Bare
    BY <1>1, <2>2 DEF BareEarly
  <2> QED
    BY <2>1, <2>2
<1> QED
  BY <1>2, <1>3, <1>4, <1>5, <1>6 DEF Standing

LEMMA EndStanding ==
    ASSUME TypeOK, Standing, OnlyRun, NEW to \in Terminal, NEW next, SetState(to, next)
    PROVE  Standing'
<1>1. m' = Off /\ row' \in {row, [row EXCEPT !.state = to]}
  BY DEF SetState
<1>2. row'.state \in Terminal \/ row'.state = row.state
  BY <1>1 DEF TypeOK
<1> QED
  BY <1>1, <1>2, GoneStanding DEF OnlyRun

LEMMA SetStateStanding ==
    ASSUME Typed, Standing, row.state \notin Terminal, OnlyRun,
           NEW to \in RunStates \ Terminal, NEW p \in PC, <<m.pc, p>> \in Moves,
           SetState(to, [m EXCEPT !.pc = p]),
           CanTransition(row.state, to) =>
                \/ row.state # "outer_reviewing" \/ to = "outer_reviewing"
                \/ ~Done(Record, 0) \/ ~Alone,
           p \in {"outer", "ruled"} => to = "outer_reviewing",
           p = "redispatch" => to = "rework",
           m.pc # "loop", m.pc = "accept_set" => m.dags # NoDag
    PROVE  Standing'
<1>1. TypeOK /\ IsEngine(m)
  BY DEF Typed, TypeOK
<1>2. CASE ~CanTransition(row.state, to)
  <2>1. m' = Off /\ row' = row
    BY <1>2 DEF SetState
  <2> QED
    BY <1>1, <2>1, GoneStanding DEF OnlyRun
<1>3. CASE CanTransition(row.state, to)
  <2>1. row' = [row EXCEPT !.state = to] /\ m' = [m EXCEPT !.pc = p]
    BY <1>3 DEF SetState
  <2>2. /\ m'.pc = p /\ m'.unit = m.unit /\ m'.rec = m.rec /\ m'.dags = m.dags
        /\ m'.pending = m.pending /\ m'.reuse = m.reuse /\ m'.outer = m.outer
    BY <1>1, <2>1 DEF IsEngine
  <2>3. row'.state = to
    BY <1>1, <2>1 DEF TypeOK
  <2>4. \/ to = "outer_reviewing"
        \/ ~Done(Record, 0) \/ ~Alone
    BY <1>3 DEF Standing, TablesLead
  <2> QED
    BY <2>2, <2>3, <2>4, MovedStanding DEF OnlyRun
<1> QED
  BY <1>2, <1>3

LEMMA StateStepsStanding ==
    ASSUME Typed, WithinBudget, Standing, StateStep PROVE Standing'
<1>0. TypeOK /\ IsEngine(m) /\ Units \subseteq Nat /\ 0 \in Units
  BY DEF Typed, TypeOK, Units
<1>1. m.pc # "off" => row.state \notin Terminal
  BY DEF WithinBudget
<1>2. CASE EnterLoop
  <2>1. m.pc = "ready" /\ OnlyRun
    BY <1>2 DEF EnterLoop
  <2>2. ~Done(Record, 0)
    <3>1. NoneDone(db) /\ NoneDone(envelope)
      BY <2>1 DEF Standing, BareEarly, SingleOpen, UnitOpen, Waiting
    <3> QED
      BY <1>0, <3>1 DEF Record, NoneDone, TypeOK, Table, HasEnvelope
  <2> QED
    BY <1>1, <1>2, <2>1, <2>2, SetStateStanding DEF EnterLoop, Moves, PC, RunStates, Terminal
<1>3. CASE BudgetCheck \/ DispatchFails \/ InnerFails \/ JudgeFails
  BY <1>0, <1>3, EndStanding
     DEF BudgetCheck, DispatchFails, InnerFails, JudgeFails, FailBudget, FailRun, Terminal
<1>4. CASE StartWork
  <2>1. m.pc = "work" /\ OnlyRun
    BY <1>4 DEF StartWork
  <2>2. CASE CanTransition(row.state, "inner_working")
    <3>1. row.state # "outer_reviewing"
      BY <2>2 DEF CanTransition, Arcs, Exits
    <3>2. SetState("inner_working", [m EXCEPT !.pc = "goal"])
      BY <1>4, <2>2 DEF StartWork
    <3> QED
      BY <1>1, <2>1, <3>1, <3>2, SetStateStanding DEF Moves, PC, RunStates, Terminal
  <2>3. CASE ~CanTransition(row.state, "inner_working")
    <3>1. row' = [row EXCEPT !.state = "failed"] /\ m' = Off
      BY <1>4, <2>3 DEF StartWork
    <3>2. row'.state \in Terminal
      BY <1>0, <3>1 DEF TypeOK, Terminal
    <3> QED
      BY <1>0, <2>1, <3>1, <3>2, GoneStanding DEF OnlyRun
  <2> QED
    BY <2>2, <2>3
<1>5. CASE SetReceiptReady
  <2>1. CanTransition(row.state, "receipt_ready") => row.state # "outer_reviewing"
    BY DEF CanTransition, Arcs, Exits
  <2> QED
    BY <1>1, <1>5, <2>1, SetStateStanding DEF SetReceiptReady, Moves, PC, RunStates, Terminal
<1>6. CASE BeginReview
  <2>1. CASE FailBudget
    BY <1>0, <1>6, <2>1, EndStanding DEF BeginReview, FailBudget, Terminal
  <2>2. CASE SetState("outer_reviewing", [m EXCEPT !.pc = "outer"])
    BY <1>1, <1>6, <2>2, SetStateStanding DEF BeginReview, Moves, PC, RunStates, Terminal
  <2> QED
    BY <1>6, <2>1, <2>2 DEF BeginReview
<1>7. CASE AcceptRun
  <2>1. m.pc = "accept_set" /\ OnlyRun
    BY <1>7 DEF AcceptRun
  <2>2. CASE Accepted(m.dags) # DOMAIN m.dags
    <3>1. m.dags # NoDag
      BY <2>2 DEF NoDag, Accepted
    <3>2. ~Alone
      BY <2>1, <3>1 DEF Standing, DagKnown, BareEarly, HasUnit
    <3>3. SetState("dispatched", [m EXCEPT !.pc = "loop"])
      BY <1>7, <2>2 DEF AcceptRun
    <3> QED
      BY <1>1, <2>1, <3>1, <3>2, <3>3, SetStateStanding DEF Moves, PC, RunStates, Terminal
  <2>3. CASE Accepted(m.dags) = DOMAIN m.dags
    BY <1>0, <1>7, <2>1, <2>3, EndStanding DEF AcceptRun, Terminal
  <2> QED
    BY <2>2, <2>3
<1>8. CASE CloseRun
  <2>1. OnlyRun /\ \E to \in {"rejected", "escalate"} : SetState(to, Off)
    BY <1>8 DEF CloseRun
  <2> QED
    BY <1>0, <2>1, EndStanding DEF Terminal
<1>9. CASE SetRework
  <2>1. m.pc = "rework_set" /\ OnlyRun
    BY <1>9 DEF SetRework
  <2>2. ~Done(Record, 0) \/ ~Alone
    <3>1. CASE m.dags = NoDag
      <4>1. NoneDone(db) /\ NoneDone(envelope)
        BY <2>1, <3>1 DEF Standing, SingleOpen, UnitOpen, Waiting
      <4> QED
        BY <1>0, <4>1 DEF Record, NoneDone, TypeOK, Table, HasEnvelope
    <3>2. CASE m.dags # NoDag
      BY <2>1, <3>2 DEF Standing, DagKnown, BareEarly, HasUnit
    <3> QED
      BY <3>1, <3>2
  <2> QED
    BY <1>1, <1>9, <2>1, <2>2, SetStateStanding DEF SetRework, Moves, PC, RunStates, Terminal
<1>10. CASE Redispatch
  <2>1. m.pc = "redispatch" /\ row.state = "rework"
    BY <1>10 DEF Redispatch, Standing, UnitOpen
  <2> QED
    BY <1>1, <1>10, <2>1, SetStateStanding DEF Redispatch, Moves, PC, RunStates, Terminal
<1> QED
  BY <1>2, <1>3, <1>4, <1>5, <1>6, <1>7, <1>8, <1>9, <1>10 DEF StateStep

\* run_single_unit takes up a unit that is not accepted.
LEMMA RunUnitStanding ==
    ASSUME Typed, Standing, m.pc \in {"loop", "planned"}, ~m.pending,
           NEW u \in Units, NEW rec \in UnitRec, RunUnit(u, rec),
           rec.state \in {"assigned", "implementing"}, ~Done(db, u),
           rec.state = "assigned" => u = 0 /\ (Bare => \A w \in Units : db[w] = NoUnit),
           Bare => rec.receipt = "none",
           m.dags # NoDag => u \in DOMAIN m.dags
    PROVE  Standing'
<1>0. TypeOK /\ IsEngine(m) /\ 0 \in Units /\ db \in Table
  BY DEF Typed, TypeOK, Units
<1>1. /\ m'.pc = "dispatch_event" /\ m'.unit = u /\ m'.rec = rec /\ m'.dags = m.dags
      /\ m'.pending = m.pending /\ m'.reuse = FALSE /\ m'.outer = m.outer
      /\ UNCHANGED <<row, envelope, trees>>
  BY <1>0 DEF RunUnit, IsEngine
<1>2. \/ db' = db
      \/ db' = [db EXCEPT ![u] = rec] /\ (db[u] # NoUnit \/ rec.state = "assigned")
  BY DEF RunUnit, InsertUnit, UpdateUnit
<1>3. /\ db' \in Table /\ DOMAIN db' = Units /\ DOMAIN db = Units
      /\ \A w \in Units : db'[w] = db[w] \/ (w = u /\ db'[w] = rec)
      /\ \A w \in Units : db[w] # NoUnit => db'[w] # NoUnit
  BY <1>0, <1>2 DEF Table, NoUnit
<1>4. \A w \in Units : Done(db', w) => Done(db, w) /\ w # u
  BY <1>3 DEF Done
<1>5. /\ Bare' <=> Bare
      /\ HasEnvelope' <=> HasEnvelope
      /\ Record' = IF HasEnvelope THEN envelope ELSE db'
      /\ Alone' => Alone
      /\ Blocked' <=> Blocked
  BY <1>1, <1>3 DEF Bare, HasEnvelope, Present, Record, Alone, Blocked
<1>6. NoneDone(db) => NoneDone(db')
  BY <1>3, <1>4 DEF NoneDone
<1>7. TablesLead'
  <2>1. HasEnvelope' => \A w \in Units : Done(db', w) => Done(envelope', w)
    BY <1>1, <1>4, <1>5 DEF Standing, TablesLead, Done
  <2>2. trees' = 0 => NoneDone(db') /\ NoneDone(envelope')
    BY <1>1, <1>6 DEF Standing, TablesLead, NoneDone, Done
  <2>3. row'.state \notin Terminal /\ Done(Record', 0) /\ Alone'
          => row'.state = "outer_reviewing" /\ Record'[0].receipt # "none"
    BY <1>0, <1>1, <1>3, <1>4, <1>5 DEF Standing, TablesLead, Done, Record
  <2>4. /\ \A w \in Units : db'[w].state = "none" => db'[w] = NoUnit
        /\ HasEnvelope' => \A w \in Units : envelope'[w].state = "none" => envelope'[w] = NoUnit
    BY <1>1, <1>3, <1>5 DEF Standing, TablesLead
  <2>5. ASSUME Bare
        PROVE  /\ \A w \in Units : db'[w].receipt = "none"
               /\ db'[0] = NoUnit \/ \A w \in Units \ {0} : db'[w] = NoUnit
    <3>1. \A w \in Units : db'[w].receipt = "none"
      BY <1>3, <2>5 DEF Standing, TablesLead
    <3>2. db'[0] = NoUnit \/ \A w \in Units \ {0} : db'[w] = NoUnit
      BY <1>0, <1>2, <1>3, <2>5 DEF Standing, TablesLead, Table
    <3> QED
      BY <3>1, <3>2
  <2> QED
    BY <1>5, <2>1, <2>2, <2>3, <2>4, <2>5 DEF TablesLead
<1>8. DagKnown'
  BY <1>0, <1>1, <1>4, <1>5 DEF Standing, DagKnown, Done, IsEngine, Typed, InHand
<1>9. UnitOpen'
  BY <1>1, <1>4 DEF UnitOpen, Doing, Reviewing, Receipted, Waiting, HasUnit, Done
<1>10. SingleOpen'
  BY <1>1, <1>5, <1>6 DEF Standing, SingleOpen, UnitOpen, Waiting, NoneDone, Done
<1>11. BareEarly'
  BY <1>1, <1>5 DEF Standing, BareEarly, HasUnit
<1> QED
  BY <1>7, <1>8, <1>9, <1>10, <1>11 DEF Standing

LEMMA NextSeedIsUnit ==
    ASSUME Typed, m.pc \in {"seed", "seed_event"}
    PROVE  NextSeed \in DOMAIN plan \ DOMAIN m.dags /\ NextSeed \in Units \ {0}
<1>1. DOMAIN plan \ DOMAIN m.dags # {} /\ DOMAIN plan \ DOMAIN m.dags \in SUBSET Units
  BY PlanUnits DEF Typed, InHand
<1> QED
  BY <1>1, MinIsMember, PlanUnits DEF NextSeed, Typed

\* A unit is seeded: first its row, then its event.
LEMMA SeedStanding ==
    ASSUME Typed, Standing, SeedUnit \/ SeedEvent PROVE Standing'
<1> DEFINE u == NextSeed
<1>0. TypeOK /\ IsEngine(m) /\ 0 \in Units /\ db \in Table
  BY DEF Typed, TypeOK, Units
<1>1. m.pc \in {"seed", "seed_event"}
  BY DEF SeedUnit, SeedEvent
<1>2. u \in DOMAIN plan \ DOMAIN m.dags /\ u \in Units \ {0}
  BY <1>1, NextSeedIsUnit
<1>3. NoneDone(db) /\ ~m.pending /\ ~m.reuse
  BY <1>1 DEF Standing, SingleOpen, UnitOpen
<1>4. Fresh("queued") # NoUnit /\ Fresh("queued").state = "queued" /\ Fresh("queued").receipt = "none"
  BY DEF Fresh, NoUnit
<1> HIDE DEF u
<1>5. CASE SeedUnit
  <2>1. /\ m.pc = "seed" /\ m'.pc = "seed_event" /\ m'.unit = m.unit /\ m'.rec = m.rec
        /\ m'.dags = m.dags /\ m'.pending = m.pending /\ m'.reuse = m.reuse
        /\ m'.outer = m.outer /\ UNCHANGED <<row, envelope, trees>>
    BY <1>0, <1>5 DEF SeedUnit, IsEngine
  <2>2. db' = [db EXCEPT ![u] = Fresh("queued")]
    BY <1>5 DEF SeedUnit, InsertUnit, u
  <2>3. /\ DOMAIN db' = Units /\ DOMAIN db = Units /\ db'[u] = Fresh("queued")
        /\ \A w \in Units : w # u => db'[w] = db[w]
    BY <1>0, <1>2, <2>2 DEF Table
  <2>4. NoneDone(db')
    BY <1>3, <1>4, <2>3 DEF NoneDone, Done
  <2>5. /\ Bare' <=> Bare
        /\ HasEnvelope' <=> HasEnvelope
        /\ Record' = IF HasEnvelope THEN envelope ELSE db'
        /\ Alone' => Alone
        /\ Blocked' <=> Blocked
    BY <1>2, <1>4, <2>1, <2>3 DEF Bare, HasEnvelope, Present, Record, Alone, Blocked
  <2>6. TablesLead'
    <3>1. HasEnvelope' => \A w \in Units : Done(db', w) => Done(envelope', w)
      BY <2>3, <2>4 DEF NoneDone
    <3>2. trees' = 0 => NoneDone(db') /\ NoneDone(envelope')
      BY <2>1, <2>4 DEF Standing, TablesLead, NoneDone, Done
    <3>3. row'.state \notin Terminal /\ Done(Record', 0) /\ Alone'
            => row'.state = "outer_reviewing" /\ Record'[0].receipt # "none"
      BY <1>0, <2>1, <2>3, <2>4, <2>5 DEF Standing, TablesLead, Done, NoneDone, Record
    <3>4. /\ \A w \in Units : db'[w].state = "none" => db'[w] = NoUnit
          /\ HasEnvelope' => \A w \in Units : envelope'[w].state = "none" => envelope'[w] = NoUnit
      BY <1>4, <2>1, <2>3, <2>5 DEF Standing, TablesLead
    <3>5. Bare => /\ \A w \in Units : db'[w].receipt = "none"
                  /\ db'[0] = NoUnit
      BY <1>0, <1>2, <1>4, <2>1, <2>3 DEF Standing, TablesLead, BareEarly
    <3> QED
      BY <2>5, <3>1, <3>2, <3>3, <3>4, <3>5 DEF TablesLead
  <2>7. DagKnown'
    BY <1>0, <1>2, <1>4, <2>1, <2>3, <2>4, <2>5 DEF Standing, DagKnown, Done, NoneDone, IsEngine
  <2>8. UnitOpen'
    BY <1>3, <2>1 DEF UnitOpen, Doing, Reviewing, Receipted, Waiting, HasUnit
  <2>9. SingleOpen'
    BY <1>3, <2>1, <2>4, <2>5 DEF Standing, SingleOpen, Waiting, NoneDone, Done
  <2>10. BareEarly'
    BY <1>0, <1>2, <2>1, <2>3, <2>5 DEF Standing, BareEarly, HasUnit
  <2> QED
    BY <2>6, <2>7, <2>8, <2>9, <2>10 DEF Standing
<1>6. CASE SeedEvent
  <2> DEFINE seeded == DOMAIN m.dags \cup {u}
             d == [w \in seeded |-> Fresh("queued")]
             p == IF seeded = DOMAIN plan THEN "loop" ELSE "seed"
  <2>1. /\ m.pc = "seed_event" /\ m' = [m EXCEPT !.dags = d, !.pc = p]
        /\ UNCHANGED <<row, db, trees>>
        /\ envelope' = IF HasEnvelope THEN [envelope EXCEPT ![u] = Fresh("queued")] ELSE envelope
    BY <1>6 DEF SeedEvent, Append, u
  <2>2. p \in {"loop", "seed"} /\ d # NoDag /\ \A w \in DOMAIN d : d[w].receipt = "none"
    BY <1>4 DEF NoDag
  <2>3. DOMAIN d = seeded /\ (Bare => 0 \notin seeded)
    BY <1>2 DEF Standing, BareEarly
  <2> HIDE DEF d, p, seeded
  <2>4. /\ m'.pc = p /\ m'.unit = m.unit /\ m'.rec = m.rec /\ m'.dags = d
        /\ m'.pending = m.pending /\ m'.reuse = m.reuse /\ m'.outer = m.outer
    BY <1>0, <2>1 DEF IsEngine
  <2>5. HasEnvelope => /\ envelope' \in Table /\ envelope'[u] = Fresh("queued")
                       /\ DOMAIN envelope' = Units /\ DOMAIN envelope = Units
                       /\ \A w \in Units : w # u => envelope'[w] = envelope[w]
    BY <1>0, <1>2, <2>1, FreshIsUnit DEF TypeOK, Table, HasEnvelope
  <2>6. HasEnvelope' <=> HasEnvelope
    <3>1. DOMAIN NoEnvelope = {}
      BY DEF NoEnvelope
    <3> QED
      BY <1>0, <2>1, <2>5, <3>1 DEF HasEnvelope
  <2>7. ~Bare'
    BY <1>2, <1>4, <2>5, <2>6 DEF Bare, Present
  <2>8. ~Alone'
    <3>1. CASE HasEnvelope
      BY <1>2, <1>4, <2>5, <2>6, <3>1 DEF Alone, Record
    <3>2. CASE ~HasEnvelope
      BY <2>1, <2>6, <3>2 DEF Alone, Record, Standing, DagKnown
    <3> QED
      BY <3>1, <3>2
  <2>9. TablesLead'
    <3>1. NoneDone(envelope) => NoneDone(envelope')
      BY <1>4, <2>1, <2>5 DEF NoneDone, Done
    <3>2. /\ HasEnvelope' => \A w \in Units : Done(db', w) => Done(envelope', w)
          /\ trees' = 0 => NoneDone(db') /\ NoneDone(envelope')
      BY <1>0, <1>3, <2>1, <3>1 DEF Standing, TablesLead, Done, NoneDone, Table
    <3>3. /\ \A w \in Units : db'[w].state = "none" => db'[w] = NoUnit
          /\ HasEnvelope' => \A w \in Units : envelope'[w].state = "none" => envelope'[w] = NoUnit
      BY <1>4, <2>1, <2>5, <2>6 DEF Standing, TablesLead
    <3> QED
      BY <2>7, <2>8, <3>2, <3>3 DEF TablesLead
  <2>10. DagKnown'
    BY <1>0, <1>2, <1>3, <2>1, <2>2, <2>4, <2>8, PlanUnits
       DEF DagKnown, Done, NoneDone, Table, seeded, d, Typed, InHand
  <2>11. UnitOpen'
    BY <1>3, <2>2, <2>4 DEF UnitOpen, Doing, Reviewing, Receipted, Waiting, HasUnit
  <2>12. SingleOpen'
    BY <1>3, <2>1, <2>2, <2>4 DEF SingleOpen, NoneDone, Done
  <2>13. BareEarly'
    BY <2>2, <2>4, <2>7 DEF BareEarly
  <2> QED
    BY <2>9, <2>10, <2>11, <2>12, <2>13 DEF Standing
<1> QED
  BY <1>5, <1>6

LEMMA HeadStepsStanding ==
    ASSUME Typed, WithinBudget, Standing, HeadStep PROVE Standing'
<1>0. TypeOK /\ IsEngine(m) /\ db \in Table /\ 0 \in Units
  BY DEF Typed, TypeOK, Units
<1>1. m.pc # "off" => row.state \notin Terminal
  BY DEF WithinBudget
<1>2. CASE InitEnvelope
  <2>1. /\ m.pc = "setup" /\ m'.pc = "ready" /\ m'.unit = m.unit /\ m'.rec = m.rec
        /\ m'.dags = m.dags /\ m'.pending = m.pending /\ m'.reuse = m.reuse
        /\ m'.outer = m.outer /\ UNCHANGED <<row, db, trees>>
        /\ envelope' = [w \in Units |-> NoUnit]
    BY <1>0, <1>2 DEF InitEnvelope, IsEngine
  <2>2. /\ m.dags = NoDag /\ m.rec = NoUnit /\ ~m.pending /\ ~m.reuse
        /\ \A w \in Units : db[w] = NoUnit /\ envelope'[w] = NoUnit
    BY <2>1 DEF Standing, BareEarly, UnitOpen
  <2>3. NoneDone(db') /\ NoneDone(envelope') /\ NoUnit.receipt = "none"
    BY <1>0, <2>1, <2>2 DEF NoneDone, Done, Table, NoUnit
  <2>4. TablesLead'
    <3>1. ~Done(Record', 0)
      BY <1>0, <2>1, <2>2 DEF Record, Done, NoUnit
    <3> QED
      BY <2>1, <2>2, <2>3, <3>1 DEF TablesLead, Done, NoUnit
  <2>5. DagKnown'
    BY <2>1, <2>2 DEF DagKnown, NoDag
  <2>6. UnitOpen'
    BY <2>1, <2>2 DEF UnitOpen, Doing, Reviewing, Receipted, Waiting, HasUnit
  <2>7. SingleOpen'
    BY <2>1, <2>3 DEF SingleOpen
  <2>8. BareEarly'
    BY <1>0, <2>1, <2>2, <2>3 DEF BareEarly, HasUnit, NoDag
  <2> QED
    BY <2>4, <2>5, <2>6, <2>7, <2>8 DEF Standing
<1>3. CASE TakePending
  <2>1. /\ m.pc = "loop" /\ m'.pc = "turns" /\ m'.unit = m.unit /\ m'.rec = m.rec
        /\ m'.dags = m.dags /\ m.pending /\ ~m'.pending /\ m'.reuse = m.reuse
        /\ m'.outer = m.outer /\ UNCHANGED <<row, db, envelope, trees>>
    BY <1>0, <1>3 DEF TakePending, AtLoop, IsEngine
  <2>2. /\ Bare' <=> Bare
        /\ HasEnvelope' <=> HasEnvelope
        /\ Record' = Record /\ (Alone' <=> Alone)
        /\ Blocked' <=> Blocked
    BY <2>1 DEF Bare, HasEnvelope, Present, Record, Alone, Blocked
  <2> USE DEF Standing, Done
  <2>3. TablesLead'
    BY <2>1, <2>2 DEF TablesLead, NoneDone
  <2>4. DagKnown'
    BY <2>1, <2>2 DEF DagKnown
  <2>5. UnitOpen'
    BY <2>1, <2>2 DEF UnitOpen, Doing, Reviewing, Receipted, Waiting, HasUnit
  <2>6. SingleOpen'
    BY <2>1, <2>2 DEF SingleOpen, Waiting, NoneDone
  <2>7. BareEarly'
    BY <2>1, <2>2 DEF BareEarly
  <2> QED
    BY <2>3, <2>4, <2>5, <2>6, <2>7
<1>4. CASE NextDagUnit
  <2>1. m.pc = "loop" /\ ~m.pending /\ m.dags # NoDag
    BY <1>4 DEF NextDagUnit, AtLoop
  <2>2. CASE ReadyUnits(m.dags) # {}
    <3> DEFINE u == Min(ReadyUnits(m.dags))
    <3>1. u \in ReadyUnits(m.dags) /\ ReadyUnits(m.dags) \subseteq DOMAIN m.dags
      BY <1>0, <2>2, MinIsMember DEF ReadyUnits, IsEngine
    <3>2. RunUnit(u, Working(m.dags[u]))
      BY <1>4, <2>2 DEF NextDagUnit
    <3> HIDE DEF u
    <3>3. u \in DOMAIN m.dags /\ u \in Units /\ m.dags[u] \in UnitRec /\ ~Done(m.dags, u)
      BY <1>0, <3>1 DEF ReadyUnits, IsEngine, Done
    <3>4. /\ Working(m.dags[u]) \in UnitRec /\ Working(m.dags[u]).state = "implementing"
          /\ Working(m.dags[u]).receipt = m.dags[u].receipt
      BY <3>3 DEF Working, UnitRec
    <3>5. ~Done(db, u) /\ (Bare => m.dags[u].receipt = "none")
      BY <3>3 DEF Standing, DagKnown, BareEarly
    <3> QED
      BY <2>1, <3>2, <3>3, <3>4, <3>5, RunUnitStanding
  <2>3. CASE ReadyUnits(m.dags) = {}
    BY <1>0, <1>4, <2>3, EndStanding DEF NextDagUnit, FailRun, Terminal
  <2> QED
    BY <2>2, <2>3
<1>5. CASE ReuseUnit
  <2>1. /\ m.pc = "loop" /\ ~m.pending /\ m.dags = NoDag /\ m.unit \in Units
        /\ RunUnit(m.unit, Working(m.rec)) /\ m.rec \in UnitRec
    BY <1>0, <1>5 DEF ReuseUnit, AtLoop, Standing, UnitOpen, Typed, InHand, IsEngine
  <2>2. /\ Working(m.rec) \in UnitRec /\ Working(m.rec).state = "implementing"
        /\ Working(m.rec).receipt = m.rec.receipt
    BY <2>1 DEF Working, UnitRec
  <2>3. ~Done(db, m.unit) /\ (Bare => m.rec.receipt = "none")
    BY <1>0, <2>1 DEF Standing, SingleOpen, BareEarly, Waiting, NoneDone, Table
  <2> QED
    BY <2>1, <2>2, <2>3, RunUnitStanding
<1>6. ASSUME NEW p \in DagPlans \cup {NoPlan}, NEW c \in Charges, AskCommander(p, c)
      PROVE  Standing'
  <2>1. /\ m.pc = "loop" /\ m' = [m EXCEPT !.pc = "planned"] /\ m.dags = NoDag
        /\ ~m.pending /\ ~m.reuse /\ UNCHANGED <<db, envelope, trees>>
    BY <1>6 DEF AskCommander, Dispatching, AtLoop
  <2>2. /\ m'.pc = "planned" /\ m'.unit = m.unit /\ m'.rec = m.rec /\ m'.dags = m.dags
        /\ m'.pending = m.pending /\ m'.reuse = m.reuse /\ m'.outer = m.outer
    BY <1>0, <2>1 DEF IsEngine
  <2>3. row'.state = row.state
    BY <1>0, <1>6, ChargeIsTyped DEF AskCommander
  <2> QED
    BY <1>1, <2>1, <2>2, <2>3, MovedStanding DEF Moves, PC
<1>7. CASE Planned
  <2>1. m.pc = "planned" /\ m.dags = NoDag /\ ~m.pending /\ NoneDone(db)
    BY <1>7 DEF Planned, Typed, InHand, Standing, UnitOpen, SingleOpen
  <2>2. CASE Exhausted(row)
    BY <1>0, <1>7, <2>2, EndStanding DEF Planned, FailBudget, Terminal
  <2>3. CASE ~Exhausted(row) /\ plan # NoPlan
    <3>1. m' = [m EXCEPT !.pc = "seed"] /\ UNCHANGED <<row, db, envelope, trees>>
      BY <1>7, <2>3 DEF Planned
    <3>2. /\ m'.pc = "seed" /\ m'.unit = m.unit /\ m'.rec = m.rec /\ m'.dags = m.dags
          /\ m'.pending = m.pending /\ m'.reuse = m.reuse /\ m'.outer = m.outer
      BY <1>0, <3>1 DEF IsEngine
    <3> QED
      BY <1>1, <2>1, <3>1, <3>2, MovedStanding DEF Moves, PC
  <2>4. CASE ~Exhausted(row) /\ plan = NoPlan /\ m.unit = -1
    <3>1. RunUnit(0, Fresh("assigned"))
      BY <1>7, <2>4 DEF Planned
    <3>2. /\ Fresh("assigned") \in UnitRec /\ Fresh("assigned").state = "assigned"
          /\ Fresh("assigned").receipt = "none"
      BY FreshIsUnit DEF Fresh
    <3>3. ~Done(db, 0) /\ (Bare => \A w \in Units : db[w] = NoUnit)
      BY <1>0, <2>1 DEF NoneDone, Table, Standing, BareEarly
    <3> QED
      BY <1>0, <2>1, <3>1, <3>2, <3>3, RunUnitStanding
  <2>5. CASE ~Exhausted(row) /\ plan = NoPlan /\ m.unit # -1
    <3>1. RunUnit(m.unit, Working(m.rec)) /\ m.unit \in Units /\ m.rec \in UnitRec
      BY <1>0, <1>7, <2>5 DEF Planned, IsEngine
    <3>2. /\ Working(m.rec) \in UnitRec /\ Working(m.rec).state = "implementing"
          /\ Working(m.rec).receipt = m.rec.receipt
      BY <3>1 DEF Working, UnitRec
    <3>3. ~Done(db, m.unit) /\ (Bare => m.rec.receipt = "none")
      BY <1>0, <2>1, <3>1 DEF NoneDone, Table, Standing, BareEarly
    <3> QED
      BY <2>1, <3>1, <3>2, <3>3, RunUnitStanding
  <2> QED
    BY <2>2, <2>3, <2>4, <2>5
<1> QED
  BY <1>2, <1>3, <1>4, <1>5, <1>6, <1>7, SeedStanding DEF HeadStep

\* The row of the unit in hand is written again, not as accepted.
LEMMA UpdateStanding ==
    ASSUME Typed, Standing, NEW rec \in UnitRec, UpdateUnit(m.unit, rec),
           rec.state \notin {"accepted", "none"}, rec.receipt # "none" \/ m'.pc = "rework_set",
           <<m.pc, m'.pc>> \in {<<"receipt", "receipt_event">>, <<"ruled", "verdict_event">>,
                               <<"apply", "rework_set">>},
           m.pc = "apply" => Decision # "accept",
           m'.unit = m.unit, m'.rec = rec, m'.dags = m.dags, m'.pending = m.pending,
           m'.reuse = m.reuse, m'.outer = m.outer, UNCHANGED <<row, envelope, trees>>
    PROVE  Standing'
<1> DEFINE u == m.unit
<1>0. TypeOK /\ IsEngine(m) /\ 0 \in Units /\ db \in Table /\ u \in Units
  BY DEF Typed, InHand, HasUnit, TypeOK, Units
<1>1. ~Bare /\ ~m.pending /\ ~m.reuse
  BY DEF Standing, BareEarly, UnitOpen, HasUnit
<1>2. /\ DOMAIN db' = Units /\ DOMAIN db = Units
      /\ \A w \in Units : db'[w] = db[w] \/ (w = u /\ db'[w] = rec /\ db[w] # NoUnit)
      /\ \A w \in Units : db[w] # NoUnit <=> db'[w] # NoUnit
  BY <1>0 DEF UpdateUnit, Table, NoUnit
<1>3. ~Done(db, u)
  BY DEF Standing, UnitOpen, Doing
<1>4. \A w \in Units : Done(db', w) => Done(db, w) /\ w # u /\ db'[w] = db[w]
  BY <1>2, <1>3 DEF Done
<1>5. /\ Bare' <=> Bare
      /\ HasEnvelope' <=> HasEnvelope
      /\ Record' = IF HasEnvelope THEN envelope ELSE db'
      /\ Alone' => Alone
      /\ Blocked' <=> Blocked
  BY <1>2 DEF Bare, HasEnvelope, Present, Record, Alone, Blocked
<1>6. NoneDone(db) => NoneDone(db')
  BY <1>2, <1>4 DEF NoneDone
<1> HIDE DEF u
<1>7. TablesLead'
  <2>1. HasEnvelope' => \A w \in Units : Done(db', w) => Done(envelope', w)
    BY <1>4, <1>5 DEF Standing, TablesLead, Done
  <2>2. trees' = 0 => NoneDone(db') /\ NoneDone(envelope')
    BY <1>6 DEF Standing, TablesLead, NoneDone, Done
  <2>3. row'.state \notin Terminal /\ Done(Record', 0) /\ Alone'
          => row'.state = "outer_reviewing" /\ Record'[0].receipt # "none"
    BY <1>0, <1>4, <1>5 DEF Standing, TablesLead, Done, Record
  <2>4. /\ \A w \in Units : db'[w].state = "none" => db'[w] = NoUnit
        /\ HasEnvelope' => \A w \in Units : envelope'[w].state = "none" => envelope'[w] = NoUnit
    BY <1>2, <1>5 DEF Standing, TablesLead
  <2> QED
    BY <1>1, <1>5, <2>1, <2>2, <2>3, <2>4 DEF TablesLead
<1>8. DagKnown'
  BY <1>0, <1>1, <1>4, <1>5 DEF Standing, DagKnown, Done, IsEngine
<1>9. UnitOpen'
  BY <1>1, <1>4, <1>5, <1>0 DEF Standing, UnitOpen, Doing, Reviewing, Receipted, Waiting, HasUnit, Done, u
<1>10. SingleOpen'
  BY <1>1, <1>5, <1>6 DEF Standing, SingleOpen, Waiting, NoneDone, Done
<1>11. BareEarly'
  BY <1>1, <1>5 DEF Standing, BareEarly
<1> QED
  BY <1>7, <1>8, <1>9, <1>10, <1>11 DEF Standing

\* An event is appended about the unit in hand.
LEMMA AppendStanding ==
    ASSUME Typed, Standing, NEW rec, Append(m.unit, rec),
           HasEnvelope => /\ rec \in UnitRec /\ rec.state # "none"
                          /\ m'.pc # "work" => rec.receipt # "none"
                          /\ m'.pc = "apply" /\ Decision = "accept" => Done(envelope', m.unit)
                          /\ rec.state = "accepted"
                                => /\ m'.pc = "apply"
                                   /\ Decision = "accept" \/ Done(envelope, m.unit),
           <<m.pc, m'.pc>> \in {<<"dispatch_event", "work">>, <<"receipt_event", "receipt_set">>,
                               <<"verdict_event", "apply">>},
           m'.unit = m.unit, m'.rec = m.rec, m'.dags = m.dags, m'.pending = m.pending,
           m'.reuse = m.reuse, m'.outer = m.outer, m'.ruling = m.ruling,
           UNCHANGED <<row, db, trees>>
    PROVE  Standing'
<1> DEFINE u == m.unit
<1>0. TypeOK /\ IsEngine(m) /\ 0 \in Units /\ db \in Table /\ u \in Units
  BY DEF Typed, InHand, HasUnit, TypeOK, Units
<1>1. ~m.pending /\ ~m.reuse /\ ~Done(db, u)
  BY DEF Standing, UnitOpen, Doing
<1>2. HasEnvelope => /\ envelope' \in Table /\ envelope'[u] = rec
                     /\ DOMAIN envelope' = Units /\ DOMAIN envelope = Units
                     /\ \A w \in Units : w # u => envelope'[w] = envelope[w]
  BY <1>0 DEF Append, TypeOK, Table, HasEnvelope
<1>3. ~HasEnvelope => envelope' = envelope
  BY DEF Append
<1>4. HasEnvelope' <=> HasEnvelope
  <2>1. DOMAIN NoEnvelope = {}
    BY DEF NoEnvelope
  <2> QED
    BY <1>0, <1>2, <1>3, <2>1 DEF HasEnvelope
<1>5. rec # NoUnit \/ ~HasEnvelope
  BY DEF NoUnit
<1>6. ~Bare'
  BY <1>0, <1>2, <1>4, <1>5 DEF Bare, Present
<1>7. /\ Blocked' <=> Blocked
      /\ Record' = IF HasEnvelope THEN envelope' ELSE db
      /\ Alone' => Alone
      /\ HasEnvelope /\ u # 0 => ~Alone'
  <2>1. Alone' => Alone
    BY <1>0, <1>2, <1>3, <1>4, <1>5 DEF Alone, Record
  <2>2. HasEnvelope /\ u # 0 => ~Alone'
    BY <1>0, <1>2, <1>4, <1>5 DEF Alone, Record
  <2> QED
    BY <1>4, <2>1, <2>2 DEF Blocked, Record
<1> HIDE DEF u
<1>8. TablesLead'
  <2>1. HasEnvelope' => \A w \in Units : Done(db', w) => Done(envelope', w)
    <3> SUFFICES ASSUME HasEnvelope, NEW w \in Units, Done(db, w) PROVE Done(envelope', w)
      BY <1>4 DEF Done
    <3>1. w # u /\ Done(envelope, w)
      BY <1>1 DEF Standing, TablesLead
    <3> QED
      BY <1>2, <3>1 DEF Done
  <2>2. trees' = 0 => NoneDone(db') /\ NoneDone(envelope')
    <3> SUFFICES ASSUME trees = 0 PROVE NoneDone(db) /\ NoneDone(envelope')
      BY DEF NoneDone, Done
    <3>1. NoneDone(db) /\ NoneDone(envelope) /\ m.pc # "verdict_event"
      BY DEF Standing, TablesLead, UnitOpen, Reviewing
    <3>2. HasEnvelope => rec.state # "accepted"
      BY <3>1
    <3> QED
      BY <1>2, <1>3, <3>1, <3>2 DEF NoneDone, Done
  <2>3. row'.state \notin Terminal /\ Done(Record', 0) /\ Alone'
          => row'.state = "outer_reviewing" /\ Record'[0].receipt # "none"
    <3> SUFFICES ASSUME row.state \notin Terminal, Done(Record', 0), Alone'
                 PROVE  row.state = "outer_reviewing" /\ Record'[0].receipt # "none"
      OBVIOUS
    <3>1. CASE HasEnvelope
      <4>1. u = 0 /\ Record'[0] = rec
        BY <1>2, <1>7, <3>1
      <4>2. rec.state = "accepted"
        BY <4>1 DEF Done
      <4> QED
        BY <3>1, <4>1, <4>2 DEF Standing, UnitOpen, Reviewing
    <3>2. CASE ~HasEnvelope
      <4>1. Record' = Record /\ Alone
        BY <1>7, <3>2 DEF Record
      <4> QED
        BY <4>1 DEF Standing, TablesLead, Done
    <3> QED
      BY <3>1, <3>2
  <2>4. /\ \A w \in Units : db'[w].state = "none" => db'[w] = NoUnit
        /\ HasEnvelope' => \A w \in Units : envelope'[w].state = "none" => envelope'[w] = NoUnit
    BY <1>2, <1>4 DEF Standing, TablesLead
  <2> QED
    BY <1>6, <2>1, <2>2, <2>3, <2>4 DEF TablesLead
<1>9. DagKnown'
  <2>1. m.dags # NoDag => ~Alone'
    <3>1. CASE Bare
      <4>1. m.pc = "dispatch_event" /\ 0 \notin DOMAIN m.dags /\ HasEnvelope
        BY <3>1 DEF Standing, BareEarly, HasUnit, Bare
      <4> QED
        BY <1>7, <4>1 DEF Standing, DagKnown, u
    <3>2. CASE ~Bare
      BY <1>7, <3>2 DEF Standing, DagKnown
    <3> QED
      BY <3>1, <3>2
  <2>2. \A w \in DOMAIN m.dags : Done(db', w) => Done(m.dags, w)
    BY DEF Standing, DagKnown, Done
  <2> QED
    BY <2>1, <2>2 DEF DagKnown, Done
<1>10. UnitOpen'
  <2>1. HasEnvelope' => /\ m'.pc = "apply" /\ Decision' = "accept" => Done(envelope', m'.unit)
                        /\ m'.pc # "work" => envelope'[m'.unit].receipt # "none"
    BY <1>2, <1>4 DEF Done, Decision, u
  <2>2. ~Done(db', m'.unit)
    BY <1>1 DEF Done, u
  <2> QED
    BY <1>1, <2>1, <2>2 DEF Standing, UnitOpen, Doing, Reviewing, Receipted, Waiting, HasUnit
<1>11. SingleOpen'
  <2>1. m.dags = NoDag => NoneDone(db')
    BY <1>1 DEF Standing, SingleOpen, Waiting, NoneDone, Done
  <2>2. m.dags = NoDag /\ ~(m'.pc = "apply" /\ Decision' = "accept") => NoneDone(envelope')
    <3> SUFFICES ASSUME m.dags = NoDag, ~(m'.pc = "apply" /\ Decision = "accept")
                 PROVE  NoneDone(envelope')
      BY DEF Decision
    <3>1. NoneDone(envelope)
      BY <1>1 DEF Standing, SingleOpen, Waiting
    <3>2. CASE HasEnvelope
      <4>1. u \in DOMAIN envelope /\ ~Done(envelope, u)
        BY <1>0, <1>2, <3>1, <3>2 DEF NoneDone
      <4>2. rec.state # "accepted"
        BY <3>2, <4>1 DEF u
      <4> QED
        BY <1>2, <3>1, <3>2, <4>2 DEF NoneDone, Done
    <3> QED
      BY <1>3, <3>1, <3>2 DEF NoneDone, Done
  <2> QED
    BY <2>1, <2>2 DEF SingleOpen
<1>12. BareEarly'
  BY <1>6 DEF BareEarly
<1> QED
  BY <1>8, <1>9, <1>10, <1>11, <1>12 DEF Standing

\* The next outer worktree is new: the review that follows is of open work.
LEMMA OuterStanding == ASSUME Typed, Standing, OuterWorktree PROVE Standing'
<1>0. TypeOK /\ IsEngine(m) /\ m.pc = "outer" /\ m.outer \in Nat /\ trees \in Nat
  BY DEF Typed, TypeOK, IsEngine, OuterWorktree
<1>1. CASE m.outer + 1 > trees
  <2>1. m' = [m EXCEPT !.pc = "judge", !.outer = m.outer + 1] /\ trees' = m.outer + 1
    BY <1>1 DEF OuterWorktree
  <2>2. /\ m'.pc = "judge" /\ m'.unit = m.unit /\ m'.rec = m.rec /\ m'.dags = m.dags
        /\ m'.pending = m.pending /\ m'.reuse = m.reuse /\ UNCHANGED <<row, db, envelope>>
    BY <1>0, <2>1 DEF IsEngine, OuterWorktree
  <2>3. ~Blocked /\ trees' > 0
    BY <1>0, <1>1, <2>1 DEF Blocked
  <2>4. ~Bare /\ ~m.pending /\ ~m.reuse
    BY <1>0 DEF Standing, BareEarly, UnitOpen, HasUnit
  <2>5. /\ Bare' <=> Bare
        /\ HasEnvelope' <=> HasEnvelope
        /\ Record' = Record /\ (Alone' <=> Alone)
    BY <2>2 DEF Bare, HasEnvelope, Present, Record, Alone
  <2> USE DEF Standing, Done
  <2>6. TablesLead'
    BY <1>0, <2>2, <2>3, <2>5 DEF TablesLead, NoneDone
  <2>7. DagKnown'
    BY <1>0, <2>2, <2>5 DEF DagKnown
  <2>8. UnitOpen'
    BY <1>0, <2>2, <2>3, <2>4, <2>5
       DEF UnitOpen, Doing, Reviewing, Receipted, Waiting, HasUnit
  <2>9. SingleOpen'
    BY <1>0, <2>2, <2>3, <2>4 DEF SingleOpen, NoneDone, Waiting
  <2>10. BareEarly'
    BY <2>2, <2>4, <2>5 DEF BareEarly
  <2> QED
    BY <2>6, <2>7, <2>8, <2>9, <2>10
<1>2. CASE ~(m.outer + 1 > trees)
  BY <1>0, <1>2, GoneStanding DEF OuterWorktree
<1> QED
  BY <1>1, <1>2

\* The row and the entry of dag_units follow the envelope, where the unit is
\* accepted already.
LEMMA AcceptStanding == ASSUME Typed, Standing, AcceptUnit PROVE Standing'
<1> DEFINE u   == m.unit
           rec == [m.rec EXCEPT !.state = "accepted"]
           d   == [w \in DOMAIN m.dags |-> IF w = u THEN rec ELSE m.dags[w]]
<1>0. /\ TypeOK /\ IsEngine(m) /\ 0 \in Units /\ db \in Table /\ u \in Units
      /\ m.pc = "apply" /\ Decision = "accept"
  BY DEF Typed, InHand, HasUnit, TypeOK, Units, AcceptUnit
<1>1. /\ rec \in UnitRec /\ rec.state = "accepted" /\ rec.receipt = m.rec.receipt
      /\ rec.receipt # "none" /\ rec # NoUnit
  <2>1. m.rec \in UnitRec /\ m.rec.receipt # "none"
    BY <1>0 DEF IsEngine, Standing, UnitOpen, Receipted
  <2> QED
    BY <2>1 DEF UnitRec, NoUnit
<1>2. /\ m' = [m EXCEPT !.pc = "accept_set", !.rec = rec, !.dags = d]
      /\ UpdateUnit(u, rec) /\ UNCHANGED <<row, envelope, trees>>
  BY DEF AcceptUnit
<1>3. DOMAIN d = DOMAIN m.dags /\ \A w \in DOMAIN d : Done(d, w) <=> Done(m.dags, w) \/ w = u
  BY <1>1 DEF Done
<1> HIDE DEF rec, d
<1>4. /\ m'.pc = "accept_set" /\ m'.unit = u /\ m'.rec = rec /\ m'.dags = d
      /\ m'.pending = m.pending /\ m'.reuse = m.reuse /\ m'.outer = m.outer
  BY <1>0, <1>2 DEF IsEngine
<1>5. ~Bare /\ ~m.pending /\ ~m.reuse
  BY <1>0 DEF Standing, BareEarly, UnitOpen, HasUnit
<1>6. /\ DOMAIN db' = Units /\ DOMAIN db = Units
      /\ \A w \in Units : db'[w] = db[w] \/ (w = u /\ db'[w] = rec /\ db[w] # NoUnit)
      /\ \A w \in Units : db[w] # NoUnit <=> db'[w] # NoUnit
  BY <1>0, <1>1, <1>2 DEF UpdateUnit, Table
<1>7. /\ Bare' <=> Bare
      /\ HasEnvelope' <=> HasEnvelope
      /\ Record' = IF HasEnvelope THEN envelope ELSE db'
      /\ Alone' => Alone
  BY <1>2, <1>6 DEF Bare, HasEnvelope, Present, Record, Alone
<1>8. trees > 0 /\ row.state = "outer_reviewing" /\ (HasEnvelope => Done(envelope, u))
  BY <1>0 DEF Standing, UnitOpen, Reviewing
<1> HIDE DEF u
<1>9. TablesLead'
  <2>1. HasEnvelope' => \A w \in Units : Done(db', w) => Done(envelope', w)
    BY <1>2, <1>6, <1>7, <1>8 DEF Standing, TablesLead, Done
  <2>2. row'.state \notin Terminal /\ Done(Record', 0) /\ Alone'
          => row'.state = "outer_reviewing" /\ Record'[0].receipt # "none"
    BY <1>0, <1>1, <1>2, <1>6, <1>7, <1>8 DEF Standing, TablesLead, Done, Record
  <2>3. /\ \A w \in Units : db'[w].state = "none" => db'[w] = NoUnit
        /\ HasEnvelope' => \A w \in Units : envelope'[w].state = "none" => envelope'[w] = NoUnit
    BY <1>1, <1>2, <1>6, <1>7 DEF Standing, TablesLead
  <2> QED
    BY <1>2, <1>5, <1>7, <1>8, <2>1, <2>2, <2>3, <1>0 DEF TablesLead, TypeOK
<1>10. DagKnown'
  <2>1. m'.dags # NoDag => m.dags # NoDag
    <3>1. DOMAIN NoDag = {}
      BY DEF NoDag
    <3>2. m.dags = NoDag => d = NoDag
      BY <1>3, <3>1 DEF d, NoDag
    <3> QED
      BY <1>4, <3>2
  <2>2. \A w \in DOMAIN m.dags : Done(db', w) => Done(d, w)
    BY <1>0, <1>3, <1>6 DEF Standing, DagKnown, Done, IsEngine
  <2>3. m.dags # NoDag => ~Alone'
    BY <1>0, <1>5, <1>7 DEF Standing, DagKnown
  <2> QED
    BY <1>3, <1>4, <2>1, <2>2, <2>3 DEF DagKnown, Done
<1>11. UnitOpen'
  BY <1>0, <1>1, <1>2, <1>4, <1>5, <1>7, <1>8
     DEF Standing, UnitOpen, Doing, Reviewing, Receipted, Waiting, HasUnit, u
<1>12. SingleOpen'
  BY <1>4 DEF SingleOpen
<1>13. BareEarly'
  BY <1>4, <1>5, <1>7 DEF BareEarly
<1> QED
  BY <1>9, <1>10, <1>11, <1>12, <1>13 DEF Standing

LEMMA UnitStepsStanding ==
    ASSUME Typed, WithinBudget, Standing, UnitStep PROVE Standing'
<1>0. TypeOK /\ IsEngine(m) /\ m.rec \in UnitRec
  BY DEF Typed, TypeOK, IsEngine
<1>a. m.pc # "off" => row.state \notin Terminal
  BY DEF WithinBudget
<1>b. m.pc \in HasUnit => m.unit \in Units /\ (HasEnvelope => envelope[m.unit] \in UnitRec)
  BY <1>0 DEF Typed, InHand, HasEnvelope, TypeOK, Table
<1>1. CASE DispatchEvent
  <2> DEFINE rec == IF HasEnvelope /\ envelope[m.unit] # NoUnit
                    THEN Working(envelope[m.unit]) ELSE Fresh("implementing")
  <2>1. /\ m.pc = "dispatch_event" /\ m'.pc = "work" /\ m'.unit = m.unit /\ m'.rec = m.rec
        /\ m'.dags = m.dags /\ m'.pending = m.pending /\ m'.reuse = m.reuse
        /\ m'.outer = m.outer /\ m'.ruling = m.ruling
    BY <1>0, <1>1 DEF DispatchEvent, IsEngine
  <2>2. Append(m.unit, rec) /\ UNCHANGED <<row, db, trees>>
    BY <1>1 DEF DispatchEvent
  <2>3. HasEnvelope => rec \in UnitRec /\ rec.state = "implementing"
    BY <1>b, <2>1, FreshIsUnit, WorkingIsUnit DEF HasUnit, Fresh, Working, UnitRec
  <2> HIDE DEF rec
  <2> QED
    BY <2>1, <2>2, <2>3, AppendStanding
<1>2. ASSUME NEW c \in Charges, GoalIteration(c) PROVE Standing'
  <2>1. /\ m' \in {m, [m EXCEPT !.pc = "receipt"]} /\ m.pc = "goal"
        /\ UNCHANGED <<db, envelope, trees>>
    BY <1>2 DEF GoalIteration, OnlyRun
  <2>2. /\ m'.unit = m.unit /\ m'.rec = m.rec /\ m'.dags = m.dags
        /\ m'.pending = m.pending /\ m'.reuse = m.reuse /\ m'.outer = m.outer
        /\ m'.pc \in {"goal", "receipt"}
    BY <1>0, <2>1 DEF IsEngine
  <2>3. row'.state = row.state
    BY <1>0, <1>2, ChargeIsTyped DEF GoalIteration
  <2> QED
    BY <1>a, <2>1, <2>2, <2>3, MovedStanding DEF Moves, PC
<1>3. CASE GoalLoopOut
  <2>1. /\ m' = [m EXCEPT !.pc = "receipt"] /\ m.pc = "goal" /\ row' = row
        /\ UNCHANGED <<db, envelope, trees>>
    BY <1>3 DEF GoalLoopOut, OnlyRun
  <2>2. /\ m'.unit = m.unit /\ m'.rec = m.rec /\ m'.dags = m.dags
        /\ m'.pending = m.pending /\ m'.reuse = m.reuse /\ m'.outer = m.outer
        /\ m'.pc = "receipt"
    BY <1>0, <2>1 DEF IsEngine
  <2> QED
    BY <1>a, <2>1, <2>2, MovedStanding DEF Moves, PC
<1>4. ASSUME NEW kind \in {"empty", "full"}, RecordReceipt(kind) PROVE Standing'
  <2> DEFINE rec == [m.rec EXCEPT !.state = "receipt_ready", !.receipt = kind]
  <2>1. rec \in UnitRec /\ rec.state = "receipt_ready" /\ rec.receipt = kind
    BY <1>0 DEF UnitRec
  <2>2. /\ m.pc = "receipt" /\ m' = [m EXCEPT !.pc = "receipt_event", !.rec = rec]
        /\ UpdateUnit(m.unit, rec) /\ UNCHANGED <<row, envelope, trees>>
    BY <1>4 DEF RecordReceipt
  <2> HIDE DEF rec
  <2>3. /\ m'.pc = "receipt_event" /\ m'.unit = m.unit /\ m'.rec = rec /\ m'.dags = m.dags
        /\ m'.pending = m.pending /\ m'.reuse = m.reuse /\ m'.outer = m.outer
    BY <1>0, <2>2 DEF IsEngine
  <2> QED
    BY <2>1, <2>2, <2>3, UpdateStanding
<1>5. CASE ReceiptEvent
  <2> DEFINE rec == [envelope[m.unit] EXCEPT !.state = "receipt_ready",
                                             !.receipt = m.rec.receipt]
  <2>1. /\ m.pc = "receipt_event" /\ m'.pc = "receipt_set" /\ m'.unit = m.unit /\ m'.rec = m.rec
        /\ m'.dags = m.dags /\ m'.pending = m.pending /\ m'.reuse = m.reuse
        /\ m'.outer = m.outer /\ m'.ruling = m.ruling
    BY <1>0, <1>5 DEF ReceiptEvent, IsEngine
  <2>2. Append(m.unit, rec) /\ UNCHANGED <<row, db, trees>>
    BY <1>5 DEF ReceiptEvent
  <2>3. m.rec.receipt # "none"
    BY <2>1 DEF Standing, UnitOpen
  <2>4. HasEnvelope => /\ rec \in UnitRec /\ rec.state = "receipt_ready"
                       /\ rec.receipt # "none"
    BY <1>0, <1>b, <2>1, <2>3 DEF HasUnit, UnitRec
  <2> HIDE DEF rec
  <2> QED
    BY <2>1, <2>2, <2>4, AppendStanding
<1>6. CASE OuterWorktree
  BY <1>6, OuterStanding
<1>7. ASSUME NEW free \in FreeGates, NEW d \in Decisions, NEW c \in Charges, Judge(free, d, c)
      PROVE  Standing'
  <2>1. /\ m.pc = "judge" /\ UNCHANGED <<db, envelope, trees>>
        /\ m' = [m EXCEPT !.pc = "ruled", !.ruling = EnforceDecision(d, GatesOf(free))]
    BY <1>7 DEF Judge, OnlyRun
  <2>2. /\ m'.unit = m.unit /\ m'.rec = m.rec /\ m'.dags = m.dags
        /\ m'.pending = m.pending /\ m'.reuse = m.reuse /\ m'.outer = m.outer
        /\ m'.pc = "ruled"
    BY <1>0, <2>1 DEF IsEngine
  <2>3. row'.state = row.state /\ row.state = "outer_reviewing"
    BY <1>0, <1>7, <2>1, ChargeIsTyped DEF Judge, Standing, UnitOpen, Reviewing
  <2> QED
    BY <1>a, <2>1, <2>2, <2>3, MovedStanding DEF Moves, PC
<1>8. CASE RecordVerdict
  <2>1. CASE OverBudget
    BY <1>0, <1>8, <2>1, EndStanding DEF RecordVerdict, FailBudget, Terminal
  <2>2. CASE ~OverBudget
    <3>1. /\ m.pc = "ruled" /\ m' = [m EXCEPT !.pc = "verdict_event"]
          /\ UpdateUnit(m.unit, m.rec) /\ UNCHANGED <<row, envelope, trees>>
      BY <1>8, <2>2 DEF RecordVerdict
    <3>2. /\ m'.pc = "verdict_event" /\ m'.unit = m.unit /\ m'.rec = m.rec /\ m'.dags = m.dags
          /\ m'.pending = m.pending /\ m'.reuse = m.reuse /\ m'.outer = m.outer
      BY <1>0, <3>1 DEF IsEngine
    <3>3. m.rec.state \notin {"accepted", "none"} /\ m.rec.receipt # "none"
      BY <3>1 DEF Standing, UnitOpen, Doing, HasUnit, Receipted
    <3> QED
      BY <1>0, <3>1, <3>2, <3>3, UpdateStanding
  <2> QED
    BY <2>1, <2>2
<1>9. CASE VerdictEvent
  <2> DEFINE rec == Replayed(envelope[m.unit], Decision)
  <2>1. /\ m.pc = "verdict_event" /\ m'.pc = "apply" /\ m'.unit = m.unit /\ m'.rec = m.rec
        /\ m'.dags = m.dags /\ m'.pending = m.pending /\ m'.reuse = m.reuse
        /\ m'.outer = m.outer /\ m'.ruling = m.ruling
    BY <1>0, <1>9 DEF VerdictEvent, IsEngine
  <2>2. Append(m.unit, rec) /\ UNCHANGED <<row, db, trees>>
    BY <1>9 DEF VerdictEvent
  <2>3. HasEnvelope => /\ envelope[m.unit] \in UnitRec /\ m.unit \in Units
                       /\ envelope[m.unit].receipt # "none"
                       /\ envelope[m.unit].state # "none"
    BY <1>b, <2>1 DEF HasUnit, Standing, UnitOpen, Receipted, TablesLead, NoUnit
  <2>4. HasEnvelope => /\ rec \in UnitRec /\ rec.state # "none"
                       /\ rec.receipt # "none"
                       /\ Decision = "accept" => rec.state = "accepted"
                       /\ rec.state = "accepted"
                             => Decision = "accept" \/ envelope[m.unit].state = "accepted"
    BY <2>3, ReplayedIsUnit DEF Replayed, UnitRec
  <2> HIDE DEF rec
  <2>5. HasEnvelope => envelope'[m.unit] = rec
    BY <1>0, <2>2, <2>3 DEF Append, TypeOK, Table, HasEnvelope
  <2> QED
    BY <2>1, <2>2, <2>4, <2>5, AppendStanding DEF Done
<1>10. CASE AcceptUnit
  BY <1>10, AcceptStanding
<1>11. CASE ReworkUnit
  <2> DEFINE rec == [m.rec EXCEPT !.rework = @ + 1, !.state = "queued"]
  <2>1. rec \in UnitRec /\ rec.state = "queued"
    BY <1>0, ReworkedIsUnit DEF UnitRec
  <2>2. CASE rec.rework > MaxRework
    BY <1>0, <1>11, <2>2, EndStanding DEF ReworkUnit, Terminal
  <2>3. CASE ~(rec.rework > MaxRework)
    <3>1. /\ m.pc = "apply" /\ Decision = "rework"
          /\ m' = [m EXCEPT !.pc = "rework_set", !.rec = rec] /\ UpdateUnit(m.unit, rec)
          /\ UNCHANGED <<row, envelope, trees>>
      BY <1>11, <2>3 DEF ReworkUnit
    <3> HIDE DEF rec
    <3>2. /\ m'.pc = "rework_set" /\ m'.unit = m.unit /\ m'.rec = rec /\ m'.dags = m.dags
          /\ m'.pending = m.pending /\ m'.reuse = m.reuse /\ m'.outer = m.outer
      BY <1>0, <3>1 DEF IsEngine
    <3> QED
      BY <2>1, <3>1, <3>2, UpdateStanding
  <2> QED
    BY <2>2, <2>3
<1> QED
  BY <1>1, <1>2, <1>3, <1>4, <1>5, <1>6, <1>7, <1>8, <1>9, <1>10, <1>11 DEF UnitStep

\* What a resume rebuilds the units from.
Source == IF HasEnvelope /\ ~Bare THEN envelope ELSE db

LEMMA ExistingIsSource ==
    ASSUME TypeOK
    PROVE  /\ Source \in Table
           /\ DOMAIN Existing = {w \in Units : Source[w] # NoUnit}
           /\ \A w \in DOMAIN Existing : Existing[w] = Source[w]
           /\ \A w \in Units : Healed[w] = IF Source[w] # NoUnit THEN Source[w] ELSE db[w]
<1>1. Source \in Table /\ DOMAIN Source = Units
  BY DEF Source, TypeOK, HasEnvelope, Table
<1>2. Existing = Only(Source)
  BY DEF Existing, Source, Bare
<1>3. /\ DOMAIN Existing = {w \in Units : Source[w] # NoUnit}
      /\ \A w \in DOMAIN Existing : Existing[w] = Source[w]
  BY <1>1, <1>2 DEF Only, Present
<1> QED
  BY <1>1, <1>3, HealedIsTyped

LEMMA ResumeStanding == ASSUME Typed, Standing, Resume PROVE Standing'
<1>0. /\ TypeOK /\ row.state \notin Terminal /\ 0 \in Units /\ Units \subseteq Nat
      /\ db \in Table /\ trees \in Nat
  BY DEF Typed, TypeOK, Resume, Units
<1>1. /\ m' = Resumed /\ db' = Healed /\ UNCHANGED <<envelope, trees>>
      /\ row'.state = row.state \/ row.state = "contract_ready"
  BY DEF Resume
<1>2. /\ Source \in Table
      /\ DOMAIN Existing = {w \in Units : Source[w] # NoUnit}
      /\ \A w \in DOMAIN Existing : Existing[w] = Source[w]
      /\ \A w \in Units : db'[w] = IF Source[w] # NoUnit THEN Source[w] ELSE db[w]
      /\ db' \in Table
  BY <1>0, <1>1, ExistingIsSource, HealedIsTyped
<1>3. /\ HasEnvelope /\ ~Bare => Source = envelope
      /\ ~HasEnvelope \/ Bare => Source = db /\ \A w \in Units : db'[w] = db[w]
  BY <1>2 DEF Source
<1>4. /\ m'.pc = "loop" /\ m'.outer = 0 /\ m'.dags \in {Existing, NoDag}
      /\ m'.unit # -1 => m'.unit \in DOMAIN Existing /\ m'.rec = Source[m'.unit]
      /\ m'.unit = -1 => DOMAIN Existing = {}
      /\ m'.pending => m'.unit \in PendingUnits
      /\ m'.pending <=> PendingUnits # {}
      /\ IF \E w \in DOMAIN Existing : w > 0
         THEN m'.dags = Existing /\ ~m'.reuse
         ELSE m'.dags = NoDag /\ (m'.reuse <=> m'.unit # -1 /\ ~m'.pending)
  BY <1>0, <1>1, <1>2, ResumedIsTyped
<1>5. m'.unit = -1 => m'.rec = NoUnit
  <2>1. Resumed.unit = IF PendingUnits # {} THEN Max(PendingUnits)
                       ELSE IF Existing = NoDag THEN -1 ELSE Max(DOMAIN Existing)
    BY DEF Resumed, Off
  <2>2. Resumed.rec = IF Resumed.unit = -1 THEN NoUnit ELSE Existing[Resumed.unit]
    BY <2>1 DEF Resumed, Off
  <2> QED
    BY <1>1, <2>2
<1>6. /\ PendingUnits \subseteq DOMAIN Existing
      /\ \A w \in PendingUnits : Source[w].receipt # "none"
  BY <1>2 DEF PendingUnits
<1>7. \A w \in Units : Source[w].state = "none" => Source[w] = NoUnit
  BY DEF Standing, TablesLead, Source
<1>8. HasEnvelope => \A w \in Units : Done(db', w) => Done(envelope, w)
  BY <1>2, <1>3 DEF Standing, TablesLead, Done
<1>9. trees = 0 => NoneDone(db') /\ NoneDone(envelope)
  BY <1>0, <1>2, <1>3, <1>8 DEF Standing, TablesLead, NoneDone, Done, HasEnvelope, TypeOK, Table
<1>10. /\ Bare' <=> Bare
       /\ HasEnvelope' <=> HasEnvelope
       /\ Blocked' <=> trees > 0
       /\ Record' = IF HasEnvelope THEN envelope ELSE db'
       /\ \A w \in Units : Record'[w] = Record[w]
       /\ Alone' <=> Alone
  BY <1>1, <1>3, <1>4 DEF Bare, HasEnvelope, Present, Record, Alone, Blocked
<1>11. TablesLead'
  <2>1. row'.state \notin Terminal /\ Done(Record', 0) /\ Alone'
          => row'.state = "outer_reviewing" /\ Record'[0].receipt # "none"
    BY <1>0, <1>1, <1>10 DEF Standing, TablesLead, Done
  <2>2. /\ \A w \in Units : db'[w].state = "none" => db'[w] = NoUnit
        /\ HasEnvelope' => \A w \in Units : envelope'[w].state = "none" => envelope'[w] = NoUnit
    BY <1>1, <1>2, <1>7, <1>10 DEF Standing, TablesLead
  <2>3. Bare => /\ \A w \in Units : db'[w].receipt = "none"
                /\ db'[0] = NoUnit \/ \A w \in Units \ {0} : db'[w] = NoUnit
    BY <1>0, <1>3 DEF Standing, TablesLead
  <2>4. HasEnvelope' => \A w \in Units : Done(db', w) => Done(envelope', w)
    BY <1>1, <1>8, <1>10 DEF Done
  <2>5. trees' = 0 => NoneDone(db') /\ NoneDone(envelope')
    BY <1>1, <1>9 DEF NoneDone, Done
  <2> QED
    BY <1>10, <2>1, <2>2, <2>3, <2>4, <2>5 DEF TablesLead
<1>12. DagKnown'
  <2>1. DOMAIN NoDag = {}
    BY DEF NoDag
  <2>2. \A w \in DOMAIN m'.dags : Done(db', w) => Done(m'.dags, w)
    BY <1>2, <1>4, <2>1 DEF Done
  <2>3. m'.dags # NoDag /\ ~Bare => ~Alone
    <3> SUFFICES ASSUME m'.dags # NoDag, ~Bare PROVE ~Alone
      OBVIOUS
    <3>1. PICK w \in DOMAIN Existing : w > 0
      BY <1>4
    <3>2. w \in Units \ {0} /\ Source[w] # NoUnit
      BY <1>2, <3>1
    <3>3. Record[w] = Source[w]
      BY <1>3 DEF Record
    <3> QED
      BY <3>2, <3>3 DEF Alone
  <2> QED
    BY <1>4, <1>10, <2>2, <2>3 DEF DagKnown
<1>13. UnitOpen'
  <2>1. ASSUME m'.pending
        PROVE  /\ m'.rec.state # "none" /\ m'.rec.receipt # "none"
               /\ HasEnvelope => envelope[m'.unit].receipt # "none"
               /\ ~Blocked' => ~Done(db', m'.unit) /\ m'.rec.state # "accepted"
    <3>1. /\ m'.unit \in PendingUnits /\ m'.unit \in Units /\ m'.rec = Source[m'.unit]
          /\ Source[m'.unit] # NoUnit /\ db'[m'.unit] = Source[m'.unit]
      BY <1>0, <1>2, <1>4, <1>6, <2>1 DEF Units
    <3>2. m'.rec.state # "none" /\ m'.rec.receipt # "none"
      BY <1>6, <1>7, <3>1
    <3>3. HasEnvelope => envelope[m'.unit].receipt # "none"
      <4>1. ~Bare
        BY <1>3, <1>6, <3>1 DEF Standing, TablesLead
      <4> QED
        BY <1>3, <3>1, <3>2, <4>1
    <3>4. ~Blocked' => ~Done(db', m'.unit)
      <4>1. ~Blocked' => NoneDone(db') /\ DOMAIN db' = Units
        BY <1>0, <1>2, <1>9, <1>10 DEF Table
      <4> QED
        BY <3>1, <4>1 DEF NoneDone
    <3> QED
      BY <3>1, <3>2, <3>3, <3>4 DEF Done
  <2> QED
    BY <1>1, <1>4, <1>10, <2>1 DEF UnitOpen, Doing, Reviewing, Receipted, Waiting, HasUnit
<1>14. m'.dags = NoDag => \/ NoneDone(db') /\ NoneDone(envelope)
                          \/ Blocked' /\ m'.pending
  <2> SUFFICES ASSUME m'.dags = NoDag, ~(NoneDone(db') /\ NoneDone(envelope))
               PROVE  Blocked' /\ m'.pending
    OBVIOUS
  <2>1. Blocked'
    BY <1>0, <1>9, <1>10
  <2>2. \A w \in Units \ {0} : Source[w] = NoUnit
    <3>1. ~\E w \in DOMAIN Existing : w > 0
      <4>1. ASSUME NEW w \in DOMAIN Existing, w > 0 PROVE FALSE
        BY <1>4, <4>1 DEF NoDag
      <4> QED
        BY <4>1
    <3> QED
      BY <1>0, <1>2, <3>1
  <2>3. DOMAIN db' = Units /\ (HasEnvelope => DOMAIN envelope = Units)
        /\ (~HasEnvelope => DOMAIN envelope = {})
    BY <1>0, <1>2 DEF Table, HasEnvelope, TypeOK, NoEnvelope
  <2>4. ~Bare
    <3> SUFFICES ASSUME Bare PROVE FALSE
      OBVIOUS
    <3>1. HasEnvelope /\ \A w \in Units : envelope[w] = NoUnit
      BY <2>3 DEF Bare, Present
    <3> QED
      BY <1>8, <2>3, <3>1 DEF NoneDone, Done, NoUnit
  <2>5. \A w \in Units : Record[w] = Source[w]
    BY <1>3, <2>4 DEF Record
  <2>6. Alone
    BY <2>2, <2>5 DEF Alone
  <2>7. Done(Record, 0)
    <3>1. PICK w \in Units : Done(db', w) \/ (HasEnvelope /\ Done(envelope, w))
      BY <2>3 DEF NoneDone
    <3>2. Done(Source, w)
      BY <1>3, <1>8, <2>4, <3>1 DEF Done
    <3>3. w = 0
      BY <2>2, <3>2 DEF Done, NoUnit
    <3> QED
      BY <1>0, <2>5, <3>2, <3>3 DEF Done
  <2>8. row.state = "outer_reviewing" /\ Source[0].receipt # "none" /\ Source[0] # NoUnit
    BY <1>0, <2>5, <2>6, <2>7 DEF Standing, TablesLead, NoUnit
  <2>9. DOMAIN Existing = {0}
    BY <1>0, <1>2, <2>2, <2>8
  <2>10. PendingUnits # {}
    <3>1. Reviewable
      BY <2>8 DEF Reviewable
    <3>2. 0 \in {u \in DOMAIN Existing : /\ \A w \in DOMAIN Existing : w <= u
                                         /\ Existing[u].receipt # "none"}
      BY <1>2, <2>8, <2>9
    <3> QED
      BY <3>1, <3>2 DEF PendingUnits
  <2> QED
    BY <1>4, <2>1, <2>10
<1>15. SingleOpen'
  <2>1. NoneDone(envelope) => NoneDone(envelope')
    BY <1>1 DEF NoneDone, Done
  <2> QED
    BY <1>4, <1>14, <2>1 DEF SingleOpen, Waiting
<1>16. BareEarly'
  <2> SUFFICES ASSUME Bare
               PROVE  /\ 0 \notin DOMAIN m'.dags
                      /\ \A w \in DOMAIN m'.dags : m'.dags[w].receipt = "none"
                      /\ m'.rec.receipt = "none" /\ ~m'.pending
                      /\ m'.dags = NoDag /\ ~m'.reuse => \A w \in Units : db'[w] = NoUnit
    BY <1>4, <1>10 DEF BareEarly, HasUnit
  <2>1. /\ Source = db /\ \A w \in Units : db[w].receipt = "none" /\ db'[w] = db[w]
        /\ db[0] = NoUnit \/ \A w \in Units \ {0} : db[w] = NoUnit
    BY <1>3 DEF Standing, TablesLead
  <2>2. PendingUnits = {} /\ ~m'.pending
    BY <1>2, <1>4, <1>6, <2>1
  <2>3. m'.rec.receipt = "none"
    BY <1>2, <1>4, <1>5, <2>1 DEF NoUnit
  <2>4. CASE \E w \in DOMAIN Existing : w > 0
    <3>1. m'.dags = Existing /\ m'.dags # NoDag
      BY <1>4, <2>4 DEF NoDag
    <3>2. db[0] = NoUnit
      BY <1>2, <2>1, <2>4
    <3> QED
      BY <1>2, <2>1, <2>2, <2>3, <3>1, <3>2
  <2>5. CASE ~\E w \in DOMAIN Existing : w > 0
    <3>1. m'.dags = NoDag /\ DOMAIN NoDag = {} /\ (m'.reuse <=> m'.unit # -1)
      BY <1>4, <2>2, <2>5 DEF NoDag
    <3>2. ~m'.reuse => DOMAIN Existing = {}
      BY <1>4, <3>1
    <3> QED
      BY <1>2, <2>1, <2>2, <2>3, <3>1, <3>2
  <2> QED
    BY <2>4, <2>5
<1> QED
  BY <1>11, <1>12, <1>13, <1>15, <1>16 DEF Standing

LEMMA InitStanding == Init => Standing
<1> SUFFICES ASSUME Init PROVE Standing
  OBVIOUS
<1>1. /\ m.pc = "setup" /\ m.dags = NoDag /\ m.rec = NoUnit /\ ~m.pending /\ ~m.reuse
      /\ \A w \in Units : db[w] = NoUnit
      /\ ~HasEnvelope /\ envelope = NoEnvelope /\ DOMAIN db = Units
  BY DEF Init, Off, HasEnvelope
<1>2. NoneDone(db) /\ NoneDone(envelope) /\ DOMAIN NoDag = {}
  BY <1>1 DEF NoneDone, Done, NoUnit, NoEnvelope, NoDag
<1>3. TablesLead
  <2>1. ~Done(Record, 0)
    BY <1>1 DEF Record, Done, Units, NoUnit
  <2> QED
    BY <1>1, <1>2, <2>1 DEF TablesLead, Bare
<1>4. DagKnown
  BY <1>1, <1>2 DEF DagKnown
<1>5. UnitOpen
  BY <1>1 DEF UnitOpen, Doing, Reviewing, Receipted, Waiting, HasUnit
<1>6. SingleOpen
  BY <1>1, <1>2 DEF SingleOpen
<1>7. BareEarly
  BY <1>1 DEF BareEarly, Bare
<1> QED
  BY <1>3, <1>4, <1>5, <1>6, <1>7 DEF Standing

LEMMA NextStanding == ASSUME Typed, WithinBudget, Standing, [Next]_vars PROVE Standing'
<1>1. CASE Engine
  BY <1>1, EngineSteps, StateStepsStanding, HeadStepsStanding, UnitStepsStanding
<1>2. CASE Resume
  BY <1>2, ResumeStanding
<1>3. CASE Crash
  BY <1>3, GoneStanding DEF Crash, Typed
<1>4. CASE UNCHANGED vars
  BY <1>4 DEF vars, Standing, TablesLead, DagKnown, UnitOpen, SingleOpen, BareEarly, Done,
              NoneDone, Bare, Record, Alone, Blocked, Waiting, HasEnvelope, Present, Decision
<1> QED
  BY <1>1, <1>2, <1>3, <1>4 DEF Next

\* A write to the row of a unit that is not accepted, or that writes it as
\* accepted, takes nothing back.
LEMMA WriteKeeps ==
    ASSUME TypeOK, NEW u \in Units, NEW rec, InsertUnit(u, rec) \/ UpdateUnit(u, rec),
           ~Done(db, u) \/ rec.state = "accepted"
    PROVE  \A w \in Units : Done(db, w) => Done(db', w)
  BY DEF InsertUnit, UpdateUnit, Done, TypeOK, Table

LEMMA RunUnitKeeps ==
    ASSUME TypeOK, NEW u \in Units, NEW rec, RunUnit(u, rec), ~Done(db, u)
    PROVE  \A w \in Units : Done(db, w) => Done(db', w)
<1>1. InsertUnit(u, rec) \/ UpdateUnit(u, rec)
  BY DEF RunUnit
<1> QED
  BY <1>1, WriteKeeps

LEMMA NextKeeps ==
    ASSUME Typed, Standing, [Next]_vars
    PROVE  \A w \in Units : Done(db, w) => Done(db', w)
<1>0. TypeOK /\ IsEngine(m) /\ 0 \in Units /\ DOMAIN db = Units
  BY DEF Typed, TypeOK, Units, Table
<1>1. CASE StateStep \/ Crash \/ UNCHANGED vars
  <2>1. db' = db
    BY <1>1 DEF StateStep, EnterLoop, BudgetCheck, DispatchFails, StartWork, InnerFails,
                SetReceiptReady, BeginReview, JudgeFails, AcceptRun, CloseRun, SetRework,
                Redispatch, OnlyRun, Crash, vars
  <2> QED
    BY <2>1 DEF Done
<1>2. CASE NextDagUnit /\ ReadyUnits(m.dags) # {}
  <2> DEFINE u == Min(ReadyUnits(m.dags))
  <2>1. u \in ReadyUnits(m.dags) /\ ReadyUnits(m.dags) \subseteq DOMAIN m.dags
    BY <1>0, <1>2, MinIsMember DEF ReadyUnits, IsEngine
  <2>2. RunUnit(u, Working(m.dags[u]))
    BY <1>2 DEF NextDagUnit
  <2> HIDE DEF u
  <2>3. u \in Units /\ ~Done(db, u)
    BY <1>0, <2>1 DEF ReadyUnits, IsEngine, Done, Standing, DagKnown
  <2> QED
    BY <1>0, <2>2, <2>3, RunUnitKeeps
<1>3. CASE ReuseUnit
  <2>1. /\ RunUnit(m.unit, Working(m.rec)) /\ m.unit \in Units
        /\ m.pc = "loop" /\ ~m.pending /\ m.dags = NoDag
    BY <1>3 DEF ReuseUnit, AtLoop, Typed, InHand, Standing, UnitOpen
  <2>2. ~Done(db, m.unit)
    BY <1>0, <2>1 DEF Standing, SingleOpen, Waiting, NoneDone
  <2> QED
    BY <1>0, <2>1, <2>2, RunUnitKeeps
<1>4. CASE Planned /\ ~Exhausted(row) /\ plan = NoPlan
  <2>1. \A w \in Units : ~Done(db, w)
    BY <1>0, <1>4 DEF Planned, Standing, SingleOpen, NoneDone
  <2> QED
    BY <2>1
<1>5. CASE SeedUnit
  <2>1. \A w \in Units : ~Done(db, w)
    BY <1>0, <1>5 DEF SeedUnit, Standing, SingleOpen, NoneDone
  <2> QED
    BY <2>1
<1>6. CASE \/ \E kind \in {"empty", "full"} : RecordReceipt(kind)
           \/ RecordVerdict /\ ~OverBudget
           \/ ReworkUnit /\ ~([m.rec EXCEPT !.rework = @ + 1, !.state = "queued"].rework > MaxRework)
  <2>1. m.pc \in {"receipt", "ruled", "apply"} /\ \E rec : UpdateUnit(m.unit, rec)
    BY <1>6 DEF RecordReceipt, RecordVerdict, ReworkUnit
  <2>2. m.unit \in Units /\ ~Done(db, m.unit)
    BY <2>1 DEF Typed, InHand, HasUnit, Standing, UnitOpen, Doing
  <2> QED
    BY <1>0, <2>1, <2>2, WriteKeeps
<1>7. CASE AcceptUnit
  <2>1. m.unit \in Units /\ ~Done(db, m.unit)
    BY <1>7 DEF AcceptUnit, Typed, InHand, HasUnit, Standing, UnitOpen, Doing
  <2>2. \E rec : UpdateUnit(m.unit, rec)
    BY <1>7 DEF AcceptUnit
  <2> QED
    BY <1>0, <2>1, <2>2, WriteKeeps
<1>8. CASE Resume
  <2> SUFFICES ASSUME NEW w \in Units, Done(db, w) PROVE Done(db', w)
    OBVIOUS
  <2>1. db'[w] = IF Source[w] # NoUnit THEN Source[w] ELSE db[w]
    BY <1>0, <1>8, ExistingIsSource DEF Resume
  <2>2. Done(Source, w)
    BY DEF Source, Standing, TablesLead, Done
  <2> QED
    BY <2>1, <2>2 DEF Done, NoUnit
<1>9. CASE /\ HeadStep \/ UnitStep
           /\ db' = db
  BY <1>9 DEF Done
<1>10. HeadStep => \/ NextDagUnit /\ ReadyUnits(m.dags) # {}
                   \/ ReuseUnit \/ SeedUnit
                   \/ Planned /\ ~Exhausted(row) /\ plan = NoPlan
                   \/ db' = db
  BY DEF HeadStep, InitEnvelope, TakePending, NextDagUnit, AskCommander, Planned,
         SeedEvent, OnlyRun
<1>11. UnitStep => \/ \E kind \in {"empty", "full"} : RecordReceipt(kind)
                   \/ RecordVerdict /\ ~OverBudget
                   \/ ReworkUnit /\ ~([m.rec EXCEPT !.rework = @ + 1, !.state = "queued"].rework > MaxRework)
                   \/ AcceptUnit
                   \/ db' = db
  BY DEF UnitStep, DispatchEvent, GoalIteration, GoalLoopOut, ReceiptEvent, OuterWorktree,
         Judge, RecordVerdict, VerdictEvent, ReworkUnit, OnlyRun
<1> QED
  BY <1>1, <1>2, <1>3, <1>4, <1>5, <1>6, <1>7, <1>8, <1>9, <1>10, <1>11, EngineSteps DEF Next

\* A unit whose accept is in work_units is never given another state, neither by
\* drive_factory nor by the replay of a resume, whatever the crashes.
THEOREM WorkStands == Spec => AcceptedWorkStands
<1>1. /\ Typed /\ WithinBudget /\ Standing /\ [Next]_vars
            => Typed' /\ WithinBudget' /\ Standing'
  BY NextTyped, NextBudget, NextStanding
<1>2. Typed /\ Standing /\ [Next]_vars
        => [\A u \in Units : db[u].state = "accepted" => db'[u].state = "accepted"]_vars
  BY NextKeeps DEF Done
<1> QED
  BY <1>1, <1>2, InitTyped, InitBudget, InitStanding, PTL DEF Spec, AcceptedWorkStands

-----------------------------------------------------------------------------
(* What the tables, the verdicts and the engine agree on *)

Midway == HasUnit \ {"accept_set", "rework_set", "redispatch"}

\* Units keep their rows, and outside of a unit's turn both tables have its state.
RowsAgree ==
    /\ m.pc # "off" => /\ m.unit # -1 => db[m.unit] # NoUnit
                       /\ \A w \in DOMAIN m.dags : db[w] # NoUnit
    /\ m.pc # "off" /\ HasEnvelope
          => \A w \in Units : \/ envelope[w] = NoUnit
                              \/ db[w].state = envelope[w].state
                              \/ w = m.unit /\ m.pc \in Midway
    /\ (m.pc \in Doing \/ (Waiting /\ ~Blocked)) /\ HasEnvelope
          => ~Done(envelope, m.unit) \/ (m.pc = "apply" /\ Decision = "accept")
    /\ m.pc = "apply" /\ Decision = "rework" /\ HasEnvelope
          => envelope[m.unit].state = "queued"
    /\ m.pc = "seed_event" => db[NextSeed] = Fresh("queued")
    /\ m.pc \in HasUnit \ {"dispatch_event"} /\ HasEnvelope => envelope[m.unit] # NoUnit

AcceptsNow(u) == m.pc \in {"verdict_event", "apply"} /\ m.unit = u /\ Decision = "accept"

\* An accept is on record, or it is being recorded, or a crash came before that
\* and left a run that no resume can review again.
Settled(u) ==
    \/ Done(Source, u)
    \/ row.state \in Terminal
    \/ row.state = "outer_reviewing" /\ (m.pc = "off" \/ Blocked \/ AcceptsNow(u))

VerdictsAgree ==
    /\ \A u \in Units : Done(db, u) => verdict[u] = "accept"
    /\ HasEnvelope => \A u \in Units : Done(envelope, u) => verdict[u] = "accept"
    /\ \A u \in DOMAIN m.dags : Done(m.dags, u) => verdict[u] = "accept"
    /\ m.pc = "accept_set" \/ AcceptsNow(m.unit) => verdict[m.unit] = "accept"
    /\ m.pc \in Reviewing \cup {"rework_set"} => ~Blocked
    /\ \A u \in Units : verdict[u] = "accept" => trees > 0 /\ Settled(u)

Count == IF HasEnvelope THEN envelope[0].rework ELSE db[0].rework
Ahead == IF m.pc = "apply" /\ HasEnvelope /\ Decision = "rework" THEN 1 ELSE 0

\* The reworks of the single unit; where it is an entry of dag_units as well,
\* after a resume, nothing is reviewed any more.
CountAgrees ==
    /\ m.pc # "off" /\ m.unit = 0 => m.rec.rework + Ahead = Count
    /\ 0 \in DOMAIN m.dags => Blocked /\ m.dags[0].rework = Count
    /\ m.pc \in {"ruled", "verdict_event", "apply"} /\ Decision = "rework"
          => m.rec.rework < MaxRework
    /\ Bare => db[0].rework = 0

\* Which units there are: the single one, or those of the DAG, or both when the
\* DAG came with a rework.
UnitsPlaced ==
    /\ trees = 0 /\ Source[0] # NoUnit => \A w \in Units \ {0} : Source[w] = NoUnit
    /\ m.pc # "off" /\ m.dags = NoDag => m.unit \in {-1, 0}
    /\ m.pc \in {"setup", "ready"} => m.unit = -1 /\ row.state = "contract_ready"
    /\ m.unit = -1 /\ m.pc \in {"setup", "ready", "loop", "planned"} /\ m.dags = NoDag
          => \A w \in Units : Source[w] = NoUnit
    /\ m.pc \in {"loop", "planned", "seed", "seed_event"} /\ ~m.reuse /\ ~m.pending
          => Source[0] = NoUnit \/ trees > 0
    /\ m.dags # NoDag => Source[0] = NoUnit \/ trees > 0
    /\ m.pc \in {"rework_set", "redispatch"} => trees > 0
    /\ m.pc # "off"
          => \A w \in Units \ {0} : \/ Source[w] = NoUnit
                                    \/ w \in DOMAIN m.dags
                                    \/ /\ m.pc = "seed_event" /\ w = NextSeed
                                       /\ ~HasEnvelope \/ Bare

Agreed == RowsAgree /\ VerdictsAgree /\ CountAgrees /\ UnitsPlaced

LEMMA SameRecord ==
    ASSUME UNCHANGED <<db, envelope>>
    PROVE  /\ Source' = Source /\ Count' = Count
           /\ HasEnvelope' <=> HasEnvelope
           /\ Bare' <=> Bare
  BY DEF Source, Count, HasEnvelope, Bare, Present

LEMMA GoneAgreed ==
    ASSUME Agreed, m' = Off, UNCHANGED <<db, envelope, trees, verdict>>,
           row'.state \in Terminal \/ row'.state = row.state
    PROVE  Agreed'
<1>1. /\ m'.pc = "off" /\ ~m'.pending /\ m'.unit = -1
      /\ m'.dags = NoDag /\ DOMAIN m'.dags = {}
  BY DEF Off, NoDag
<1>2. RowsAgree'
  BY <1>1 DEF RowsAgree, Doing, Waiting, HasUnit
<1>3. VerdictsAgree'
  <2>1. \A u \in Units : Settled(u) => Settled(u)'
    BY <1>1, SameRecord DEF Settled, Done
  <2> QED
    BY <1>1, <2>1, SameRecord DEF Agreed, VerdictsAgree, AcceptsNow, Done, Reviewing
<1>4. CountAgrees'
  BY <1>1, SameRecord DEF Agreed, CountAgrees
<1>5. UnitsPlaced'
  BY <1>1, SameRecord DEF Agreed, UnitsPlaced
<1> QED
  BY <1>2, <1>3, <1>4, <1>5 DEF Agreed

LEMMA MovedAgreed ==
    ASSUME Typed, Standing, Agreed, row.state \notin Terminal,
           NEW p \in PC, <<m.pc, p>> \in Moves,
           m'.pc = p, m'.unit = m.unit, m'.rec = m.rec, m'.dags = m.dags,
           m'.pending = m.pending, m'.reuse = m.reuse, m'.outer = m.outer,
           UNCHANGED <<db, envelope, trees, verdict>>,
           \/ row'.state \in Terminal \cup {row.state}
           \/ row.state # "outer_reviewing" \/ m.pc \in {"rework_set", "accept_set"},
           p = "ruled" /\ Decision' = "rework" => m.rec.rework < MaxRework
    PROVE  Agreed'
<1>1. /\ Source' = Source /\ Count' = Count
      /\ HasEnvelope' <=> HasEnvelope
      /\ Bare' <=> Bare
      /\ Blocked' <=> Blocked
  BY SameRecord DEF Blocked
<1> USE DEF Agreed, Moves
<1>2. RowsAgree'
  BY <1>1 DEF RowsAgree, Doing, Waiting, Done, Midway, HasUnit
<1>3. VerdictsAgree'
  <2>1. \A u \in Units : verdict[u] = "accept" => Settled(u)'
    <3> SUFFICES ASSUME NEW u \in Units, verdict[u] = "accept" PROVE Settled(u)'
      OBVIOUS
    <3>1. Settled(u) /\ ~AcceptsNow(u)
      BY DEF VerdictsAgree, AcceptsNow
    <3>2. CASE m.pc \in {"rework_set", "accept_set"}
      <4>1. ~Blocked
        BY <3>2 DEF VerdictsAgree, Reviewing
      <4>2. row.state = "outer_reviewing"
        BY <3>2 DEF Standing, UnitOpen, Reviewing
      <4>3. Done(Source, u)
        BY <3>1, <3>2, <4>1, <4>2 DEF Settled, Terminal
      <4> QED
        BY <1>1, <4>3 DEF Settled, Done
    <3>3. CASE m.pc \notin {"rework_set", "accept_set"} /\ m.pc # "off"
      BY <1>1, <3>1, <3>3 DEF Settled, Done
    <3> QED
      BY <3>2, <3>3
  <2> QED
    BY <1>1, <2>1 DEF VerdictsAgree, Done, AcceptsNow, Reviewing
<1>4. CountAgrees'
  <2>1. Ahead' = 0 /\ Ahead = 0
    BY DEF Ahead
  <2> QED
    BY <1>1, <2>1 DEF CountAgrees
<1>5. UnitsPlaced'
  <2>1. p = "loop" /\ m.pc # "ready" => trees > 0 /\ m.unit # -1
    <3> SUFFICES ASSUME p = "loop", m.pc # "ready" PROVE trees > 0 /\ m.unit # -1
      OBVIOUS
    <3>1. m.pc \in {"redispatch", "accept_set"}
      OBVIOUS
    <3>2. trees > 0
      BY <3>1 DEF UnitsPlaced, Standing, UnitOpen, Reviewing
    <3>3. m.unit \in Units
      BY <3>1 DEF Typed, InHand, HasUnit
    <3> QED
      BY <3>2, <3>3 DEF Units
  <2>2. m.pc = "rework_set" => trees > 0
    BY DEF UnitsPlaced
  <2>3. m.pc = "ready" => 0 \in Units /\ \A w \in Units : Source[w] = NoUnit
    BY DEF UnitsPlaced, Standing, BareEarly, Units
  <2> QED
    BY <1>1, <2>1, <2>2, <2>3 DEF UnitsPlaced
<1> QED
  BY <1>2, <1>3, <1>4, <1>5

LEMMA EndAgreed ==
    ASSUME TypeOK, Agreed, OnlyRun, NEW to \in Terminal, NEW next, SetState(to, next)
    PROVE  Agreed'
<1>1. m' = Off /\ row' \in {row, [row EXCEPT !.state = to]}
  BY DEF SetState
<1>2. row'.state \in Terminal \/ row'.state = row.state
  BY <1>1 DEF TypeOK
<1> QED
  BY <1>1, <1>2, GoneAgreed DEF OnlyRun

LEMMA SetStateAgreed ==
    ASSUME Typed, Standing, Agreed, row.state \notin Terminal, OnlyRun,
           NEW to \in RunStates, NEW p \in PC \ {"ruled"}, <<m.pc, p>> \in Moves,
           SetState(to, [m EXCEPT !.pc = p]),
           \/ CanTransition(row.state, to) /\ row.state = "outer_reviewing" => to = "outer_reviewing"
           \/ m.pc \in {"rework_set", "accept_set"}
    PROVE  Agreed'
<1>1. TypeOK /\ IsEngine(m)
  BY DEF Typed, TypeOK
<1>2. CASE ~CanTransition(row.state, to)
  <2>1. m' = Off /\ row' = row
    BY <1>2 DEF SetState
  <2> QED
    BY <2>1, GoneAgreed DEF OnlyRun
<1>3. CASE CanTransition(row.state, to) /\ to \notin Terminal
  <2>1. row' = [row EXCEPT !.state = to] /\ m' = [m EXCEPT !.pc = p]
    BY <1>3 DEF SetState
  <2>2. /\ m'.pc = p /\ m'.unit = m.unit /\ m'.rec = m.rec /\ m'.dags = m.dags
        /\ m'.pending = m.pending /\ m'.reuse = m.reuse /\ m'.outer = m.outer
    BY <1>1, <2>1 DEF IsEngine
  <2>3. row'.state = to
    BY <1>1, <2>1 DEF TypeOK
  <2> QED
    BY <1>3, <2>2, <2>3, MovedAgreed DEF OnlyRun
<1>4. CASE to \in Terminal
  BY <1>1, <1>4, EndAgreed
<1> QED
  BY <1>2, <1>3, <1>4

LEMMA StateStepsAgreed ==
    ASSUME Typed, WithinBudget, Standing, Agreed, StateStep PROVE Agreed'
<1>0. TypeOK
  BY DEF Typed
<1>1. m.pc # "off" => row.state \notin Terminal
  BY DEF WithinBudget
<1> USE DEF Moves, PC, RunStates, Terminal
<1>2. CASE EnterLoop
  <2>1. row.state = "contract_ready"
    BY <1>2 DEF EnterLoop, Agreed, UnitsPlaced
  <2> QED
    BY <1>1, <1>2, <2>1, SetStateAgreed DEF EnterLoop
<1>3. CASE BudgetCheck \/ DispatchFails \/ InnerFails \/ JudgeFails
  BY <1>0, <1>3, EndAgreed
     DEF BudgetCheck, DispatchFails, InnerFails, JudgeFails, FailBudget, FailRun
<1>4. CASE StartWork
  <2>1. m.pc = "work" /\ OnlyRun
    BY <1>4 DEF StartWork
  <2>2. CASE CanTransition(row.state, "inner_working")
    <3>1. row.state # "outer_reviewing"
      BY <2>2 DEF CanTransition, Arcs, Exits
    <3>2. SetState("inner_working", [m EXCEPT !.pc = "goal"])
      BY <1>4, <2>2 DEF StartWork
    <3> QED
      BY <1>1, <2>1, <3>1, <3>2, SetStateAgreed
  <2>3. CASE ~CanTransition(row.state, "inner_working")
    <3>1. row' = [row EXCEPT !.state = "failed"] /\ m' = Off
      BY <1>4, <2>3 DEF StartWork
    <3>2. row'.state \in Terminal
      BY <1>0, <3>1 DEF TypeOK
    <3> QED
      BY <2>1, <3>1, <3>2, GoneAgreed DEF OnlyRun
  <2> QED
    BY <2>2, <2>3
<1>5. CASE SetReceiptReady
  <2>1. CanTransition(row.state, "receipt_ready") => row.state # "outer_reviewing"
    BY DEF CanTransition, Arcs, Exits
  <2> QED
    BY <1>1, <1>5, <2>1, SetStateAgreed DEF SetReceiptReady
<1>6. CASE BeginReview
  <2>1. CASE FailBudget
    BY <1>0, <1>6, <2>1, EndAgreed DEF BeginReview, FailBudget
  <2>2. CASE SetState("outer_reviewing", [m EXCEPT !.pc = "outer"])
    BY <1>1, <1>6, <2>2, SetStateAgreed DEF BeginReview
  <2> QED
    BY <1>6, <2>1, <2>2 DEF BeginReview
<1>7. CASE AcceptRun
  <2>1. CASE Accepted(m.dags) # DOMAIN m.dags
    BY <1>1, <1>7, <2>1, SetStateAgreed DEF AcceptRun
  <2>2. CASE Accepted(m.dags) = DOMAIN m.dags
    BY <1>0, <1>7, <2>2, EndAgreed DEF AcceptRun
  <2> QED
    BY <2>1, <2>2
<1>8. CASE CloseRun
  <2>1. OnlyRun /\ \E to \in {"rejected", "escalate"} : SetState(to, Off)
    BY <1>8 DEF CloseRun
  <2> QED
    BY <1>0, <2>1, EndAgreed
<1>9. CASE SetRework
  BY <1>1, <1>9, SetStateAgreed DEF SetRework
<1>10. CASE Redispatch
  <2>1. m.pc = "redispatch" /\ row.state = "rework"
    BY <1>10 DEF Redispatch, Standing, UnitOpen
  <2> QED
    BY <1>1, <1>10, <2>1, SetStateAgreed DEF Redispatch
<1> QED
  BY <1>2, <1>3, <1>4, <1>5, <1>6, <1>7, <1>8, <1>9, <1>10 DEF StateStep

\* The unit taken up has a row and is open, and keeps its count.
LEMMA RunUnitAgreed ==
    ASSUME Typed, Standing, Agreed, m.pc \in {"loop", "planned"}, ~m.pending,
           NEW u \in Units, NEW rec \in UnitRec, RunUnit(u, rec),
           rec.state \in {"assigned", "implementing"}, ~Done(db, u),
           IF rec.state = "assigned"
           THEN u = 0 /\ m.unit = -1 /\ m.dags = NoDag /\ rec = Fresh("assigned")
           ELSE db[u] # NoUnit,
           u = 0 /\ rec.state # "assigned" => rec.rework = Count,
           IF m.dags = NoDag THEN u = 0 ELSE u \in DOMAIN m.dags
    PROVE  Agreed'
<1>0. TypeOK /\ IsEngine(m) /\ 0 \in Units /\ db \in Table
  BY DEF Typed, TypeOK, Units
<1>1. /\ m'.pc = "dispatch_event" /\ m'.unit = u /\ m'.rec = rec /\ m'.dags = m.dags
      /\ m'.pending = m.pending /\ m'.outer = m.outer
      /\ UNCHANGED <<row, envelope, trees, verdict>>
  BY <1>0 DEF RunUnit, IsEngine
<1>2. db' = [db EXCEPT ![u] = rec]
  BY DEF RunUnit, InsertUnit, UpdateUnit
<1>3. /\ DOMAIN db' = Units /\ db'[u] = rec /\ rec # NoUnit
      /\ \A w \in Units : w # u => db'[w] = db[w]
  BY <1>0, <1>2 DEF Table, NoUnit
<1>4. \A w \in Units : (Done(db', w) <=> Done(db, w))
  BY <1>3 DEF Done
<1>5. /\ HasEnvelope' <=> HasEnvelope
      /\ Bare' <=> Bare
      /\ Blocked' <=> Blocked
      /\ Source' = IF HasEnvelope /\ ~Bare THEN Source ELSE db'
      /\ \A w \in Units : (Done(Source', w) <=> Done(Source, w))
  BY <1>1, <1>4 DEF HasEnvelope, Bare, Present, Blocked, Source, Done
<1> USE DEF Agreed
<1>6. rec.state = "assigned" => (\A w \in Units : Source[w] = NoUnit) /\ rec.rework = 0
  BY DEF UnitsPlaced, Fresh
<1>7. u = 0 => rec.rework = Count
  <2> SUFFICES ASSUME u = 0, rec.state = "assigned" PROVE Count = 0
    BY <1>6
  <2>1. Bare => envelope[0] = NoUnit
    BY <1>0 DEF Bare, HasEnvelope, TypeOK, Table, Present
  <2>2. HasEnvelope => envelope[0] = NoUnit
    BY <1>0, <1>6, <2>1 DEF Source
  <2>3. ~HasEnvelope => db[0] = NoUnit
    BY <1>0, <1>6 DEF Source
  <2> QED
    BY <2>2, <2>3 DEF Count, NoUnit
<1>8. Count' = Count
  BY <1>0, <1>1, <1>3, <1>5, <1>7 DEF Count
<1>9. RowsAgree'
  <2>1. HasEnvelope => ~Done(envelope, u)
    BY <1>0 DEF RowsAgree, Done, Midway, HasUnit, NoUnit
  <2> QED
    BY <1>0, <1>1, <1>3, <1>5, <2>1 DEF RowsAgree, Midway, HasUnit, Done, IsEngine
<1>10. VerdictsAgree'
  <2>1. \A w \in Units : Settled(w) => Settled(w)'
    BY <1>1, <1>5 DEF Settled, AcceptsNow
  <2> QED
    BY <1>1, <1>4, <1>5, <2>1 DEF VerdictsAgree, AcceptsNow, Reviewing, Done
<1>11. CountAgrees'
  <2>1. Ahead' = 0 /\ rec.rework \in Nat
    BY <1>1 DEF Ahead, UnitRec
  <2>2. Bare' => db'[0].rework = 0
    <3> SUFFICES ASSUME Bare, u = 0 PROVE rec.rework = 0
      BY <1>0, <1>3, <1>5 DEF CountAgrees
    <3>1. Count = 0
      BY <1>0 DEF Bare, HasEnvelope, TypeOK, Table, Present, Count, NoUnit
    <3> QED
      BY <1>7, <3>1
  <2> QED
    BY <1>1, <1>5, <1>7, <1>8, <2>1, <2>2 DEF CountAgrees
<1>12. UnitsPlaced'
  <2>1. \A w \in Units : \/ w = u /\ rec.state = "assigned"
                         \/ Source'[w] = NoUnit <=> Source[w] = NoUnit
    BY <1>3, <1>5 DEF Source
  <2>2. m.dags # NoDag => u \in DOMAIN m.dags
    OBVIOUS
  <2> QED
    BY <1>0, <1>1, <1>6, <2>1, <2>2 DEF UnitsPlaced
<1> QED
  BY <1>9, <1>10, <1>11, <1>12

LEMMA SeedUnitAgreed == ASSUME Typed, Standing, Agreed, SeedUnit PROVE Agreed'
<1> DEFINE u == NextSeed
<1>0. TypeOK /\ IsEngine(m) /\ 0 \in Units /\ db \in Table /\ m.pc = "seed"
  BY DEF Typed, TypeOK, Units, SeedUnit
<1>1. u \notin DOMAIN m.dags /\ u \in Units \ {0}
  BY <1>0, NextSeedIsUnit
<1>2. /\ m'.pc = "seed_event" /\ m'.unit = m.unit /\ m'.rec = m.rec /\ m'.dags = m.dags
      /\ m'.pending = m.pending /\ m'.reuse = m.reuse /\ m'.outer = m.outer
      /\ UNCHANGED <<row, envelope, trees, verdict, plan>>
      /\ db' = [db EXCEPT ![u] = Fresh("queued")]
  BY <1>0 DEF SeedUnit, InsertUnit, IsEngine
<1>3. NextSeed' = u
  BY <1>2 DEF NextSeed
<1> HIDE DEF u
<1>4. /\ DOMAIN db' = Units /\ db'[u] # NoUnit /\ ~Done(db', u) /\ db'[u] = Fresh("queued")
      /\ \A w \in Units : w # u => db'[w] = db[w]
  BY <1>0, <1>1, <1>2 DEF Table, NoUnit, Fresh, Done
<1>5. \A w \in Units : ~Done(db, w) /\ ~Done(db', w)
  BY <1>0, <1>4 DEF Standing, SingleOpen, NoneDone, Done, Table
<1>6. /\ HasEnvelope' <=> HasEnvelope
      /\ Bare' <=> Bare
      /\ Blocked' <=> Blocked
      /\ Source' = IF HasEnvelope /\ ~Bare THEN Source ELSE db'
      /\ Source = IF HasEnvelope /\ ~Bare THEN envelope ELSE db
      /\ \A w \in Units : (Done(Source', w) <=> Done(Source, w))
      /\ \A w \in Units : w # u => (Source'[w] = NoUnit <=> Source[w] = NoUnit)
      /\ Source'[0] = Source[0] /\ Count' = Count
  BY <1>0, <1>1, <1>2, <1>4, <1>5 DEF HasEnvelope, Bare, Present, Blocked, Source, Done, Count
<1> USE DEF Agreed
<1>7. HasEnvelope => envelope[u] = NoUnit
  <2>1. Bare => envelope[u] = NoUnit
    BY <1>0, <1>1 DEF Bare, HasEnvelope, TypeOK, Table, Present
  <2> QED
    BY <1>0, <1>1, <1>6, <2>1 DEF UnitsPlaced
<1>8. RowsAgree'
  BY <1>0, <1>1, <1>2, <1>3, <1>4, <1>6, <1>7
     DEF RowsAgree, Doing, Waiting, Done, Midway, HasUnit, IsEngine
<1>9. VerdictsAgree'
  <2>1. \A w \in Units : Settled(w) => Settled(w)'
    BY <1>0, <1>2, <1>6 DEF Settled, AcceptsNow
  <2> QED
    BY <1>0, <1>2, <1>5, <1>6, <2>1 DEF VerdictsAgree, AcceptsNow, Reviewing, Done
<1>10. CountAgrees'
  <2>1. Ahead' = 0 /\ Ahead = 0
    BY <1>0, <1>2 DEF Ahead
  <2> QED
    BY <1>0, <1>1, <1>2, <1>4, <1>6, <2>1 DEF CountAgrees
<1>11. UnitsPlaced'
  <2>1. ~m.reuse /\ ~m.pending
    BY <1>0 DEF Standing, UnitOpen
  <2>2. Source[0] = NoUnit \/ trees > 0
    BY <1>0, <2>1 DEF UnitsPlaced
  <2> QED
    BY <1>0, <1>1, <1>2, <1>3, <1>6, <2>2 DEF UnitsPlaced, Typed, TypeOK
<1> QED
  BY <1>8, <1>9, <1>10, <1>11

LEMMA SeedEventAgreed == ASSUME Typed, Standing, Agreed, SeedEvent PROVE Agreed'
<1> DEFINE u == NextSeed
           seeded == DOMAIN m.dags \cup {u}
<1>0. TypeOK /\ IsEngine(m) /\ 0 \in Units /\ db \in Table /\ m.pc = "seed_event"
  BY DEF Typed, TypeOK, Units, SeedEvent
<1>1. u \in Units \ {0} /\ u \notin DOMAIN m.dags /\ seeded \subseteq Units \ {0}
  BY <1>0, NextSeedIsUnit, PlanUnits DEF Typed, InHand
<1>2. /\ m'.pc \in {"loop", "seed"} /\ m'.unit = m.unit /\ m'.rec = m.rec
      /\ m'.dags = [w \in seeded |-> Fresh("queued")]
      /\ m'.pending = m.pending /\ m'.reuse = m.reuse /\ m'.outer = m.outer
      /\ UNCHANGED <<row, db, trees, verdict, plan>>
      /\ Append(u, Fresh("queued"))
  BY <1>0 DEF SeedEvent, IsEngine
<1>3. ~m.reuse /\ ~m.pending /\ \A w \in Units : ~Done(db, w)
  BY <1>0 DEF Standing, UnitOpen, SingleOpen, NoneDone, Table
<1>4. DOMAIN m'.dags = seeded /\ \A w \in seeded : m'.dags[w] = Fresh("queued")
  BY <1>2
<1> HIDE DEF u
<1>5. Fresh("queued") # NoUnit /\ Fresh("queued").state = "queued"
  BY DEF Fresh, NoUnit
<1>6. HasEnvelope => /\ envelope' \in Table /\ envelope'[u] = Fresh("queued")
                     /\ DOMAIN envelope' = Units /\ DOMAIN envelope = Units
                     /\ \A w \in Units : w # u => envelope'[w] = envelope[w]
  BY <1>0, <1>1, <1>2, FreshIsUnit DEF Append, TypeOK, Table, HasEnvelope
<1>7. /\ ~HasEnvelope => envelope' = envelope
      /\ HasEnvelope' <=> HasEnvelope
  <2>1. DOMAIN NoEnvelope = {}
    BY DEF NoEnvelope
  <2> QED
    BY <1>0, <1>2, <1>6, <2>1 DEF HasEnvelope, Append
<1>8. /\ ~Bare'
      /\ Blocked' <=> Blocked
      /\ Bare => \A w \in Units : envelope[w] = NoUnit
  BY <1>0, <1>1, <1>2, <1>5, <1>6, <1>7 DEF Bare, Present, Blocked
<1> USE DEF Agreed
<1>9. HasEnvelope => envelope[u] = NoUnit
  <2>1. HasEnvelope /\ ~Bare => Source[u] = NoUnit
    BY <1>0, <1>1 DEF UnitsPlaced
  <2> QED
    BY <1>1, <1>8, <2>1 DEF Source
<1>10. /\ HasEnvelope => Source' = envelope'
       /\ ~HasEnvelope => Source' = db /\ Source = db
       /\ Bare => Source = db
       /\ HasEnvelope /\ ~Bare => Source = envelope
  BY <1>2, <1>7, <1>8 DEF Source
<1>11. \A w \in Units : (Done(Source', w) <=> Done(Source, w))
  BY <1>3, <1>5, <1>6, <1>8, <1>9, <1>10 DEF Done, NoUnit
<1>12. Count' = Count
  BY <1>0, <1>1, <1>2, <1>6, <1>7 DEF Count
<1>13. RowsAgree'
  <2>1. m.pc # "off" /\ u = NextSeed
    BY <1>0 DEF u
  <2>2. db[u] = Fresh("queued")
    BY <1>0, <2>1 DEF RowsAgree
  <2> QED
    BY <1>0, <1>1, <1>2, <1>3, <1>4, <1>5, <1>6, <1>7, <2>2
       DEF RowsAgree, Doing, Waiting, Midway, HasUnit
<1>14. VerdictsAgree'
  <2>1. \A w \in Units : Settled(w) => Settled(w)'
    BY <1>0, <1>2, <1>8, <1>11 DEF Settled, AcceptsNow
  <2>2. HasEnvelope => \A w \in Units : Done(envelope', w) => Done(envelope, w)
    BY <1>5, <1>6 DEF Done
  <2> QED
    BY <1>0, <1>1, <1>2, <1>3, <1>4, <1>5, <1>7, <1>8, <2>1, <2>2
       DEF VerdictsAgree, AcceptsNow, Reviewing, Done
<1>15. CountAgrees'
  <2>1. Ahead' = 0 /\ Ahead = 0
    BY <1>0, <1>2 DEF Ahead
  <2> QED
    BY <1>0, <1>1, <1>2, <1>4, <1>8, <1>12, <2>1 DEF CountAgrees
<1>16. UnitsPlaced'
  <2>1. Source[0] = NoUnit \/ trees > 0
    BY <1>0, <1>3 DEF UnitsPlaced
  <2>2. Source'[0] = NoUnit \/ trees > 0
    BY <1>0, <1>1, <1>6, <1>8, <1>10, <2>1
  <2>3. \A w \in Units \ {0} : Source'[w] = NoUnit \/ w \in seeded
    <3>1. u = NextSeed
      BY DEF u
    <3>2. CASE HasEnvelope
      BY <1>0, <1>1, <1>6, <1>8, <1>10, <3>1, <3>2 DEF UnitsPlaced
    <3>3. CASE ~HasEnvelope
      BY <1>0, <1>1, <1>10, <3>1, <3>3 DEF UnitsPlaced
    <3> QED
      BY <3>2, <3>3
  <2>4. m'.dags # NoDag
    BY <1>4 DEF NoDag
  <2> QED
    BY <1>0, <1>2, <1>3, <1>4, <2>2, <2>3, <2>4 DEF UnitsPlaced, Typed, TypeOK
<1> QED
  BY <1>13, <1>14, <1>15, <1>16

LEMMA HeadStepsAgreed ==
    ASSUME Typed, WithinBudget, Standing, Agreed, HeadStep PROVE Agreed'
<1>0. TypeOK /\ IsEngine(m) /\ db \in Table /\ 0 \in Units
  BY DEF Typed, TypeOK, Units
<1>1. m.pc # "off" => row.state \notin Terminal
  BY DEF WithinBudget
<1> USE DEF Agreed
<1>2. CASE InitEnvelope
  <2>1. /\ m.pc = "setup" /\ m'.pc = "ready" /\ m'.unit = m.unit /\ m'.rec = m.rec
        /\ m'.dags = m.dags /\ m'.pending = m.pending /\ m'.reuse = m.reuse
        /\ m'.outer = m.outer /\ UNCHANGED <<row, db, trees, verdict>>
        /\ envelope' = [w \in Units |-> NoUnit]
    BY <1>0, <1>2 DEF InitEnvelope, IsEngine
  <2>2. /\ m.unit = -1 /\ row.state = "contract_ready" /\ m.dags = NoDag /\ ~m.pending /\ ~m.reuse
        /\ \A w \in Units : db[w] = NoUnit /\ envelope'[w] = NoUnit /\ Source[w] = NoUnit
    BY <2>1 DEF Standing, BareEarly, UnitOpen, UnitsPlaced
  <2>3. /\ HasEnvelope' /\ Bare' /\ Source' = db /\ Count' = 0
        /\ DOMAIN m.dags = {} /\ Ahead' = 0 /\ (Blocked' <=> Blocked)
    <3>1. DOMAIN envelope' = Units /\ DOMAIN NoEnvelope = {} /\ NoUnit.rework = 0
      BY <2>1 DEF NoEnvelope, NoUnit
    <3> QED
      BY <1>0, <2>1, <2>2, <3>1
         DEF HasEnvelope, Bare, Present, Source, Count, Ahead, NoDag, Blocked
  <2>4. RowsAgree'
    BY <2>1, <2>2, <2>3 DEF RowsAgree, Doing, Waiting, HasUnit
  <2>5. VerdictsAgree'
    <3>1. \A w \in Units : verdict[w] # "accept"
      BY <2>1, <2>2 DEF VerdictsAgree, Settled, Done, NoUnit, Terminal
    <3> QED
      BY <2>1, <2>2, <2>3, <3>1
         DEF VerdictsAgree, Done, AcceptsNow, Reviewing, NoUnit
  <2>6. CountAgrees'
    BY <1>0, <2>1, <2>2, <2>3 DEF CountAgrees, NoUnit
  <2>7. UnitsPlaced'
    BY <1>0, <2>1, <2>2, <2>3 DEF UnitsPlaced
  <2> QED
    BY <2>4, <2>5, <2>6, <2>7
<1>3. CASE TakePending
  <2>1. /\ m.pc = "loop" /\ m'.pc = "turns" /\ m'.unit = m.unit /\ m'.rec = m.rec
        /\ m'.dags = m.dags /\ m.pending /\ ~m'.pending /\ m'.reuse = m.reuse
        /\ m'.outer = m.outer /\ UNCHANGED <<row, db, envelope, trees, verdict>>
    BY <1>0, <1>3 DEF TakePending, AtLoop, IsEngine
  <2>2. /\ Source' = Source /\ Count' = Count
        /\ HasEnvelope' <=> HasEnvelope
        /\ Bare' <=> Bare
        /\ Blocked' <=> Blocked
    BY <2>1, SameRecord DEF Blocked
  <2>3. RowsAgree'
    <3>1. HasEnvelope => envelope[m.unit] # NoUnit
      BY <2>1 DEF Standing, UnitOpen, NoUnit
    <3> QED
      BY <2>1, <2>2, <3>1 DEF RowsAgree, Doing, Waiting, Done, Midway, HasUnit
  <2>4. VerdictsAgree'
    <3>1. \A w \in Units : Settled(w) => Settled(w)'
      BY <2>1, <2>2 DEF Settled, AcceptsNow, Done
    <3> QED
      BY <2>1, <2>2, <3>1 DEF VerdictsAgree, Done, AcceptsNow, Reviewing
  <2>5. CountAgrees'
    <3>1. Ahead' = 0 /\ Ahead = 0
      BY <2>1 DEF Ahead
    <3> QED
      BY <2>1, <2>2, <3>1 DEF CountAgrees
  <2>6. UnitsPlaced'
    BY <2>1, <2>2 DEF UnitsPlaced
  <2> QED
    BY <2>3, <2>4, <2>5, <2>6
<1>4. CASE NextDagUnit
  <2>1. m.pc = "loop" /\ ~m.pending /\ m.dags # NoDag
    BY <1>4 DEF NextDagUnit, AtLoop
  <2>2. CASE ReadyUnits(m.dags) # {}
    <3> DEFINE u == Min(ReadyUnits(m.dags))
    <3>1. u \in ReadyUnits(m.dags) /\ ReadyUnits(m.dags) \subseteq DOMAIN m.dags
      BY <1>0, <2>2, MinIsMember DEF ReadyUnits, IsEngine
    <3>2. RunUnit(u, Working(m.dags[u]))
      BY <1>4, <2>2 DEF NextDagUnit
    <3> HIDE DEF u
    <3>3. u \in DOMAIN m.dags /\ u \in Units /\ m.dags[u] \in UnitRec /\ ~Done(m.dags, u)
      BY <1>0, <3>1 DEF ReadyUnits, IsEngine, Done
    <3>4. /\ Working(m.dags[u]) \in UnitRec /\ Working(m.dags[u]).state = "implementing"
          /\ Working(m.dags[u]).rework = m.dags[u].rework
      BY <3>3 DEF Working, UnitRec
    <3>5. ~Done(db, u) /\ db[u] # NoUnit
      BY <2>1, <3>3 DEF Standing, DagKnown, RowsAgree
    <3>6. u = 0 => m.dags[u].rework = Count
      BY <3>3 DEF CountAgrees
    <3> QED
      BY <2>1, <3>2, <3>3, <3>4, <3>5, <3>6, RunUnitAgreed
  <2>3. CASE ReadyUnits(m.dags) = {}
    BY <1>0, <1>4, <2>3, EndAgreed DEF NextDagUnit, FailRun, Terminal
  <2> QED
    BY <2>2, <2>3
<1>5. ASSUME m.pc \in {"loop", "planned"}, ~m.pending, m.dags = NoDag, m.unit # -1,
             NoneDone(db), RunUnit(m.unit, Working(m.rec))
      PROVE  Agreed'
  <2>1. m.unit = 0 /\ m.rec \in UnitRec /\ db[m.unit] # NoUnit
    BY <1>0, <1>5 DEF UnitsPlaced, RowsAgree, IsEngine
  <2>2. /\ Working(m.rec) \in UnitRec /\ Working(m.rec).state = "implementing"
        /\ Working(m.rec).rework = m.rec.rework
    BY <2>1 DEF Working, UnitRec
  <2>3. m.rec.rework = Count
    <3>1. Ahead = 0 /\ m.rec.rework \in Nat
      BY <1>5, <2>1 DEF Ahead, UnitRec
    <3> QED
      BY <1>5, <2>1, <3>1 DEF CountAgrees
  <2>4. ~Done(db, m.unit)
    BY <1>0, <1>5, <2>1 DEF NoneDone, Table
  <2> QED
    BY <1>0, <1>5, <2>1, <2>2, <2>3, <2>4, RunUnitAgreed
<1>6. CASE ReuseUnit
  <2>1. /\ m.pc = "loop" /\ ~m.pending /\ m.dags = NoDag /\ m.unit \in Units
        /\ RunUnit(m.unit, Working(m.rec)) /\ m.rec \in UnitRec
    BY <1>0, <1>6 DEF ReuseUnit, AtLoop, Standing, UnitOpen, Typed, InHand, IsEngine
  <2>2. NoneDone(db) /\ m.unit # -1
    BY <2>1 DEF Standing, SingleOpen, Waiting, Units
  <2> QED
    BY <1>5, <2>1, <2>2
<1>7. ASSUME NEW p \in DagPlans \cup {NoPlan}, NEW c \in Charges, AskCommander(p, c)
      PROVE  Agreed'
  <2>1. /\ m.pc = "loop" /\ m' = [m EXCEPT !.pc = "planned"] /\ m.dags = NoDag
        /\ ~m.pending /\ ~m.reuse /\ UNCHANGED <<db, envelope, trees, verdict>>
    BY <1>7 DEF AskCommander, Dispatching, AtLoop
  <2>2. /\ m'.pc = "planned" /\ m'.unit = m.unit /\ m'.rec = m.rec /\ m'.dags = m.dags
        /\ m'.pending = m.pending /\ m'.reuse = m.reuse /\ m'.outer = m.outer
    BY <1>0, <2>1 DEF IsEngine
  <2>3. row'.state = row.state
    BY <1>0, <1>7, ChargeIsTyped DEF AskCommander
  <2> QED
    BY <1>1, <2>1, <2>2, <2>3, MovedAgreed DEF Moves, PC
<1>8. CASE Planned
  <2>1. m.pc = "planned" /\ m.dags = NoDag /\ ~m.pending /\ NoneDone(db)
    BY <1>8 DEF Planned, Typed, InHand, Standing, UnitOpen, SingleOpen
  <2>2. CASE Exhausted(row)
    BY <1>0, <1>8, <2>2, EndAgreed DEF Planned, FailBudget, Terminal
  <2>3. CASE ~Exhausted(row) /\ plan # NoPlan
    <3>1. m' = [m EXCEPT !.pc = "seed"] /\ UNCHANGED <<row, db, envelope, trees, verdict>>
      BY <1>8, <2>3 DEF Planned
    <3>2. /\ m'.pc = "seed" /\ m'.unit = m.unit /\ m'.rec = m.rec /\ m'.dags = m.dags
          /\ m'.pending = m.pending /\ m'.reuse = m.reuse /\ m'.outer = m.outer
      BY <1>0, <3>1 DEF IsEngine
    <3> QED
      BY <1>1, <2>1, <3>1, <3>2, MovedAgreed DEF Moves, PC
  <2>4. CASE ~Exhausted(row) /\ plan = NoPlan /\ m.unit = -1
    <3>1. RunUnit(0, Fresh("assigned"))
      BY <1>8, <2>4 DEF Planned
    <3>2. Fresh("assigned") \in UnitRec /\ Fresh("assigned").state = "assigned"
      BY FreshIsUnit DEF Fresh
    <3>3. ~Done(db, 0)
      BY <1>0, <2>1 DEF NoneDone, Table
    <3> QED
      BY <1>0, <2>1, <2>4, <3>1, <3>2, <3>3, RunUnitAgreed
  <2>5. CASE ~Exhausted(row) /\ plan = NoPlan /\ m.unit # -1
    BY <1>5, <1>8, <2>1, <2>5 DEF Planned
  <2> QED
    BY <2>2, <2>3, <2>4, <2>5
<1> QED
  BY <1>2, <1>3, <1>4, <1>6, <1>7, <1>8, SeedUnitAgreed, SeedEventAgreed DEF HeadStep

LEMMA InUse ==
    ASSUME Typed, m.pc \in HasUnit
    PROVE  /\ TypeOK /\ IsEngine(m) /\ 0 \in Units /\ db \in Table
           /\ m.unit \in Units /\ m.unit # -1 /\ m.rec \in UnitRec /\ m.rec.rework \in Nat
<1>1. TypeOK /\ IsEngine(m) /\ db \in Table /\ m.unit \in Units
  BY DEF Typed, InHand, TypeOK
<1>2. m.rec \in UnitRec
  BY <1>1 DEF IsEngine
<1> QED
  BY <1>1, <1>2 DEF Units, UnitRec

\* In a review of open work no accept of the unit is on record yet.
LEMMA NotYetAccepted ==
    ASSUME Typed, WithinBudget, Standing, Agreed,
           m.pc \in {"judge", "ruled"} \/ (m.pc \in {"verdict_event", "apply"} /\ Decision # "accept")
    PROVE  verdict[m.unit] # "accept"
<1>1. m.unit \in Units /\ ~Done(db, m.unit) /\ ~Blocked
  BY DEF Typed, InHand, HasUnit, Standing, UnitOpen, Doing, Agreed, VerdictsAgree, Reviewing
<1>2. HasEnvelope => ~Done(envelope, m.unit)
  BY DEF Agreed, RowsAgree, Doing
<1>3. row.state \notin Terminal /\ ~AcceptsNow(m.unit)
  BY DEF WithinBudget, AcceptsNow
<1> QED
  BY <1>1, <1>2, <1>3 DEF Agreed, VerdictsAgree, Settled, Source

LEMMA UpdateAgreed ==
    ASSUME Typed, WithinBudget, Standing, Agreed,
           NEW rec \in UnitRec, UpdateUnit(m.unit, rec),
           rec.state \notin {"accepted", "none"},
           <<m.pc, m'.pc>> \in {<<"receipt", "receipt_event">>, <<"ruled", "verdict_event">>,
                               <<"apply", "rework_set">>},
           IF m.pc = "apply"
           THEN Decision = "rework" /\ rec.state = "queued" /\ rec.rework = m.rec.rework + 1
           ELSE rec.rework = m.rec.rework,
           verdict' = IF m.pc = "ruled" THEN [verdict EXCEPT ![m.unit] = Decision] ELSE verdict,
           m'.unit = m.unit, m'.rec = rec, m'.dags = m.dags, m'.pending = m.pending,
           m'.reuse = m.reuse, m'.outer = m.outer, m'.ruling = m.ruling,
           UNCHANGED <<row, envelope, trees>>
    PROVE  Agreed'
<1> DEFINE u == m.unit
<1>0. /\ TypeOK /\ IsEngine(m) /\ 0 \in Units /\ db \in Table /\ u \in Units /\ u # -1
      /\ m.rec.rework \in Nat
  BY InUse DEF HasUnit
<1>1. /\ ~Bare /\ ~m.pending /\ ~Done(db, u) /\ Decision' = Decision
      /\ m.pc # "receipt" => ~Blocked /\ trees > 0 /\ row.state = "outer_reviewing"
      /\ HasEnvelope => ~Done(envelope, u)
  BY DEF Standing, BareEarly, UnitOpen, HasUnit, Doing, Agreed, VerdictsAgree, RowsAgree,
         Reviewing, Decision
<1>2. /\ DOMAIN db' = Units /\ db'[u] = rec /\ db[u] # NoUnit /\ rec # NoUnit
      /\ \A w \in Units : w # u => db'[w] = db[w]
  BY <1>0 DEF UpdateUnit, Table, NoUnit, Agreed, RowsAgree
<1>3. \A w \in Units : (Done(db', w) <=> Done(db, w))
  BY <1>1, <1>2 DEF Done
<1>4. /\ HasEnvelope' <=> HasEnvelope
      /\ ~Bare'
      /\ Blocked' <=> Blocked
      /\ Source' = IF HasEnvelope THEN envelope ELSE db'
      /\ Source = IF HasEnvelope THEN envelope ELSE db
  BY <1>1 DEF Bare, HasEnvelope, Present, Source, Blocked
<1>5. m.pc \in {"ruled", "apply"} => verdict[u] # "accept"
  BY NotYetAccepted
<1> HIDE DEF u
<1> USE DEF Agreed
<1>6. RowsAgree'
  <2>1. m.pc = "apply" /\ HasEnvelope => envelope[u].state = "queued"
    BY DEF RowsAgree, u
  <2> QED
    BY <1>0, <1>1, <1>2, <1>4, <2>1 DEF RowsAgree, Doing, Waiting, Done, Midway, HasUnit, IsEngine, u
<1>7. VerdictsAgree'
  <2>1. \A w \in Units : w # u => (verdict'[w] = verdict[w] /\ ~AcceptsNow(w))
    BY DEF AcceptsNow, u
  <2>2. verdict \in [Units -> Decisions \cup {"none"}]
    BY <1>0 DEF TypeOK
  <2>3. ASSUME NEW w \in Units, verdict'[w] = "accept" PROVE trees' > 0 /\ Settled(w)'
    <3>1. CASE w = u /\ m.pc = "ruled"
      BY <1>1, <2>2, <2>3, <3>1 DEF Settled, AcceptsNow, u
    <3>2. CASE ~(w = u /\ m.pc = "ruled")
      <4>1. verdict[w] = "accept" /\ ~(w = u /\ m.pc = "apply")
        BY <1>5, <2>1, <2>3, <3>2
      <4>2. trees > 0 /\ Settled(w) /\ ~AcceptsNow(w)
        BY <2>1, <4>1, <3>2 DEF VerdictsAgree, AcceptsNow
      <4> QED
        BY <1>3, <1>4, <4>2 DEF Settled, Done
    <3> QED
      BY <3>1, <3>2
  <2>4. \A w \in Units : Done(db', w) => verdict'[w] = "accept"
    BY <1>1, <1>3, <2>1 DEF VerdictsAgree
  <2>5. HasEnvelope' => \A w \in Units : Done(envelope', w) => verdict'[w] = "accept"
    BY <1>1, <1>4, <2>1 DEF VerdictsAgree, Done
  <2>6. \A w \in DOMAIN m'.dags : Done(m'.dags, w) => verdict'[w] = "accept"
    BY <1>0, <1>5, <2>1 DEF VerdictsAgree, Done, IsEngine
  <2>7. m'.pc = "accept_set" \/ AcceptsNow(m.unit)' => verdict'[m'.unit] = "accept"
    BY <1>0, <1>1, <2>2 DEF AcceptsNow, u
  <2> QED
    BY <1>1, <1>4, <2>3, <2>4, <2>5, <2>6, <2>7 DEF VerdictsAgree, Reviewing, AcceptsNow
<1>8. CountAgrees'
  <2>1. /\ Ahead' = 0
        /\ Ahead = IF m.pc = "apply" /\ HasEnvelope THEN 1 ELSE 0
    BY DEF Ahead
  <2>2. u = 0 => rec.rework = Count'
    <3> SUFFICES ASSUME u = 0 PROVE rec.rework = Count'
      OBVIOUS
    <3>1. m.rec.rework + Ahead = Count
      BY DEF CountAgrees, u
    <3>2. CASE HasEnvelope
      BY <1>0, <1>4, <2>1, <3>1, <3>2 DEF Count
    <3>3. CASE ~HasEnvelope
      BY <1>2, <1>4, <3>3 DEF Count
    <3> QED
      BY <3>2, <3>3
  <2>3. u = 0 /\ m.pc = "receipt" => Count' = Count
    BY <1>0, <2>1, <2>2 DEF CountAgrees, u
  <2>4. u # 0 => Count' = Count
    BY <1>0, <1>2, <1>4 DEF Count
  <2>5. 0 \in DOMAIN m'.dags => Blocked' /\ m'.dags[0].rework = Count'
    BY <1>1, <1>4, <2>3, <2>4 DEF CountAgrees
  <2>6. rec.rework + Ahead' = rec.rework
    BY <2>1 DEF UnitRec
  <2> QED
    BY <1>1, <1>4, <2>2, <2>5, <2>6 DEF CountAgrees, u
<1>9. UnitsPlaced'
  <2>1. \A w \in Units : Source'[w] = NoUnit <=> Source[w] = NoUnit
    BY <1>2, <1>4
  <2> QED
    BY <1>0, <1>1, <2>1 DEF UnitsPlaced
<1> QED
  BY <1>6, <1>7, <1>8, <1>9

\* An event about the unit in hand goes into the envelope.
LEMMA AppendAgreed ==
    ASSUME Typed, WithinBudget, Standing, Agreed, NEW rec, Append(m.unit, rec),
           HasEnvelope => /\ rec \in UnitRec /\ rec.state # "none"
                          /\ rec.state = "accepted" => m.pc = "verdict_event" /\ Decision = "accept"
                          /\ m.pc = "verdict_event" /\ Decision = "rework"
                                => rec.state = "queued" /\ rec.rework = envelope[m.unit].rework + 1
                          /\ ~(m.pc = "verdict_event" /\ Decision = "rework")
                                => rec.rework = envelope[m.unit].rework,
           <<m.pc, m'.pc>> \in {<<"dispatch_event", "work">>, <<"receipt_event", "receipt_set">>,
                               <<"verdict_event", "apply">>},
           m'.unit = m.unit, m'.rec = m.rec, m'.dags = m.dags, m'.pending = m.pending,
           m'.reuse = m.reuse, m'.outer = m.outer, m'.ruling = m.ruling,
           UNCHANGED <<row, db, trees, verdict>>
    PROVE  Agreed'
<1> DEFINE u == m.unit
<1>0. /\ TypeOK /\ IsEngine(m) /\ 0 \in Units /\ db \in Table /\ u \in Units /\ u # -1
      /\ m.rec.rework \in Nat
  BY InUse DEF HasUnit
<1>1. /\ ~m.pending /\ ~m.reuse /\ ~Done(db, u) /\ Decision' = Decision
      /\ m.pc = "verdict_event" => ~Blocked /\ trees > 0
      /\ HasEnvelope => ~Done(envelope, u)
      /\ m.pc # "dispatch_event" => ~Bare
  BY DEF Standing, BareEarly, UnitOpen, HasUnit, Doing, Agreed, VerdictsAgree, RowsAgree,
         Reviewing, Decision
<1>2. HasEnvelope => /\ envelope' \in Table /\ envelope'[u] = rec /\ envelope \in Table
                     /\ DOMAIN envelope' = Units /\ DOMAIN envelope = Units
                     /\ \A w \in Units : w # u => envelope'[w] = envelope[w]
  BY <1>0 DEF Append, TypeOK, Table, HasEnvelope
<1>3. /\ ~HasEnvelope => envelope' = envelope
      /\ HasEnvelope' <=> HasEnvelope
      /\ HasEnvelope => rec # NoUnit
  <2>1. DOMAIN NoEnvelope = {} /\ NoUnit.state = "none"
    BY DEF NoEnvelope, NoUnit
  <2> QED
    BY <1>0, <1>2, <2>1 DEF HasEnvelope, Append
<1>4. /\ ~Bare'
      /\ Blocked' <=> Blocked
      /\ Bare => HasEnvelope /\ \A w \in Units : envelope[w] = NoUnit
  BY <1>0, <1>2, <1>3 DEF Bare, Present, Blocked
<1>5. /\ Source' = IF HasEnvelope THEN envelope' ELSE db
      /\ HasEnvelope /\ ~Bare => Source = envelope
      /\ ~HasEnvelope \/ Bare => Source = db
  BY <1>3, <1>4 DEF Source
<1> HIDE DEF u
<1> USE DEF Agreed
<1>6. RowsAgree'
  BY <1>0, <1>1, <1>2, <1>3, <1>4 DEF RowsAgree, Doing, Waiting, Done, Midway, HasUnit, u
<1>7. VerdictsAgree'
  <2>1. \A w \in Units : Settled(w) => Settled(w)'
    <3> SUFFICES ASSUME NEW w \in Units, Settled(w) PROVE Settled(w)'
      OBVIOUS
    <3>1. CASE Done(Source, w)
      <4>1. w # u
        BY <1>1, <3>1 DEF Source
      <4>2. HasEnvelope => Done(envelope, w)
        BY <1>5, <3>1 DEF Standing, TablesLead
      <4> QED
        BY <1>2, <1>5, <3>1, <4>1, <4>2 DEF Settled, Done
    <3>2. CASE ~Done(Source, w)
      BY <1>1, <1>4, <3>2 DEF Settled, AcceptsNow
    <3> QED
      BY <3>1, <3>2
  <2>2. HasEnvelope => \A w \in Units : Done(envelope', w) => verdict[w] = "accept"
    BY <1>2 DEF VerdictsAgree, Done, AcceptsNow, u
  <2> QED
    BY <1>1, <1>3, <1>4, <2>1, <2>2 DEF VerdictsAgree, Done, AcceptsNow, Reviewing
<1>8. CountAgrees'
  <2>1. Ahead = 0 /\ Ahead' = IF m.pc = "verdict_event" /\ HasEnvelope /\ Decision = "rework"
                              THEN 1 ELSE 0
    BY <1>1, <1>3 DEF Ahead
  <2>2. u # 0 \/ ~HasEnvelope => Count' = Count
    BY <1>0, <1>2, <1>3 DEF Count
  <2>3. u = 0 /\ HasEnvelope => Count' = Count + Ahead'
    <3> SUFFICES ASSUME u = 0, HasEnvelope PROVE Count' = Count + Ahead'
      OBVIOUS
    <3>1. Count' = rec.rework /\ Count = envelope[u].rework /\ envelope[u].rework \in Nat
      BY <1>0, <1>2, <1>3 DEF Count, Table, UnitRec
    <3> QED
      BY <2>1, <3>1 DEF u
  <2>4. u = 0 => m'.rec.rework + Ahead' = Count'
    BY <1>0, <2>1, <2>2, <2>3 DEF CountAgrees, u
  <2>5. 0 \in DOMAIN m.dags => Count' = Count
    <3>1. 0 \in DOMAIN m.dags => m.pc # "verdict_event" /\ Count \in Nat
      BY <1>0, <1>1, <1>2 DEF CountAgrees, Count, Table, UnitRec
    <3> QED
      BY <2>1, <2>2, <2>3, <3>1
  <2> QED
    BY <1>1, <1>4, <2>4, <2>5 DEF CountAgrees, u
<1>9. UnitsPlaced'
  <2>1. m.pc # "dispatch_event"
           => \A w \in Units : Source'[w] = NoUnit <=> Source[w] = NoUnit
    <3>1. m.pc # "dispatch_event" /\ HasEnvelope => envelope[u] # NoUnit
      BY DEF RowsAgree, HasUnit, u
    <3> QED
      BY <1>1, <1>2, <1>3, <1>5, <3>1
  <2>2. \A w \in Units \ {u} : Source'[w] # NoUnit => Source[w] # NoUnit
    BY <1>2, <1>4, <1>5
  <2>3. CASE m.pc # "dispatch_event"
    BY <1>0, <1>1, <2>1, <2>3 DEF UnitsPlaced
  <2>4. CASE m.pc = "dispatch_event" /\ m.dags # NoDag
    <3>1. u \in DOMAIN m.dags
      BY <2>4 DEF Standing, DagKnown, u
    <3>2. Source'[0] = NoUnit \/ trees > 0
      <4>1. u = 0 => trees > 0
        BY <1>0, <3>1 DEF CountAgrees, Blocked, IsEngine, TypeOK
      <4> QED
        BY <1>0, <2>2, <2>4, <4>1 DEF UnitsPlaced
    <3>3. \A w \in Units \ {0} : Source'[w] = NoUnit \/ w \in DOMAIN m.dags
      BY <2>2, <2>4, <3>1 DEF UnitsPlaced
    <3> QED
      BY <1>0, <2>4, <3>2, <3>3 DEF UnitsPlaced, TypeOK
  <2>5. CASE m.pc = "dispatch_event" /\ m.dags = NoDag
    <3>1. u = 0 /\ DOMAIN m.dags = {}
      BY <1>0, <2>5 DEF UnitsPlaced, NoDag, u
    <3>2. \A w \in Units \ {0} : Source'[w] = NoUnit
      BY <2>2, <2>5, <3>1 DEF UnitsPlaced
    <3> QED
      BY <1>0, <2>5, <3>1, <3>2 DEF UnitsPlaced
  <2> QED
    BY <2>3, <2>4, <2>5
<1> QED
  BY <1>6, <1>7, <1>8, <1>9

\* A review starts in a new worktree.
LEMMA OuterAgreed == ASSUME Typed, WithinBudget, Standing, Agreed, OuterWorktree PROVE Agreed'
<1>0. TypeOK /\ IsEngine(m) /\ m.pc = "outer" /\ m.outer \in Nat /\ trees \in Nat
  BY DEF Typed, TypeOK, IsEngine, OuterWorktree
<1>1. CASE m.outer + 1 > trees
  <2>1. m' = [m EXCEPT !.pc = "judge", !.outer = m.outer + 1] /\ trees' = m.outer + 1
    BY <1>1 DEF OuterWorktree
  <2>2. /\ m'.pc = "judge" /\ m'.unit = m.unit /\ m'.rec = m.rec /\ m'.dags = m.dags
        /\ m'.pending = m.pending /\ m'.reuse = m.reuse
        /\ UNCHANGED <<row, db, envelope, verdict>>
    BY <1>0, <2>1 DEF IsEngine, OuterWorktree
  <2>3. ~Blocked /\ ~Blocked' /\ trees' > 0
    BY <1>0, <1>1, <2>1 DEF Blocked
  <2>4. /\ Source' = Source /\ Count' = Count
        /\ HasEnvelope' <=> HasEnvelope
        /\ Bare' <=> Bare
    BY <2>2, SameRecord
  <2>5. ~m.pending /\ row.state \notin Terminal
    BY <1>0 DEF Standing, UnitOpen, WithinBudget
  <2> USE DEF Agreed
  <2>6. RowsAgree'
    BY <1>0, <2>2, <2>3, <2>4 DEF RowsAgree, Doing, Waiting, Done, Midway, HasUnit
  <2>7. VerdictsAgree'
    <3>1. \A w \in Units : Settled(w) => Settled(w)'
      BY <1>0, <2>2, <2>3, <2>4 DEF Settled, AcceptsNow, Done
    <3> QED
      BY <1>0, <2>2, <2>3, <2>4, <3>1 DEF VerdictsAgree, Done, AcceptsNow, Reviewing
  <2>8. CountAgrees'
    <3>1. Ahead' = 0 /\ Ahead = 0
      BY <1>0, <2>2 DEF Ahead
    <3> QED
      BY <1>0, <2>2, <2>3, <2>4, <3>1 DEF CountAgrees
  <2>9. UnitsPlaced'
    BY <1>0, <2>2, <2>3, <2>4 DEF UnitsPlaced
  <2> QED
    BY <2>6, <2>7, <2>8, <2>9
<1>2. CASE ~(m.outer + 1 > trees)
  BY <1>2, GoneAgreed DEF OuterWorktree
<1> QED
  BY <1>1, <1>2

\* The row follows the verdict and the envelope.
LEMMA AcceptAgreed == ASSUME Typed, WithinBudget, Standing, Agreed, AcceptUnit PROVE Agreed'
<1> DEFINE u   == m.unit
           rec == [m.rec EXCEPT !.state = "accepted"]
           d   == [w \in DOMAIN m.dags |-> IF w = u THEN rec ELSE m.dags[w]]
<1>0. /\ TypeOK /\ IsEngine(m) /\ 0 \in Units /\ db \in Table /\ u \in Units /\ u # -1
      /\ m.pc = "apply" /\ Decision = "accept"
  BY DEF Typed, InHand, HasUnit, TypeOK, Units, AcceptUnit
<1>1. /\ rec \in UnitRec /\ rec.state = "accepted" /\ rec.rework = m.rec.rework
      /\ rec # NoUnit /\ rec.rework \in Nat
  <2>1. m.rec \in UnitRec
    BY <1>0 DEF IsEngine
  <2> QED
    BY <2>1 DEF UnitRec, NoUnit
<1>2. /\ m' = [m EXCEPT !.pc = "accept_set", !.rec = rec, !.dags = d]
      /\ UpdateUnit(u, rec) /\ UNCHANGED <<row, envelope, trees, verdict>>
  BY DEF AcceptUnit
<1>3. DOMAIN d = DOMAIN m.dags /\ \A w \in DOMAIN d : Done(d, w) <=> Done(m.dags, w) \/ w = u
  BY <1>1 DEF Done
<1>4. d = NoDag <=> m.dags = NoDag
  BY <1>0, <1>3 DEF NoDag, IsEngine
<1> HIDE DEF rec, d
<1>5. /\ m'.pc = "accept_set" /\ m'.unit = u /\ m'.rec = rec /\ m'.dags = d
      /\ m'.pending = m.pending /\ m'.reuse = m.reuse /\ m'.outer = m.outer
  BY <1>0, <1>2 DEF IsEngine
<1>6. /\ ~Bare /\ ~m.pending /\ ~m.reuse /\ ~Blocked /\ trees > 0
      /\ row.state = "outer_reviewing" /\ (HasEnvelope => Done(envelope, u))
      /\ verdict[u] = "accept" /\ AcceptsNow(u)
  BY <1>0 DEF Standing, BareEarly, UnitOpen, HasUnit, Reviewing, Agreed, VerdictsAgree, AcceptsNow
<1>7. /\ DOMAIN db' = Units /\ db'[u] = rec /\ db[u] # NoUnit
      /\ \A w \in Units : w # u => db'[w] = db[w]
  BY <1>0, <1>2 DEF UpdateUnit, Table, Agreed, RowsAgree
<1>8. /\ HasEnvelope' <=> HasEnvelope
      /\ ~Bare'
      /\ ~Blocked'
      /\ Source' = IF HasEnvelope THEN envelope ELSE db'
      /\ Source = IF HasEnvelope THEN envelope ELSE db
  BY <1>2, <1>5, <1>6 DEF Bare, HasEnvelope, Present, Source, Blocked
<1> HIDE DEF u
<1> USE DEF Agreed
<1>9. RowsAgree'
  BY <1>0, <1>1, <1>2, <1>3, <1>5, <1>6, <1>7, <1>8
     DEF RowsAgree, Doing, Waiting, Done, Midway, HasUnit, IsEngine, u
<1>10. VerdictsAgree'
  <2>1. ASSUME NEW w \in Units, verdict[w] = "accept" PROVE Settled(w)'
    <3>1. CASE w = u
      BY <1>1, <1>6, <1>7, <1>8, <1>2, <3>1 DEF Settled, Done
    <3>2. CASE w # u
      <4>1. Settled(w) /\ ~AcceptsNow(w)
        BY <2>1, <3>2 DEF VerdictsAgree, AcceptsNow, u
      <4>2. Done(Source, w) \/ row.state \in Terminal
        BY <1>0, <1>6, <4>1 DEF Settled
      <4> QED
        BY <1>2, <1>7, <1>8, <3>2, <4>2 DEF Settled, Done
    <3> QED
      BY <3>1, <3>2
  <2>2. \A w \in Units : Done(db', w) => verdict[w] = "accept"
    BY <1>6, <1>7 DEF VerdictsAgree, Done
  <2>3. \A w \in DOMAIN d : Done(d, w) => verdict[w] = "accept"
    BY <1>3, <1>6 DEF VerdictsAgree
  <2> QED
    BY <1>2, <1>5, <1>6, <1>8, <2>1, <2>2, <2>3 DEF VerdictsAgree, Done, Reviewing, AcceptsNow
<1>11. CountAgrees'
  <2>1. Ahead' = 0 /\ Ahead = 0
    BY <1>0, <1>5 DEF Ahead
  <2>2. u = 0 => rec.rework = Count'
    <3> SUFFICES ASSUME u = 0 PROVE rec.rework = Count'
      OBVIOUS
    <3>1. HasEnvelope => Count' = Count
      BY <1>2, <1>8 DEF Count
    <3>2. ~HasEnvelope => Count' = db'[0].rework
      BY <1>8 DEF Count
    <3>3. rec.rework = Count
      BY <1>0, <1>1, <2>1 DEF CountAgrees, u
    <3> QED
      BY <1>7, <3>1, <3>2, <3>3
  <2>3. 0 \notin DOMAIN d
    BY <1>3, <1>6 DEF CountAgrees
  <2> QED
    BY <1>1, <1>5, <1>8, <2>1, <2>2, <2>3 DEF CountAgrees
<1>12. UnitsPlaced'
  <2>1. \A w \in Units : Source'[w] = NoUnit <=> Source[w] = NoUnit
    BY <1>1, <1>7, <1>8
  <2> QED
    BY <1>0, <1>2, <1>3, <1>4, <1>5, <1>6, <2>1 DEF UnitsPlaced, u
<1> QED
  BY <1>9, <1>10, <1>11, <1>12

\* A rework is decided below the limit only.
LEMMA ReworkIsLimited ==
    ASSUME NEW p \in Decisions, NEW g, g.rework \in Nat, EnforceDecision(p, g)[1] = "rework"
    PROVE  g.rework < MaxRework
<1>1. \A dn : Limited(dn, g)[1] = "rework" => g.rework < MaxRework
  BY MaxReworkType DEF Limited
<1> QED
  BY <1>1 DEF EnforceDecision

LEMMA UnitStepsAgreed ==
    ASSUME Typed, WithinBudget, Standing, Agreed, UnitStep PROVE Agreed'
<1>0. TypeOK /\ IsEngine(m) /\ m.rec \in UnitRec
  BY DEF Typed, TypeOK, IsEngine
<1>a. m.pc # "off" => row.state \notin Terminal
  BY DEF WithinBudget
<1>b. m.pc \in HasUnit => m.unit \in Units /\ (HasEnvelope => envelope[m.unit] \in UnitRec)
  BY <1>0 DEF Typed, InHand, HasEnvelope, TypeOK, Table
<1>1. CASE DispatchEvent
  <2> DEFINE rec == IF HasEnvelope /\ envelope[m.unit] # NoUnit
                    THEN Working(envelope[m.unit]) ELSE Fresh("implementing")
  <2>1. /\ m.pc = "dispatch_event" /\ m'.pc = "work" /\ m'.unit = m.unit /\ m'.rec = m.rec
        /\ m'.dags = m.dags /\ m'.pending = m.pending /\ m'.reuse = m.reuse
        /\ m'.outer = m.outer /\ m'.ruling = m.ruling
    BY <1>0, <1>1 DEF DispatchEvent, IsEngine
  <2>2. Append(m.unit, rec) /\ UNCHANGED <<row, db, trees, verdict>>
    BY <1>1 DEF DispatchEvent
  <2>3. HasEnvelope => /\ rec \in UnitRec /\ rec.state = "implementing"
                       /\ rec.rework = envelope[m.unit].rework
    BY <1>b, <2>1, FreshIsUnit, WorkingIsUnit DEF HasUnit, Fresh, Working, UnitRec, NoUnit
  <2> HIDE DEF rec
  <2> QED
    BY <2>1, <2>2, <2>3, AppendAgreed
<1>2. ASSUME NEW c \in Charges, GoalIteration(c) PROVE Agreed'
  <2>1. /\ m' \in {m, [m EXCEPT !.pc = "receipt"]} /\ m.pc = "goal"
        /\ UNCHANGED <<db, envelope, trees, verdict>>
    BY <1>2 DEF GoalIteration, OnlyRun
  <2>2. /\ m'.unit = m.unit /\ m'.rec = m.rec /\ m'.dags = m.dags
        /\ m'.pending = m.pending /\ m'.reuse = m.reuse /\ m'.outer = m.outer
        /\ m'.pc \in {"goal", "receipt"}
    BY <1>0, <2>1 DEF IsEngine
  <2>3. row'.state = row.state
    BY <1>0, <1>2, ChargeIsTyped DEF GoalIteration
  <2> QED
    BY <1>a, <2>1, <2>2, <2>3, MovedAgreed DEF Moves, PC
<1>3. CASE GoalLoopOut
  <2>1. /\ m' = [m EXCEPT !.pc = "receipt"] /\ m.pc = "goal" /\ row' = row
        /\ UNCHANGED <<db, envelope, trees, verdict>>
    BY <1>3 DEF GoalLoopOut, OnlyRun
  <2>2. /\ m'.unit = m.unit /\ m'.rec = m.rec /\ m'.dags = m.dags
        /\ m'.pending = m.pending /\ m'.reuse = m.reuse /\ m'.outer = m.outer
        /\ m'.pc = "receipt"
    BY <1>0, <2>1 DEF IsEngine
  <2> QED
    BY <1>a, <2>1, <2>2, MovedAgreed DEF Moves, PC
<1>4. ASSUME NEW kind \in {"empty", "full"}, RecordReceipt(kind) PROVE Agreed'
  <2> DEFINE rec == [m.rec EXCEPT !.state = "receipt_ready", !.receipt = kind]
  <2>1. rec \in UnitRec /\ rec.state = "receipt_ready" /\ rec.rework = m.rec.rework
    BY <1>0 DEF UnitRec
  <2>2. /\ m.pc = "receipt" /\ m' = [m EXCEPT !.pc = "receipt_event", !.rec = rec]
        /\ UpdateUnit(m.unit, rec) /\ UNCHANGED <<row, envelope, trees, verdict>>
    BY <1>4 DEF RecordReceipt
  <2> HIDE DEF rec
  <2>3. /\ m'.pc = "receipt_event" /\ m'.unit = m.unit /\ m'.rec = rec /\ m'.dags = m.dags
        /\ m'.pending = m.pending /\ m'.reuse = m.reuse /\ m'.outer = m.outer
        /\ m'.ruling = m.ruling
    BY <1>0, <2>2 DEF IsEngine
  <2> QED
    BY <2>1, <2>2, <2>3, UpdateAgreed
<1>5. CASE ReceiptEvent
  <2> DEFINE rec == [envelope[m.unit] EXCEPT !.state = "receipt_ready",
                                             !.receipt = m.rec.receipt]
  <2>1. /\ m.pc = "receipt_event" /\ m'.pc = "receipt_set" /\ m'.unit = m.unit /\ m'.rec = m.rec
        /\ m'.dags = m.dags /\ m'.pending = m.pending /\ m'.reuse = m.reuse
        /\ m'.outer = m.outer /\ m'.ruling = m.ruling
    BY <1>0, <1>5 DEF ReceiptEvent, IsEngine
  <2>2. Append(m.unit, rec) /\ UNCHANGED <<row, db, trees, verdict>>
    BY <1>5 DEF ReceiptEvent
  <2>3. HasEnvelope => /\ rec \in UnitRec /\ rec.state = "receipt_ready"
                       /\ rec.rework = envelope[m.unit].rework
    BY <1>0, <1>b, <2>1 DEF HasUnit, UnitRec
  <2> HIDE DEF rec
  <2> QED
    BY <2>1, <2>2, <2>3, AppendAgreed
<1>6. ASSUME NEW free \in FreeGates, NEW d \in Decisions, NEW c \in Charges, Judge(free, d, c)
      PROVE  Agreed'
  <2>1. /\ m.pc = "judge" /\ UNCHANGED <<db, envelope, trees, verdict>>
        /\ m' = [m EXCEPT !.pc = "ruled", !.ruling = EnforceDecision(d, GatesOf(free))]
    BY <1>6 DEF Judge, OnlyRun
  <2>2. /\ m'.unit = m.unit /\ m'.rec = m.rec /\ m'.dags = m.dags
        /\ m'.pending = m.pending /\ m'.reuse = m.reuse /\ m'.outer = m.outer
        /\ m'.pc = "ruled" /\ m'.ruling = EnforceDecision(d, GatesOf(free))
    BY <1>0, <2>1 DEF IsEngine
  <2>3. row'.state = row.state
    BY <1>0, <1>6, <2>1, ChargeIsTyped DEF Judge
  <2>4. Decision' = "rework" => m.rec.rework < MaxRework
    <3>1. GatesOf(free).rework = m.rec.rework /\ m.rec.rework \in Nat
      BY <1>0 DEF GatesOf, UnitRec
    <3>2. Decision' = EnforceDecision(d, GatesOf(free))[1]
      BY <2>2 DEF Decision
    <3> QED
      BY <3>1, <3>2, ReworkIsLimited
  <2> QED
    BY <1>a, <2>1, <2>2, <2>3, <2>4, MovedAgreed DEF Moves, PC
<1>7. CASE RecordVerdict
  <2>1. CASE OverBudget
    BY <1>0, <1>7, <2>1, EndAgreed DEF RecordVerdict, FailBudget, Terminal
  <2>2. CASE ~OverBudget
    <3>1. /\ m.pc = "ruled" /\ m' = [m EXCEPT !.pc = "verdict_event"]
          /\ UpdateUnit(m.unit, m.rec) /\ UNCHANGED <<row, envelope, trees>>
          /\ verdict' = [verdict EXCEPT ![m.unit] = Decision]
      BY <1>7, <2>2 DEF RecordVerdict
    <3>2. /\ m'.pc = "verdict_event" /\ m'.unit = m.unit /\ m'.rec = m.rec /\ m'.dags = m.dags
          /\ m'.pending = m.pending /\ m'.reuse = m.reuse /\ m'.outer = m.outer
          /\ m'.ruling = m.ruling
      BY <1>0, <3>1 DEF IsEngine
    <3>3. m.rec.state \notin {"accepted", "none"}
      BY <3>1 DEF Standing, UnitOpen, Doing, HasUnit
    <3> QED
      BY <1>0, <3>1, <3>2, <3>3, UpdateAgreed
  <2> QED
    BY <2>1, <2>2
<1>8. CASE VerdictEvent
  <2> DEFINE rec == Replayed(envelope[m.unit], Decision)
  <2>1. /\ m.pc = "verdict_event" /\ m'.pc = "apply" /\ m'.unit = m.unit /\ m'.rec = m.rec
        /\ m'.dags = m.dags /\ m'.pending = m.pending /\ m'.reuse = m.reuse
        /\ m'.outer = m.outer /\ m'.ruling = m.ruling
    BY <1>0, <1>8 DEF VerdictEvent, IsEngine
  <2>2. Append(m.unit, rec) /\ UNCHANGED <<row, db, trees, verdict>>
    BY <1>8 DEF VerdictEvent
  <2>3. HasEnvelope => /\ envelope[m.unit] \in UnitRec /\ m.unit \in Units
                       /\ envelope[m.unit].state # "none"
                       /\ envelope[m.unit].state # "accepted"
    BY <1>b, <2>1
       DEF HasUnit, Standing, UnitOpen, Receipted, TablesLead, NoUnit, Agreed, RowsAgree, Doing, Done
  <2>4. HasEnvelope => /\ rec \in UnitRec /\ rec.state # "none"
                       /\ rec.state = "accepted" => Decision = "accept"
                       /\ Decision = "rework" => /\ rec.state = "queued"
                                                 /\ rec.rework = envelope[m.unit].rework + 1
                       /\ Decision # "rework" => rec.rework = envelope[m.unit].rework
    BY <2>3, ReplayedIsUnit DEF Replayed, UnitRec
  <2> HIDE DEF rec
  <2> QED
    BY <2>1, <2>2, <2>4, AppendAgreed
<1>9. CASE ReworkUnit
  <2> DEFINE rec == [m.rec EXCEPT !.rework = @ + 1, !.state = "queued"]
  <2>1. rec \in UnitRec /\ rec.state = "queued" /\ rec.rework = m.rec.rework + 1
    BY <1>0, ReworkedIsUnit DEF UnitRec
  <2>2. CASE rec.rework > MaxRework
    BY <1>0, <1>9, <2>2, EndAgreed DEF ReworkUnit, Terminal
  <2>3. CASE ~(rec.rework > MaxRework)
    <3>1. /\ m.pc = "apply" /\ Decision = "rework"
          /\ m' = [m EXCEPT !.pc = "rework_set", !.rec = rec] /\ UpdateUnit(m.unit, rec)
          /\ UNCHANGED <<row, envelope, trees, verdict>>
      BY <1>9, <2>3 DEF ReworkUnit
    <3> HIDE DEF rec
    <3>2. /\ m'.pc = "rework_set" /\ m'.unit = m.unit /\ m'.rec = rec /\ m'.dags = m.dags
          /\ m'.pending = m.pending /\ m'.reuse = m.reuse /\ m'.outer = m.outer
          /\ m'.ruling = m.ruling
      BY <1>0, <3>1 DEF IsEngine
    <3> QED
      BY <2>1, <3>1, <3>2, UpdateAgreed
  <2> QED
    BY <2>2, <2>3
<1> QED
  BY <1>1, <1>2, <1>3, <1>4, <1>5, <1>6, <1>7, <1>8, <1>9, OuterAgreed, AcceptAgreed DEF UnitStep

LEMMA ResumeAgreed == ASSUME Typed, Standing, Agreed, Resume PROVE Agreed'
<1>0. /\ TypeOK /\ row.state \notin Terminal /\ 0 \in Units /\ Units \subseteq Nat
      /\ db \in Table /\ trees \in Nat
  BY DEF Typed, TypeOK, Resume, Units
<1>1. /\ m' = Resumed /\ db' = Healed /\ UNCHANGED <<envelope, trees, verdict>>
      /\ row'.state = row.state \/ row.state = "contract_ready"
  BY DEF Resume
<1>2. /\ Source \in Table
      /\ DOMAIN Existing = {w \in Units : Source[w] # NoUnit}
      /\ \A w \in DOMAIN Existing : Existing[w] = Source[w]
      /\ \A w \in Units : db'[w] = IF Source[w] # NoUnit THEN Source[w] ELSE db[w]
  BY <1>0, <1>1, ExistingIsSource
<1>3. /\ HasEnvelope /\ ~Bare => Source = envelope
      /\ ~HasEnvelope \/ Bare => Source = db /\ \A w \in Units : db'[w] = db[w]
  BY <1>2 DEF Source
<1>4. /\ m'.pc = "loop" /\ m'.outer = 0
      /\ m'.unit # -1 => m'.unit \in DOMAIN Existing /\ m'.rec = Source[m'.unit]
      /\ m'.unit = -1 => DOMAIN Existing = {}
      /\ m'.pending => m'.unit \in DOMAIN Existing
      /\ IF \E w \in DOMAIN Existing : w > 0
         THEN m'.dags = Existing /\ ~m'.reuse
         ELSE m'.dags = NoDag /\ (m'.reuse <=> m'.unit # -1 /\ ~m'.pending)
  BY <1>0, <1>1, <1>2, ResumedIsTyped DEF PendingUnits
<1>5. DOMAIN m'.dags \subseteq DOMAIN Existing /\ \A w \in DOMAIN m'.dags : m'.dags[w] = Source[w]
  <2>1. DOMAIN NoDag = {}
    BY DEF NoDag
  <2> QED
    BY <1>2, <1>4, <2>1
<1>6. /\ Bare' <=> Bare
      /\ HasEnvelope' <=> HasEnvelope
      /\ Blocked' <=> trees > 0
      /\ \A w \in Units : Source'[w] = Source[w]
      /\ Count' = Count
  BY <1>0, <1>1, <1>2, <1>3, <1>4 DEF Bare, HasEnvelope, Present, Source, Blocked, Count
<1>7. Bare => \A w \in Units : envelope[w] = NoUnit
  BY <1>0 DEF Bare, HasEnvelope, TypeOK, Table, Present
<1> USE DEF Agreed
<1>8. RowsAgree'
  <2>1. \A w \in DOMAIN Existing : w \in Units /\ db'[w] # NoUnit
    BY <1>2
  <2>2. HasEnvelope => \A w \in Units : envelope[w] = NoUnit \/ db'[w] = envelope[w]
    BY <1>2, <1>3, <1>7
  <2>3. m'.pending /\ ~Blocked' /\ HasEnvelope => ~Done(envelope, m'.unit)
    <3>1. ~Blocked' => NoneDone(envelope)
      BY <1>0, <1>6 DEF Standing, TablesLead
    <3>2. HasEnvelope => DOMAIN envelope = Units
      BY <1>0 DEF HasEnvelope, TypeOK, Table
    <3> QED
      BY <1>4, <2>1, <3>1, <3>2 DEF NoneDone
  <2> QED
    BY <1>1, <1>4, <1>5, <1>6, <2>1, <2>2, <2>3 DEF RowsAgree, Doing, Waiting, HasUnit, Done
<1>9. VerdictsAgree'
  <2>1. \A w \in Units : Done(Source, w) => verdict[w] = "accept"
    BY DEF VerdictsAgree, Source
  <2>2. \A w \in Units : Done(db', w) => verdict[w] = "accept"
    BY <1>2, <2>1 DEF VerdictsAgree, Done
  <2>3. \A w \in DOMAIN m'.dags : Done(m'.dags, w) => verdict[w] = "accept"
    BY <1>2, <1>5, <2>1 DEF Done
  <2>4. ASSUME NEW w \in Units, verdict[w] = "accept" PROVE trees > 0 /\ Settled(w)'
    BY <1>0, <1>1, <1>6, <2>4 DEF VerdictsAgree, Settled, Done
  <2> QED
    BY <1>1, <1>4, <1>6, <2>2, <2>3, <2>4 DEF VerdictsAgree, Done, Reviewing, AcceptsNow
<1>10. 0 \in DOMAIN Existing => Source[0].rework = Count
  <2>1. Bare => Count = 0 /\ Source[0].rework = 0
    BY <1>0, <1>3, <1>7 DEF CountAgrees, Count, Bare, NoUnit
  <2> QED
    BY <1>3, <2>1 DEF Count
<1>11. (\E w \in DOMAIN Existing : w > 0) => Source[0] = NoUnit \/ trees > 0
  <2> SUFFICES ASSUME NEW w \in DOMAIN Existing, w > 0, Source[0] # NoUnit, trees = 0 PROVE FALSE
    BY <1>0
  <2>1. w \in Units \ {0} /\ Source[w] # NoUnit
    BY <1>0, <1>2
  <2> QED
    BY <2>1 DEF UnitsPlaced
<1>12. CountAgrees'
  <2>1. Ahead' = 0
    BY <1>4 DEF Ahead
  <2>2. m'.unit = 0 => m'.rec.rework = Count' /\ m'.rec.rework \in Nat
    BY <1>2, <1>4, <1>6, <1>10 DEF Table, UnitRec
  <2>3. 0 \in DOMAIN m'.dags => Blocked' /\ m'.dags[0].rework = Count'
    <3> SUFFICES ASSUME 0 \in DOMAIN m'.dags PROVE Blocked' /\ m'.dags[0].rework = Count'
      OBVIOUS
    <3>1. \E w \in DOMAIN Existing : w > 0
      BY <1>4 DEF NoDag
    <3> QED
      BY <1>2, <1>5, <1>6, <1>10, <1>11, <3>1
  <2> QED
    BY <1>0, <1>3, <1>4, <1>6, <2>1, <2>2, <2>3 DEF CountAgrees
<1>13. UnitsPlaced'
  <2>1. m'.dags # NoDag => \E w \in DOMAIN Existing : w > 0
    BY <1>4
  <2>2. CASE \E w \in DOMAIN Existing : w > 0
    <3>1. m'.dags = Existing /\ m'.dags # NoDag
      BY <1>4, <2>2 DEF NoDag
    <3>2. Source'[0] = NoUnit \/ trees' > 0
      BY <1>0, <1>1, <1>6, <1>11, <2>2
    <3>3. \A w \in Units \ {0} : Source'[w] = NoUnit \/ w \in DOMAIN m'.dags
      BY <1>2, <1>6, <3>1
    <3> QED
      BY <1>0, <1>1, <1>4, <3>1, <3>2, <3>3 DEF UnitsPlaced
  <2>3. CASE ~\E w \in DOMAIN Existing : w > 0
    <3>1. m'.unit \in {-1, 0}
      <4>1. \A w \in DOMAIN Existing : w = 0
        <5>1. \A w \in DOMAIN Existing : w \in Nat /\ ~(w > 0)
          BY <1>0, <1>2, <2>3
        <5> QED
          BY <5>1
      <4> QED
        BY <1>4, <4>1
    <3>2. \A w \in Units \ {0} : Source'[w] = NoUnit
      <4>1. \A w \in Units : Source'[w] = Source[w]
        BY <1>6
      <4>2. ASSUME NEW w \in Units \ {0} PROVE Source[w] = NoUnit
        <5> HIDE DEF Agreed
        <5>1. w \in Nat /\ w # 0
          BY <1>0
        <5>2. w > 0
          BY <5>1
        <5>3. w \notin DOMAIN Existing
          BY <2>3, <5>2
        <5>4. w \in Units
          OBVIOUS
        <5> QED
          BY <1>2, <5>3, <5>4
      <4> QED
        BY <4>1, <4>2
    <3>3. m'.unit = -1 => Source'[0] = NoUnit
      BY <1>0, <1>2, <1>4, <1>6
    <3>4. m'.dags = NoDag /\ (m'.reuse <=> m'.unit # -1 /\ ~m'.pending)
      BY <1>4, <2>3
    <3> QED
      BY <1>0, <1>4, <3>1, <3>2, <3>3, <3>4 DEF UnitsPlaced
  <2> QED
    BY <2>2, <2>3
<1> QED
  BY <1>8, <1>9, <1>12, <1>13

LEMMA InitAgreed == Init => Agreed
<1> SUFFICES ASSUME Init PROVE Agreed
  OBVIOUS
<1>1. /\ m.pc = "setup" /\ m.unit = -1 /\ m.dags = NoDag /\ DOMAIN m.dags = {} /\ ~m.pending
      /\ row.state = "contract_ready"
      /\ \A w \in Units : db[w] = NoUnit /\ verdict[w] = "none"
      /\ ~HasEnvelope /\ Source = db
  BY DEF Init, Off, HasEnvelope, Source, NoDag
<1>2. RowsAgree
  BY <1>1 DEF RowsAgree, Doing, Waiting, HasUnit
<1>3. VerdictsAgree
  BY <1>1 DEF VerdictsAgree, Done, AcceptsNow, Reviewing, NoUnit
<1>4. CountAgrees
  BY <1>1 DEF CountAgrees, Bare
<1>5. UnitsPlaced
  BY <1>1 DEF UnitsPlaced
<1> QED
  BY <1>2, <1>3, <1>4, <1>5 DEF Agreed

LEMMA NextAgreed == ASSUME Typed, WithinBudget, Standing, Agreed, [Next]_vars PROVE Agreed'
<1>1. CASE Engine
  BY <1>1, EngineSteps, StateStepsAgreed, HeadStepsAgreed, UnitStepsAgreed
<1>2. CASE Resume
  BY <1>2, ResumeAgreed
<1>3. CASE Crash
  BY <1>3, GoneAgreed DEF Crash, Typed
<1>4. CASE UNCHANGED vars
  <2>1. UNCHANGED <<row, db, verdict, envelope, trees, plan, m>>
    BY <1>4 DEF vars
  <2>2. /\ Source' = Source /\ Count' = Count
        /\ HasEnvelope' <=> HasEnvelope
        /\ Bare' <=> Bare
        /\ Blocked' <=> Blocked
    BY <2>1, SameRecord DEF Blocked
  <2>3. NextSeed' = NextSeed /\ Decision' = Decision /\ Ahead' = Ahead
    BY <2>1, <2>2 DEF NextSeed, Decision, Ahead
  <2>4. RowsAgree' /\ CountAgrees' /\ UnitsPlaced'
    BY <2>1, <2>2, <2>3 DEF Agreed, RowsAgree, CountAgrees, UnitsPlaced, Done, Waiting
  <2>5. VerdictsAgree'
    BY <2>1, <2>2, <2>3 DEF Agreed, VerdictsAgree, Settled, Done, AcceptsNow
  <2> QED
    BY <2>4, <2>5 DEF Agreed
<1> QED
  BY <1>1, <1>2, <1>3, <1>4 DEF Next

\* At the head of the loop every unit of the envelope has the same state in
\* work_units, also after a resume of whatever a crash left behind.
THEOREM TablesStayInStep == Spec => []TablesAgree
<1>1. Typed /\ Agreed => TablesAgree
  <2> SUFFICES ASSUME Typed, Agreed, m.pc = "loop", HasEnvelope,
                      NEW u \in Present(envelope)
               PROVE  db[u].state = envelope[u].state
    BY DEF TablesAgree
  <2>1. u \in Units /\ envelope[u] # NoUnit
    BY DEF Present, HasEnvelope, Typed, TypeOK, Table
  <2> QED
    BY <2>1 DEF Agreed, RowsAgree, Midway, HasUnit
<1>2. /\ Typed /\ WithinBudget /\ Standing /\ Agreed /\ [Next]_vars
            => Typed' /\ WithinBudget' /\ Standing' /\ Agreed'
  BY NextTyped, NextBudget, NextStanding, NextAgreed
<1> QED
  BY <1>1, <1>2, InitTyped, InitBudget, InitStanding, InitAgreed, PTL DEF Spec

-----------------------------------------------------------------------------
(* The run keeps the promise *)

Status == IF row.state \in Terminal THEN row.state ELSE "open"
Judged == {u \in Units : verdict[u] = "accept"}

Kept == [Promise!Next]_(Promise!vars)

LEMMA KnownUnits ==
    ASSUME TypeOK
    PROVE  /\ Known \subseteq Units
           /\ Known = IF \E w \in Units \ {0} : Source[w] # NoUnit
                      THEN {w \in Units \ {0} : Source[w] # NoUnit}
                      ELSE {w \in Units : Source[w] # NoUnit}
<1>1. DOMAIN Existing = {w \in Units : Source[w] # NoUnit}
  BY ExistingIsSource
<1>2. \A w \in Units : w > 0 <=> w \in Units \ {0}
  BY DEF Units
<1>3. {w \in DOMAIN Existing : w > 0} = {w \in Units \ {0} : Source[w] # NoUnit}
  BY <1>1, <1>2
<1> QED
  BY <1>1, <1>3 DEF Known

LEMMA KnownTyped == TypeOK => Known \in SUBSET Units
  BY KnownUnits

\* Nothing that the promise is about changes.
LEMMA StillKept ==
    ASSUME UNCHANGED <<row, db, envelope, verdict>> PROVE Kept
<1>1. Known' = Known /\ Count' = Count
  BY SameRecord DEF Known, Existing, HasEnvelope, Present, Only
<1> QED
  BY <1>1 DEF Kept, Promise!vars, Count

\* The units on record may change as long as the run goes on.
LEMMA ReplanKept ==
    ASSUME TypeOK', row.state \notin Terminal, row'.state \notin Terminal,
           verdict' = verdict, Count' = Count
    PROVE  Kept
<1>1. (Known \in SUBSET Units)'
  BY KnownTyped, PTL
<1> QED
  BY <1>1 DEF Kept, Promise!Next, Promise!Replan, Count

LEMMA StopKept ==
    ASSUME row.state \notin Terminal, row'.state \in Terminal \ {"accepted"},
           UNCHANGED <<db, envelope, verdict>>
    PROVE  Kept
<1>1. Known' = Known /\ Count' = Count
  BY SameRecord DEF Known, Existing, HasEnvelope, Present, Only
<1> QED
  BY <1>1 DEF Kept, Promise!Next, Promise!Stop, Promise!Endings, Count, Terminal

LEMMA AcceptKept ==
    ASSUME row.state \notin Terminal, row'.state = "accepted",
           UNCHANGED <<db, envelope, verdict>>, Known # {}, Known \subseteq Judged
    PROVE  Kept
<1>1. Known' = Known /\ Count' = Count
  BY SameRecord DEF Known, Existing, HasEnvelope, Present, Only
<1> QED
  BY <1>1 DEF Kept, Promise!Next, Promise!Accept, Count, Terminal, Judged

LEMMA KnownBySource ==
    TypeOK => Known = IF \E w \in Units \ {0} : Source[w] # NoUnit
                      THEN {w \in Units \ {0} : Source[w] # NoUnit}
                      ELSE {w \in Units : Source[w] # NoUnit}
  BY KnownUnits

LEMMA KnownSame ==
    ASSUME TypeOK, TypeOK', \A w \in Units : Source'[w] = NoUnit <=> Source[w] = NoUnit
    PROVE  Known' = Known
<1>1. (Known = IF \E w \in Units \ {0} : Source[w] # NoUnit
               THEN {w \in Units \ {0} : Source[w] # NoUnit}
               ELSE {w \in Units : Source[w] # NoUnit})'
  BY KnownBySource, PTL
<1>2. Known = IF \E w \in Units \ {0} : Source[w] # NoUnit
              THEN {w \in Units \ {0} : Source[w] # NoUnit}
              ELSE {w \in Units : Source[w] # NoUnit}
  BY KnownBySource
<1>3. {w \in Units : Source'[w] # NoUnit} = {w \in Units : Source[w] # NoUnit}
  OBVIOUS
<1>4. {w \in Units \ {0} : Source'[w] # NoUnit} = {w \in Units \ {0} : Source[w] # NoUnit}
  OBVIOUS
<1> QED
  BY <1>1, <1>2, <1>3, <1>4

\* The count of reworks stays with a write that does not count one.
LEMMA WriteCount ==
    ASSUME TypeOK, NEW u \in Units, NEW rec, InsertUnit(u, rec) \/ UpdateUnit(u, rec),
           envelope' = envelope, u = 0 /\ ~HasEnvelope => rec.rework = Count
    PROVE  Count' = Count
<1>1. HasEnvelope' <=> HasEnvelope
  BY DEF HasEnvelope
<1>2. db'[0] = db[0] \/ (u = 0 /\ db'[0] = rec)
  BY DEF TypeOK, Table, InsertUnit, UpdateUnit, Units
<1> QED
  BY <1>1, <1>2 DEF Count

LEMMA AppendCount ==
    ASSUME TypeOK, NEW u \in Units, NEW rec, Append(u, rec), db' = db,
           u = 0 /\ HasEnvelope => rec.rework = Count
    PROVE  Count' = Count
<1>1. CASE HasEnvelope
  <2>1. envelope' = [envelope EXCEPT ![u] = rec] /\ envelope \in Table
    BY <1>1 DEF Append, HasEnvelope, TypeOK
  <2>2. envelope'[0] = envelope[0] \/ (u = 0 /\ envelope'[0] = rec)
    BY <2>1 DEF Table, Units
  <2>3. HasEnvelope'
    <3>1. DOMAIN envelope' = Units /\ DOMAIN NoEnvelope = {} /\ u \in Units
      BY <2>1 DEF Table, NoEnvelope
    <3> QED
      BY <3>1 DEF HasEnvelope
  <2> QED
    BY <1>1, <2>2, <2>3 DEF Count
<1>2. CASE ~HasEnvelope
  BY <1>2 DEF Append, HasEnvelope, Count
<1> QED
  BY <1>1, <1>2

LEMMA NoUnitNoCount ==
    ASSUME TypeOK, Source[0] = NoUnit PROVE Count = 0
<1>1. Bare => envelope[0] = NoUnit
  BY DEF Bare, HasEnvelope, TypeOK, Table, Present, Units
<1> QED
  BY <1>1 DEF Source, Bare, Count, NoUnit

LEMMA SetStateKept ==
    ASSUME TypeOK, TypeOK', row.state \notin Terminal, OnlyRun,
           NEW to \in RunStates \ {"accepted"}, NEW next, SetState(to, next)
    PROVE  Kept
<1>1. row' = row \/ row'.state = to
  BY DEF SetState, TypeOK
<1>2. UNCHANGED <<db, envelope, verdict>> /\ Count' = Count
  BY SameRecord DEF OnlyRun
<1> QED
  BY <1>1, <1>2, StillKept, StopKept, ReplanKept

LEMMA AcceptMoveKept ==
    ASSUME TypeOK, row.state \notin Terminal, OnlyRun, SetState("accepted", Off),
           Known # {}, Known \subseteq Judged
    PROVE  Kept
<1>1. row' = row \/ row'.state = "accepted"
  BY DEF SetState, TypeOK
<1>2. UNCHANGED <<db, envelope, verdict>>
  BY DEF OnlyRun
<1> QED
  BY <1>1, <1>2, StillKept, AcceptKept

\* With every unit in memory accepted, every unit on record has its accept.
LEMMA AllAccepted ==
    ASSUME Typed, Standing, Agreed, Accepted(m.dags) = DOMAIN m.dags,
           m.pc = "accept_set" \/ (m.pc = "loop" /\ m.dags # NoDag)
    PROVE  Known # {} /\ Known \subseteq Judged
<1>0. TypeOK /\ IsEngine(m) /\ 0 \in Units
  BY DEF Typed, TypeOK, Units
<1>1. Known = IF \E w \in Units \ {0} : Source[w] # NoUnit
              THEN {w \in Units \ {0} : Source[w] # NoUnit}
              ELSE {w \in Units : Source[w] # NoUnit}
  BY <1>0, KnownBySource
<1>2. \A w \in Units \ {0} : Source[w] = NoUnit \/ w \in DOMAIN m.dags
  BY DEF Agreed, UnitsPlaced
<1>3. \A w \in DOMAIN m.dags : w \in Units /\ verdict[w] = "accept"
  BY <1>0 DEF Accepted, Agreed, VerdictsAgree, Done, IsEngine
<1>4. CASE m.dags = NoDag
  <2>1. m.pc = "accept_set" /\ m.unit \in {-1, 0} /\ DOMAIN m.dags = {}
    BY <1>4 DEF Agreed, UnitsPlaced, NoDag
  <2>2. m.unit = 0 /\ ~Bare
    BY <2>1 DEF Typed, InHand, HasUnit, Units, Standing, BareEarly
  <2>3. Source[0] # NoUnit
    BY <2>1, <2>2 DEF Agreed, RowsAgree, HasUnit, Source
  <2>4. verdict[0] = "accept"
    BY <2>1, <2>2 DEF Agreed, VerdictsAgree
  <2> QED
    BY <1>0, <1>1, <1>2, <2>1, <2>3, <2>4 DEF Judged
<1>5. CASE m.dags # NoDag
  <2>1. \E w \in Units \ {0} : Source[w] # NoUnit
    <3>1. CASE Bare
      <4>1. 0 \notin DOMAIN m.dags /\ Source = db
        BY <3>1 DEF Standing, BareEarly, Source
      <4>2. DOMAIN m.dags # {}
        BY <1>0, <1>5 DEF IsEngine, NoDag
      <4>3. \A w \in DOMAIN m.dags : db[w] # NoUnit
        BY DEF Agreed, RowsAgree
      <4> QED
        BY <1>3, <4>1, <4>2, <4>3
    <3>2. CASE ~Bare
      <4>1. ~Alone /\ Record = Source
        BY <1>5, <3>2 DEF Standing, DagKnown, Record, Source
      <4> QED
        BY <4>1 DEF Alone
    <3> QED
      BY <3>1, <3>2
  <2> QED
    BY <1>1, <1>2, <1>3, <2>1 DEF Judged
<1> QED
  BY <1>4, <1>5

LEMMA StateStepsKept ==
    ASSUME Typed, Typed', WithinBudget, Standing, Agreed, StateStep PROVE Kept
<1>0. TypeOK /\ TypeOK'
  BY DEF Typed
<1>1. m.pc # "off" => row.state \notin Terminal
  BY DEF WithinBudget
<1> USE DEF RunStates, Terminal
<1>2. CASE EnterLoop
  BY <1>0, <1>1, <1>2, SetStateKept DEF EnterLoop
<1>3. CASE BudgetCheck \/ DispatchFails \/ InnerFails \/ JudgeFails
  <2>1. m.pc # "off" /\ OnlyRun /\ \E to \in RunStates \ {"accepted"} : SetState(to, Off)
    BY <1>3 DEF BudgetCheck, DispatchFails, Dispatching, AtLoop, InnerFails, JudgeFails,
                FailBudget, FailRun
  <2> QED
    BY <1>0, <1>1, <2>1, SetStateKept
<1>4. CASE StartWork
  <2>1. m.pc = "work" /\ OnlyRun
    BY <1>4 DEF StartWork
  <2>2. CASE CanTransition(row.state, "inner_working")
    <3>1. SetState("inner_working", [m EXCEPT !.pc = "goal"])
      BY <1>4, <2>2 DEF StartWork
    <3> QED
      BY <1>0, <1>1, <2>1, <3>1, SetStateKept
  <2>3. CASE ~CanTransition(row.state, "inner_working")
    <3>1. row'.state = "failed"
      BY <1>0, <1>4, <2>3 DEF StartWork, TypeOK
    <3> QED
      BY <1>1, <2>1, <3>1, StopKept DEF OnlyRun
  <2> QED
    BY <2>2, <2>3
<1>5. CASE SetReceiptReady
  BY <1>0, <1>1, <1>5, SetStateKept DEF SetReceiptReady
<1>6. CASE BeginReview
  BY <1>0, <1>1, <1>6, SetStateKept DEF BeginReview, FailBudget
<1>7. CASE AcceptRun
  <2>1. CASE Accepted(m.dags) # DOMAIN m.dags
    BY <1>0, <1>1, <1>7, <2>1, SetStateKept DEF AcceptRun
  <2>2. CASE Accepted(m.dags) = DOMAIN m.dags
    BY <1>0, <1>1, <1>7, <2>2, AllAccepted, AcceptMoveKept DEF AcceptRun
  <2> QED
    BY <2>1, <2>2
<1>8. CASE CloseRun
  <2>1. /\ OnlyRun /\ m.pc = "apply"
        /\ \E to \in RunStates \ {"accepted"} : SetState(to, Off)
    BY <1>8 DEF CloseRun
  <2> QED
    BY <1>0, <1>1, <2>1, SetStateKept
<1>9. CASE SetRework
  BY <1>0, <1>1, <1>9, SetStateKept DEF SetRework
<1>10. CASE Redispatch
  BY <1>0, <1>1, <1>10, SetStateKept DEF Redispatch
<1> QED
  BY <1>2, <1>3, <1>4, <1>5, <1>6, <1>7, <1>8, <1>9, <1>10 DEF StateStep

LEMMA RunUnitKept ==
    ASSUME Typed, Typed', row.state \notin Terminal, NEW u \in Units, NEW rec,
           RunUnit(u, rec), u = 0 => rec.rework = Count
    PROVE  Kept
<1>1. /\ InsertUnit(u, rec) \/ UpdateUnit(u, rec)
      /\ UNCHANGED <<row, verdict, envelope>>
  BY DEF RunUnit
<1>2. Count' = Count
  BY <1>1, WriteCount DEF Typed
<1> QED
  BY <1>1, <1>2, ReplanKept DEF Typed

LEMMA HeadStepsKept ==
    ASSUME Typed, Typed', WithinBudget, Standing, Agreed, HeadStep PROVE Kept
<1>a. TypeOK /\ TypeOK' /\ IsEngine(m)
  BY DEF Typed, TypeOK
<1>0. TypeOK /\ TypeOK' /\ IsEngine(m) /\ 0 \in Units /\ m.rec \in UnitRec
  BY <1>a DEF Units, IsEngine
<1>1. m.pc # "off" => row.state \notin Terminal
  BY DEF WithinBudget
<1>2. CASE InitEnvelope
  <2>1. /\ m.pc = "setup" /\ UNCHANGED <<row, db, verdict>>
        /\ envelope' = [w \in Units |-> NoUnit]
    BY <1>2 DEF InitEnvelope
  <2>2. Source[0] = NoUnit
    BY <1>0, <2>1 DEF Agreed, UnitsPlaced, Standing, BareEarly
  <2>3. Count' = 0
    <3>1. HasEnvelope'
      <4>1. DOMAIN envelope' = Units /\ DOMAIN NoEnvelope = {}
        BY <2>1 DEF NoEnvelope
      <4> QED
        BY <1>0, <4>1 DEF HasEnvelope
    <3>2. envelope'[0] = NoUnit
      BY <1>0, <2>1
    <3> QED
      BY <3>1, <3>2 DEF Count, NoUnit
  <2> QED
    BY <1>0, <1>1, <2>1, <2>2, <2>3, NoUnitNoCount, ReplanKept
<1>3. CASE TakePending
  BY <1>3, StillKept DEF TakePending
<1>4. CASE NextDagUnit
  <2>1. m.pc = "loop" /\ m.dags # NoDag
    BY <1>4 DEF NextDagUnit, AtLoop
  <2>2. CASE ReadyUnits(m.dags) # {}
    <3> DEFINE u == Min(ReadyUnits(m.dags))
    <3>1. u \in ReadyUnits(m.dags) /\ ReadyUnits(m.dags) \subseteq DOMAIN m.dags
      BY <1>0, <2>2, MinIsMember DEF ReadyUnits, IsEngine
    <3>2. RunUnit(u, Working(m.dags[u]))
      BY <1>4, <2>2 DEF NextDagUnit
    <3> HIDE DEF u
    <3>3. u \in DOMAIN m.dags /\ u \in Units /\ m.dags[u] \in UnitRec
      BY <1>0, <3>1 DEF IsEngine
    <3>4. u = 0 => Working(m.dags[u]).rework = Count
      BY <3>3 DEF Working, UnitRec, Agreed, CountAgrees
    <3> QED
      BY <1>1, <2>1, <3>2, <3>3, <3>4, RunUnitKept
  <2>3. CASE ReadyUnits(m.dags) = {} /\ Accepted(m.dags) = DOMAIN m.dags
    BY <1>0, <1>1, <1>4, <2>1, <2>3, AllAccepted, AcceptMoveKept DEF NextDagUnit
  <2>4. CASE ReadyUnits(m.dags) = {} /\ Accepted(m.dags) # DOMAIN m.dags
    BY <1>0, <1>1, <1>4, <2>1, <2>4, SetStateKept DEF NextDagUnit, FailRun, RunStates, Terminal
  <2> QED
    BY <2>2, <2>3, <2>4
<1>5. ASSUME m.pc \in {"loop", "planned"}, m.unit \in Units, RunUnit(m.unit, Working(m.rec))
      PROVE  Kept
  <2>1. m.unit = 0 => Working(m.rec).rework = Count
    <3>1. Working(m.rec).rework = m.rec.rework /\ m.rec.rework \in Nat /\ Ahead = 0
      BY <1>0, <1>5 DEF Working, UnitRec, Ahead
    <3> QED
      BY <1>5, <3>1 DEF Agreed, CountAgrees
  <2> QED
    BY <1>1, <1>5, <2>1, RunUnitKept
<1>6. CASE ReuseUnit
  BY <1>5, <1>6 DEF ReuseUnit, AtLoop, Typed, InHand
<1>7. ASSUME NEW p \in DagPlans \cup {NoPlan}, NEW c \in Charges, AskCommander(p, c)
      PROVE  Kept
  <2>1. m.pc = "loop" /\ UNCHANGED <<db, envelope, verdict>>
    BY <1>7 DEF AskCommander, Dispatching, AtLoop
  <2>2. row'.state = row.state
    BY <1>0, <1>7, ChargeIsTyped DEF AskCommander
  <2> QED
    BY <1>0, <1>1, <2>1, <2>2, SameRecord, ReplanKept
<1>8. CASE Planned
  <2>1. m.pc = "planned" /\ m.dags = NoDag
    BY <1>8 DEF Planned, Typed, InHand
  <2>2. CASE Exhausted(row)
    BY <1>0, <1>1, <1>8, <2>1, <2>2, SetStateKept DEF Planned, FailBudget, RunStates, Terminal
  <2>3. CASE ~Exhausted(row) /\ plan # NoPlan
    BY <1>8, <2>3, StillKept DEF Planned
  <2>4. CASE ~Exhausted(row) /\ plan = NoPlan /\ m.unit = -1
    <3>1. RunUnit(0, Fresh("assigned"))
      BY <1>8, <2>4 DEF Planned
    <3>2. Fresh("assigned").rework = 0 /\ Count = 0
      BY <1>0, <2>1, <2>4, NoUnitNoCount DEF Fresh, Agreed, UnitsPlaced
    <3> QED
      BY <1>0, <1>1, <2>1, <3>1, <3>2, RunUnitKept
  <2>5. CASE ~Exhausted(row) /\ plan = NoPlan /\ m.unit # -1
    BY <1>0, <1>5, <1>8, <2>1, <2>5 DEF Planned, IsEngine
  <2> QED
    BY <2>2, <2>3, <2>4, <2>5
<1>9. CASE SeedUnit
  <2>1. NextSeed \in Units \ {0} /\ m.pc = "seed"
    BY <1>9, NextSeedIsUnit DEF SeedUnit
  <2>2. Count' = Count
    BY <1>0, <1>9, <2>1, WriteCount DEF SeedUnit
  <2> QED
    BY <1>0, <1>1, <1>9, <2>1, <2>2, ReplanKept DEF SeedUnit
<1>10. CASE SeedEvent
  <2>1. NextSeed \in Units \ {0} /\ m.pc = "seed_event"
    BY <1>10, NextSeedIsUnit DEF SeedEvent
  <2>2. Count' = Count
    BY <1>0, <1>10, <2>1, AppendCount DEF SeedEvent
  <2> QED
    BY <1>0, <1>1, <1>10, <2>1, <2>2, ReplanKept DEF SeedEvent
<1> QED
  BY <1>2, <1>3, <1>4, <1>6, <1>7, <1>8, <1>9, <1>10 DEF HeadStep

\* A verdict is recorded: an accept of the unit in hand, or no accept.
LEMMA VerdictKept ==
    ASSUME Typed, Typed', WithinBudget, Standing, Agreed, RecordVerdict, ~OverBudget PROVE Kept
<1> DEFINE u == m.unit
<1>a. m.pc = "ruled" /\ TypeOK' /\ row.state \notin Terminal
  BY DEF RecordVerdict, Typed, WithinBudget
<1>0. /\ TypeOK /\ TypeOK' /\ u \in Units /\ u # -1 /\ m.rec \in UnitRec /\ m.pc = "ruled"
      /\ row.state \notin Terminal
  BY <1>a, InUse DEF HasUnit
<1>1. /\ UpdateUnit(u, m.rec) /\ UNCHANGED <<row, envelope>>
      /\ verdict' = [verdict EXCEPT ![u] = Decision]
  BY DEF RecordVerdict
<1>2. Count' = Count
  <2>1. u = 0 => m.rec.rework = Count
    <3>1. Ahead = 0 /\ m.rec.rework \in Nat
      BY <1>0 DEF Ahead, UnitRec
    <3> QED
      BY <1>0, <3>1 DEF Agreed, CountAgrees
  <2> QED
    BY <1>0, <1>1, <2>1, WriteCount
<1>3. CASE Decision # "accept"
  <2>1. {w \in Units : verdict'[w] = "accept"} = {w \in Units : verdict[w] = "accept"}
    BY <1>0, <1>1, <1>3, NotYetAccepted DEF TypeOK
  <2>2. (Known \in SUBSET Units)'
    BY <1>0, KnownTyped, PTL
  <2> QED
    BY <1>0, <1>1, <1>2, <2>1, <2>2 DEF Kept, Promise!Next, Promise!Replan, Count
<1>4. CASE Decision = "accept"
  <2>1. Known' = Known
    <3>1. \A w \in Units : db'[w] = NoUnit <=> db[w] = NoUnit
      <4>1. m.rec # NoUnit
        BY <1>0 DEF Standing, UnitOpen, HasUnit, NoUnit
      <4> QED
        BY <1>0, <1>1, <4>1 DEF UpdateUnit, TypeOK, Table
    <3>2. \A w \in Units : Source'[w] = NoUnit <=> Source[w] = NoUnit
      BY <1>1, <3>1 DEF Source, HasEnvelope, Bare, Present
    <3> QED
      BY <1>0, <3>2, KnownSame
  <2>2. {w \in Units : verdict'[w] = "accept"} = {w \in Units : verdict[w] = "accept"} \cup {u}
    BY <1>0, <1>1, <1>4 DEF TypeOK
  <2> QED
    BY <1>0, <1>1, <1>2, <2>1, <2>2 DEF Kept, Promise!Next, Promise!Judge, Count
<1> QED
  BY <1>3, <1>4

\* A rework of the single unit is counted in the envelope, or without one in its
\* row, and only below the limit.
LEMMA CountedKept ==
    ASSUME Typed, Typed', row.state \notin Terminal, UNCHANGED <<row, verdict>>,
           \A w \in Units : Source'[w] = NoUnit <=> Source[w] = NoUnit,
           Count < MaxRework, Count' = Count + 1
    PROVE  Kept
<1>1. Known' = Known
  BY KnownSame DEF Typed
<1> QED
  BY <1>1 DEF Kept, Promise!Next, Promise!Rework, Count

LEMMA VerdictEventKept ==
    ASSUME Typed, Typed', WithinBudget, Standing, Agreed, VerdictEvent PROVE Kept
<1> DEFINE u == m.unit
           rec == Replayed(envelope[u], Decision)
<1>a. m.pc = "verdict_event" /\ TypeOK' /\ row.state \notin Terminal /\ ~Bare
  BY DEF VerdictEvent, Typed, WithinBudget, Standing, BareEarly, HasUnit
<1>0. /\ TypeOK /\ TypeOK' /\ u \in Units /\ u # -1 /\ m.rec \in UnitRec
      /\ m.pc = "verdict_event" /\ row.state \notin Terminal /\ ~Bare
  BY <1>a, InUse DEF HasUnit
<1>1. Append(u, rec) /\ UNCHANGED <<row, db, verdict>>
  BY DEF VerdictEvent
<1>2. HasEnvelope => envelope[u] \in UnitRec /\ envelope[u] # NoUnit /\ envelope[u].state # "none"
  BY <1>0 DEF HasEnvelope, TypeOK, Table, Agreed, RowsAgree, HasUnit, Standing, TablesLead
<1>3. HasEnvelope => /\ rec.rework = envelope[u].rework + IF Decision = "rework" THEN 1 ELSE 0
                     /\ rec.state # "none"
  BY <1>2 DEF Replayed, UnitRec
<1> HIDE DEF rec
<1>4. CASE HasEnvelope /\ u = 0 /\ Decision = "rework"
  <2>1. /\ envelope' = [envelope EXCEPT ![0] = rec] /\ envelope \in Table
        /\ rec # NoUnit /\ 0 \in Units
    BY <1>0, <1>1, <1>3, <1>4 DEF Append, HasEnvelope, TypeOK, NoUnit
  <2>2. HasEnvelope' /\ ~Bare'
    <3>1. DOMAIN envelope' = Units /\ DOMAIN NoEnvelope = {} /\ envelope'[0] # NoUnit
      BY <2>1 DEF Table, NoEnvelope
    <3> QED
      BY <2>1, <3>1 DEF HasEnvelope, Bare, Present
  <2>3. \A w \in Units : Source'[w] = NoUnit <=> Source[w] = NoUnit
    BY <1>0, <1>2, <1>4, <2>1, <2>2 DEF Source, Table
  <2>4. Count' = Count + 1 /\ Count < MaxRework
    <3>1. Count = envelope[0].rework /\ Count' = rec.rework
      BY <1>4, <2>1, <2>2 DEF Count, Table
    <3>2. Ahead = 0 /\ m.rec.rework \in Nat
      BY <1>0 DEF Ahead, UnitRec
    <3>3. Count = m.rec.rework /\ m.rec.rework < MaxRework
      BY <1>0, <1>4, <3>2 DEF Agreed, CountAgrees
    <3> QED
      BY <1>3, <1>4, <3>1, <3>3
  <2> QED
    BY <1>0, <1>1, <2>3, <2>4, CountedKept
<1>5. CASE ~(HasEnvelope /\ u = 0 /\ Decision = "rework")
  <2>1. u = 0 /\ HasEnvelope => rec.rework = Count
    BY <1>2, <1>3, <1>5 DEF Count, UnitRec
  <2>2. Count' = Count
    BY <1>0, <1>1, <2>1, AppendCount
  <2> QED
    BY <1>0, <1>1, <2>2, ReplanKept
<1> QED
  BY <1>4, <1>5

LEMMA ReworkUnitKept ==
    ASSUME Typed, Typed', WithinBudget, Standing, Agreed, ReworkUnit PROVE Kept
<1> DEFINE u == m.unit
           rec == [m.rec EXCEPT !.rework = @ + 1, !.state = "queued"]
<1>a. /\ m.pc = "apply" /\ Decision = "rework" /\ TypeOK' /\ row.state \notin Terminal /\ ~Bare
  BY DEF ReworkUnit, Typed, WithinBudget, Standing, BareEarly, HasUnit
<1>0. /\ TypeOK /\ TypeOK' /\ u \in Units /\ u # -1 /\ m.rec \in UnitRec /\ m.rec.rework \in Nat
      /\ m.pc = "apply" /\ Decision = "rework" /\ row.state \notin Terminal /\ ~Bare
  BY <1>a, InUse DEF HasUnit
<1>1. rec.rework = m.rec.rework + 1 /\ rec # NoUnit
  BY <1>0 DEF UnitRec, NoUnit
<1>2. CASE rec.rework > MaxRework
  BY <1>0, <1>2, SetStateKept DEF ReworkUnit, RunStates, Terminal
<1>3. CASE ~(rec.rework > MaxRework)
  <2>1. UpdateUnit(u, rec) /\ UNCHANGED <<row, verdict, envelope>>
    BY <1>3 DEF ReworkUnit
  <2> HIDE DEF rec
  <2>2. /\ DOMAIN db' = Units /\ db'[u] = rec /\ db[u] # NoUnit
        /\ \A w \in Units : w # u => db'[w] = db[w]
    BY <1>0, <2>1 DEF UpdateUnit, TypeOK, Table, Agreed, RowsAgree
  <2>3. CASE ~HasEnvelope /\ u = 0
    <3>1. Count = m.rec.rework /\ m.rec.rework < MaxRework
      <4>1. Ahead = 0
        BY <2>3 DEF Ahead
      <4> QED
        BY <1>0, <2>3, <4>1 DEF Agreed, CountAgrees
    <3>2. Count' = Count + 1
      BY <1>1, <2>1, <2>2, <2>3, <3>1 DEF Count, HasEnvelope
    <3>3. \A w \in Units : Source'[w] = NoUnit <=> Source[w] = NoUnit
      BY <1>1, <2>1, <2>2, <2>3 DEF Source, HasEnvelope
    <3> QED
      BY <1>0, <2>1, <3>1, <3>2, <3>3, CountedKept
  <2>4. CASE ~(~HasEnvelope /\ u = 0)
    <3>1. Count' = Count
      BY <1>0, <2>1, <2>4, WriteCount
    <3> QED
      BY <1>0, <2>1, <3>1, ReplanKept
  <2> QED
    BY <2>3, <2>4
<1> QED
  BY <1>2, <1>3

LEMMA UnitStepsKept ==
    ASSUME Typed, Typed', WithinBudget, Standing, Agreed, UnitStep PROVE Kept
<1>a. TypeOK /\ TypeOK' /\ IsEngine(m)
  BY DEF Typed, TypeOK
<1>b. m.pc # "off" => row.state \notin Terminal
  BY DEF WithinBudget
<1>c. m.pc \in HasUnit => m.unit \in Units
  BY DEF Typed, InHand
<1>d. m.rec \in UnitRec
  BY <1>a DEF IsEngine
<1>1. CASE DispatchEvent
  <2> DEFINE rec == IF HasEnvelope /\ envelope[m.unit] # NoUnit
                    THEN Working(envelope[m.unit]) ELSE Fresh("implementing")
  <2>1. /\ m.pc = "dispatch_event" /\ Append(m.unit, rec) /\ UNCHANGED <<row, db, verdict>>
    BY <1>1 DEF DispatchEvent
  <2>2. HasEnvelope => envelope[m.unit] \in UnitRec
    BY <1>a, <1>c, <2>1 DEF HasUnit, HasEnvelope, TypeOK, Table
  <2>3. m.unit = 0 /\ HasEnvelope => rec.rework = Count
    BY <2>2 DEF Working, Fresh, NoUnit, Count, UnitRec
  <2> HIDE DEF rec
  <2>4. Count' = Count
    BY <1>a, <1>c, <2>1, <2>3, AppendCount DEF HasUnit
  <2> QED
    BY <1>a, <1>b, <2>1, <2>4, ReplanKept
<1>2. CASE (\E c \in Charges : GoalIteration(c)) \/ GoalLoopOut
           \/ \E free \in FreeGates, d \in Decisions, c \in Charges : Judge(free, d, c)
  <2>1. m.pc # "off" /\ OnlyRun /\ (row' = row \/ \E c \in Charges, t \in {0, 1} : row' = Charge(row, c, t))
    BY <1>2 DEF GoalIteration, GoalLoopOut, Judge
  <2>2. row'.state = row.state
    BY <1>a, <2>1, ChargeIsTyped
  <2>3. UNCHANGED <<db, envelope, verdict>> /\ Count' = Count
    BY <2>1, SameRecord DEF OnlyRun
  <2> QED
    BY <1>a, <1>b, <2>1, <2>2, <2>3, ReplanKept
<1>3. ASSUME NEW kind \in {"empty", "full"}, RecordReceipt(kind) PROVE Kept
  <2> DEFINE rec == [m.rec EXCEPT !.state = "receipt_ready", !.receipt = kind]
  <2>1. /\ m.pc = "receipt" /\ UpdateUnit(m.unit, rec) /\ UNCHANGED <<row, envelope, verdict>>
    BY <1>3 DEF RecordReceipt
  <2>2. rec.rework = m.rec.rework /\ m.rec.rework \in Nat
    BY <1>d DEF UnitRec
  <2> HIDE DEF rec
  <2>3. m.unit = 0 => rec.rework = Count
    <3>1. Ahead = 0
      BY <2>1 DEF Ahead
    <3> QED
      BY <2>1, <2>2, <3>1 DEF Agreed, CountAgrees
  <2>4. Count' = Count
    BY <1>a, <1>c, <2>1, <2>3, WriteCount DEF HasUnit
  <2> QED
    BY <1>a, <1>b, <2>1, <2>4, ReplanKept
<1>4. CASE ReceiptEvent
  <2> DEFINE rec == [envelope[m.unit] EXCEPT !.state = "receipt_ready",
                                             !.receipt = m.rec.receipt]
  <2>1. m.pc = "receipt_event" /\ Append(m.unit, rec) /\ UNCHANGED <<row, db, verdict>>
    BY <1>4 DEF ReceiptEvent
  <2>2. HasEnvelope => envelope[m.unit] \in UnitRec
    BY <1>a, <1>c, <2>1 DEF HasUnit, HasEnvelope, TypeOK, Table
  <2>3. m.unit = 0 /\ HasEnvelope => rec.rework = Count
    BY <2>2 DEF Count, UnitRec
  <2> HIDE DEF rec
  <2>4. Count' = Count
    BY <1>a, <1>c, <2>1, <2>3, AppendCount DEF HasUnit
  <2> QED
    BY <1>a, <1>b, <2>1, <2>4, ReplanKept
<1>5. CASE OuterWorktree
  BY <1>5, StillKept DEF OuterWorktree
<1>6. CASE RecordVerdict /\ OverBudget
  <2>1. m.pc = "ruled" /\ OnlyRun /\ SetState("budget_exhausted", Off)
    BY <1>6 DEF RecordVerdict, FailBudget
  <2> QED
    BY <1>a, <1>b, <2>1, SetStateKept DEF RunStates, Terminal
<1>7. CASE AcceptUnit
  <2> DEFINE rec == [m.rec EXCEPT !.state = "accepted"]
  <2>1. m.pc = "apply" /\ Decision = "accept" /\ UpdateUnit(m.unit, rec)
        /\ UNCHANGED <<row, envelope, verdict>>
    BY <1>7 DEF AcceptUnit
  <2>2. rec.rework = m.rec.rework /\ m.rec.rework \in Nat
    BY <1>d DEF UnitRec
  <2> HIDE DEF rec
  <2>3. m.unit = 0 => rec.rework = Count
    <3>1. Ahead = 0
      BY <2>1 DEF Ahead
    <3> QED
      BY <2>1, <2>2, <3>1 DEF Agreed, CountAgrees
  <2>4. Count' = Count
    BY <1>a, <1>c, <2>1, <2>3, WriteCount DEF HasUnit
  <2> QED
    BY <1>a, <1>b, <2>1, <2>4, ReplanKept
<1> QED
  BY <1>1, <1>2, <1>3, <1>4, <1>5, <1>6, <1>7, VerdictKept, VerdictEventKept, ReworkUnitKept
     DEF UnitStep

LEMMA ResumeKept == ASSUME Typed, Typed', Agreed, Resume PROVE Kept
<1>1. /\ TypeOK /\ TypeOK' /\ row.state \notin Terminal /\ row'.state \notin Terminal
      /\ db' = Healed /\ UNCHANGED <<envelope, verdict>> /\ 0 \in Units
  BY DEF Typed, TypeOK, Resume, Terminal, Units
<1>2. HasEnvelope' <=> HasEnvelope
  BY <1>1 DEF HasEnvelope
<1>3. ~HasEnvelope => db'[0] = db[0]
  BY <1>1, ExistingIsSource DEF Source
<1>4. Count' = Count
  BY <1>1, <1>2, <1>3 DEF Count
<1> QED
  BY <1>1, <1>4, ReplanKept

LEMMA NextKept ==
    ASSUME Typed, Typed', WithinBudget, Standing, Agreed, [Next]_vars PROVE Kept
<1>1. CASE Engine
  BY <1>1, EngineSteps, StateStepsKept, HeadStepsKept, UnitStepsKept
<1>2. CASE Resume
  BY <1>2, ResumeKept
<1>3. CASE Crash \/ UNCHANGED vars
  BY <1>3, StillKept DEF Crash, vars
<1> QED
  BY <1>1, <1>2, <1>3 DEF Next

LEMMA InitKept == Init => Promise!Init
<1> SUFFICES ASSUME Init PROVE Promise!Init
  OBVIOUS
<1>1. /\ row.state \notin Terminal /\ ~HasEnvelope
      /\ \A w \in Units : db[w] = NoUnit /\ verdict[w] # "accept"
      /\ DOMAIN db = Units /\ 0 \in Units
  BY DEF Init, HasEnvelope, Terminal, Units
<1>2. DOMAIN Existing = {}
  BY <1>1 DEF Existing, Only, Present
<1>3. Known = {}
  BY <1>2 DEF Known
<1>4. {u \in Units : verdict[u] = "accept"} = {}
  BY <1>1
<1>5. db[0].rework = 0
  BY <1>1 DEF NoUnit
<1> QED
  BY <1>1, <1>3, <1>4, <1>5 DEF Promise!Init

\* The engine implements RunPromise: no accept of the run without an accept as
\* the newest verdict on every unit on record, no accept taken back, no rework of
\* the single unit beyond the limit and nothing after the end, whatever the
\* crashes, the resumes and the outcomes of the gates.
THEOREM PromiseIsKept == Spec => KeepsPromise
<1>1. /\ Typed /\ WithinBudget /\ Standing /\ Agreed /\ [Next]_vars
            => Typed' /\ WithinBudget' /\ Standing' /\ Agreed'
  BY NextTyped, NextBudget, NextStanding, NextAgreed
<1>2. Typed /\ Typed' /\ WithinBudget /\ Standing /\ Agreed /\ [Next]_vars
        => [Promise!Next]_(Promise!vars)
  BY NextKept DEF Kept
<1> QED
  BY <1>1, <1>2, InitTyped, InitBudget, InitStanding, InitAgreed, InitKept, PTL
     DEF Spec, KeepsPromise, Promise!Spec

-----------------------------------------------------------------------------
(* A DAG never wedges *)

On(w) == Source[w] # NoUnit     \* a resume finds the unit

\* The dependencies of a unit are on record before it, and have an entry where it
\* has one: seeds come in order, and a resume takes all that is on record.
DepsPlaced ==
    /\ \A w \in Units : On(w) => \A d \in Deps(w) : On(d)
    /\ \A w \in DOMAIN m.dags : On(w) /\ Deps(w) \subseteq DOMAIN m.dags

\* While the envelope has no unit, at most one row was written: the event of a
\* unit comes before the row of the next.
LoneRow ==
    /\ Bare => \A v, w \in Units : db[v] # NoUnit /\ db[w] # NoUnit => v = w
    /\ Bare /\ m.pc \in {"seed", "seed_event"} => m.dags = NoDag

\* A DAG has work left until its last accept, or waits for a review that is
\* blocked.  Without a crash a rejected unit is not met again.
LeftOpen ==
    /\ m.dags # NoDag /\ m.pc \notin {"seed", "seed_event", "accept_set"}
          => Unfinished(m.dags) \/ (Blocked /\ Waiting)
    /\ crashes = 0 => \A u \in DOMAIN m.dags : m.dags[u].state \in {"queued", "accepted"}

AllDone == \A w \in Units : On(w) => Done(Source, w)

\* A crash after the last accept of a DAG leaves a run that is under review, and
\* receipts that make a resume go back to that review.
DoneWaits ==
    /\ row.state \notin Terminal /\ (\E w \in Units \ {0} : On(w)) /\ AllDone
          => row.state = "outer_reviewing"
    /\ \A w \in Units : Done(db, w) => db[w].receipt # "none"
    /\ HasEnvelope => \A w \in Units : Done(envelope, w) => envelope[w].receipt # "none"

Ordered == DepsPlaced /\ LoneRow /\ LeftOpen /\ DoneWaits

\* A unit that is not accepted in memory, or is being worked on, is not accepted
\* on record either.
LEMMA OpenOnRecord ==
    ASSUME Typed, Standing, Agreed, NEW u \in Units, On(u), m.pc # "off",
           \/ u \in DOMAIN m.dags /\ ~Done(m.dags, u) /\ ~(Blocked /\ Waiting)
           \/ u = m.unit /\ m.pc \in Doing,
           ~(m.pc = "apply" /\ Decision = "accept")
    PROVE  ~AllDone
<1>1. ~Done(db, u)
  BY DEF Standing, DagKnown, UnitOpen
<1>2. HasEnvelope /\ envelope[u] # NoUnit => ~Done(envelope, u)
  <2> SUFFICES ASSUME HasEnvelope, envelope[u] # NoUnit, Done(envelope, u) PROVE FALSE
    OBVIOUS
  <2>1. u = m.unit /\ m.pc \in Midway
    BY <1>1 DEF Agreed, RowsAgree, Done
  <2>2. m.pc \in Doing \/ (Waiting /\ ~Blocked)
    BY <2>1 DEF Midway, HasUnit, Doing, Waiting
  <2> QED
    BY <2>1, <2>2 DEF Agreed, RowsAgree
<1> QED
  BY <1>1, <1>2 DEF AllDone, Done, On, Source

LEMMA DagHasUnits == ASSUME IsEngine(m), m.dags # NoDag PROVE DOMAIN m.dags # {}
<1> SUFFICES ASSUME DOMAIN m.dags = {} PROVE m.dags = NoDag
  OBVIOUS
<1>1. m.dags = [u \in {} |-> m.dags[u]]
  BY DEF IsEngine
<1> QED
  BY <1>1 DEF NoDag

\* When all units on record are accepted, there is nothing left but the review
\* of a run, or the end of one.
LEMMA DoneIsReviewed ==
    /\ Typed /\ WithinBudget /\ Standing /\ Agreed /\ DepsPlaced /\ LeftOpen
    /\ AllDone /\ m.pc \notin {"off", "turns"} /\ ~m.pending
    /\ \E w \in Units \ {0} : On(w)
    => row.state = "outer_reviewing"
<1> SUFFICES ASSUME Typed, WithinBudget, Standing, Agreed, DepsPlaced, LeftOpen, AllDone,
                    m.pc # "off", m.pc # "turns", ~m.pending,
                    NEW w \in Units \ {0}, On(w)
             PROVE  row.state = "outer_reviewing"
  OBVIOUS
<1>1. CASE m.pc \in Reviewing \cup {"outer", "rework_set"}
  BY <1>1 DEF Standing, UnitOpen
<1>2. CASE m.pc \notin Reviewing \cup {"outer", "rework_set"}
  <2>1. ~Waiting /\ ~(m.pc = "apply" /\ Decision = "accept") /\ m.pc # "accept_set"
    BY <1>2 DEF Waiting, Reviewing
  <2>2. CASE m.dags = NoDag
    <3>1. m.pc = "seed_event" /\ w = NextSeed /\ Source = db
      BY <2>2 DEF Agreed, UnitsPlaced, On, Source, NoDag
    <3>2. db[w].state = "queued"
      BY <3>1 DEF Agreed, RowsAgree, Fresh
    <3> QED
      BY <3>1, <3>2 DEF AllDone, Done
  <2>3. CASE m.dags # NoDag /\ m.pc \in {"seed", "seed_event"}
    <3>1. PICK u \in DOMAIN m.dags : TRUE
      BY <2>3, DagHasUnits DEF Typed, TypeOK
    <3>2. u \in Units /\ On(u) /\ ~Done(db, u)
      BY <2>3 DEF DepsPlaced, Standing, SingleOpen, NoneDone, Typed, TypeOK, IsEngine, Table
    <3>3. m.pc \notin Midway
      BY <2>3 DEF Midway, HasUnit
    <3>4. ~Done(Source, u)
      BY <2>3, <3>2, <3>3 DEF Agreed, RowsAgree, Done, On, Source
    <3> QED
      BY <3>2, <3>4 DEF AllDone
  <2>4. CASE m.dags # NoDag /\ m.pc \notin {"seed", "seed_event"}
    <3>1. Unfinished(m.dags)
      BY <2>1, <2>4 DEF LeftOpen
    <3>2. PICK u \in DOMAIN m.dags : ~Done(m.dags, u)
      BY <2>4, <3>1 DEF Unfinished, Accepted, Done
    <3>3. u \in Units /\ On(u)
      BY DEF DepsPlaced, Typed, TypeOK, IsEngine
    <3> QED
      BY <2>1, <3>2, <3>3, OpenOnRecord
  <2> QED
    BY <2>2, <2>3, <2>4
<1> QED
  BY <1>1, <1>2

LEMMA GoneOrdered ==
    ASSUME Ordered, m' = Off, UNCHANGED <<db, envelope, plan>>,
           row'.state \in Terminal \/ row'.state = row.state
    PROVE  Ordered'
<1>1. /\ Source' = Source
      /\ HasEnvelope' <=> HasEnvelope
      /\ Bare' <=> Bare
  BY SameRecord
<1>2. m'.pc = "off" /\ m'.dags = NoDag /\ DOMAIN m'.dags = {}
  BY DEF Off, NoDag
<1>3. DepsPlaced'
  BY <1>1, <1>2 DEF Ordered, DepsPlaced, On, Deps
<1>4. LoneRow'
  BY <1>1, <1>2 DEF Ordered, LoneRow
<1>5. LeftOpen'
  BY <1>2 DEF LeftOpen
<1>6. DoneWaits'
  BY <1>1 DEF Ordered, DoneWaits, AllDone, On, Done
<1> QED
  BY <1>3, <1>4, <1>5, <1>6 DEF Ordered

\* The first part of DoneWaits, from where the engine is after a step.
LEMMA WaitsByPlace ==
    ASSUME Typed', WithinBudget', Standing', Agreed', DepsPlaced', LeftOpen',
           m'.pc # "off",
           m'.pc = "turns" \/ m'.pending
             => \/ ~AllDone'
                \/ /\ Source' = Source /\ row'.state = row.state
                   /\ row.state \notin Terminal /\ (\E w \in Units \ {0} : On(w)) /\ AllDone
                        => row.state = "outer_reviewing"
    PROVE  /\ row'.state \notin Terminal
           /\ \E w \in Units \ {0} : On(w)'
           /\ AllDone'
           => row'.state = "outer_reviewing"
<1>1. (/\ Typed /\ WithinBudget /\ Standing /\ Agreed /\ DepsPlaced /\ LeftOpen
       /\ AllDone /\ m.pc \notin {"off", "turns"} /\ ~m.pending
       /\ \E w \in Units \ {0} : On(w)
       => row.state = "outer_reviewing")'
  BY DoneIsReviewed, PTL
<1>2. CASE m'.pc = "turns" \/ m'.pending
  <2>1. ASSUME Source' = Source PROVE (AllDone' <=> AllDone) /\ \A w \in Units : On(w)' <=> On(w)
    BY <2>1 DEF AllDone, On, Done
  <2> QED
    BY <1>2, <2>1
<1>3. CASE ~(m'.pc = "turns" \/ m'.pending)
  BY <1>1, <1>3
<1> QED
  BY <1>2, <1>3

\* A step that moves the engine and writes neither table.
LEMMA MovedOrdered ==
    ASSUME Typed, Standing, Agreed, Ordered, Typed', WithinBudget', Standing', Agreed',
           UNCHANGED <<db, envelope, plan>>, crashes' = crashes,
           m'.pc # "off", m'.dags = m.dags,
           m'.pc \in {"seed", "seed_event"} => m.dags = NoDag,
           m.dags # NoDag => m'.pc = "accept_set" \/ Unfinished(m.dags) \/ (Blocked /\ Waiting)',
           m'.pc = "turns" \/ m'.pending => row'.state = row.state \/ ~AllDone
    PROVE  Ordered'
<1>1. /\ Source' = Source
      /\ HasEnvelope' <=> HasEnvelope
      /\ Bare' <=> Bare
      /\ AllDone' <=> AllDone
  BY SameRecord DEF AllDone, On, Done
<1>2. DepsPlaced'
  BY <1>1 DEF Ordered, DepsPlaced, On, Deps
<1>3. LoneRow'
  BY <1>1 DEF Ordered, LoneRow
<1>4. LeftOpen'
  BY <1>1 DEF Ordered, LeftOpen, Unfinished, Accepted
<1>5. DoneWaits'
  <2>1. /\ \A w \in Units : Done(db', w) => db'[w].receipt # "none"
        /\ HasEnvelope' => \A w \in Units : Done(envelope', w) => envelope'[w].receipt # "none"
    BY <1>1 DEF Ordered, DoneWaits, Done
  <2>2. /\ row'.state \notin Terminal
        /\ \E w \in Units \ {0} : On(w)'
        /\ AllDone'
        => row'.state = "outer_reviewing"
    <3>1. row.state \notin Terminal /\ (\E w \in Units \ {0} : On(w)) /\ AllDone
             => row.state = "outer_reviewing"
      BY DEF Ordered, DoneWaits
    <3> QED
      BY <1>1, <1>2, <1>4, <3>1, WaitsByPlace
  <2> QED
    BY <2>1, <2>2 DEF DoneWaits, Done
<1> QED
  BY <1>2, <1>3, <1>4, <1>5 DEF Ordered

\* set_state, to where the engine goes on.
LEMMA SetStateOrdered ==
    ASSUME Typed, Standing, Agreed, Ordered, Typed', WithinBudget', Standing', Agreed', OnlyRun,
           NEW to \in RunStates, NEW p \in PC \ {"off", "seed", "seed_event"},
           SetState(to, [m EXCEPT !.pc = p]),
           m.dags # NoDag => Unfinished(m.dags) \/ (Blocked /\ Waiting /\ p \in {"turns", "outer"}),
           p = "turns" => ~AllDone, ~m.pending
    PROVE  Ordered'
<1>0. TypeOK /\ IsEngine(m)
  BY DEF Typed, TypeOK
<1>1. CASE m' = Off
  <2>1. row'.state \in Terminal \/ row'.state = row.state
    BY <1>0, <1>1 DEF SetState, TypeOK, Off
  <2> QED
    BY <1>1, <2>1, GoneOrdered DEF OnlyRun
<1>2. CASE m' # Off
  <2>1. m' = [m EXCEPT !.pc = p]
    BY <1>2 DEF SetState
  <2>2. m'.pc = p /\ m'.dags = m.dags /\ m'.pending = m.pending /\ m'.outer = m.outer
    BY <1>0, <2>1 DEF IsEngine
  <2>3. p \in {"turns", "outer"} /\ Blocked => (Blocked /\ Waiting)'
    BY <2>2 DEF OnlyRun, Blocked, Waiting
  <2> QED
    BY <2>2, <2>3, MovedOrdered DEF OnlyRun
<1> QED
  BY <1>1, <1>2

LEMMA EndOrdered ==
    ASSUME TypeOK, Ordered, OnlyRun, NEW to \in Terminal, NEW next, SetState(to, next)
    PROVE  Ordered'
<1>1. m' = Off /\ row' \in {row, [row EXCEPT !.state = to]}
  BY DEF SetState
<1>2. row'.state \in Terminal \/ row'.state = row.state
  BY <1>1 DEF TypeOK
<1> QED
  BY <1>1, <1>2, GoneOrdered DEF OnlyRun

LEMMA UnitOnRecord ==
    ASSUME Typed, Standing, Agreed, m.pc \in HasUnit \ {"dispatch_event"}
    PROVE  m.unit \in Units /\ On(m.unit) /\ (HasEnvelope => ~Bare)
<1>1. m.unit \in Units /\ m.unit # -1 /\ m.pc # "off"
  BY DEF Typed, InHand, HasUnit, Units
<1>2. db[m.unit] # NoUnit /\ (HasEnvelope => envelope[m.unit] # NoUnit)
  BY <1>1 DEF Agreed, RowsAgree
<1>3. ~Bare
  BY DEF Standing, BareEarly
<1> QED
  BY <1>1, <1>2, <1>3 DEF On, Source

LEMMA StateStepsOrdered ==
    ASSUME Typed, WithinBudget, Standing, Agreed, Ordered,
           Typed', WithinBudget', Standing', Agreed', StateStep
    PROVE  Ordered'
<1>0. TypeOK
  BY DEF Typed
<1>1. m.pending => m.pc = "loop"
  BY DEF Standing, UnitOpen
<1>2. m.dags # NoDag /\ m.pc \in HasUnit \ {"accept_set"}
         => Unfinished(m.dags) \/ (Blocked /\ Waiting)
  BY DEF Ordered, LeftOpen, HasUnit
<1> USE DEF PC, RunStates, Terminal, HasUnit
<1>3. CASE EnterLoop
  <2>1. m.pc = "ready" /\ m.dags = NoDag
    BY <1>3 DEF EnterLoop, Standing, BareEarly
  <2> QED
    BY <1>1, <1>3, <2>1, SetStateOrdered DEF EnterLoop
<1>4. CASE BudgetCheck \/ DispatchFails \/ InnerFails \/ JudgeFails
  BY <1>0, <1>4, EndOrdered
     DEF BudgetCheck, DispatchFails, InnerFails, JudgeFails, FailBudget, FailRun
<1>5. CASE StartWork
  <2>1. m.pc = "work" /\ OnlyRun /\ ~Waiting
    BY <1>1, <1>5 DEF StartWork, Waiting
  <2>2. CASE CanTransition(row.state, "inner_working")
    <3>1. SetState("inner_working", [m EXCEPT !.pc = "goal"])
      BY <1>5, <2>2 DEF StartWork
    <3> QED
      BY <1>1, <1>2, <2>1, <3>1, SetStateOrdered
  <2>3. CASE ~CanTransition(row.state, "inner_working")
    <3>1. row' = [row EXCEPT !.state = "failed"] /\ m' = Off
      BY <1>5, <2>3 DEF StartWork
    <3>2. row'.state \in Terminal
      BY <1>0, <3>1 DEF TypeOK
    <3> QED
      BY <2>1, <3>1, <3>2, GoneOrdered DEF OnlyRun
  <2> QED
    BY <2>2, <2>3
<1>6. CASE SetReceiptReady
  <2>1. m.pc = "receipt_set" /\ ~Waiting
    BY <1>1, <1>6 DEF SetReceiptReady, Waiting
  <2>2. ~AllDone
    BY <2>1, UnitOnRecord, OpenOnRecord DEF Doing
  <2> QED
    BY <1>1, <1>2, <1>6, <2>1, <2>2, SetStateOrdered DEF SetReceiptReady
<1>7. CASE BeginReview
  <2>1. CASE FailBudget
    BY <1>0, <1>7, <2>1, EndOrdered DEF BeginReview, FailBudget
  <2>2. CASE SetState("outer_reviewing", [m EXCEPT !.pc = "outer"])
    BY <1>1, <1>2, <1>7, <2>2, SetStateOrdered DEF BeginReview
  <2> QED
    BY <1>7, <2>1, <2>2 DEF BeginReview
<1>8. CASE AcceptRun
  <2>1. CASE Accepted(m.dags) # DOMAIN m.dags
    BY <1>1, <1>8, <2>1, SetStateOrdered DEF AcceptRun, Unfinished
  <2>2. CASE Accepted(m.dags) = DOMAIN m.dags
    BY <1>0, <1>8, <2>2, EndOrdered DEF AcceptRun
  <2> QED
    BY <2>1, <2>2
<1>9. CASE CloseRun
  <2>1. OnlyRun /\ \E to \in {"rejected", "escalate"} : SetState(to, Off)
    BY <1>9 DEF CloseRun
  <2> QED
    BY <1>0, <2>1, EndOrdered
<1>10. CASE SetRework
  <2>1. m.pc = "rework_set" /\ ~Waiting
    BY <1>1, <1>10 DEF SetRework, Waiting
  <2> QED
    BY <1>1, <1>2, <1>10, <2>1, SetStateOrdered DEF SetRework
<1>11. CASE Redispatch
  <2>1. m.pc = "redispatch" /\ ~Waiting
    BY <1>1, <1>11 DEF Redispatch, Waiting
  <2> QED
    BY <1>1, <1>2, <1>11, <2>1, SetStateOrdered DEF Redispatch
<1> QED
  BY <1>3, <1>4, <1>5, <1>6, <1>7, <1>8, <1>9, <1>10, <1>11 DEF StateStep

\* A unit comes after the units it depends on.
LEMMA DepsComeFirst ==
    ASSUME TypeOK
    PROVE  /\ \A w \in Units : Deps(w) \subseteq Units /\ \A d \in Deps(w) : d < w
           /\ Deps(0) = {}
<1>1. CASE plan = NoPlan
  BY <1>1 DEF Deps, NoPlan
<1>2. CASE plan \in DagPlans
  <2>1. PICK n \in 1 .. MaxUnits : /\ plan \in [1 .. n -> SUBSET (1 .. n)]
                                   /\ \A u \in 1 .. n : \A d \in plan[u] : d < u
    BY <1>2, PlansAreSorted
  <2>2. 0 \notin DOMAIN plan /\ 1 .. n \subseteq Units
    BY <2>1 DEF Units
  <2> QED
    BY <2>1, <2>2 DEF Deps
<1> QED
  BY <1>1, <1>2 DEF TypeOK

\* A step that writes a table and does not end in a review.
LEMMA WrittenOrdered ==
    ASSUME Typed, Ordered, Typed', WithinBudget', Standing', Agreed',
           plan' = plan, m'.pc \notin {"off", "turns"}, ~m'.pending,
           DOMAIN m'.dags = DOMAIN m.dags,
           \A w \in Units : On(w) => On(w)',
           \A w \in Units : On(w)' => On(w) \/ \A d \in Deps(w) : On(d)',
           LoneRow', LeftOpen',
           \A w \in Units : Done(db', w) => db'[w].receipt # "none",
           HasEnvelope' => \A w \in Units : Done(envelope', w) => envelope'[w].receipt # "none"
    PROVE  Ordered'
<1>1. DOMAIN m.dags \subseteq Units /\ \A w \in Units : Deps(w) \subseteq Units
  BY DepsComeFirst DEF Typed, TypeOK, IsEngine
<1>2. DepsPlaced'
  <2>1. \A w \in Units : On(w)' => \A d \in Deps(w) : On(d)'
    BY <1>1 DEF Ordered, DepsPlaced
  <2>2. \A w \in DOMAIN m'.dags : On(w)' /\ Deps(w) \subseteq DOMAIN m'.dags
    BY <1>1 DEF Ordered, DepsPlaced
  <2> QED
    BY <2>1, <2>2 DEF DepsPlaced, Deps
<1>3. DoneWaits'
  BY <1>2, WaitsByPlace DEF DoneWaits, Done
<1> QED
  BY <1>2, <1>3 DEF Ordered

\* The row of the unit in hand is written, and nothing else.
LEMMA UpdateOrdered ==
    ASSUME Typed, Ordered, Typed', WithinBudget', Standing', Agreed',
           NEW u \in Units, db[u] # NoUnit,
           NEW rec \in UnitRec, rec # NoUnit, UpdateUnit(u, rec),
           rec.state = "accepted" => rec.receipt # "none",
           UNCHANGED <<envelope, plan, crashes>>,
           m'.pc \notin {"off", "turns", "seed", "seed_event"}, ~m'.pending,
           DOMAIN m'.dags = DOMAIN m.dags, LeftOpen'
    PROVE  Ordered'
<1>1. /\ db \in Table /\ db' = [db EXCEPT ![u] = rec]
      /\ db'[u] = rec /\ \A w \in Units : w # u => db'[w] = db[w]
  BY DEF UpdateUnit, Typed, TypeOK, Table
<1>2. /\ HasEnvelope' <=> HasEnvelope
      /\ Bare' <=> Bare
      /\ \A w \in Units : On(w)' <=> On(w)
  <2>1. /\ HasEnvelope' <=> HasEnvelope
        /\ Bare' <=> Bare
    BY DEF HasEnvelope, Bare, Present
  <2>2. /\ Source = IF HasEnvelope /\ ~Bare THEN envelope ELSE db
        /\ Source' = IF HasEnvelope /\ ~Bare THEN envelope ELSE db'
    BY <2>1 DEF Source
  <2> QED
    BY <1>1, <2>1, <2>2 DEF On
<1>3. LoneRow'
  BY <1>1, <1>2 DEF Ordered, LoneRow
<1>4. /\ \A w \in Units : Done(db', w) => db'[w].receipt # "none"
      /\ HasEnvelope' => \A w \in Units : Done(envelope', w) => envelope'[w].receipt # "none"
  BY <1>1, <1>2 DEF Ordered, DoneWaits, Done
<1> QED
  BY <1>2, <1>3, <1>4, WrittenOrdered

\* An event about a unit that has a row goes into the envelope.
LEMMA AppendOrdered ==
    ASSUME Typed, Ordered, Typed', WithinBudget', Standing', Agreed',
           NEW u \in Units, db[u] # NoUnit, On(u) \/ Deps(u) = {},
           NEW rec, HasEnvelope => rec \in UnitRec /\ rec # NoUnit, Append(u, rec),
           HasEnvelope /\ rec.state = "accepted" => rec.receipt # "none",
           UNCHANGED <<db, plan, crashes>>,
           m'.pc \notin {"off", "turns", "seed", "seed_event"}, ~m'.pending,
           DOMAIN m'.dags = DOMAIN m.dags, LeftOpen'
    PROVE  Ordered'
<1>1. HasEnvelope => /\ envelope \in Table
                     /\ envelope' = [envelope EXCEPT ![u] = rec]
                     /\ DOMAIN envelope' = Units
                     /\ envelope'[u] = rec /\ \A w \in Units : w # u => envelope'[w] = envelope[w]
  BY DEF Append, HasEnvelope, Typed, TypeOK, Table
<1>2. /\ HasEnvelope' <=> HasEnvelope
      /\ ~Bare'
      /\ Bare => HasEnvelope /\ \A w \in Units : envelope[w] = NoUnit
  <2>1. DOMAIN NoEnvelope = {}
    BY DEF NoEnvelope
  <2> QED
    BY <1>1, <2>1 DEF HasEnvelope, Bare, Present, Append
<1>3. /\ \A w \in Units : On(w) => On(w)'
      /\ \A w \in Units : On(w)' => On(w) \/ w = u
  <2>1. /\ Source = IF HasEnvelope /\ ~Bare THEN envelope ELSE db
        /\ Source' = IF HasEnvelope THEN envelope' ELSE db
    BY <1>2 DEF Source
  <2>2. Bare => \A w \in Units : db[w] # NoUnit => w = u
    BY DEF Ordered, LoneRow
  <2> QED
    BY <1>1, <1>2, <2>1, <2>2 DEF On
<1>4. LoneRow'
  BY <1>2 DEF LoneRow
<1>5. /\ \A w \in Units : Done(db', w) => db'[w].receipt # "none"
      /\ HasEnvelope' => \A w \in Units : Done(envelope', w) => envelope'[w].receipt # "none"
  BY <1>1, <1>2 DEF Ordered, DoneWaits, Done
<1> QED
  BY <1>3, <1>4, <1>5, WrittenOrdered

\* A unit is taken up: the single one may be new.
LEMMA RunUnitOrdered ==
    ASSUME Typed, Standing, Agreed, Ordered, Typed', WithinBudget', Standing', Agreed',
           crashes' = crashes, m.pc \in {"loop", "planned"}, ~m.pending,
           NEW u \in Units, NEW rec \in UnitRec, RunUnit(u, rec),
           \/ rec.state = "implementing" /\ db[u] # NoUnit
           \/ /\ rec.state = "assigned" /\ u = 0 /\ m.dags = NoDag
              /\ Bare => \A w \in Units : db[w] = NoUnit
    PROVE  Ordered'
<1>0. TypeOK /\ IsEngine(m) /\ db \in Table
  BY DEF Typed, TypeOK
<1>1. m' = [m EXCEPT !.pc = "dispatch_event", !.unit = u, !.rec = rec, !.reuse = FALSE]
      /\ UNCHANGED <<row, envelope, plan>>
  BY DEF RunUnit
<1>2. m'.pc = "dispatch_event" /\ m'.dags = m.dags /\ m'.pending = m.pending
  BY <1>0, <1>1 DEF IsEngine
<1>3. LeftOpen'
  BY <1>2 DEF Ordered, LeftOpen, Waiting, Unfinished, Accepted
<1>4. rec # NoUnit /\ rec.state # "accepted"
  BY DEF NoUnit
<1>5. CASE rec.state = "implementing"
  <2>1. UpdateUnit(u, rec) /\ db[u] # NoUnit
    BY <1>5 DEF RunUnit
  <2> QED
    BY <1>1, <1>2, <1>3, <1>4, <2>1, UpdateOrdered
<1>6. CASE rec.state = "assigned"
  <2>1. /\ db' = [db EXCEPT ![u] = rec] /\ u = 0 /\ m.dags = NoDag
        /\ Bare => \A w \in Units : db[w] = NoUnit
    BY <1>6 DEF RunUnit, InsertUnit
  <2>2. db'[u] = rec /\ \A w \in Units : w # u => db'[w] = db[w]
    BY <1>0, <2>1 DEF Table
  <2>3. /\ HasEnvelope' <=> HasEnvelope
        /\ Bare' <=> Bare
    BY <1>1 DEF HasEnvelope, Bare, Present
  <2>4. /\ Source = IF HasEnvelope /\ ~Bare THEN envelope ELSE db
        /\ Source' = IF HasEnvelope /\ ~Bare THEN envelope ELSE db'
    BY <1>1, <2>3 DEF Source
  <2>5. /\ \A w \in Units : On(w) => On(w)'
        /\ \A w \in Units : On(w)' => On(w) \/ w = 0
    BY <1>1, <1>4, <2>1, <2>2, <2>4 DEF On
  <2>6. \A w \in Units : On(w)' => On(w) \/ \A d \in Deps(w) : On(d)'
    BY <1>0, <2>5, DepsComeFirst
  <2>7. LoneRow'
    BY <1>2, <2>1, <2>2, <2>3 DEF LoneRow
  <2>8. /\ \A w \in Units : Done(db', w) => db'[w].receipt # "none"
        /\ HasEnvelope' => \A w \in Units : Done(envelope', w) => envelope'[w].receipt # "none"
    BY <1>1, <1>4, <2>2, <2>3 DEF Ordered, DoneWaits, Done
  <2> QED
    BY <1>1, <1>2, <1>3, <2>5, <2>6, <2>7, <2>8, WrittenOrdered
<1> QED
  BY <1>5, <1>6

\* NextSeed is the least unit without an entry, and comes after its dependencies.
LEMMA NextSeedFollows ==
    ASSUME Typed, m.pc \in {"seed", "seed_event"}
    PROVE  Deps(NextSeed) \subseteq DOMAIN m.dags
<1> DEFINE u == NextSeed
<1>0. /\ TypeOK /\ u \in DOMAIN plan \ DOMAIN m.dags
      /\ DOMAIN plan \ DOMAIN m.dags \subseteq Nat
  BY NextSeedIsUnit, PlanUnits DEF Typed, Units
<1>1. \A x \in DOMAIN plan \ DOMAIN m.dags : u <= x
  BY <1>0, LeastExists DEF NextSeed, Min
<1>2. \A d \in Deps(u) : d \in DOMAIN plan /\ d \in Nat /\ u \in Nat /\ d < u
  <2>1. plan \in DagPlans
    BY <1>0 DEF TypeOK, NoPlan
  <2>2. PICK n \in 1 .. MaxUnits : /\ plan \in [1 .. n -> SUBSET (1 .. n)]
                                   /\ \A w \in 1 .. n : \A d \in plan[w] : d < w
    BY <2>1, PlansAreSorted
  <2> QED
    BY <1>0, <2>2 DEF Deps
<1> QED
  BY <1>1, <1>2

LEMMA SeedUnitOrdered ==
    ASSUME Typed, Standing, Agreed, Ordered, Typed', WithinBudget', Standing', Agreed', SeedUnit
    PROVE  Ordered'
<1> DEFINE u == NextSeed
<1>0. /\ TypeOK /\ IsEngine(m) /\ db \in Table /\ m.pc = "seed"
      /\ u \in DOMAIN plan \ DOMAIN m.dags /\ u \in Units \ {0}
      /\ DOMAIN plan \ DOMAIN m.dags \subseteq Nat
  BY NextSeedIsUnit, PlanUnits DEF Typed, TypeOK, SeedUnit, Units
<1>1. /\ m' = [m EXCEPT !.pc = "seed_event"] /\ db' = [db EXCEPT ![u] = Fresh("queued")]
      /\ UNCHANGED <<row, envelope, plan, crashes>>
  BY DEF SeedUnit, InsertUnit
<1>2. m'.pc = "seed_event" /\ m'.dags = m.dags /\ m'.pending = m.pending /\ ~m.pending
  BY <1>0, <1>1 DEF IsEngine, Standing, UnitOpen
<1>3. Deps(u) \subseteq DOMAIN m.dags
  BY <1>0, NextSeedFollows
<1> HIDE DEF u
<1>4. db'[u] = Fresh("queued") /\ db'[u] # NoUnit /\ \A w \in Units : w # u => db'[w] = db[w]
  BY <1>0, <1>1 DEF Table, Fresh, NoUnit
<1>5. /\ HasEnvelope' <=> HasEnvelope
      /\ Bare' <=> Bare
  BY <1>1 DEF HasEnvelope, Bare, Present
<1>6. /\ Source = IF HasEnvelope /\ ~Bare THEN envelope ELSE db
      /\ Source' = IF HasEnvelope /\ ~Bare THEN envelope ELSE db'
  BY <1>1, <1>5 DEF Source
<1>7. \A w \in Units : On(w) => On(w)'
  BY <1>1, <1>4, <1>6 DEF On
<1>8. \A w \in Units : On(w)' => On(w) \/ \A d \in Deps(w) : On(d)'
  <2>1. \A d \in Deps(u) : On(d)'
    <3>1. DOMAIN m.dags \subseteq Units
      BY <1>0 DEF IsEngine
    <3> QED
      BY <1>3, <1>7, <3>1 DEF Ordered, DepsPlaced
  <2>2. \A w \in Units : On(w)' => On(w) \/ w = u
    BY <1>1, <1>4, <1>6 DEF On
  <2> QED
    BY <2>1, <2>2
<1>9. LoneRow'
  <2> SUFFICES ASSUME Bare PROVE m.dags = NoDag /\ \A w \in Units : w # u => db[w] = NoUnit
    BY <1>2, <1>4, <1>5 DEF LoneRow
  <2>1. m.dags = NoDag /\ db[0] = NoUnit /\ Source = db
    BY <1>0 DEF Ordered, LoneRow, Standing, BareEarly, Source
  <2> QED
    BY <1>0, <2>1 DEF Agreed, UnitsPlaced, NoDag
<1>10. LeftOpen'
  BY <1>1, <1>2 DEF Ordered, LeftOpen
<1>11. /\ \A w \in Units : Done(db', w) => db'[w].receipt # "none"
       /\ HasEnvelope' => \A w \in Units : Done(envelope', w) => envelope'[w].receipt # "none"
  BY <1>1, <1>4, <1>5 DEF Ordered, DoneWaits, Done, Fresh
<1> QED
  BY <1>1, <1>2, <1>7, <1>8, <1>9, <1>10, <1>11, WrittenOrdered

LEMMA SeedEventOrdered ==
    ASSUME Typed, Standing, Agreed, Ordered, Typed', WithinBudget', Standing', Agreed', SeedEvent
    PROVE  Ordered'
<1> DEFINE u == NextSeed
           seeded == DOMAIN m.dags \cup {u}
           p == IF seeded = DOMAIN plan THEN "loop" ELSE "seed"
<1>0. /\ TypeOK /\ IsEngine(m) /\ db \in Table /\ m.pc = "seed_event"
      /\ u \in DOMAIN plan \ DOMAIN m.dags /\ u \in Units \ {0}
      /\ DOMAIN plan \ DOMAIN m.dags \subseteq Nat
  BY NextSeedIsUnit, PlanUnits DEF Typed, TypeOK, SeedEvent, Units
<1>1. /\ m' = [m EXCEPT !.dags = [w \in seeded |-> Fresh("queued")], !.pc = p]
      /\ Append(u, Fresh("queued")) /\ UNCHANGED <<row, db, plan, crashes>>
  BY DEF SeedEvent
<1>2. /\ m'.pc = p /\ p \in {"loop", "seed"} /\ m'.dags = [w \in seeded |-> Fresh("queued")]
      /\ m'.pending = m.pending /\ ~m.pending
  BY <1>0, <1>1 DEF IsEngine, Standing, UnitOpen
<1>3. Deps(u) \subseteq DOMAIN m.dags
  BY <1>0, NextSeedFollows
<1>4. db[u] # NoUnit
  BY <1>0 DEF Agreed, RowsAgree, Fresh, NoUnit
<1> HIDE DEF u, p
<1>5. HasEnvelope => /\ envelope \in Table
                     /\ envelope' = [envelope EXCEPT ![u] = Fresh("queued")]
                     /\ DOMAIN envelope' = Units
                     /\ envelope'[u] = Fresh("queued")
                     /\ \A w \in Units : w # u => envelope'[w] = envelope[w]
  BY <1>0, <1>1 DEF Append, HasEnvelope, TypeOK, Table
<1>6. /\ HasEnvelope' <=> HasEnvelope
      /\ ~Bare'
      /\ Bare => HasEnvelope /\ \A w \in Units : envelope[w] = NoUnit
      /\ Fresh("queued") # NoUnit
  <2>1. DOMAIN NoEnvelope = {}
    BY DEF NoEnvelope
  <2>2. Fresh("queued") # NoUnit
    BY DEF Fresh, NoUnit
  <2> QED
    BY <1>0, <1>1, <1>5, <2>1, <2>2 DEF HasEnvelope, Bare, Present, Append
<1>7. \A w \in Units : On(w)' <=> On(w) \/ w = u
  <2>1. /\ Source = IF HasEnvelope /\ ~Bare THEN envelope ELSE db
        /\ Source' = IF HasEnvelope THEN envelope' ELSE db
    BY <1>1, <1>6 DEF Source
  <2>2. Bare => \A w \in Units : db[w] # NoUnit => w = u
    BY <1>0, <1>4 DEF Ordered, LoneRow
  <2> QED
    BY <1>0, <1>4, <1>5, <1>6, <2>1, <2>2 DEF On
<1>8. DepsPlaced'
  <2>1. \A w \in DOMAIN m.dags : w \in Units /\ On(w) /\ Deps(w) \subseteq DOMAIN m.dags
    BY <1>0 DEF Ordered, DepsPlaced, IsEngine
  <2>2. \A w \in Units : Deps(w) \subseteq Units
    BY <1>0, DepsComeFirst
  <2>3. \A d \in Deps(u) : On(d)
    BY <1>3, <2>1
  <2>4. \A w \in Units : On(w)' => \A d \in Deps(w) : On(d)'
    BY <1>7, <2>2, <2>3 DEF Ordered, DepsPlaced
  <2>5. DOMAIN m'.dags = DOMAIN m.dags \cup {u}
    BY <1>2
  <2>6. \A w \in DOMAIN m'.dags : On(w)' /\ Deps(w) \subseteq DOMAIN m'.dags
    BY <1>0, <1>3, <1>7, <2>1, <2>5
  <2> QED
    BY <1>1, <2>4, <2>6 DEF DepsPlaced, Deps
<1>9. LoneRow'
  BY <1>6 DEF LoneRow
<1>10. LeftOpen'
  <2>1. \A w \in DOMAIN m'.dags : m'.dags[w].state = "queued"
    BY <1>2 DEF Fresh
  <2>2. u \in DOMAIN m'.dags
    BY <1>2
  <2> QED
    BY <2>1, <2>2 DEF LeftOpen, Unfinished, Accepted
<1>11. DoneWaits'
  <2>1. /\ \A w \in Units : Done(db', w) => db'[w].receipt # "none"
        /\ HasEnvelope' => \A w \in Units : Done(envelope', w) => envelope'[w].receipt # "none"
    BY <1>1, <1>5, <1>6 DEF Ordered, DoneWaits, Done, Fresh
  <2>2. m'.pc \notin {"off", "turns"} /\ ~m'.pending
    BY <1>2
  <2> QED
    BY <1>8, <1>10, <2>1, <2>2, WaitsByPlace DEF DoneWaits, Done
<1> QED
  BY <1>8, <1>9, <1>10, <1>11 DEF Ordered

LEMMA HeadStepsOrdered ==
    ASSUME Typed, WithinBudget, Standing, Agreed, Ordered,
           Typed', WithinBudget', Standing', Agreed', HeadStep
    PROVE  Ordered'
<1>0. TypeOK /\ IsEngine(m) /\ db \in Table /\ 0 \in Units
  BY DEF Typed, TypeOK, Units
<1>2. CASE InitEnvelope
  <2>1. /\ m.pc = "setup" /\ m'.pc = "ready" /\ m'.dags = m.dags /\ m'.pending = m.pending
        /\ UNCHANGED <<row, db, plan, crashes>>
        /\ envelope' = [w \in Units |-> NoUnit]
    BY <1>0, <1>2 DEF InitEnvelope, IsEngine
  <2>2. /\ m.dags = NoDag /\ ~m.pending
        /\ \A w \in Units : db[w] = NoUnit /\ Source[w] = NoUnit
    BY <2>1 DEF Standing, BareEarly, UnitOpen, Agreed, UnitsPlaced
  <2>3. Bare' /\ Source' = db
    <3>1. DOMAIN envelope' = Units /\ DOMAIN NoEnvelope = {}
      BY <2>1 DEF NoEnvelope
    <3> QED
      BY <1>0, <2>1, <3>1 DEF HasEnvelope, Bare, Present, Source
  <2>4. \A w \in Units : (On(w)' <=> On(w))
    BY <2>2, <2>3 DEF On
  <2>5. LoneRow' /\ LeftOpen'
    BY <2>1, <2>2 DEF LoneRow, LeftOpen, NoDag
  <2>6. /\ \A w \in Units : Done(db', w) => db'[w].receipt # "none"
        /\ HasEnvelope' => \A w \in Units : Done(envelope', w) => envelope'[w].receipt # "none"
    BY <2>1, <2>2 DEF Done, NoUnit
  <2> QED
    BY <2>1, <2>2, <2>4, <2>5, <2>6, WrittenOrdered
<1>3. CASE TakePending
  <2>1. /\ m.pc = "loop" /\ m'.pc = "turns" /\ m'.dags = m.dags /\ m.pending /\ ~m'.pending
        /\ m'.outer = m.outer /\ UNCHANGED <<row, db, envelope, trees, plan, crashes>>
    BY <1>0, <1>3 DEF TakePending, AtLoop, IsEngine
  <2>2. m.dags # NoDag => Unfinished(m.dags) \/ (Blocked /\ Waiting)'
    BY <2>1 DEF Ordered, LeftOpen, Blocked, Waiting
  <2> QED
    BY <2>1, <2>2, MovedOrdered
<1>4. CASE NextDagUnit
  <2>1. m.pc = "loop" /\ ~m.pending /\ m.dags # NoDag
    BY <1>4 DEF NextDagUnit, AtLoop
  <2>2. CASE ReadyUnits(m.dags) # {}
    <3> DEFINE u == Min(ReadyUnits(m.dags))
    <3>1. u \in ReadyUnits(m.dags) /\ ReadyUnits(m.dags) \subseteq DOMAIN m.dags
      BY <1>0, <2>2, MinIsMember DEF ReadyUnits, IsEngine
    <3>2. RunUnit(u, Working(m.dags[u]))
      BY <1>4, <2>2 DEF NextDagUnit
    <3> HIDE DEF u
    <3>3. u \in DOMAIN m.dags /\ u \in Units /\ m.dags[u] \in UnitRec
      BY <1>0, <3>1 DEF IsEngine
    <3>4. Working(m.dags[u]) \in UnitRec /\ Working(m.dags[u]).state = "implementing"
      BY <3>3 DEF Working, UnitRec
    <3>5. db[u] # NoUnit
      BY <2>1, <3>3 DEF Agreed, RowsAgree
    <3> QED
      BY <2>1, <3>2, <3>3, <3>4, <3>5, RunUnitOrdered DEF RunUnit
  <2>3. CASE ReadyUnits(m.dags) = {}
    BY <1>0, <1>4, <2>3, EndOrdered DEF NextDagUnit, FailRun, Terminal
  <2> QED
    BY <2>2, <2>3
<1>5. ASSUME m.pc \in {"loop", "planned"}, ~m.pending, m.unit \in Units, m.unit # -1,
             RunUnit(m.unit, Working(m.rec))
      PROVE  Ordered'
  <2>1. m.rec \in UnitRec /\ db[m.unit] # NoUnit
    BY <1>0, <1>5 DEF Agreed, RowsAgree, IsEngine
  <2>2. Working(m.rec) \in UnitRec /\ Working(m.rec).state = "implementing"
    BY <2>1 DEF Working, UnitRec
  <2> QED
    BY <1>5, <2>1, <2>2, RunUnitOrdered DEF RunUnit
<1>6. CASE ReuseUnit
  <2>1. /\ m.pc = "loop" /\ ~m.pending /\ m.unit \in Units /\ m.unit # -1
        /\ RunUnit(m.unit, Working(m.rec))
    BY <1>6 DEF ReuseUnit, AtLoop, Standing, UnitOpen, Typed, InHand, Units
  <2> QED
    BY <1>5, <2>1
<1>7. ASSUME NEW p \in DagPlans \cup {NoPlan}, NEW c \in Charges, AskCommander(p, c)
      PROVE  Ordered'
  <2>1. /\ m.pc = "loop" /\ m' = [m EXCEPT !.pc = "planned"] /\ m.dags = NoDag
        /\ ~m.pending /\ UNCHANGED <<db, envelope, crashes>>
    BY <1>7 DEF AskCommander, Dispatching, AtLoop
  <2>2. m'.pc = "planned" /\ m'.dags = NoDag /\ ~m'.pending /\ DOMAIN NoDag = {}
    BY <1>0, <2>1 DEF IsEngine, NoDag
  <2>3. /\ Source' = Source
        /\ HasEnvelope' <=> HasEnvelope
        /\ Bare' <=> Bare
    BY <2>1, SameRecord
  <2>4. \A w \in Units \ {0} : ~On(w)
    BY <2>1 DEF Agreed, UnitsPlaced, On, NoDag
  <2>5. DepsPlaced'
    <3>1. Deps(0)' = {}
      <4>1. (TypeOK => Deps(0) = {})'
        BY DepsComeFirst, PTL
      <4> QED
        BY <4>1 DEF Typed
    <3> QED
      BY <2>2, <2>3, <2>4, <3>1 DEF DepsPlaced, On
  <2>6. LoneRow' /\ LeftOpen'
    BY <2>1, <2>2, <2>3 DEF Ordered, LoneRow, LeftOpen
  <2>7. DoneWaits'
    BY <2>1, <2>3, <2>4 DEF Ordered, DoneWaits, On, Done
  <2> QED
    BY <2>5, <2>6, <2>7 DEF Ordered
<1>8. CASE Planned
  <2>1. m.pc = "planned" /\ m.dags = NoDag /\ ~m.pending
    BY <1>8 DEF Planned, Typed, InHand, Standing, UnitOpen
  <2>2. CASE Exhausted(row)
    BY <1>0, <1>8, <2>2, EndOrdered DEF Planned, FailBudget, Terminal
  <2>3. CASE ~Exhausted(row) /\ plan # NoPlan
    <3>1. /\ m' = [m EXCEPT !.pc = "seed"]
          /\ UNCHANGED <<row, db, envelope, plan, crashes>>
      BY <1>8, <2>3 DEF Planned
    <3>2. m'.pc = "seed" /\ m'.dags = m.dags /\ m'.pending = m.pending
      BY <1>0, <3>1 DEF IsEngine
    <3> QED
      BY <2>1, <3>1, <3>2, MovedOrdered
  <2>4. CASE ~Exhausted(row) /\ plan = NoPlan /\ m.unit = -1
    <3>1. RunUnit(0, Fresh("assigned"))
      BY <1>8, <2>4 DEF Planned
    <3>2. Fresh("assigned") \in UnitRec /\ Fresh("assigned").state = "assigned"
      BY FreshIsUnit DEF Fresh
    <3>3. Bare => \A w \in Units : db[w] = NoUnit
      BY <2>1 DEF Standing, BareEarly
    <3> QED
      BY <1>0, <2>1, <3>1, <3>2, <3>3, RunUnitOrdered DEF RunUnit
  <2>5. CASE ~Exhausted(row) /\ plan = NoPlan /\ m.unit # -1
    <3>1. m.unit \in Units
      BY <1>0, <2>5 DEF IsEngine
    <3> QED
      BY <1>5, <1>8, <2>1, <2>5, <3>1 DEF Planned
  <2> QED
    BY <2>2, <2>3, <2>4, <2>5
<1> QED
  BY <1>2, <1>3, <1>4, <1>6, <1>7, <1>8, SeedUnitOrdered, SeedEventOrdered DEF HeadStep

LEMMA UnitStepsOrdered ==
    ASSUME Typed, WithinBudget, Standing, Agreed, Ordered,
           Typed', WithinBudget', Standing', Agreed', UnitStep
    PROVE  Ordered'
<1>a. m.pc \in HasUnit \ {"accept_set"} /\ m.pc \notin {"off", "seed", "seed_event"}
  BY DEF UnitStep, HasUnit, DispatchEvent, GoalIteration, GoalLoopOut,
              RecordReceipt, ReceiptEvent, OuterWorktree, Judge, RecordVerdict,
              VerdictEvent, AcceptUnit, ReworkUnit
<1>0. /\ TypeOK /\ IsEngine(m) /\ db \in Table /\ m.unit \in Units /\ m.rec \in UnitRec
      /\ ~m.pending /\ m.rec # NoUnit /\ m.unit # -1
  BY <1>a, InUse DEF Standing, UnitOpen, HasUnit, NoUnit
<1>b. db[m.unit] # NoUnit /\ (m.pc # "dispatch_event" => On(m.unit))
  BY <1>0, <1>a, UnitOnRecord DEF Agreed, RowsAgree
<1>c. m.dags # NoDag /\ m.pc # "turns" => Unfinished(m.dags) \/ (Blocked /\ m.pc = "outer")
  BY <1>0, <1>a DEF Ordered, LeftOpen, Waiting
<1>e. m.pc = "turns" => FALSE
  BY DEF UnitStep, DispatchEvent, GoalIteration, GoalLoopOut,
         RecordReceipt, ReceiptEvent, OuterWorktree, Judge, RecordVerdict,
         VerdictEvent, AcceptUnit, ReworkUnit
\* A step that goes on with the same units.
<1>d. ASSUME m'.dags = m.dags, crashes' = crashes, m.pc # "outer" PROVE LeftOpen'
  BY <1>c, <1>d, <1>e, <1>a DEF Ordered, LeftOpen, Unfinished, Accepted
\* A step that writes no table.
<1>f. ASSUME UNCHANGED <<db, envelope, plan, crashes>>, m'.dags = m.dags, m'.pending = m.pending,
             m'.pc \notin {"off", "seed", "seed_event", "turns"}, m.pc # "outer" \/ ~Blocked
      PROVE  Ordered'
  BY <1>0, <1>c, <1>e, <1>f, MovedOrdered
<1> DEFINE same == m'.dags = m.dags /\ m'.pending = m.pending
<1>1. CASE DispatchEvent
  <2> DEFINE rec == IF HasEnvelope /\ envelope[m.unit] # NoUnit
                    THEN Working(envelope[m.unit]) ELSE Fresh("implementing")
  <2>1. /\ m.pc = "dispatch_event" /\ m'.pc = "work" /\ m'.dags = m.dags /\ m'.pending = m.pending
        /\ Append(m.unit, rec) /\ UNCHANGED <<row, db, plan, crashes>>
    BY <1>0, <1>1 DEF DispatchEvent, IsEngine
  <2>2. rec \in UnitRec /\ rec.state = "implementing"
    BY <1>0, FreshIsUnit DEF HasEnvelope, TypeOK, Table, Working, Fresh, UnitRec
  <2>3. On(m.unit) \/ Deps(m.unit) = {}
    <3>1. CASE m.dags # NoDag
      <4>1. m.unit \in DOMAIN m.dags
        BY <2>1, <3>1 DEF Standing, DagKnown
      <4> QED
        BY <4>1 DEF Ordered, DepsPlaced
    <3>2. CASE m.dags = NoDag
      BY <1>0, <2>1, <3>2, DepsComeFirst DEF Agreed, UnitsPlaced
    <3> QED
      BY <3>1, <3>2
  <2> HIDE DEF rec
  <2> QED
    BY <1>0, <1>b, <1>d, <2>1, <2>2, <2>3, AppendOrdered DEF NoUnit
<1>2. ASSUME NEW c \in Charges, GoalIteration(c) PROVE Ordered'
  <2>1. /\ m.pc = "goal" /\ m' \in {m, [m EXCEPT !.pc = "receipt"]}
        /\ UNCHANGED <<db, envelope, plan, crashes>>
    BY <1>2 DEF GoalIteration, OnlyRun
  <2>2. same /\ m'.pc \in {"goal", "receipt"}
    BY <1>0, <2>1 DEF IsEngine
  <2> QED
    BY <1>f, <2>1, <2>2
<1>3. CASE GoalLoopOut
  <2>1. /\ m.pc = "goal" /\ m' = [m EXCEPT !.pc = "receipt"]
        /\ UNCHANGED <<db, envelope, plan, crashes>>
    BY <1>3 DEF GoalLoopOut, OnlyRun
  <2>2. same /\ m'.pc = "receipt"
    BY <1>0, <2>1 DEF IsEngine
  <2> QED
    BY <1>f, <2>1, <2>2
<1>4. ASSUME NEW kind \in {"empty", "full"}, RecordReceipt(kind) PROVE Ordered'
  <2> DEFINE rec == [m.rec EXCEPT !.state = "receipt_ready", !.receipt = kind]
  <2>1. rec \in UnitRec /\ rec.state = "receipt_ready"
    BY <1>0 DEF UnitRec
  <2>2. /\ m.pc = "receipt" /\ m' = [m EXCEPT !.pc = "receipt_event", !.rec = rec]
        /\ UpdateUnit(m.unit, rec) /\ UNCHANGED <<row, envelope, plan, crashes>>
    BY <1>4 DEF RecordReceipt
  <2> HIDE DEF rec
  <2>3. same /\ m'.pc = "receipt_event"
    BY <1>0, <2>2 DEF IsEngine
  <2> QED
    BY <1>0, <1>b, <1>d, <2>1, <2>2, <2>3, UpdateOrdered DEF NoUnit
<1>5. CASE ReceiptEvent
  <2> DEFINE rec == [envelope[m.unit] EXCEPT !.state = "receipt_ready",
                                             !.receipt = m.rec.receipt]
  <2>1. /\ m.pc = "receipt_event" /\ m'.pc = "receipt_set" /\ same
        /\ Append(m.unit, rec) /\ UNCHANGED <<row, db, plan, crashes>>
    BY <1>0, <1>5 DEF ReceiptEvent, IsEngine
  <2>2. HasEnvelope => rec \in UnitRec /\ rec.state = "receipt_ready"
    <3>1. HasEnvelope => envelope[m.unit] \in UnitRec
      BY <1>0 DEF HasEnvelope, TypeOK, Table
    <3> QED
      BY <1>0, <3>1 DEF UnitRec
  <2> HIDE DEF rec
  <2> QED
    BY <1>0, <1>b, <1>d, <2>1, <2>2, AppendOrdered DEF NoUnit
<1>6. CASE OuterWorktree
  <2>1. CASE m.outer + 1 > trees
    <3>1. /\ m.pc = "outer" /\ m' = [m EXCEPT !.pc = "judge", !.outer = @ + 1]
          /\ UNCHANGED <<db, envelope, plan, crashes>>
      BY <1>6, <2>1 DEF OuterWorktree
    <3>2. same /\ m'.pc = "judge"
      BY <1>0, <3>1 DEF IsEngine
    <3>3. ~Blocked
      BY <1>0, <2>1 DEF Blocked, IsEngine, TypeOK
    <3> QED
      BY <1>f, <3>1, <3>2, <3>3
  <2>2. CASE ~(m.outer + 1 > trees)
    BY <1>6, <2>2, GoneOrdered DEF OuterWorktree
  <2> QED
    BY <2>1, <2>2
<1>7. ASSUME NEW free \in FreeGates, NEW d \in Decisions, NEW c \in Charges, Judge(free, d, c)
      PROVE  Ordered'
  <2>1. /\ m.pc = "judge" /\ UNCHANGED <<db, envelope, plan, crashes>>
        /\ m' = [m EXCEPT !.pc = "ruled", !.ruling = EnforceDecision(d, GatesOf(free))]
    BY <1>7 DEF Judge, OnlyRun
  <2>2. same /\ m'.pc = "ruled"
    BY <1>0, <2>1 DEF IsEngine
  <2> QED
    BY <1>f, <2>1, <2>2
<1>8. CASE RecordVerdict
  <2>1. CASE OverBudget
    BY <1>0, <1>8, <2>1, EndOrdered DEF RecordVerdict, FailBudget, Terminal
  <2>2. CASE ~OverBudget
    <3>1. /\ m.pc = "ruled" /\ m' = [m EXCEPT !.pc = "verdict_event"]
          /\ UpdateUnit(m.unit, m.rec) /\ UNCHANGED <<row, envelope, plan, crashes>>
      BY <1>8, <2>2 DEF RecordVerdict
    <3>2. same /\ m'.pc = "verdict_event"
      BY <1>0, <3>1 DEF IsEngine
    <3>3. m.rec.receipt # "none"
      BY <3>1 DEF Standing, UnitOpen, Receipted
    <3> QED
      BY <1>0, <1>b, <1>d, <3>1, <3>2, <3>3, UpdateOrdered
  <2> QED
    BY <2>1, <2>2
<1>9. CASE VerdictEvent
  <2> DEFINE rec == Replayed(envelope[m.unit], Decision)
  <2>1. /\ m.pc = "verdict_event" /\ m'.pc = "apply" /\ same
        /\ Append(m.unit, rec) /\ UNCHANGED <<row, db, plan, crashes>>
    BY <1>0, <1>9 DEF VerdictEvent, IsEngine
  <2>2. HasEnvelope => /\ envelope[m.unit] \in UnitRec /\ envelope[m.unit].receipt # "none"
                       /\ rec \in UnitRec /\ rec.receipt = envelope[m.unit].receipt
    <3>1. HasEnvelope => envelope[m.unit] \in UnitRec /\ envelope[m.unit].receipt # "none"
      BY <1>0, <2>1 DEF HasEnvelope, TypeOK, Table, Standing, UnitOpen, Receipted
    <3> QED
      BY <3>1, ReplayedIsUnit DEF Replayed, UnitRec
  <2> HIDE DEF rec
  <2> QED
    BY <1>0, <1>b, <1>d, <2>1, <2>2, AppendOrdered DEF NoUnit
<1>10. CASE AcceptUnit
  <2> DEFINE rec == [m.rec EXCEPT !.state = "accepted"]
             d   == [w \in DOMAIN m.dags |-> IF w = m.unit THEN rec ELSE m.dags[w]]
  <2>1. /\ m.pc = "apply" /\ m' = [m EXCEPT !.pc = "accept_set", !.rec = rec, !.dags = d]
        /\ UpdateUnit(m.unit, rec) /\ UNCHANGED <<row, envelope, plan, crashes>>
    BY <1>10 DEF AcceptUnit
  <2>2. rec \in UnitRec /\ rec.state = "accepted" /\ rec.receipt # "none"
    BY <1>0, <2>1 DEF UnitRec, Standing, UnitOpen, Receipted
  <2> HIDE DEF rec
  <2>3. m'.pc = "accept_set" /\ m'.dags = d /\ ~m'.pending
    BY <1>0, <2>1 DEF IsEngine
  <2>4. LeftOpen'
    BY <2>1, <2>2, <2>3 DEF Ordered, LeftOpen
  <2> QED
    BY <1>0, <1>b, <2>1, <2>2, <2>3, <2>4, UpdateOrdered DEF NoUnit
<1>11. CASE ReworkUnit
  <2> DEFINE rec == [m.rec EXCEPT !.rework = @ + 1, !.state = "queued"]
  <2>1. rec \in UnitRec /\ rec.state = "queued"
    BY <1>0, ReworkedIsUnit DEF UnitRec
  <2>2. CASE rec.rework > MaxRework
    BY <1>0, <1>11, <2>2, EndOrdered DEF ReworkUnit, Terminal
  <2>3. CASE ~(rec.rework > MaxRework)
    <3>1. /\ m.pc = "apply" /\ m' = [m EXCEPT !.pc = "rework_set", !.rec = rec]
          /\ UpdateUnit(m.unit, rec) /\ UNCHANGED <<row, envelope, plan, crashes>>
      BY <1>11, <2>3 DEF ReworkUnit
    <3> HIDE DEF rec
    <3>2. same /\ m'.pc = "rework_set"
      BY <1>0, <3>1 DEF IsEngine
    <3> QED
      BY <1>0, <1>b, <1>d, <2>1, <3>1, <3>2, UpdateOrdered DEF NoUnit
  <2> QED
    BY <2>2, <2>3
<1> QED
  BY <1>1, <1>2, <1>3, <1>4, <1>5, <1>6, <1>7, <1>8, <1>9, <1>10, <1>11 DEF UnitStep

\* A resume that finds every unit of a DAG accepted waits for a review, and is
\* blocked there.
LEMMA ResumeOrdered == ASSUME Typed, Standing, Agreed, OnCourse, Ordered, Resume PROVE Ordered'
<1>0. /\ TypeOK /\ row.state \notin Terminal /\ m.pc = "off"
      /\ Units \subseteq Nat /\ db \in Table /\ trees \in Nat
  BY DEF Typed, TypeOK, Resume, Units
<1>1. /\ m' = Resumed /\ db' = Healed /\ UNCHANGED <<envelope, trees, plan, crashes>>
      /\ row'.state = row.state \/ row.state = "contract_ready"
  BY DEF Resume
<1>2. /\ Source \in Table
      /\ DOMAIN Existing = {w \in Units : Source[w] # NoUnit}
      /\ \A w \in DOMAIN Existing : Existing[w] = Source[w]
      /\ \A w \in Units : db'[w] = IF Source[w] # NoUnit THEN Source[w] ELSE db[w]
  BY <1>0, <1>1, ExistingIsSource
<1>3. /\ HasEnvelope /\ ~Bare => Source = envelope
      /\ ~HasEnvelope \/ Bare => Source = db /\ \A w \in Units : db'[w] = db[w]
  BY <1>2 DEF Source
<1>4. /\ m'.pc = "loop" /\ m'.outer = 0
      /\ m'.pending <=> PendingUnits # {}
      /\ m'.dags = IF \E w \in DOMAIN Existing : w > 0 THEN Existing ELSE NoDag
  BY <1>0, <1>1, ResumedIsTyped
<1>5. /\ Bare' <=> Bare
      /\ HasEnvelope' <=> HasEnvelope
      /\ \A w \in Units : Source'[w] = Source[w]
  BY <1>0, <1>1, <1>2, <1>3 DEF Bare, HasEnvelope, Present, Source
<1>6. \A w \in Units : /\ On(w)' <=> On(w)
                       /\ Done(Source', w) <=> Done(Source, w)
  BY <1>5 DEF On, Done
<1>7. \A w \in Units : Done(Source, w) => Source[w].receipt # "none" /\ trees > 0
  <2>1. \A w \in Units : Done(Source, w) => Source[w].receipt # "none"
    BY <1>3 DEF Ordered, DoneWaits, Done
  <2>2. trees = 0 => \A w \in Units : ~Done(Source, w)
    <3>1. DOMAIN db = Units /\ (HasEnvelope => DOMAIN envelope = Units)
      BY <1>0 DEF TypeOK, HasEnvelope, Table
    <3> QED
      BY <1>3, <3>1 DEF Standing, TablesLead, NoneDone
  <2> QED
    BY <1>0, <2>1, <2>2
<1>8. DepsPlaced'
  <2>1. \A w \in Units : Deps(w) \subseteq Units
    BY <1>0, DepsComeFirst
  <2>2. DOMAIN m'.dags \subseteq DOMAIN Existing
    BY <1>4 DEF NoDag
  <2>3. \A w \in DOMAIN m'.dags : On(w)' /\ Deps(w) \subseteq DOMAIN m'.dags
    <3>1. \A w \in DOMAIN Existing : w \in Units /\ On(w) /\ Deps(w) \subseteq DOMAIN Existing
      BY <1>2, <2>1 DEF On, Ordered, DepsPlaced
    <3> QED
      BY <1>4, <1>6, <2>2, <3>1 DEF NoDag
  <2> QED
    BY <1>1, <1>6, <2>1, <2>3 DEF Ordered, DepsPlaced, Deps
<1>9. LoneRow'
  BY <1>3, <1>4, <1>5 DEF Ordered, LoneRow
<1>10. LeftOpen'
  <2>1. crashes # 0
    BY <1>0 DEF OnCourse
  <2>2. ASSUME m'.dags # NoDag, ~Unfinished(m'.dags) PROVE (Blocked /\ Waiting)'
    <3>1. PICK v \in DOMAIN Existing : v > 0
      BY <1>4, <2>2
    <3>2. m'.dags = Existing /\ \A w \in DOMAIN Existing : w \in Units /\ Done(Source, w)
      BY <1>2, <1>4, <2>2 DEF Unfinished, Accepted, Done
    <3>3. AllDone /\ v \in Units \ {0} /\ On(v)
      BY <1>0, <1>2, <3>1, <3>2 DEF AllDone, On
    <3>4. row.state = "outer_reviewing" /\ trees > 0
      BY <1>0, <1>7, <3>2, <3>3 DEF Ordered, DoneWaits
    <3>5. PendingUnits # {}
      <4>1. DOMAIN Existing \in SUBSET Units /\ DOMAIN Existing # {}
        BY <3>1, <3>2
      <4> DEFINE u == Max(DOMAIN Existing)
      <4>2. u \in DOMAIN Existing /\ \A w \in DOMAIN Existing : w <= u
        BY <4>1, MaxIsMember
      <4> HIDE DEF u
      <4>3. Existing[u].receipt # "none"
        BY <1>2, <1>7, <3>2, <4>2
      <4> QED
        BY <3>4, <4>2, <4>3 DEF PendingUnits, Reviewable
    <3> QED
      BY <1>0, <1>1, <1>4, <3>4, <3>5 DEF Blocked, Waiting
  <2> QED
    BY <1>1, <2>1, <2>2 DEF LeftOpen
<1>11. DoneWaits'
  <2>1. /\ row'.state \notin Terminal /\ (\E w \in Units \ {0} : On(w)') /\ AllDone'
             => row'.state = "outer_reviewing"
    BY <1>0, <1>1, <1>6 DEF Ordered, DoneWaits, AllDone
  <2>2. \A w \in Units : Done(db', w) => db'[w].receipt # "none"
    BY <1>2, <1>7 DEF Ordered, DoneWaits, Done
  <2>3. HasEnvelope' => \A w \in Units : Done(envelope', w) => envelope'[w].receipt # "none"
    BY <1>1, <1>5 DEF Ordered, DoneWaits, Done
  <2> QED
    BY <2>1, <2>2, <2>3 DEF DoneWaits, Done
<1> QED
  BY <1>8, <1>9, <1>10, <1>11 DEF Ordered

LEMMA InitOrdered == Init => Ordered
<1> SUFFICES ASSUME Init PROVE Ordered
  OBVIOUS
<1>1. /\ m.pc = "setup" /\ m.dags = NoDag /\ DOMAIN m.dags = {}
      /\ \A w \in Units : db[w] = NoUnit
      /\ ~HasEnvelope /\ ~Bare /\ Source = db
  BY DEF Init, Off, HasEnvelope, Bare, Source, NoDag
<1>2. \A w \in Units : ~On(w) /\ ~Done(db, w)
  BY <1>1 DEF On, Done, NoUnit
<1> QED
  BY <1>1, <1>2 DEF Ordered, DepsPlaced, LoneRow, LeftOpen, DoneWaits

LEMMA NextOrdered ==
    ASSUME Typed, WithinBudget, Standing, Agreed, OnCourse, Ordered,
           Typed', WithinBudget', Standing', Agreed', [Next]_vars
    PROVE  Ordered'
<1>1. CASE Engine
  BY <1>1, EngineSteps, StateStepsOrdered, HeadStepsOrdered, UnitStepsOrdered
<1>2. CASE Resume
  BY <1>2, ResumeOrdered
<1>3. CASE Crash
  BY <1>3, GoneOrdered DEF Crash
<1>4. CASE UNCHANGED vars
  <2>1. UNCHANGED <<row, db, envelope, trees, plan, m, crashes>>
    BY <1>4 DEF vars
  <2>2. /\ Source' = Source
        /\ HasEnvelope' <=> HasEnvelope
        /\ Bare' <=> Bare
    BY <2>1, SameRecord
  <2> QED
    BY <2>1, <2>2 DEF Ordered, DepsPlaced, LoneRow, LeftOpen, DoneWaits, AllDone, On, Done, Deps,
                      Unfinished, Accepted, Blocked, Waiting
<1> QED
  BY <1>1, <1>2, <1>3, <1>4 DEF Next

\* The least unit that is not accepted is ready: those it depends on have an
\* entry and come before it.
LEMMA SomeUnitIsReady == ASSUME Typed, Standing, Ordered PROVE NoDagDeadEnd
<1> SUFFICES ASSUME m.pc = "loop", m.dags # NoDag, ~m.pending, ReadyUnits(m.dags) = {}
             PROVE  crashes > 0 /\ \E u \in DOMAIN m.dags : m.dags[u].state = "rejected"
  BY DEF NoDagDeadEnd
<1> DEFINE left == DOMAIN m.dags \ Accepted(m.dags)
<1>0. /\ TypeOK /\ Units \subseteq Nat /\ DOMAIN m.dags \subseteq Units /\ crashes \in Nat
  <2>1. TypeOK
    BY DEF Typed
  <2>2. Units \subseteq Nat
    BY DEF Units
  <2>3. IsEngine(m)
    BY <2>1 DEF TypeOK
  <2>4. crashes \in Nat
    <3>1. crashes \in 0 .. MaxCrash
      BY <2>1 DEF TypeOK
    <3> QED
      BY <3>1
  <2>5. DOMAIN m.dags \subseteq Units
    BY <2>3 DEF IsEngine
  <2> QED
    BY <2>1, <2>2, <2>4, <2>5
<1>1. left # {} /\ left \in SUBSET Nat
  BY <1>0 DEF Ordered, LeftOpen, Waiting, Unfinished, Accepted
<1>2. PICK u \in left : \A w \in left : u <= w
  BY <1>1, LeastExists
<1>3. \A d \in Deps(u) : d \in Accepted(m.dags)
  <2>1. Deps(u) \subseteq DOMAIN m.dags /\ \A d \in Deps(u) : d < u
    BY <1>0, DepsComeFirst DEF Ordered, DepsPlaced
  <2> QED
    BY <1>0, <1>1, <1>2, <2>1
<1>4. m.dags[u].state = "rejected"
  BY <1>3 DEF ReadyUnits, Accepted
<1> QED
  BY <1>0, <1>4 DEF Ordered, LeftOpen

\* At the head of the loop some unit of the DAG can be dispatched, whatever a
\* crash left of it, unless one was rejected and a crash came before the run was
\* closed.  So next_ready_unit finds a unit, E_DAG_CYCLE does not end a run, and
\* a run is not accepted at the head of the loop without a review.
THEOREM DagNeverWedges == Spec => []NoDagDeadEnd
<1>1. /\ Typed /\ WithinBudget /\ Standing /\ Agreed /\ [Next]_vars
            => Typed' /\ WithinBudget' /\ Standing' /\ Agreed'
  BY NextTyped, NextBudget, NextStanding, NextAgreed
<1>2. Typed /\ OnCourse /\ [Next]_vars => OnCourse'
  BY NextOnCourse
<1>3. ASSUME Typed, WithinBudget, Standing, Agreed, OnCourse, Ordered,
             Typed', WithinBudget', Standing', Agreed', [Next]_vars
      PROVE  Ordered'
  BY <1>3, NextOrdered
<1>4. Init => Typed /\ OnCourse
  BY InitTyped, InitOnCourse
<1>5. Typed /\ Standing /\ Ordered => NoDagDeadEnd
  BY SomeUnitIsReady
<1> QED
  BY <1>1, <1>2, <1>3, <1>4, <1>5, InitBudget, InitStanding, InitAgreed, InitOrdered, PTL DEF Spec
=============================================================================
