---------------------------- MODULE VerdictProofs ----------------------------
(***************************************************************************)
(* Proofs about the verdict on a unit.  Harvest, for any paths, globs and  *)
(* criteria: a receipt says what its commit has changed since the base     *)
(* commit, and the review accepts by that.  Review, for every MaxRework:   *)
(* what enforce_decision does with any proposal and any gates; its         *)
(* inductive invariant adds to the type that a review which has been       *)
(* measured is judged by the rework count and the budget of the unit as    *)
(* they are.                                                               *)
(***************************************************************************)
EXTENDS Review, Harvest, FiniteSetTheorems, TLAPS

-----------------------------------------------------------------------------
(* Reviews of one unit, one after another *)

ReviewInv ==
    /\ ReviewTypeOK
    /\ stage = "measured" => /\ gates \in Gates
                             /\ gates.rework = rework
                             /\ gates.exhausted => exhausted
                             /\ status = "open"
    /\ AcceptedThroughGates
    /\ RedTestReworks
    /\ EscalatesAtLimit

-----------------------------------------------------------------------------
(* What enforce_decision does *)

\* It answers with a decision and a note.
LEMMA EnforceType ==
    ASSUME NEW d \in Decisions, NEW g \in Gates
    PROVE  EnforceDecision(d, g) \in Decisions \X Notes
BY DEF EnforceDecision, Limited, Refusal, Decisions, Notes

\* An accept comes out only where one went in and every gate was open, or with
\* the note that the budget forbids it.
LEMMA EnforceAccept ==
    ASSUME NEW d \in Decisions, NEW g \in Gates,
           EnforceDecision(d, g)[1] = "accept", EnforceDecision(d, g)[2] # "budget"
    PROVE  d = "accept" /\ CanAccept(g)
BY DEF EnforceDecision, Limited, Refusal, Decisions, Notes

\* A rework is granted below the limit only.
LEMMA EnforceRework ==
    ASSUME NEW d \in Decisions, NEW g \in Gates,
           EnforceDecision(d, g)[1] = "rework"
    PROVE  g.rework < MaxRework
BY MaxReworkType DEF EnforceDecision, Limited, Refusal, Decisions, Notes, Gates

\* An escalation that was not proposed is one of reworks that are used up.
LEMMA EnforceEscalate ==
    ASSUME NEW d \in Decisions, NEW g \in Gates,
           EnforceDecision(d, g)[1] = "escalate", d # "escalate"
    PROVE  g.rework >= MaxRework
BY MaxReworkType DEF EnforceDecision, Limited, Refusal, Decisions, Notes, Gates

\* A red outer test is neither accepted nor rejected.
LEMMA EnforceRed ==
    ASSUME NEW g \in Gates, NEW d \in Proposals(g), ~g.outer
    PROVE  EnforceDecision(d, g)[1] \in {"rework", "escalate"}
<1>1. d = "rework"
  BY DEF Proposals, CanAccept, MechanicalVerdict, Gates
<1> QED
  BY <1>1 DEF EnforceDecision, Limited

\* An accept of a change that is out of bounds, or leaks a secret, is a reject.
LEMMA EnforceReject ==
    ASSUME NEW g \in Gates, g.outer, ~g.exhausted, ~g.boundary \/ ~g.secrets
    PROVE  EnforceDecision("accept", g)[1] = "reject"
BY DEF EnforceDecision, Limited, Refusal, CanAccept, Gates

-----------------------------------------------------------------------------
(* The invariant *)

LEMMA InitReviewInv == ReviewInit => ReviewInv
BY MaxReworkType, NoReviewDistinct
   DEF ReviewInit, ReviewInv, ReviewTypeOK, AcceptedThroughGates, RedTestReworks, EscalatesAtLimit,
       Statuses, Decisions, Notes

LEMMA BudgetStopInv == ReviewInv /\ BudgetStop => ReviewInv'
BY DEF ReviewInv, ReviewTypeOK, BudgetStop, AcceptedThroughGates, RedTestReworks, EscalatesAtLimit,
       Statuses, CanAccept

LEMMA MeasureInv == ReviewInv /\ Measure => ReviewInv'
BY MaxReworkType
   DEF ReviewInv, ReviewTypeOK, Measure, AcceptedThroughGates, RedTestReworks, EscalatesAtLimit,
       Statuses, Gates

\* The verdict: one step for each part of the invariant.
LEMMA RuleInv ==
    ASSUME ReviewInv, NEW d \in Decisions, NEW over \in BOOLEAN, Rule(d, over)
    PROVE  ReviewInv'
<1> DEFINE r == EnforceDecision(d, gates)
<1>1. gates \in Gates /\ gates.rework = rework /\ rework \in 0 .. MaxRework
  BY DEF Rule, ReviewInv, ReviewTypeOK
<1>2. /\ ruling' = r /\ status' = Outcome(r, over) /\ proposed' = d
      /\ exhausted' = over /\ stage' = "work" /\ gates' = gates
      /\ rework' = IF r[1] = "rework" THEN rework + 1 ELSE rework
      /\ d \in Proposals(gates)
  BY DEF Rule
<1>3. r \in Decisions \X Notes
  BY <1>1, EnforceType
<1>4. r[1] = "rework" => rework < MaxRework
  BY <1>1, EnforceRework
<1>5. ReviewTypeOK'
  <2>1. Outcome(r, over) \in Statuses
    BY DEF Outcome, Statuses
  <2>2. rework' \in 0 .. MaxRework
    BY <1>1, <1>2, <1>4, MaxReworkType
  <2> QED
    BY <1>1, <1>2, <1>3, <2>1, <2>2 DEF ReviewTypeOK
<1>6. AcceptedThroughGates'
  <2> SUFFICES ASSUME Outcome(r, over) = "accepted"
               PROVE  CanAccept(gates) /\ d = "accept" /\ ~over
    BY <1>1, <1>2 DEF AcceptedThroughGates, CanAccept, Gates
  <2>1. r[1] = "accept" /\ r[2] # "budget" /\ ~over
    BY <1>3 DEF Outcome, Decisions
  <2> QED
    BY <1>1, <2>1, EnforceAccept
<1>7. RedTestReworks'
  BY <1>1, <1>2, EnforceRed DEF RedTestReworks
<1>8. EscalatesAtLimit'
  <2> SUFFICES ASSUME Outcome(r, over) = "escalate", d # "escalate"
               PROVE  rework' = MaxRework
    BY <1>2 DEF EscalatesAtLimit
  <2>1. r[1] = "escalate"
    BY <1>3 DEF Outcome, Decisions
  <2>2. gates.rework >= MaxRework
    BY <1>1, <2>1, EnforceEscalate
  <2> QED
    BY <1>1, <1>2, <2>1, <2>2, MaxReworkType
<1> QED
  BY <1>2, <1>5, <1>6, <1>7, <1>8 DEF ReviewInv

LEMMA NextReviewInv == ReviewInv /\ [ReviewNext]_reviewVars => ReviewInv'
<1> SUFFICES ASSUME ReviewInv, [ReviewNext]_reviewVars PROVE ReviewInv'
  OBVIOUS
<1>1. CASE BudgetStop
  BY <1>1, BudgetStopInv
<1>2. CASE Measure
  BY <1>2, MeasureInv
<1>3. CASE \E d \in Decisions, over \in BOOLEAN : Rule(d, over)
  BY <1>3, RuleInv
<1>4. CASE UNCHANGED reviewVars
  BY <1>4 DEF reviewVars, ReviewInv, ReviewTypeOK, AcceptedThroughGates, RedTestReworks, EscalatesAtLimit
<1> QED
  BY <1>1, <1>2, <1>3, <1>4 DEF ReviewNext

LEMMA ReviewHolds == ReviewSpec => []ReviewInv
BY InitReviewInv, NextReviewInv, PTL DEF ReviewSpec

-----------------------------------------------------------------------------
(* Theorems *)

\* The variables stay in their types; rework_count of the unit never passes the
\* limit, whatever the commander proposes.
THEOREM ReviewTyped == ReviewSpec => []ReviewTypeOK
<1>1. ReviewInv => ReviewTypeOK
  BY DEF ReviewInv
<1> QED
  BY <1>1, ReviewHolds, PTL

\* FR-014: a run is accepted through every gate, with budget left.
THEOREM GatesHold == ReviewSpec => []AcceptedThroughGates
<1>1. ReviewInv => AcceptedThroughGates
  BY DEF ReviewInv
<1> QED
  BY <1>1, ReviewHolds, PTL

\* FR-013: a red test is reworked or escalated.
THEOREM RedNeverCloses == ReviewSpec => []RedTestReworks
<1>1. ReviewInv => RedTestReworks
  BY DEF ReviewInv
<1> QED
  BY <1>1, ReviewHolds, PTL

\* An escalation nobody proposed comes after exactly MaxRework reworks.
THEOREM EscalationIsLate == ReviewSpec => []EscalatesAtLimit
<1>1. ReviewInv => EscalatesAtLimit
  BY DEF ReviewInv
<1> QED
  BY <1>1, ReviewHolds, PTL

\* FR-012: enforce_decision overrules the commander at every shut gate.
THEOREM EnforceIsSafe == ReviewSpec => []EnforceSafe
<1>1. EnforceSafe
  <2> SUFFICES ASSUME gates \in Gates, NEW d \in Decisions
               PROVE  LET r == EnforceDecision(d, gates)
                      IN  /\ r[1] = "accept" /\ r[2] # "budget"
                                 => d = "accept" /\ CanAccept(gates)
                          /\ r[1] = "rework" => gates.rework < MaxRework
                          /\ d = "accept" /\ gates.outer /\ ~gates.exhausted
                                 /\ (~gates.boundary \/ ~gates.secrets) => r[1] = "reject"
    BY DEF EnforceSafe
  <2> QED
    BY EnforceAccept, EnforceRework, EnforceReject
<1> QED
  BY <1>1, PTL

-----------------------------------------------------------------------------
(* From the worktree to the verdict *)

USE PathsType, MaxReworkType

InHand == {"receipt", "accept", "reject", "escalate", "budget"}

\* What is judged is the HEAD of the inner worktree.
Judged == phase \in InHand /\ role = "master" => head = receipt.commit

\* The receipt says what git diff lists of the changes since the base.
Honest == receipt.changed \in Listed(Base, receipt.commit)

IInv == TypeOK /\ Judged /\ Honest /\ AcceptedInBounds

\* A decision to accept that does not hit the budget has all gates behind it.
LEMMA AcceptNeedsGates ==
    ASSUME NEW g \in Gates, NEW d \in Decisions,
           EnforceDecision(d, g)[1] = "accept",
           EnforceDecision(d, g) # <<"accept", "budget">>
    PROVE  CanAccept(g)
  BY DEF EnforceDecision, Limited, Refusal, Decisions

\* A listing leaves out deleted files alone, no more of them than were created.
LEMMA ListedMisses ==
    ASSUME NEW a \in Trees, NEW b \in Trees, NEW listed \in Listed(a, b)
    PROVE  /\ listed \subseteq Diff(a, b)
           /\ Created(a, b) \subseteq listed
           /\ \A missed \in SUBSET (Diff(a, b) \ listed) :
                 missed \subseteq Deleted(a, b) /\ Cardinality(missed) <= Cardinality(Created(a, b))
<1>1. PICK moved \in SUBSET Deleted(a, b) :
         Cardinality(moved) <= Cardinality(Created(a, b)) /\ listed = Diff(a, b) \ moved
  BY DEF Listed
<1>2. moved \cap Created(a, b) = {} /\ Created(a, b) \subseteq Diff(a, b)
  BY <1>1 DEF Created, Deleted, Diff
<1>3. ASSUME NEW missed \in SUBSET (Diff(a, b) \ listed)
      PROVE  missed \subseteq Deleted(a, b) /\ Cardinality(missed) <= Cardinality(Created(a, b))
  <2>1. missed \subseteq moved
    BY <1>1
  <2>2. moved \subseteq Paths /\ Created(a, b) \subseteq Paths
    BY DEF Created, Deleted
  <2>3. IsFiniteSet(moved) /\ IsFiniteSet(Created(a, b))
    BY <2>2, FS_Subset
  <2>4. Cardinality(missed) <= Cardinality(moved) /\ IsFiniteSet(missed)
    BY <2>1, <2>3, FS_Subset
  <2>5. /\ Cardinality(missed) \in Nat /\ Cardinality(moved) \in Nat
        /\ Cardinality(Created(a, b)) \in Nat
    BY <2>3, <2>4, FS_CardinalityType
  <2> QED
    BY <1>1, <2>1, <2>4, <2>5
<1> QED
  BY <1>1, <1>2, <1>3

LEMMA ListedType ==
    ASSUME NEW a \in Trees, NEW b \in Trees
    PROVE  \A listed \in Listed(a, b) : listed \in SUBSET Paths
  BY DEF Listed, Diff

LEMMA InitIInv == Init => IInv
<1> SUFFICES ASSUME Init PROVE IInv
  OBVIOUS
<1>1. Base \in Trees
  BY DEF Base, Trees
<1>2. {} \in Listed(Base, Base)
  <2>1. Diff(Base, Base) = {}
    BY DEF Diff
  <2>2. Cardinality({}) <= Cardinality(Created(Base, Base))
    <3>1. Created(Base, Base) = {}
      BY DEF Created
    <3> QED
      BY <3>1, FS_EmptySet
  <2> QED
    BY <2>1, <2>2 DEF Listed
<1> QED
  BY <1>1, <1>2 DEF Init, IInv, TypeOK, Judged, Honest, AcceptedInBounds, InHand, Phases

\* The worker never touches the receipt.
LEMMA WorkerStep == ASSUME IInv, Worker PROVE IInv'
<1> USE DEF IInv, TypeOK, Working, Trees
<1>1. Base \in Trees /\ \A p \in Paths : Base[p] \in {"none", "base", "new"}
  BY DEF Base
<1>2. TypeOK'
  <2>1. ASSUME NEW p \in Paths, Edit(p) PROVE TypeOK'
    BY <2>1, <1>1 DEF Edit
  <2>2. ASSUME NEW p \in Paths, StageByHand(p) PROVE TypeOK'
    BY <2>2 DEF StageByHand
  <2>3. CASE CommitByHand
    BY <2>3 DEF CommitByHand, Commit
  <2>4. CASE ResetByHand
    BY <2>4, <1>1 DEF ResetByHand
  <2>5. CASE LeaveBranch
    BY <2>5 DEF LeaveBranch
  <2> QED
    BY <2>1, <2>2, <2>3, <2>4, <2>5 DEF Worker
<1>3. UNCHANGED <<role, added, receipt, reworks, phase>> /\ phase = "working"
  BY DEF Worker, Edit, StageByHand, CommitByHand, ResetByHand, LeaveBranch
<1> QED
  BY <1>2, <1>3 DEF Judged, Honest, InHand, AcceptedInBounds

LEMMA ReceiptStep ==
    ASSUME IInv, \/ PeerOutOfBounds \/ AddFiles \/ AddFails \/ Crash \/ NothingToCommit
                 \/ Receipt \/ MergePeer \/ PickFails
    PROVE  IInv'
<1> USE DEF IInv, TypeOK, Phases
<1>1. CASE PeerOutOfBounds
  BY <1>1 DEF PeerOutOfBounds, Fails, tree, Judged, Honest, InHand, AcceptedInBounds
<1>0. /\ \A ps \in Addable : ps \subseteq Paths
      /\ \A ps \in SUBSET Paths : WithAdded(ps) \in Trees
  BY DEF WithAdded, Addable, Status, Listed, Diff, Trees
<1>2. CASE AddFiles
  BY <1>2, <1>0 DEF AddFiles, Judged, Honest, InHand, AcceptedInBounds
<1>7. CASE AddFails
  <2>1. index' \in Trees
    BY <1>7, <1>0 DEF AddFails
  <2> QED
    BY <1>7, <2>1 DEF AddFails, Judged, Honest, InHand, AcceptedInBounds
<1>3. CASE Crash
  BY <1>3 DEF Crash, tree, Judged, Honest, InHand, AcceptedInBounds
<1>4. CASE NothingToCommit
  BY <1>4 DEF NothingToCommit, Fails, tree, Judged, Honest, InHand, AcceptedInBounds
<1>b. Base \in Trees
  BY DEF Base, Trees
<1>5. CASE Receipt
  <2>1. head' \in Trees /\ parent' \in Trees
    BY <1>5 DEF Receipt, Commit
  <2>2. PICK listed \in Listed(Base, head') :
            receipt' = [commit |-> head', changed |-> listed] /\ phase' = "receipt"
    BY <1>5 DEF Receipt, Committed, From
  <2>3. listed \in SUBSET Paths
    BY <1>b, <2>1, ListedType
  <2> QED
    BY <1>5, <2>1, <2>2, <2>3 DEF Receipt, Judged, Honest, AcceptedInBounds
<1>6. CASE MergePeer
  <2>1. Picked \in Trees
    BY <1>b DEF Picked, Trees
  <2>2. PICK listed \in Listed(Base, Picked) : receipt' = [commit |-> Picked, changed |-> listed]
    BY <1>6 DEF MergePeer, From
  <2>3. listed \in SUBSET Paths
    BY <1>b, <2>1, ListedType
  <2> QED
    BY <1>6, <2>1, <2>2, <2>3 DEF MergePeer, tree, Judged, Honest, InHand, AcceptedInBounds
<1>8. CASE PickFails
  BY <1>8 DEF PickFails, Fails, tree, Judged, Honest, InHand, AcceptedInBounds
<1> QED
  BY <1>1, <1>2, <1>3, <1>4, <1>5, <1>6, <1>7, <1>8

\* The review accepts nothing but what the receipt says and the globs allow.
LEMMA VerdictStep == ASSUME IInv, Verdict PROVE IInv'
<1> USE DEF IInv, TypeOK
<1>0. PICK free \in Free :
         \E d \in Proposals(GatesOf(free)) :
             LET dn == EnforceDecision(d, GatesOf(free))
             IN phase' = IF dn = <<"accept", "budget">> THEN "budget" ELSE dn[1]
  BY DEF Verdict
<1> DEFINE g == GatesOf(free)
<1>1. PICK d \in Proposals(g) :
         LET dn == EnforceDecision(d, g)
         IN phase' = IF dn = <<"accept", "budget">> THEN "budget" ELSE dn[1]
  BY <1>0
<1> DEFINE dn == EnforceDecision(d, g)
<1>2. g \in Gates
  <2>1. reworks \in Nat
    OBVIOUS
  <2>2. (\A p \in Needed : receipt.commit[p] = "new") \in BOOLEAN
    OBVIOUS
  <2>3. InBounds(receipt.changed) \in BOOLEAN /\ MustMet(receipt.changed) \in BOOLEAN
    BY DEF InBounds, MustMet
  <2>4. /\ free.exhausted \in BOOLEAN /\ free.plugin \in BOOLEAN
        /\ free.bound \in BOOLEAN /\ free.secrets \in BOOLEAN
    BY <1>0 DEF Free
  <2> QED
    BY <2>1, <2>2, <2>3, <2>4 DEF GatesOf, Gates
<1>3. d \in Decisions
  BY <1>1 DEF Proposals, Decisions, MechanicalVerdict
<1>4. dn[1] \in Decisions
  BY <1>3 DEF EnforceDecision, Limited, Refusal, Decisions
<1>5. phase' \in {"budget"} \cup Decisions
  BY <1>1, <1>4
<1>6. ASSUME phase' = "accept" PROVE AcceptedInBounds'
  <2>1. dn # <<"accept", "budget">> /\ dn[1] = "accept"
    BY <1>1, <1>6
  <2>2. CanAccept(g)
    BY <1>2, <1>3, <2>1, AcceptNeedsGates
  <2>3. InBounds(receipt.changed) /\ MustHave \subseteq receipt.changed /\ receipt.changed # {}
    BY <2>2 DEF CanAccept, GatesOf, MustMet
  <2>4. Base \in Trees /\ receipt.commit \in Trees /\ receipt' = receipt
    BY DEF Base, Trees, Verdict
  <2>5. /\ receipt.changed \subseteq Diff(Base, receipt.commit)
        /\ Created(Base, receipt.commit) \subseteq receipt.changed
        /\ OutOfBounds(receipt.commit) \subseteq Diff(Base, receipt.commit) \ receipt.changed
    BY <2>3, <2>4, ListedMisses DEF Honest, InBounds, OutOfBounds
  <2>6. /\ OutOfBounds(receipt.commit) \subseteq Deleted(Base, receipt.commit)
        /\ Cardinality(OutOfBounds(receipt.commit)) <= Cardinality(Created(Base, receipt.commit))
    BY <2>4, <2>5, ListedMisses DEF Honest
  <2>7. Created(Base, receipt.commit) \ Records \subseteq Allowed \ Forbidden
    BY <2>3, <2>5 DEF InBounds
  <2> QED
    BY <2>3, <2>4, <2>5, <2>6, <2>7 DEF AcceptedInBounds
<1>7. AcceptedInBounds'
  BY <1>6 DEF AcceptedInBounds
<1>8. TypeOK'
  BY <1>5 DEF Verdict, tree, Phases, Decisions
<1> QED
  BY <1>7, <1>8 DEF Verdict, Reviewing, tree, Judged, Honest, InHand

LEMMA StepIInv == IInv /\ [Next]_vars => IInv'
<1> SUFFICES ASSUME IInv, [Next]_vars PROVE IInv'
  OBVIOUS
<1>1. CASE OutOfTurns
  BY <1>1 DEF OutOfTurns, Reviewing, Fails, tree, IInv, TypeOK, Phases, Judged, Honest, InHand,
              AcceptedInBounds
<1>2. CASE Rework
  BY <1>2 DEF Rework, tree, IInv, TypeOK, Phases, Judged, Honest, InHand, AcceptedInBounds
<1>3. CASE UNCHANGED vars
  BY <1>3 DEF vars, IInv, TypeOK, Judged, Honest, AcceptedInBounds
<1> QED
  BY <1>1, <1>2, <1>3, WorkerStep, ReceiptStep, VerdictStep DEF Next

LEMMA Invariant == Spec => []IInv
  BY InitIInv, StepIInv, PTL DEF Spec

-----------------------------------------------------------------------------

\* The trees stay trees, and the reworks within their limit.
THEOREM TypeCorrect == Spec => []TypeOK
<1>1. IInv => TypeOK
  BY DEF IInv
<1> QED
  BY <1>1, Invariant, PTL

\* Whatever the history of the branch, no file that is new or changed gets past the
\* boundary check; a deleted one does only where git may take it for the old name of a
\* file that was created in bounds.
THEOREM BoundsHold == Spec => []AcceptedInBounds
<1>1. IInv => AcceptedInBounds
  BY DEF IInv
<1> QED
  BY <1>1, Invariant, PTL

\* What has been accepted is what the inner worktree has at its HEAD.
THEOREM BranchIsJudged == Spec => []AcceptedIsOnBranch
<1>1. IInv => AcceptedIsOnBranch
  BY DEF IInv, Judged, InHand, AcceptedIsOnBranch
<1> QED
  BY <1>1, Invariant, PTL

-----------------------------------------------------------------------------
(* What is left behind *)

\* After the add, the index has what the worktree has, but for the files left out; and
\* if nothing was added, so has HEAD, but for deletions that git may take for moves to
\* the files left out.
Gathered ==
    phase = "added" =>
        /\ Diff(work, index) \subseteq LeftOut
        /\ added = {} =>
              LET missed == Diff(head, index) \ LeftOut IN
              /\ missed \subseteq Deleted(head, index)
              /\ missed # {} => /\ Created(head, index) \subseteq LeftOut
                                /\ Cardinality(missed) <= Cardinality(Created(head, index))

LEMMA AddGathers == ASSUME TypeOK, AddFiles PROVE Gathered'
<1>1. PICK ps \in Addable :
         added' = ps /\ index' = WithAdded(ps) /\ work' = work /\ head' = head
  BY DEF AddFiles
<1>2. PICK staged \in Listed(head, index) : ps = (Diff(work, index) \cup staged) \ LeftOut
  BY <1>1 DEF Addable, Status
<1>3. \A p \in Paths : index'[p] = IF p \in ps THEN work[p] ELSE index[p]
  BY <1>1 DEF WithAdded
<1>4. Diff(work, index)' \subseteq LeftOut
  <2>1. ASSUME NEW p \in Paths, work[p] # index'[p] PROVE p \in LeftOut
    BY <1>2, <1>3, <2>1 DEF Diff
  <2> QED
    BY <1>1, <2>1 DEF Diff
<1>5. ASSUME ps = {}
      PROVE  LET missed == Diff(head, index) \ LeftOut IN
             /\ index' = index
             /\ missed \subseteq Deleted(head, index)
             /\ Created(head, index) \subseteq LeftOut
             /\ Cardinality(missed) <= Cardinality(Created(head, index))
  <2>1. index' = index
    BY <1>1, <1>5 DEF WithAdded, TypeOK, Trees
  <2>2. staged \subseteq LeftOut
    BY <1>2, <1>5
  <2>3. head \in Trees /\ index \in Trees
    BY DEF TypeOK
  <2>4. /\ Created(head, index) \subseteq staged
        /\ \A missed \in SUBSET (Diff(head, index) \ staged) :
              /\ missed \subseteq Deleted(head, index)
              /\ Cardinality(missed) <= Cardinality(Created(head, index))
    BY <2>3, ListedMisses
  <2>5. Diff(head, index) \ LeftOut \in SUBSET (Diff(head, index) \ staged)
    BY <2>2
  <2> QED
    BY <2>1, <2>2, <2>4, <2>5
<1>6. LeftOut' = LeftOut
  BY DEF LeftOut
<1>7. CASE ps = {}
  BY <1>1, <1>4, <1>5, <1>6, <1>7 DEF Gathered
<1>8. CASE ps # {}
  BY <1>1, <1>4, <1>8 DEF Gathered
<1> QED
  BY <1>7, <1>8

\* What a failed add leaves is the deletion it has failed on.
LEMMA AddFailsOnDeletion ==
    ASSUME TypeOK, AddFails
    PROVE  ((Deleted(head, index) \cap Deleted(head, work)) \ LeftOut)' # {}
<1>1. PICK ps \in Addable :
         /\ Nowhere(ps) # {} /\ work' = work /\ head' = head
         /\ \E some \in SUBSET (ps \ Nowhere(ps)) : index' = WithAdded(some)
  BY DEF AddFails
<1>2. PICK some \in SUBSET (ps \ Nowhere(ps)) : index' = WithAdded(some)
  BY <1>1
<1>3. PICK staged \in Listed(head, index) : ps = (Diff(work, index) \cup staged) \ LeftOut
  BY <1>1 DEF Addable, Status
<1>4. PICK p \in ps : work[p] = "none" /\ index[p] = "none" /\ p \in Nowhere(ps)
  BY <1>1 DEF Nowhere
<1>5. p \in Diff(head, index) /\ p \in Paths /\ p \notin LeftOut
  <2>1. p \notin Diff(work, index)
    BY <1>4 DEF Diff
  <2>2. staged \subseteq Diff(head, index)
    BY DEF Listed
  <2> QED
    BY <1>3, <2>1, <2>2 DEF Diff
<1>6. head[p] # "none"
  BY <1>4, <1>5 DEF Diff
<1>7. index'[p] = "none"
  BY <1>2, <1>4, <1>5 DEF WithAdded
<1>8. p \in Deleted(head', index') /\ p \in Deleted(head', work')
  BY <1>1, <1>4, <1>5, <1>6, <1>7 DEF Deleted, Created
<1> QED
  BY <1>5, <1>8 DEF LeftOut

\* What a harvest that goes well leaves behind.
LeftBehind ==
    /\ Behind \subseteq Deleted(head, index) \cap Deleted(head, work)
    /\ Behind # {} => /\ Created(head, index) \subseteq LeftOut
                      /\ Cardinality(Behind) <= Cardinality(Created(head, index))

LEMMA ReceiptLeavesLittle ==
    ASSUME TypeOK, Gathered, Receipt
    PROVE  phase' = "receipt" /\ LeftBehind'
<1>1. /\ phase = "added" /\ phase' = "receipt" /\ work' = work /\ index' = index
      /\ receipt'.commit = head'
  BY DEF Receipt, Committed
<1>2. Diff(work, index) \subseteq LeftOut
  BY <1>1 DEF Gathered
<1>3. Behind' = Diff(work, head') \ LeftOut
  BY <1>1 DEF Behind, LeftOut, Diff
<1>4. PICK listed \in Status :
         \/ ToCommit(listed) /\ index # head /\ Commit
         \/ ~ToCommit(listed) /\ UNCHANGED <<head, parent>>
  BY DEF Receipt
<1>5. CASE Commit
  <2>1. Behind' = {}
    BY <1>2, <1>3, <1>5 DEF Commit
  <2> QED
    BY <1>1, <2>1 DEF LeftBehind
<1>6. CASE ~ToCommit(listed) /\ head' = head
  <2> DEFINE missed == Diff(head, index) \ LeftOut
  <2>1. /\ missed \subseteq Deleted(head, index)
        /\ missed # {} => /\ Created(head, index) \subseteq LeftOut
                          /\ Cardinality(missed) <= Cardinality(Created(head, index))
    BY <1>1, <1>6 DEF Gathered, ToCommit
  <2>2. \A p \in Paths : p \notin LeftOut => work[p] = index[p]
    BY <1>2 DEF Diff
  <2>3. Behind' = missed
    BY <1>3, <1>6, <2>2 DEF Diff
  <2>4. missed \subseteq Deleted(head, work)
    BY <2>1, <2>2 DEF Deleted, Created
  <2>5. /\ Deleted(head, index)' = Deleted(head, index)
        /\ Deleted(head, work)' = Deleted(head, work)
        /\ Created(head, index)' = Created(head, index) /\ LeftOut' = LeftOut
    BY <1>1, <1>6 DEF Deleted, Created, LeftOut
  <2> QED
    BY <1>1, <2>1, <2>3, <2>4, <2>5 DEF LeftBehind
<1> QED
  BY <1>4, <1>5, <1>6

WorkInv == IInv /\ Gathered /\ WorkHandedIn

LEMMA InitWorkInv == Init => WorkInv
BY InitIInv DEF Init, WorkInv, Gathered, WorkHandedIn

LEMMA StepWorkInv == WorkInv /\ [Next]_vars => WorkInv'
<1> SUFFICES ASSUME WorkInv, [Next]_vars PROVE Gathered' /\ WorkHandedIn'
  BY StepIInv DEF WorkInv
<1> USE DEF WorkInv
<1>1. CASE Worker
  <2>1. phase' = "working"
    BY <1>1 DEF Worker, Working, Edit, StageByHand, CommitByHand, ResetByHand, LeaveBranch
  <2> QED
    BY <2>1 DEF Gathered, WorkHandedIn
<1>2. CASE AddFiles
  <2>1. phase' = "added"
    BY <1>2 DEF AddFiles
  <2> QED
    BY <1>2, <2>1, AddGathers DEF IInv, WorkHandedIn
<1>3. CASE AddFails
  <2>1. phase' = "failed"
    BY <1>3 DEF AddFails
  <2> QED
    BY <1>3, <2>1, AddFailsOnDeletion DEF IInv, Gathered, WorkHandedIn
<1>4. CASE Receipt
  BY <1>4, ReceiptLeavesLittle DEF IInv, Gathered, WorkHandedIn, LeftBehind
<1>5. CASE NothingToCommit
  <2>1. /\ phase = "added" /\ index = head /\ phase' = "failed"
        /\ Diff(work, head)' = Diff(work, head) /\ LeftOut' = LeftOut
    BY <1>5 DEF NothingToCommit, Fails, tree, Diff, LeftOut
  <2>2. Diff(work, head) \subseteq LeftOut
    BY <2>1 DEF Gathered
  <2> QED
    BY <2>1, <2>2 DEF Gathered, WorkHandedIn
<1>6. CASE Verdict
  <2>1. phase' \in Decisions \cup {"budget"} /\ Reviewing /\ UNCHANGED <<role, tree, receipt>>
    <3>1. PICK free \in Free : \E d \in Proposals(GatesOf(free)) :
             LET dn == EnforceDecision(d, GatesOf(free))
             IN phase' = IF dn = <<"accept", "budget">> THEN "budget" ELSE dn[1]
      BY <1>6 DEF Verdict
    <3>2. PICK d \in Proposals(GatesOf(free)) :
             LET dn == EnforceDecision(d, GatesOf(free))
             IN phase' = IF dn = <<"accept", "budget">> THEN "budget" ELSE dn[1]
      BY <3>1
    <3>3. d \in Decisions
      BY <3>2 DEF Proposals, Decisions, MechanicalVerdict
    <3>4. EnforceDecision(d, GatesOf(free))[1] \in Decisions
      BY <3>3 DEF EnforceDecision, Limited, Refusal, Decisions
    <3> QED
      BY <1>6, <3>2, <3>4 DEF Verdict
  <2>2. phase' \notin {"added", "receipt", "failed"}
    BY <2>1 DEF Decisions
  <2>3. role = "master" => phase = "receipt" /\ LeftBehind
    BY <2>1 DEF Reviewing, WorkHandedIn, LeftBehind
  <2>4. LeftBehind' = LeftBehind /\ role' = role
    BY <2>1 DEF tree, LeftBehind, Behind, LeftOut, Deleted, Created, Diff
  <2> QED
    BY <2>2, <2>3, <2>4 DEF Gathered, WorkHandedIn, LeftBehind
<1>7. CASE PeerOutOfBounds
  BY <1>7 DEF PeerOutOfBounds, Fails, Gathered, WorkHandedIn
<1>8. CASE Crash
  BY <1>8 DEF Crash, Gathered, WorkHandedIn
<1>9. CASE MergePeer
  BY <1>9 DEF MergePeer, Gathered, WorkHandedIn
<1>10. CASE PickFails
  BY <1>10 DEF PickFails, Fails, Gathered, WorkHandedIn
<1>11. CASE OutOfTurns
  BY <1>11 DEF OutOfTurns, Fails, Gathered, WorkHandedIn
<1>12. CASE Rework
  BY <1>12 DEF Rework, Gathered, WorkHandedIn
<1>13. CASE UNCHANGED vars
  BY <1>13 DEF vars, Gathered, WorkHandedIn, Behind, Diff, Deleted, Created, LeftOut
<1> QED
  BY <1>1, <1>2, <1>3, <1>4, <1>5, <1>6, <1>7, <1>8, <1>9, <1>10, <1>11, <1>12, <1>13
     DEF Next

\* Whatever the worker does with its index and its branch, the two filters of
\* collect_inner_receipt leave behind no file of its worktree that is new or changed, and
\* a deletion only where git may take it for a move to a file left out; a harvest of a
\* single unit fails for want of work, or for a staged deletion.
THEOREM WorkIsIn == Spec => []WorkHandedIn
<1>1. WorkInv => WorkHandedIn
  BY DEF WorkInv
<1> QED
  BY <1>1, InitWorkInv, StepWorkInv, PTL DEF Spec
=============================================================================
