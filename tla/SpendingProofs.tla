--------------------------- MODULE SpendingProofs ---------------------------
(***************************************************************************)
(* Proofs about Spending, for every budget, every limit and every price.   *)
(* The invariant says, for each place of the engine, how much of a call    *)
(* beyond the budget can have been charged there.  That is the most a run  *)
(* costs the loop of runs, and the proofs about Improve come second.       *)
(***************************************************************************)
EXTENDS Spending, Improve, TLAPS

InLoop == {"test", "review", "next"}

\* Where a call is about to be made the budget is not exhausted; behind a worker
\* its charge may lie beyond it, and behind the self review that one too.
Room ==
    /\ phase \in {"dispatch", "goal", "verdict"} => ~Exhausted
    /\ phase \in {"test", "review"} => spent < MaxUsd + Worker
    /\ phase \in {"next", "receipt", "judge"} => spent < MaxUsd + Worker + Reviewer
    /\ phase \in InLoop => iter <= MaxIters
    /\ phase \notin Ended => reworks <= MaxRework

IInv == TypeOK /\ Room /\ OvershootBounded

USE BudgetIsNat, LimitsAreNat, CostsAreNat

\* At the start nothing is spent.
LEMMA InitIInv == Init => IInv
<1> SUFFICES ASSUME Init PROVE IInv
  OBVIOUS
<1>1. TypeOK
  BY DEF Init, TypeOK, Phases, Ended
<1>2. Room
  BY DEF Init, Room, Ended, InLoop
<1> QED
  BY <1>1, <1>2 DEF Init, IInv, OvershootBounded

\* No action of the engine leaves the invariant.
LEMMA StepIInv == IInv /\ [Next]_vars => IInv'
<1> SUFFICES ASSUME IInv, [Next]_vars
             PROVE  IInv'
  OBVIOUS
<1> USE DEF IInv, TypeOK, Room, OvershootBounded, Phases, Ended, InLoop,
            Exhausted, ExhaustedBy, TurnsOut, Charged, Lost
<1>1. CASE BudgetStop
  BY <1>1 DEF BudgetStop
<1>2. CASE AskPlan
  BY <1>2 DEF AskPlan, Question
<1>3. ASSUME NEW c \in 0 .. Commander, Planned(c)
      PROVE  IInv'
  BY <1>3 DEF Planned
<1>4. ASSUME NEW c \in 0 .. Commander, Malformed(c)
      PROVE  IInv'
  BY <1>4 DEF Malformed, Tries
<1>5. ASSUME NEW c \in 0 .. Commander, CommanderFails(c)
      PROVE  IInv'
  BY <1>5 DEF CommanderFails
<1>6. ASSUME NEW c \in 0 .. Commander, Verdict(c)
      PROVE  IInv'
  BY <1>6 DEF Verdict, SendBack
<1>7. CASE GoalOut
  BY <1>7 DEF GoalOut
<1>8. ASSUME NEW c \in 0 .. Worker, NEW t \in 0 .. WorkerTurns, RunWorker(c, t)
      PROVE  IInv'
  BY <1>8 DEF RunWorker, Starting
<1>9. ASSUME NEW c \in 0 .. Worker, NEW t \in 0 .. WorkerTurns, WorkerCrashes(c, t)
      PROVE  IInv'
  BY <1>9 DEF WorkerCrashes, Starting
<1>10. ASSUME NEW c \in 0 .. Worker, WorkerFails(c)
       PROVE  IInv'
  BY <1>10 DEF WorkerFails, Starting
<1>11. CASE Test
  BY <1>11 DEF Test
<1>12. ASSUME NEW c \in 0 .. Reviewer, SelfReview(c)
       PROVE  IInv'
  BY <1>12 DEF SelfReview
<1>13. CASE GoalNext
  BY <1>13 DEF GoalNext, NextIter
<1>14. CASE Receipt
  BY <1>14 DEF Receipt
<1>15. CASE Error
  BY <1>15 DEF Error
<1>16. CASE AskVerdict
  BY <1>16 DEF AskVerdict, Askable, Question
<1>17. ASSUME NEW c \in 0 .. Mechanical, JudgeMechanically(c)
       PROVE  IInv'
  BY <1>17 DEF JudgeMechanically, SendBack
<1>18. CASE UNCHANGED vars
  BY <1>18 DEF vars
<1> QED
  BY <1>1, <1>2, <1>3, <1>4, <1>5, <1>6, <1>7, <1>8, <1>9, <1>10, <1>11, <1>12,
     <1>13, <1>14, <1>15, <1>16, <1>17, <1>18 DEF Next, Asking, Working

LEMMA AlwaysIInv == Spec => []IInv
  BY InitIInv, StepIInv, PTL DEF Spec

\* The counters stay in their ranges, for any limits.
THEOREM TypeCorrect == Spec => []TypeOK
<1>1. IInv => TypeOK
  BY DEF IInv
<1> QED
  BY <1>1, AlwaysIInv, PTL

\* Whatever the calls cost, a run is charged one question, or one worker with its
\* self review and its mechanical verdict, beyond max_usd at the most.
THEOREM OvershootIsBounded == Spec => []OvershootBounded
<1>1. IInv => OvershootBounded
  BY DEF IInv
<1> QED
  BY <1>1, AlwaysIInv, PTL

\* No question to the commander, first try or repeated, on a spent budget.
THEOREM CommanderStops == Spec => CommanderWithinBudget
<1>1. IInv => ((phase \in {"dispatch", "verdict"} /\ paid' # paid) => ~Exhausted)
  BY DEF IInv, Room
<1> QED
  BY <1>1, AlwaysIInv, PTL DEF CommanderWithinBudget
-----------------------------------------------------------------------------
(* What is paid and not charged *)

\* What one question may leave unpaid, and its goal loop after it.
Quota == 2 * Commander + MaxIters * Reviewer

\* How much of the quota of the last question can be used up, place by place.
Owed ==
    /\ phase \in {"dispatch", "verdict"} =>
            paid + Quota <= spent + asked * Quota + (attempt - 1) * Commander
    /\ phase \in {"goal", "test", "review"} =>
            paid + Quota <= spent + asked * Quota + 2 * Commander + (iter - 1) * Reviewer
    /\ phase = "next" =>
            paid + Quota <= spent + asked * Quota + 2 * Commander + iter * Reviewer
    /\ phase \notin {"dispatch", "verdict", "failed"} => paid <= spent + asked * Quota
    /\ paid <= spent + asked * Quota + (IF phase = "failed" THEN Worker + Commander ELSE 0)

\* One question more is one quota more.
LEMMA QuotaStep ==
    /\ Quota \in Nat /\ MaxIters * Reviewer \in Nat
    /\ \A n \in Nat : n * Quota \in Nat /\ (n + 1) * Quota = n * Quota + Quota
<1>1. MaxIters * Reviewer \in Nat
  OBVIOUS
<1>2. Quota \in Nat
  BY <1>1 DEF Quota
<1>3. ASSUME NEW q \in Nat, NEW n \in Nat
      PROVE  n * q \in Nat /\ (n + 1) * q = n * q + q
  OBVIOUS
<1> QED
  BY <1>1, <1>2, <1>3

\* The reviews of i iterations fit into the quota.
LEMMA ReviewStep ==
    \A i \in 1 .. MaxIters + 1 :
        /\ (i - 1) * Reviewer \in Nat /\ (i - 1) * Reviewer <= MaxIters * Reviewer
        /\ i * Reviewer = (i - 1) * Reviewer + Reviewer
<1> SUFFICES ASSUME NEW i \in 1 .. MaxIters + 1
             PROVE  /\ (i - 1) * Reviewer \in Nat
                    /\ (i - 1) * Reviewer <= MaxIters * Reviewer
                    /\ i * Reviewer = (i - 1) * Reviewer + Reviewer
  OBVIOUS
<1>1. i - 1 \in 0 .. MaxIters
  OBVIOUS
<1>2. \A j \in 0 .. MaxIters : j * Reviewer \in Nat /\ j * Reviewer <= MaxIters * Reviewer
  OBVIOUS
<1>3. i * Reviewer = (i - 1) * Reviewer + Reviewer
  OBVIOUS
<1> QED
  BY <1>1, <1>2, <1>3

\* No action of the engine leaves more unpaid than that.
LEMMA StepOwed == IInv /\ Owed /\ [Next]_vars => Owed'
<1> SUFFICES ASSUME IInv, Owed, [Next]_vars
             PROVE  Owed'
  OBVIOUS
<1> DEFINE K == asked * Quota
           R == (iter - 1) * Reviewer
           L == MaxIters * Reviewer
<1>a. /\ Quota \in Nat /\ L \in Nat /\ K \in Nat
      /\ Quota = 2 * Commander + L
      /\ (asked + 1) * Quota = K + Quota
  BY QuotaStep DEF IInv, TypeOK, Quota
<1>b. /\ R \in Nat /\ R <= L
      /\ iter * Reviewer = R + Reviewer
  BY ReviewStep DEF IInv, TypeOK
<1>c. iter <= MaxIters => R + Reviewer <= L
  <2> SUFFICES ASSUME iter <= MaxIters PROVE R + Reviewer <= L
    OBVIOUS
  <2>1. iter + 1 \in 1 .. MaxIters + 1
    BY DEF IInv, TypeOK
  <2>2. ((iter + 1) - 1) * Reviewer <= MaxIters * Reviewer
    BY <2>1, ReviewStep
  <2>3. (iter + 1) - 1 = iter
    BY DEF IInv, TypeOK
  <2> QED
    BY <2>2, <2>3, <1>b
<1>d. (1 - 1) * Reviewer = 0 /\ ((iter + 1) - 1) * Reviewer = R + Reviewer
  BY <1>b DEF IInv, TypeOK
<1>t. /\ spent \in Nat /\ paid \in Nat /\ asked \in Nat /\ attempt \in 1 .. 3
      /\ iter \in 1 .. MaxIters + 1 /\ phase \in Phases
      /\ phase \in InLoop => iter <= MaxIters
  BY DEF IInv, TypeOK, Room
<1>o. /\ phase \in {"dispatch", "verdict"} => paid + Quota <= spent + K + (attempt - 1) * Commander
      /\ phase \in {"goal", "test", "review"} => paid + Quota <= spent + K + 2 * Commander + R
      /\ phase = "next" => paid + Quota <= spent + K + 2 * Commander + R + Reviewer
      /\ phase \notin {"dispatch", "verdict", "failed"} => paid <= spent + K
      /\ paid <= spent + K + (IF phase = "failed" THEN Worker + Commander ELSE 0)
  BY <1>b, <1>t, <1>a DEF Owed
<1> HIDE DEF K, R, L
<1>k. asked' = asked => asked' * Quota' = K
  BY DEF K, Quota
<1>r. iter' = iter => /\ (iter' - 1) * Reviewer = R
                      /\ iter' * Reviewer = R + Reviewer
  BY <1>b DEF R
<1>q. Quota' = Quota
  BY DEF Quota
<1> USE <1>a, <1>t, <1>o, <1>q DEF Owed, Phases, Ended, InLoop
<1>1. CASE BudgetStop
  BY <1>1, <1>k, <1>r DEF BudgetStop
<1>2. CASE AskPlan
  BY <1>2 DEF AskPlan, Question
<1>3. ASSUME NEW c \in 0 .. Commander, Planned(c)
      PROVE  Owed'
  BY <1>3, <1>k, <1>d DEF Planned, Charged
<1>4. ASSUME NEW c \in 0 .. Commander, Malformed(c)
      PROVE  Owed'
  BY <1>4, <1>k DEF Malformed, Tries, Lost
<1>5. ASSUME NEW c \in 0 .. Commander, CommanderFails(c)
      PROVE  Owed'
  BY <1>5, <1>k DEF CommanderFails, Lost
<1>6. ASSUME NEW c \in 0 .. Commander, Verdict(c)
      PROVE  Owed'
  BY <1>6, <1>k DEF Verdict, SendBack, Charged
<1>7. CASE GoalOut
  BY <1>7, <1>k, <1>r DEF GoalOut
<1>8. ASSUME NEW c \in 0 .. Worker, NEW t \in 0 .. WorkerTurns, RunWorker(c, t)
      PROVE  Owed'
  BY <1>8, <1>k, <1>r DEF RunWorker, Starting, Charged
<1>9. ASSUME NEW c \in 0 .. Worker, NEW t \in 0 .. WorkerTurns, WorkerCrashes(c, t)
      PROVE  Owed'
  BY <1>9, <1>k, <1>r, <1>b DEF WorkerCrashes, Starting, Charged
<1>10. ASSUME NEW c \in 0 .. Worker, WorkerFails(c)
       PROVE  Owed'
  BY <1>10, <1>k, <1>r, <1>b DEF WorkerFails, Starting, Lost
<1>11. CASE Test
  BY <1>11, <1>k, <1>r, <1>b DEF Test
<1>12. ASSUME NEW c \in 0 .. Reviewer, SelfReview(c)
       PROVE  Owed'
  BY <1>12, <1>k, <1>r, <1>b, <1>c DEF SelfReview, Charged, Lost
<1>13. CASE GoalNext
  BY <1>13, <1>k, <1>r, <1>b, <1>c, <1>d DEF GoalNext, NextIter
<1>14. CASE Receipt
  BY <1>14, <1>k DEF Receipt
<1>15. CASE Error
  BY <1>15, <1>k DEF Error
<1>16. CASE AskVerdict
  BY <1>16 DEF AskVerdict, Askable, Question
<1>17. ASSUME NEW c \in 0 .. Mechanical, JudgeMechanically(c)
       PROVE  Owed'
  BY <1>17, <1>k DEF JudgeMechanically, SendBack
<1>18. CASE UNCHANGED vars
  BY <1>18, <1>k, <1>r DEF vars
<1> QED
  BY <1>1, <1>2, <1>3, <1>4, <1>5, <1>6, <1>7, <1>8, <1>9, <1>10, <1>11, <1>12,
     <1>13, <1>14, <1>15, <1>16, <1>17, <1>18 DEF Next, Asking, Working

\* For every price and every limit, the unpaid part of what a run has cost is
\* two answers a question, the failed self reviews, and the last failed call.
THEOREM UnchargedIsBounded == Spec => []UnchargedBounded
<1>1. Init => Owed
  BY QuotaStep DEF Init, Owed
<1>2. IInv /\ Owed => UnchargedBounded
  BY DEF Owed, UnchargedBounded, Quota
<1> QED
  BY <1>1, <1>2, StepOwed, InitIInv, StepIInv, PTL DEF Spec
-----------------------------------------------------------------------------
(* The improve loop *)

\* The most that a run is charged, by OvershootBounded.
Round == Worker + Reviewer + Mechanical
MostOfRun == MaxUsd + (IF Commander > Round THEN Commander ELSE Round)

\* A run of Spending costs at most MostOfRun, whatever it calls and however it
\* ends: with this for RunMax the bound of the loop is one in the configuration.
THEOREM RunFitsLoop == Spec => [](spent \in 0 .. MostOfRun)
<1>1. IInv => spent \in 0 .. MostOfRun
  <2> SUFFICES ASSUME IInv PROVE spent \in 0 .. MostOfRun
    OBVIOUS
  <2>1. /\ spent \in Nat /\ MostOfRun \in Nat
        /\ MaxUsd + Commander <= MostOfRun /\ MaxUsd + Worker + Reviewer + Mechanical <= MostOfRun
    BY DEF IInv, TypeOK, MostOfRun, Round
  <2> QED
    BY <2>1 DEF IInv, OvershootBounded
<1> QED
  BY <1>1, AlwaysIInv, PTL

USE IterationsAreNat, CapIsNat, MixedAreClasses

Started  == {"ask", "run", "read", "cut", "write", "judge"}
Running  == Started \cup {"carry"}
HasRun   == {"read", "cut", "write", "judge", "carry"}
Appending == {"read", "cut", "write"}

LoopTyped ==
    /\ pc \in [Procs -> Running \cup {"accepted", "stopped", "aborted", "killed"}]
    /\ iteration \in [Procs -> 1 .. MaxImproveIterations]
    /\ total \in [Procs -> Nat]
    /\ DOMAIN run = Procs /\ \A p \in Procs : pc[p] \in HasRun => run[p] \in Runs
    /\ DOMAIN prev = Procs /\ DOMAIN copy = Procs
    /\ shown \in [Procs -> Seq(Classes)]
    /\ driven \subseteq Lines
    /\ torn \in BOOLEAN

\* Nothing is spent before the first run is judged, and the cap is not reached
\* where another is begun.
CapLeft == \A p \in Procs :
    /\ total[p] < Cap + RunMax \/ total[p] <= RunMax
    /\ pc[p] \in Started => total[p] < Cap \/ (iteration[p] = 1 /\ total[p] = 0)
    /\ pc[p] = "carry" => total[p] < Cap

\* As long as no two ends of runs overlap, the lines are in the file, in the hands
\* of the one who rewrites it, or not written yet.
LinesKept ==
    \/ torn
    \/ /\ \A p, q \in Procs : pc[p] \in {"cut", "write"} /\ pc[q] \in {"cut", "write"} => p = q
       /\ \A p \in Procs : /\ pc[p] = "cut" => copy[p] = file
                           /\ pc[p] = "write" => file = {}
       /\ \A l \in driven :
            \/ l \in file
            \/ \E p \in Procs : pc[p] = "write" /\ l \in copy[p]
            \/ pc[l[1]] \in Appending \cup {"killed"} /\ l[2] = iteration[l[1]]

\* The signature kept is one of the evidence shown last.
EvidenceKept == \A p \in Procs : pc[p] \in Running =>
    /\ shown[p] # <<>> => prev[p] \in Signatures(shown[p][Len(shown[p])])
    /\ \A i \in 2 .. Len(shown[p]) :
            shown[p][i] # shown[p][i - 1] \/ shown[p][i] \in Mixed

LoopInv == LoopTyped /\ CapLeft /\ LinesKept /\ EvidenceKept


LEMMA InitLoop == ImproveInit => LoopInv
<1> SUFFICES ASSUME ImproveInit PROVE LoopInv
  OBVIOUS
<1>1. LoopTyped
  <2>1. shown \in [Procs -> Seq(Classes)]
    <3>1. <<>> \in Seq(Classes)
      OBVIOUS
    <3> QED
      BY <3>1 DEF ImproveInit
  <2>2. iteration \in [Procs -> 1 .. MaxImproveIterations]
    <3>1. 1 \in 1 .. MaxImproveIterations
      BY DEF MaxImproveIterations
    <3> QED
      BY <3>1 DEF ImproveInit
  <2>3. /\ pc \in [Procs -> Running \cup {"accepted", "stopped", "aborted", "killed"}]
        /\ \A p \in Procs : pc[p] \notin HasRun
    BY DEF ImproveInit, Running, Started, HasRun
  <2>4. total \in [Procs -> Nat] /\ DOMAIN run = Procs /\ DOMAIN prev = Procs /\ DOMAIN copy = Procs
    BY DEF ImproveInit
  <2>5. driven \subseteq Lines /\ torn \in BOOLEAN
    BY DEF ImproveInit
  <2> QED
    BY <2>1, <2>2, <2>3, <2>4, <2>5 DEF LoopTyped
<1>2. CapLeft
  <2>1. RunMax \in Nat
    BY CapIsNat
  <2> QED
    BY <2>1 DEF ImproveInit, CapLeft
<1>3. LinesKept
  BY DEF ImproveInit, LinesKept
<1>4. EvidenceKept
  BY DEF ImproveInit, EvidenceKept
<1> QED
  BY <1>1, <1>2, <1>3, <1>4 DEF LoopInv

\* The types, step by step.
LEMMA StepLoopTyped ==
    ASSUME LoopTyped, [ImproveNext]_improveVars PROVE LoopTyped'
<1> USE DEF LoopTyped, Running, Started, HasRun, Goto, Loop, Memory
<1>1. ASSUME NEW p \in Procs, Acquire(p) PROVE LoopTyped'
  BY <1>1 DEF Acquire
<1>2. ASSUME NEW p \in Procs, Run(p) PROVE LoopTyped'
  <2>1. CASE UNCHANGED <<run, driven>> /\ pc' = [pc EXCEPT ![p] = "aborted"]
    BY <1>2, <2>1 DEF Run
  <2>2. ASSUME NEW r \in Runs, run' = [run EXCEPT ![p] = r],
               driven' = driven \cup {<<p, iteration[p]>>},
               pc' = [pc EXCEPT ![p] = "read"]
        PROVE  LoopTyped'
    BY <1>2, <2>2 DEF Run, Lines
  <2> QED
    BY <1>2, <2>1, <2>2 DEF Run
<1>3. ASSUME NEW p \in Procs, ReadLearnings(p) PROVE LoopTyped'
  BY <1>3 DEF ReadLearnings, Busy
<1>4. ASSUME NEW p \in Procs, CutLearnings(p) PROVE LoopTyped'
  BY <1>4 DEF CutLearnings, Busy
<1>5. ASSUME NEW p \in Procs, WriteLearnings(p) PROVE LoopTyped'
  BY <1>5 DEF WriteLearnings, Busy
<1>6. ASSUME NEW p \in Procs, Judge(p) PROVE LoopTyped'
  <2>1. run[p] \in Runs
    BY <1>6 DEF Judge
  <2>2. run[p].spent \in 0 .. RunMax
    BY <2>1 DEF Runs
  <2>3. total' \in [Procs -> Nat]
    <3>1. total[p] + run[p].spent \in Nat
      BY <2>2
    <3>2. total' = total \/ total' = [total EXCEPT ![p] = total[p] + run[p].spent]
      BY <1>6 DEF Judge
    <3> QED
      BY <3>1, <3>2
  <2>4. \E l \in {"aborted", "accepted", "stopped", "carry"} : pc' = [pc EXCEPT ![p] = l]
    BY <1>6 DEF Judge
  <2>5. pc[p] = "judge" /\ UNCHANGED <<run, iteration, prev, shown, file, copy, driven, torn>>
    BY <1>6 DEF Judge
  <2> QED
    BY <2>3, <2>4, <2>5
<1>7. ASSUME NEW p \in Procs, Carry(p) PROVE LoopTyped'
  <2>1. run[p].evidence \in Classes
    BY <1>7 DEF Carry, Runs
  <2>2. shown' \in [Procs -> Seq(Classes)]
    <3>1. Append(shown[p], run[p].evidence) \in Seq(Classes)
      BY <2>1
    <3> QED
      BY <1>7, <3>1 DEF Carry
  <2>3. iteration' \in [Procs -> 1 .. MaxImproveIterations]
    <3>1. Iterations[p] \in Nat /\ iteration[p] \in 1 .. 8
      BY DEF MaxImproveIterations
    <3>2. iteration[p] < Limit(p) => iteration[p] + 1 \in 1 .. MaxImproveIterations
      BY <3>1 DEF Limit, MaxImproveIterations
    <3>3. \/ iteration' = iteration
          \/ iteration[p] < Limit(p) /\ iteration' = [iteration EXCEPT ![p] = iteration[p] + 1]
      BY <1>7 DEF Carry
    <3> QED
      BY <3>2, <3>3
  <2>4. \E l \in {"ask", "stopped"} : pc' = [pc EXCEPT ![p] = l]
    BY <1>7 DEF Carry
  <2>5. /\ run' = [run EXCEPT ![p] = NoRun] /\ DOMAIN prev' = Procs
        /\ UNCHANGED <<total, file, copy, driven, torn>>
    BY <1>7 DEF Carry
  <2> QED
    BY <2>2, <2>3, <2>4, <2>5
<1>8. ASSUME NEW p \in Procs, Kill(p) PROVE LoopTyped'
  BY <1>8 DEF Kill
<1>9. CASE UNCHANGED improveVars
  BY <1>9 DEF improveVars
<1> QED
  BY <1>1, <1>2, <1>3, <1>4, <1>5, <1>6, <1>7, <1>8, <1>9 DEF ImproveNext

\* What a run spends is compared with the cap before the next is begun.
LEMMA StepCapLeft ==
    ASSUME LoopTyped, LoopTyped', CapLeft, [ImproveNext]_improveVars
    PROVE  CapLeft'
<1>0. RunMax \in Nat
  BY CapIsNat
<1> USE DEF LoopTyped, CapLeft, Running, Started, HasRun,
            Goto, Loop, Memory
<1>1. ASSUME NEW p \in Procs, Acquire(p) \/ Run(p) \/ ReadLearnings(p)
                              \/ CutLearnings(p) \/ WriteLearnings(p) \/ Kill(p)
      PROVE  CapLeft'
  <2>1. UNCHANGED <<total, iteration>>
    BY <1>1 DEF Acquire, Run, ReadLearnings, CutLearnings,
                WriteLearnings, Kill
  <2>2. /\ pc[p] \in Started \/ pc'[p] \notin Started
        /\ pc'[p] # "carry" /\ \A q \in Procs \ {p} : pc'[q] = pc[q]
    <3>1. CASE Kill(p)
      <4> HIDE DEF LoopTyped, CapLeft
      <4>1. DOMAIN pc = Procs
        BY DEF LoopTyped
      <4> QED
        BY <3>1, <4>1 DEF Kill
    <3>2. CASE ~Kill(p)
      <4> HIDE DEF LoopTyped, CapLeft
      <4>1. DOMAIN pc = Procs
        BY DEF LoopTyped
      <4>2. pc[p] \in Started
        BY <1>1, <3>2 DEF Acquire, Run, ReadLearnings, CutLearnings,
                          WriteLearnings
      <4>3. \E l \in Started \cup {"aborted"} : pc' = [pc EXCEPT ![p] = l]
        BY <1>1, <3>2 DEF Acquire, Run, ReadLearnings, CutLearnings,
                          WriteLearnings
      <4> QED
        BY <4>1, <4>2, <4>3
    <3> QED
      BY <3>1, <3>2
  <2> QED
    BY <2>1, <2>2
<1>2. ASSUME NEW p \in Procs, Judge(p) PROVE CapLeft'
  <2>1. run[p].spent \in 0 .. RunMax
    BY <1>2 DEF Judge, Runs
  <2>2. \A q \in Procs \ {p} : total'[q] = total[q] /\ pc'[q] = pc[q] /\ iteration'[q] = iteration[q]
    BY <1>2 DEF Judge
  <2>3. pc[p] = "judge" /\ pc'[p] \notin Started
    BY <1>2 DEF Judge
  <2>4. \/ total'[p] = total[p] /\ pc'[p] # "carry"
        \/ total'[p] = total[p] + run[p].spent /\ (pc'[p] = "carry" => total'[p] < Cap)
    BY <1>0, <1>2, <2>1 DEF Judge, OverCap
  <2> SUFFICES ASSUME NEW q \in Procs
               PROVE  /\ total'[q] < Cap + RunMax \/ total'[q] <= RunMax
                      /\ pc'[q] \in Started
                            => total'[q] < Cap \/ (iteration'[q] = 1 /\ total'[q] = 0)
                      /\ pc'[q] = "carry" => total'[q] < Cap
    OBVIOUS
  <2>5. CASE q # p
    BY <2>2, <2>5
  <2>6. total[p] < Cap \/ total[p] = 0
    BY <2>3
  <2>7. total[p] \in Nat /\ Cap \in Nat
    OBVIOUS
  <2>8. total'[p] < Cap + RunMax \/ total'[p] <= RunMax
    <3> HIDE DEF CapLeft, LoopTyped
    <3>1. CASE total'[p] = total[p]
      BY <1>0, <2>6, <2>7, <3>1
    <3>2. CASE total'[p] = total[p] + run[p].spent
      BY <1>0, <2>1, <2>6, <2>7, <3>2
    <3> QED
      BY <2>4, <3>1, <3>2
  <2> QED
    BY <2>3, <2>4, <2>5, <2>8
<1>3. ASSUME NEW p \in Procs, Carry(p) PROVE CapLeft'
  <2>1. total' = total /\ pc[p] = "carry" /\ pc'[p] # "carry"
    BY <1>3 DEF Carry
  <2>2. \A q \in Procs \ {p} : pc'[q] = pc[q] /\ iteration'[q] = iteration[q]
    BY <1>3 DEF Carry
  <2> QED
    BY <2>1, <2>2
<1>4. CASE UNCHANGED improveVars
  BY <1>4 DEF improveVars
<1> QED
  BY <1>1, <1>2, <1>3, <1>4 DEF ImproveNext

\* Nobody rewrites the file between the read and the write of another.
LEMMA StepLinesKept ==
    ASSUME LoopTyped, LoopTyped', LinesKept, [ImproveNext]_improveVars
    PROVE  LinesKept'
<1> USE DEF LoopTyped, Running, Started, HasRun, Appending, Goto, Loop, Memory
<1>l. \A l \in driven' : l[1] \in Procs /\ l[2] \in 1 .. MaxImproveIterations
  BY DEF Lines
<1>m. \A l \in driven : l[1] \in Procs
  BY DEF Lines
<1>c. \A p \in Procs : ~torn /\ pc[p] = "cut" => copy[p] = file
  <2> HIDE DEF LoopTyped
  <2> QED
    BY DEF LinesKept
\* A step that leaves the file to others.
<1>a. ASSUME NEW p \in Procs, pc[p] \notin Appending, pc'[p] \notin {"cut", "write"},
             \A q \in Procs \ {p} : pc'[q] = pc[q] /\ iteration'[q] = iteration[q],
             pc[p] = "killed" => pc'[p] = "killed" /\ iteration'[p] = iteration[p],
             UNCHANGED <<file, copy, torn>>,
             driven' \subseteq driven \cup {<<p, iteration'[p]>>},
             driven' # driven => pc'[p] = "read"
      PROVE  LinesKept'
  <2> SUFFICES ASSUME ~torn PROVE LinesKept'
    BY <1>a DEF LinesKept
  <2>1. ASSUME NEW l \in driven
        PROVE  \/ l \in file'
               \/ \E q \in Procs : pc'[q] = "write" /\ l \in copy'[q]
               \/ pc'[l[1]] \in Appending \cup {"killed"} /\ l[2] = iteration'[l[1]]
    BY <1>a, <1>m, <2>1 DEF LinesKept
  <2>2. <<p, iteration'[p]>>[1] = p /\ <<p, iteration'[p]>>[2] = iteration'[p]
    OBVIOUS
  <2>3. \A l \in driven' : l \in driven \/ (l = <<p, iteration'[p]>> /\ pc'[p] = "read")
    BY <1>a
  <2>4. \A l \in driven' : \/ l \in file'
                           \/ \E q \in Procs : pc'[q] = "write" /\ l \in copy'[q]
                           \/ /\ pc'[l[1]] \in Appending \cup {"killed"}
                              /\ l[2] = iteration'[l[1]]
    BY <2>1, <2>2, <2>3
  <2> QED
    BY <1>a, <2>4 DEF LinesKept
<1>1. ASSUME NEW p \in Procs, Acquire(p) \/ Judge(p) \/ Carry(p) PROVE LinesKept'
  <2>1. pc[p] \in {"ask", "judge", "carry"}
    BY <1>1 DEF Acquire, Judge, Carry
  <2>2. pc'[p] \in {"ask", "run", "accepted", "stopped", "aborted", "carry"}
    BY <1>1 DEF Acquire, Judge, Carry
  <2>3. \A q \in Procs \ {p} : pc'[q] = pc[q] /\ iteration'[q] = iteration[q]
    BY <1>1 DEF Acquire, Judge, Carry
  <2>4. UNCHANGED <<file, copy, torn>> /\ driven' = driven
    BY <1>1 DEF Acquire, Judge, Carry
  <2> QED
    BY <2>1, <2>2, <2>3, <2>4, <1>a
<1>2. ASSUME NEW p \in Procs, Run(p) PROVE LinesKept'
  BY <1>2, <1>a DEF Run
<1>3. ASSUME NEW p \in Procs, ReadLearnings(p) PROVE LinesKept'
  <2> SUFFICES ASSUME ~torn' PROVE LinesKept'
    BY DEF LinesKept
  <2>1. /\ ~torn /\ pc[p] = "read" /\ \A q \in Procs \ {p} : pc[q] \notin {"cut", "write"}
        /\ pc' = [pc EXCEPT ![p] = "cut"] /\ copy' = [copy EXCEPT ![p] = file]
        /\ UNCHANGED <<iteration, file, driven>>
    BY <1>3 DEF ReadLearnings, Busy
  <2> QED
    BY <1>m, <2>1 DEF LinesKept
<1>4. ASSUME NEW p \in Procs, CutLearnings(p) PROVE LinesKept'
  <2> SUFFICES ASSUME ~torn' PROVE LinesKept'
    BY DEF LinesKept
  <2>1. /\ ~torn /\ pc[p] = "cut" /\ \A q \in Procs \ {p} : pc[q] \notin {"cut", "write"}
        /\ pc' = [pc EXCEPT ![p] = "write"] /\ file' = {}
        /\ UNCHANGED <<iteration, copy, driven>>
    BY <1>4 DEF CutLearnings, Busy
  <2>2. copy[p] = file
    BY <1>c, <2>1
  <2>3. pc'[p] = "write" /\ \A q \in Procs \ {p} : pc'[q] = pc[q]
    BY <2>1
  <2>4. \A l \in driven' : \/ \E q \in Procs : pc'[q] = "write" /\ l \in copy'[q]
                           \/ /\ pc'[l[1]] \in Appending \cup {"killed"}
                              /\ l[2] = iteration'[l[1]]
    BY <1>m, <2>1, <2>2, <2>3 DEF LinesKept
  <2>5. \A q \in Procs : /\ pc'[q] \in {"cut", "write"} => q = p
                         /\ pc'[q] # "cut"
                         /\ pc'[q] = "write" => file' = {}
    <3> HIDE DEF LoopTyped
    <3> QED
      BY <2>1, <2>3
  <2> HIDE DEF LoopTyped
  <2> QED
    BY <2>4, <2>5 DEF LinesKept
<1>5. ASSUME NEW p \in Procs, WriteLearnings(p) PROVE LinesKept'
  <2> SUFFICES ASSUME ~torn' PROVE LinesKept'
    BY DEF LinesKept
  <2>1. /\ ~torn /\ pc[p] = "write" /\ \A q \in Procs \ {p} : pc[q] \notin {"cut", "write"}
        /\ pc' = [pc EXCEPT ![p] = "judge"] /\ file' = copy[p] \cup {<<p, iteration[p]>>}
        /\ UNCHANGED <<iteration, driven>>
    <3> HIDE DEF LoopTyped
    <3> QED
      BY <1>5 DEF WriteLearnings, Busy, Rebuilt
  <2>2. file = {} /\ \A l \in driven : l = <<l[1], l[2]>>
    <3>1. file = {}
      BY <2>1 DEF LinesKept
    <3>2. driven \subseteq Procs \X (1 .. MaxImproveIterations)
      BY DEF Lines
    <3>3. \A l \in Procs \X (1 .. MaxImproveIterations) : l = <<l[1], l[2]>>
      OBVIOUS
    <3> HIDE DEF LoopTyped
    <3> QED
      BY <3>1, <3>2, <3>3
  <2>3. ASSUME NEW l \in driven
        PROVE  \/ l \in file'
               \/ pc'[l[1]] \in Appending \cup {"killed"} /\ l[2] = iteration'[l[1]]
    <3>1. CASE l[1] = p /\ l[2] = iteration[p]
      BY <2>1, <2>2, <2>3, <3>1
    <3>2. CASE ~(l[1] = p /\ l[2] = iteration[p])
      BY <1>m, <2>1, <2>2, <2>3, <3>2 DEF LinesKept
    <3> QED
      BY <3>1, <3>2
  <2> QED
    BY <2>1, <2>3 DEF LinesKept
<1>6. ASSUME NEW p \in Procs, Kill(p) PROVE LinesKept'
  <2> SUFFICES ASSUME ~torn' PROVE LinesKept'
    BY DEF LinesKept
  <2>1. /\ ~torn /\ pc[p] # "write" /\ pc' = [pc EXCEPT ![p] = "killed"]
        /\ UNCHANGED <<iteration, file, copy, driven>>
    BY <1>6 DEF Kill
  <2> QED
    BY <1>m, <2>1 DEF LinesKept
<1>7. CASE UNCHANGED improveVars
  BY <1>7 DEF improveVars, LinesKept
<1> QED
  BY <1>1, <1>2, <1>3, <1>4, <1>5, <1>6, <1>7 DEF ImproveNext

\* With a single order of its codes, the same evidence has the same signature.
LEMMA StepEvidenceKept ==
    ASSUME LoopTyped, LoopTyped', EvidenceKept, [ImproveNext]_improveVars
    PROVE  EvidenceKept'
<1> USE DEF LoopTyped, EvidenceKept, Running, Started, HasRun, Goto, Loop, Memory
<1>1. ASSUME NEW p \in Procs, Acquire(p) \/ Run(p) \/ ReadLearnings(p)
                              \/ CutLearnings(p) \/ WriteLearnings(p) \/ Kill(p)
                              \/ Judge(p)
      PROVE  EvidenceKept'
  <2>1. UNCHANGED <<prev, shown>> /\ \A q \in Procs : pc'[q] \in Running => pc[q] \in Running
    BY <1>1 DEF Acquire, Run, ReadLearnings, CutLearnings,
                WriteLearnings, Kill, Judge
  <2> QED
    BY <2>1
<1>2. ASSUME NEW p \in Procs, Carry(p) PROVE EvidenceKept'
  <2> DEFINE e == run[p].evidence
             n == Len(shown[p])
  <2>1. e \in Classes /\ shown[p] \in Seq(Classes) /\ n \in Nat /\ pc[p] = "carry"
    BY <1>2 DEF Carry, Runs
  <2>2. shown' = [shown EXCEPT ![p] = Append(shown[p], e)]
    BY <1>2 DEF Carry
  <2>3. PICK s \in Signatures(e) :
              IF prev[p] = s THEN pc' = [pc EXCEPT ![p] = "stopped"] /\ prev' = prev
              ELSE /\ prev' = [prev EXCEPT ![p] = s]
                   /\ pc'[p] \in {"ask", "stopped"} /\ \A q \in Procs \ {p} : pc'[q] = pc[q]
    <3>1. DOMAIN pc = Procs
      OBVIOUS
    <3> HIDE DEF LoopTyped, EvidenceKept
    <3> QED
      BY <1>2, <3>1 DEF Carry
  <2> HIDE DEF e
  <2>4. \A q \in Procs \ {p} : pc'[q] = pc[q] /\ prev'[q] = prev[q] /\ shown'[q] = shown[q]
    BY <2>2, <2>3
  <2>5. ASSUME pc'[p] \in Running
        PROVE  /\ shown'[p] # <<>> => prev'[p] \in Signatures(shown'[p][Len(shown'[p])])
               /\ \A i \in 2 .. Len(shown'[p]) :
                       shown'[p][i] # shown'[p][i - 1] \/ shown'[p][i] \in Mixed
    <3>1. prev[p] # s /\ prev'[p] = s
      BY <2>3, <2>5
    <3>2. /\ shown'[p] = Append(shown[p], e) /\ Len(shown'[p]) = n + 1 /\ shown'[p][n + 1] = e
          /\ \A i \in 1 .. n : shown'[p][i] = shown[p][i]
      BY <2>1, <2>2
    <3>3. n # 0 /\ e \notin Mixed => shown[p][n] # e
      <4> SUFFICES ASSUME n # 0, e \notin Mixed, shown[p][n] = e PROVE FALSE
        OBVIOUS
      <4>1. prev[p] \in Signatures(e)
        BY <2>1
      <4>2. Signatures(e) = {<<e, 1>>}
        BY DEF Signatures, Orders
      <4> QED
        BY <3>1, <4>1, <4>2
    <3>4. ASSUME NEW i \in 2 .. n + 1
          PROVE  shown'[p][i] # shown'[p][i - 1] \/ shown'[p][i] \in Mixed
      <4>1. CASE i = n + 1
        BY <2>1, <3>2, <3>3, <4>1
      <4>2. CASE i # n + 1
        <5>1. i \in 2 .. n /\ i \in 1 .. n /\ i - 1 \in 1 .. n
          BY <2>1, <4>2
        <5> QED
          BY <2>1, <3>2, <5>1
      <4> QED
        BY <4>1, <4>2
    <3> QED
      BY <3>1, <3>2, <3>4
  <2> QED
    BY <2>4, <2>5
<1>3. CASE UNCHANGED improveVars
  BY <1>3 DEF improveVars
<1> QED
  BY <1>1, <1>2, <1>3 DEF ImproveNext

LEMMA AlwaysLoopInv == ImproveSpec => []LoopInv
<1>1. LoopInv /\ [ImproveNext]_improveVars => LoopInv'
  BY StepLoopTyped, StepCapLeft, StepLinesKept, StepEvidenceKept DEF LoopInv
<1> QED
  BY <1>1, InitLoop, PTL DEF ImproveSpec

\* However the runs end and whatever they spend, improve exceeds max_total_usd by
\* less than one run, and begins none beyond it.
THEOREM LoopStaysNearCap == ImproveSpec => []CapOvershoot
<1>1. LoopInv => CapOvershoot
  <2> SUFFICES ASSUME LoopInv, NEW p \in Procs
               PROVE  /\ total[p] < Cap + RunMax \/ total[p] <= RunMax
                      /\ pc[p] \in {"ask", "run"} => total[p] < Cap \/ iteration[p] = 1
    BY DEF CapOvershoot
  <2> QED
    BY DEF LoopInv, CapLeft, Started
<1> QED
  BY <1>1, AlwaysLoopInv, PTL

\* For any number of processes, every run that got as far as its line is in
\* LEARNINGS.md, unless two of them rewrote the file at the same time or one was
\* killed while it did.
THEOREM LinesAreKept == ImproveSpec => []RunsRemembered
<1>1. LoopInv => RunsRemembered
  BY DEF LoopInv, LinesKept, RunsRemembered, Appending
<1> QED
  BY <1>1, AlwaysLoopInv, PTL

\* The loop goes on after the same evidence twice only where it has several error
\* codes, for any number of iterations.
THEOREM RepetitionStops == ImproveSpec => []RepeatStops
<1>1. LoopInv => RepeatStops
  BY DEF LoopInv, EvidenceKept, RepeatStops, Running, Started
<1> QED
  BY <1>1, AlwaysLoopInv, PTL

=============================================================================
