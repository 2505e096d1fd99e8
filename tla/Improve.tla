------------------------------- MODULE Improve -------------------------------
(***************************************************************************)
(* wanax improve: run after run of one contract, each with the evidence of *)
(* the one before, against a cap on what all of them spend, until one is   *)
(* accepted or nothing changes any more; and the memory of all runs of a   *)
(* repository, LEARNINGS.md, that every run rewrites when it ends.  A      *)
(* process with one iteration is a start or a resume.                      *)
(*                                                                         *)
(* A run is one step with any outcome; Factory has what is in it.  Its     *)
(* evidence is a class: what of the tombstone goes into the notes.  The    *)
(* preflight checks, and the choice of the adapter, are left out.          *)
(***************************************************************************)
EXTENDS Naturals, Sequences

CONSTANTS
    Procs,          \* processes on one repository, with contracts of their own
    Iterations,     \* of each: what was asked for
    Cap,            \* max_total_usd
    RunMax,         \* the most that one run spends, see Spending
    Classes,        \* of evidence
    Mixed           \* those with several error codes

MaxImproveIterations == 8

ASSUME IterationsAreNat == Iterations \in [Procs -> Nat]
ASSUME CapIsNat == Cap \in Nat /\ RunMax \in Nat
ASSUME MixedAreClasses == Mixed \subseteq Classes

VARIABLES
    pc,         \* of a process
    iteration,  \* of improve; a start or a resume has one
    total,      \* total_usd_micros
    run,        \* the run of the iteration: its end, spending and evidence
    prev,       \* prev_signature
    file,       \* the lines of LEARNINGS.md
    copy,       \* what a process has read of them
    driven,     \* history: runs that got as far as their line
    torn,       \* history: a line was added while another was being added,
                \* or a process died in the middle
    shown       \* history: the evidence of the runs of a process

improveVars == <<pc, iteration, total, run, prev, file, copy, driven, torn, shown>>

Limit(p) == IF Iterations[p] = 0 THEN 1
            ELSE IF Iterations[p] > MaxImproveIterations THEN MaxImproveIterations
            ELSE Iterations[p]

Lines == Procs \X (1 .. MaxImproveIterations)
NoSignature == <<>>
NoRun == <<>>

\* MUTANT: the text has something in it that differs from run to run.
OrdersOfAll(e) == 1 .. 2

\* The codes come out of a HashMap: several have several orders.
Orders(e) == IF e \in Mixed THEN 1 .. 2 ELSE 1 .. 1

\* notes_signature: the order is part of the text.
Signatures(e) == {<<e, o>> : o \in Orders(e)}

\* closed: escalate, rejected, failed or budget_exhausted.  open: not terminal.
Runs == [state : {"accepted", "closed", "cancelled", "open"}, spent : 0 .. RunMax, evidence : Classes]

ImproveTypeOK ==
    /\ pc \in [Procs -> {"ask", "run", "read", "cut", "write", "judge", "carry",
                         "accepted", "stopped", "aborted", "killed"}]
    /\ iteration \in [Procs -> 1 .. MaxImproveIterations]
    /\ \A p \in Procs : iteration[p] <= Limit(p)
    /\ total \in [Procs -> Nat]
    /\ \A p \in Procs : run[p] \in Runs \cup {NoRun}
    /\ \A p \in Procs : prev[p] = NoSignature \/ (\E e \in Classes : prev[p][1] = e)
    /\ file \subseteq driven /\ driven \subseteq Lines
    /\ \A p \in Procs : copy[p] \subseteq driven
    /\ torn \in BOOLEAN
    /\ shown \in [Procs -> Seq(Classes)]

ImproveInit ==
    /\ pc = [p \in Procs |-> "ask"]
    /\ iteration = [p \in Procs |-> 1]
    /\ total = [p \in Procs |-> 0]
    /\ run = [p \in Procs |-> NoRun]
    /\ prev = [p \in Procs |-> NoSignature]
    /\ file = {} /\ copy = [p \in Procs |-> {}]
    /\ driven = {} /\ torn = FALSE
    /\ shown = [p \in Procs |-> <<>>]

-----------------------------------------------------------------------------

Goto(p, l) == pc' = [pc EXCEPT ![p] = l]
Loop == <<iteration, total, prev, shown>>
Memory == <<file, copy, driven, torn>>

\* acquire_with: refused for reasons that RepoLock has.
Acquire(p) ==
    /\ pc[p] = "ask"
    /\ Goto(p, "run") \/ Goto(p, "aborted")
    /\ UNCHANGED <<run, Loop, Memory>>

\* run_factory up to the end of drive_factory.  What fails before leaves a row that
\* is not terminal, and no line.
Run(p) ==
    /\ pc[p] = "run"
    /\ \/ \E r \in Runs :
            /\ run' = [run EXCEPT ![p] = r]
            /\ Goto(p, "read")
            /\ driven' = driven \cup {<<p, iteration[p]>>}
       \/ Goto(p, "aborted") /\ UNCHANGED <<run, driven>>
    /\ UNCHANGED <<Loop, file, copy, torn>>

\* Somebody else is between reading and writing the file.
Busy(p) == \E q \in Procs \ {p} : pc[q] \in {"cut", "write"}

\* append_learning: the file is read,
ReadLearnings(p) ==
    /\ pc[p] = "read"
    /\ copy' = [copy EXCEPT ![p] = file]
    /\ torn' = (torn \/ Busy(p))
    /\ Goto(p, "cut")
    /\ UNCHANGED <<run, Loop, file, driven>>

\* truncated by fs::write,
CutLearnings(p) ==
    /\ pc[p] = "cut"
    /\ file' = {}
    /\ torn' = (torn \/ Busy(p))
    /\ Goto(p, "write")
    /\ UNCHANGED <<run, Loop, copy, driven>>

\* MUTANT: only the lines of the process's own runs are kept.
RebuiltOwn(p) == {l \in copy[p] : l[1] = p} \cup {<<p, iteration[p]>>}

\* The lines that were read, and the new one.
Rebuilt(p) == copy[p] \cup {<<p, iteration[p]>>}

\* and written.
WriteLearnings(p) ==
    /\ pc[p] = "write"
    /\ file' = Rebuilt(p)
    /\ copy' = [copy EXCEPT ![p] = {}]
    /\ torn' = (torn \/ Busy(p))
    /\ Goto(p, "judge")
    /\ UNCHANGED <<run, Loop, driven>>

\* MUTANT: the run that has just ended is not counted yet.
OverCapLate(p) == total[p] >= Cap

OverCap(p) == total[p] + run[p].spent >= Cap

\* The run is over; what it has spent counts, and the cap is looked at afterwards:
\* an accept is an accept also beyond it.
Judge(p) ==
    /\ pc[p] = "judge"
    /\ IF run[p].state = "open"
       THEN Goto(p, "aborted") /\ UNCHANGED total
       ELSE /\ total' = [total EXCEPT ![p] = total[p] + run[p].spent]
            /\ Goto(p, IF run[p].state = "accepted" THEN "accepted"
                       ELSE IF OverCap(p) THEN "stopped"
                       ELSE IF run[p].state = "cancelled" THEN "aborted"
                       ELSE "carry")
    /\ UNCHANGED <<run, iteration, prev, shown, Memory>>

\* Its evidence goes to the next iteration, if it is not the same once more.
Carry(p) ==
    /\ pc[p] = "carry"
    /\ shown' = [shown EXCEPT ![p] = Append(shown[p], run[p].evidence)]
    /\ run' = [run EXCEPT ![p] = NoRun]
    /\ \E s \in Signatures(run[p].evidence) :
        IF prev[p] = s
        THEN Goto(p, "stopped") /\ UNCHANGED <<iteration, prev>>
        ELSE /\ prev' = [prev EXCEPT ![p] = s]
             /\ IF iteration[p] < Limit(p)
                THEN Goto(p, "ask") /\ iteration' = [iteration EXCEPT ![p] = iteration[p] + 1]
                ELSE Goto(p, "stopped") /\ UNCHANGED iteration
    /\ UNCHANGED <<total, Memory>>

Kill(p) ==
    /\ pc[p] \notin {"accepted", "stopped", "aborted", "killed"}
    /\ torn' = (torn \/ pc[p] = "write")
    /\ Goto(p, "killed")
    /\ UNCHANGED <<run, Loop, file, copy, driven>>

ImproveNext == \E p \in Procs :
    \/ Acquire(p) \/ Run(p)
    \/ ReadLearnings(p) \/ CutLearnings(p) \/ WriteLearnings(p)
    \/ Judge(p) \/ Carry(p)
    \/ Kill(p)

ImproveSpec == ImproveInit /\ [][ImproveNext]_improveVars

-----------------------------------------------------------------------------
(* Properties *)

\* README, "loop-level spend cap across ALL iterations": the cap is compared after
\* a run, so the loop exceeds it by less than one run, and starts none beyond it.
CapOvershoot == \A p \in Procs :
    /\ total[p] < Cap + RunMax \/ total[p] <= RunMax
    /\ pc[p] \in {"ask", "run"} => total[p] < Cap \/ iteration[p] = 1

\* README: every finished run appends one line to LEARNINGS.md.  The file is
\* rewritten without a lock: this holds as long as no two runs end at the same
\* time, and none is killed while it writes.
RunsRemembered ==
    torn \/ \A l \in driven :
        l \in file \/ (\E p \in Procs : pc[p] = "write" /\ l \in copy[p])
                   \/ pc[l[1]] \in {"read", "cut", "write", "killed"}

\* README: two iterations with the same evidence end the loop.  Not with several
\* error codes: they come in any order, and the text differs.
RepeatStops == \A p \in Procs :
    pc[p] = "ask" =>
        \A i \in 2 .. Len(shown[p]) :
            shown[p][i] # shown[p][i - 1] \/ shown[p][i] \in Mixed
=============================================================================
