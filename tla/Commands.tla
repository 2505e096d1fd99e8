------------------------------ MODULE Commands ------------------------------
(***************************************************************************)
(* The commands of wanax that change the row of a run in factory_runs and  *)
(* its lock: start, resume, cancel, clean and doctor --fix-lock, each a    *)
(* process of its own (engine.rs, main.rs, clean.rs, doctor.rs).           *)
(*                                                                         *)
(* Nothing but the lock orders these processes.  Each reads rows at some   *)
(* point and decides, and writes, by what it has read: set_state checks    *)
(* the transition against the state in the caller's memory and then        *)
(* overwrites whatever the row holds.  What the engine does between two    *)
(* transitions is module Factory; the lock is module RepoLock.             *)
(***************************************************************************)
EXTENDS RunState, RepoLock

CONSTANTS
    RepoExclusive,  \* lock.repo_exclusive of the configuration
    EngineStates,   \* bound: the states the engine of this instance goes to
    NoRow           \* the run is not in factory_runs

\* The engine asks for any of the others, never for a cancel.
ASSUME EngineStatesType ==
    EngineStates \subseteq RunStates \ {"draft", "canceling", "cancelled"}

VARIABLES
    row,        \* factory_runs: the state and the start_pid of each run
    trees,      \* the runs whose worktrees are on disk
    cmd,        \* what each process is doing, and the rows as it has read them
    past        \* history: runs resumed, called to cancel once and again, and stopped

vars == <<lockVars, row, trees, cmd, past>>

Row == [state : RunStates, pid : Proc]

ASSUME NoRowIsNone == NoRow \notin Row
ASSUME ExclusiveType == RepoExclusive \in BOOLEAN

Steps == {"none", "insert", "save", "drive", "finish", "want_resume",
          "cancel_mark", "cancel_kill", "cancel_read", "cancel_remark", "cancel_set",
          "cancel_again", "cancel_release", "clean", "clean_dry",
          "doctor", "doctor_set", "done"}

\* todo: the runs a command still has to deal with; seen: FactoryRun in memory.
Idle == [at |-> "none", todo |-> {}, seen |-> [r \in Run |-> NoRow]]

TypeOK ==
    /\ LockTypeOK
    /\ row \in [Run -> Row \cup {NoRow}]
    /\ trees \subseteq Run
    /\ \A p \in Proc : /\ cmd[p].at \in Steps
                       /\ cmd[p].todo \subseteq Run
                       /\ cmd[p].seen \in [Run -> Row \cup {NoRow}]
    /\ past \in [resumed : SUBSET Run, cancels : SUBSET Run,
                 again : SUBSET Run, stopped : SUBSET Run]

Init ==
    /\ LockInit
    /\ row = [r \in Run |-> NoRow]
    /\ trees = {}
    /\ cmd = [p \in Proc |-> Idle]
    /\ past = [resumed |-> {}, cancels |-> {}, again |-> {}, stopped |-> {}]

-----------------------------------------------------------------------------
(* Helpers *)

ClaimOf(r) == [run |-> r, exclusive |-> RepoExclusive]

At(p, step) == pc[p] # "gone" /\ cmd[p].at = step
Target(p)   == CHOOSE r \in cmd[p].todo : TRUE
Seen(p)     == cmd[p].seen[Target(p)]
Ended(x)    == x.state \in Terminal

\* A process that is gone remembers nothing.
Go(p, step)  == cmd' = [cmd EXCEPT ![p].at = step]
Forget(ps)   == cmd' = [q \in Proc |-> IF q \in ps THEN Idle ELSE cmd[q]]
OnlyMemory   == UNCHANGED <<lockVars, row, trees, past>>

\* set_state: the check is made on what p has read, the write hits the row.  An
\* illegal transition writes nothing; the commands ignore the error.
SetState(p, r, to, step) ==
    IF CanTransition(cmd[p].seen[r].state, to)
    THEN /\ row' = [row EXCEPT ![r].state = to]
         /\ cmd' = [cmd EXCEPT ![p].seen[r].state = to, ![p].at = step]
    ELSE /\ Go(p, step)
         /\ UNCHANGED row

\* release_run_lock, as cancel and clean call it: whatever it returns.
ReleaseRun(r) ==
    \/ ReleaseRunLock(r)
    \/ /\ lockset = NoProc
       /\ ~(Readable /\ HoldersOf(r) # {})
       /\ UNCHANGED lockVars

-----------------------------------------------------------------------------
(* start and resume *)

\* start: the lock for a fresh run id, then insert_run and the worktrees.
RunStart(p, r) ==
    /\ At(p, "none")
    /\ Start(p, ClaimOf(r))
    /\ cmd' = [cmd EXCEPT ![p] = IF pc'[p] = "gone" THEN Idle
                                 ELSE [Idle EXCEPT !.at = "insert", !.todo = {r}]]
    /\ UNCHANGED <<row, trees, past>>

InsertRun(p) ==
    /\ At(p, "insert") /\ pc[p] = "holding"
    /\ LET new == [state |-> "contract_ready", pid |-> p] IN
       /\ row' = [row EXCEPT ![Target(p)] = new]
       /\ cmd' = [cmd EXCEPT ![p].seen[Target(p)] = new, ![p].at = "drive"]
    /\ trees' = trees \cup {Target(p)}
    /\ UNCHANGED <<lockVars, past>>

\* resume reads the row and refuses a run that is over; only then it takes the
\* lock, and goes on with the row it has read.
ReadForResume(p, r) ==
    /\ At(p, "none")
    /\ row[r] # NoRow /\ ~Ended(row[r])
    /\ cmd' = [cmd EXCEPT ![p] = [at |-> "want_resume", todo |-> {r},
                                  seen |-> [Idle.seen EXCEPT ![r] = row[r]]]]
    /\ OnlyMemory

ResumeLock(p) ==
    /\ At(p, "want_resume")
    /\ Resume(p, ClaimOf(Target(p)))
    /\ cmd' = [cmd EXCEPT ![p] = IF pc'[p] = "gone" THEN Idle ELSE [@ EXCEPT !.at = "save"]]
    /\ past' = IF pc'[p] = "gone" THEN past
               ELSE [past EXCEPT !.resumed = @ \cup {Target(p)}]
    /\ UNCHANGED <<row, trees>>

\* acquire returns.
AcquireReturns(p) ==
    /\ WriteHolder(p)
    /\ UNCHANGED <<row, trees, cmd, past>>

\* MUTANT: the resumed run keeps the start_pid of the process that died.
SaveNothing(p) ==
    /\ At(p, "save") /\ pc[p] = "holding"
    /\ Go(p, "drive")
    /\ trees' = trees \cup {Target(p)}
    /\ UNCHANGED <<lockVars, row, past>>

\* save_run_progress with the new start_pid; the missing worktrees are added.
SaveOwner(p) ==
    /\ At(p, "save") /\ pc[p] = "holding"
    /\ row' = [row EXCEPT ![Target(p)].pid = p]
    /\ cmd' = [cmd EXCEPT ![p].seen[Target(p)].pid = p, ![p].at = "drive"]
    /\ trees' = trees \cup {Target(p)}
    /\ UNCHANGED <<lockVars, past>>

\* save_run_progress at every charge writes the start_pid of this process again.
SaveProgress(p) ==
    /\ At(p, "drive")
    /\ row' = [row EXCEPT ![Target(p)].pid = p]
    /\ UNCHANGED <<lockVars, trees, cmd, past>>

\* A transition the engine asks for.
Drive(p, to) ==
    /\ At(p, "drive")
    /\ CanTransition(Seen(p).state, to)
    /\ Seen(p).state = "contract_ready" => to = "dispatched"
    /\ SetState(p, Target(p), to, IF to \in Terminal THEN "finish" ELSE "drive")
    /\ UNCHANGED <<lockVars, trees, past>>

\* The engine returns, at the end or by an early error, and releases the lock.
Return(p) ==
    /\ \E step \in {"insert", "save", "drive", "finish"} : At(p, step)
    /\ Release(p)
    /\ cmd' = [cmd EXCEPT ![p] = [Idle EXCEPT !.at = "done"]]
    /\ UNCHANGED <<row, trees, past>>

\* A process ends, by itself or by a crash.
ProcessEnds(p) ==
    /\ Exit(p)
    /\ Forget({p})
    /\ UNCHANGED <<row, trees, past>>

-----------------------------------------------------------------------------
(* cancel *)

Cancel(p, r) ==
    /\ At(p, "none")
    /\ row[r] # NoRow
    /\ cmd' = [cmd EXCEPT ![p] = [at |-> IF Ended(row[r]) THEN "cancel_release" ELSE "cancel_mark",
                                  todo |-> {r}, seen |-> [Idle.seen EXCEPT ![r] = row[r]]]]
    /\ past' = [past EXCEPT !.cancels = @ \cup {r}, !.again = @ \cup (past.cancels \cap {r})]
    /\ UNCHANGED <<lockVars, row, trees>>

CancelMark(p) ==
    /\ At(p, "cancel_mark")
    /\ SetState(p, Target(p), "canceling", "cancel_kill")
    /\ UNCHANGED <<lockVars, trees, past>>

\* MUTANT: who does not end by the SIGTERM within CANCEL_TIMEOUT_SECS lives on.
CancelWait(p) ==
    /\ At(p, "cancel_kill")
    /\ Go(p, "cancel_read")
    /\ OnlyMemory

\* SIGTERM, and SIGKILL after CANCEL_TIMEOUT_SECS, to the start_pid that was read
\* (worker_pid is the pid of the same process, or of an earlier one).
CancelKill(p) ==
    /\ At(p, "cancel_kill")
    /\ LET q == Seen(p).pid IN
       IF PidAlive(q)
       THEN /\ Exit(q)
            /\ cmd' = [cmd EXCEPT ![q] = Idle, ![p].at = "cancel_read"]
            /\ UNCHANGED <<row, trees, past>>
       ELSE Go(p, "cancel_read") /\ OnlyMemory

CancelRead(p) ==
    /\ At(p, "cancel_read")
    /\ LET live == row[Target(p)] IN
       cmd' = [cmd EXCEPT ![p].seen[Target(p)] = live,
                          ![p].at = IF Ended(live) THEN "cancel_again" ELSE "cancel_remark"]
    /\ OnlyMemory

\* A run that is Canceling already is not marked again.
CancelRemark(p) ==
    /\ At(p, "cancel_remark")
    /\ IF Seen(p).state = "canceling" THEN Go(p, "cancel_set") /\ UNCHANGED row
       ELSE SetState(p, Target(p), "canceling", "cancel_set")
    /\ UNCHANGED <<lockVars, trees, past>>

CancelSet(p) ==
    /\ At(p, "cancel_set")
    /\ SetState(p, Target(p), "cancelled", "cancel_again")
    /\ UNCHANGED <<lockVars, trees, past>>

\* The last set_state, legal only when the run is cancelled already.
CancelAgain(p) ==
    /\ At(p, "cancel_again")
    /\ SetState(p, Target(p), "cancelled", "cancel_release")
    /\ past' = [past EXCEPT !.stopped = @ \cup {Target(p)}]
    /\ UNCHANGED <<lockVars, trees>>

CancelRelease(p) ==
    /\ At(p, "cancel_release")
    /\ ReleaseRun(Target(p))
    /\ Go(p, "done")
    /\ UNCHANGED <<row, trees, past>>

-----------------------------------------------------------------------------
(* clean and doctor --fix-lock *)

\* list_runs, and which of the runs the options let through; whether the owner
\* of a run that is not over is alive is asked when its turn comes.
Clean(p, accepted, dead, step) ==
    /\ At(p, "none")
    /\ step \in {"clean", "clean_dry"}
    /\ cmd' = [cmd EXCEPT ![p] =
          [at |-> step,
           todo |-> {r \in Run : /\ row[r] # NoRow
                                 /\ IF Ended(row[r]) THEN row[r].state = "accepted" => accepted
                                    ELSE dead},
           seen |-> row]]
    /\ OnlyMemory

\* MUTANT: --include-dead does not ask for the owner.
SparedNever(p, r) == FALSE

Spared(p, r) == ~Ended(cmd[p].seen[r]) /\ PidAlive(cmd[p].seen[r].pid)

\* The holders of the run are released by a dry run, too.
CleanRun(p, r) ==
    /\ At(p, "clean") \/ At(p, "clean_dry")
    /\ r \in cmd[p].todo
    /\ cmd' = [cmd EXCEPT ![p].todo = @ \ {r}]
    /\ IF Spared(p, r) THEN UNCHANGED <<lockVars, trees>>
       ELSE /\ ReleaseRun(r)
            /\ trees' = IF At(p, "clean") THEN trees \ {r} ELSE trees
    /\ UNCHANGED <<row, past>>

\* MUTANT: the holders are cleared whether their process is alive or not.
DoctorClearAll(p) ==
    /\ At(p, "none")
    /\ ClearAnyLock
    /\ cmd' = [cmd EXCEPT ![p] = [Idle EXCEPT !.at = "doctor",
                !.todo = {file[x].run : x \in {y \in LockPath : IsHolder(y)}}]]
    /\ UNCHANGED <<row, trees, past>>

DoctorClear(p) ==
    /\ At(p, "none")
    /\ ClearStaleLock
    /\ cmd' = [cmd EXCEPT ![p] = [Idle EXCEPT !.at = "doctor",
                                  !.todo = {file[x].run : x \in DeadHolders}]]
    /\ UNCHANGED <<row, trees, past>>

DoctorRead(p, r) ==
    /\ At(p, "doctor")
    /\ r \in cmd[p].todo
    /\ cmd' = IF row[r] = NoRow \/ Ended(row[r])
              THEN [cmd EXCEPT ![p].todo = @ \ {r}]
              ELSE [cmd EXCEPT ![p].at = "doctor_set", ![p].seen[r] = row[r]]
    /\ OnlyMemory

DoctorSet(p, r) ==
    /\ At(p, "doctor_set")
    /\ r \in cmd[p].todo /\ cmd[p].seen[r] # NoRow
    /\ row' = [row EXCEPT ![r].state = "failed"]
    /\ cmd' = [cmd EXCEPT ![p].at = "doctor", ![p].todo = @ \ {r}, ![p].seen[r] = NoRow]
    /\ UNCHANGED <<lockVars, trees, past>>

Next ==
    \E p \in Proc :
        \/ \E r \in Run : \/ RunStart(p, r) \/ ReadForResume(p, r) \/ Cancel(p, r)
                          \/ CleanRun(p, r) \/ DoctorRead(p, r) \/ DoctorSet(p, r)
        \/ \E to \in EngineStates : Drive(p, to)
        \/ \E accepted, dead \in BOOLEAN, step \in {"clean", "clean_dry"} :
               Clean(p, accepted, dead, step)
        \/ ResumeLock(p) \/ AcquireReturns(p) \/ InsertRun(p) \/ SaveOwner(p)
        \/ SaveProgress(p)
        \/ Return(p) \/ ProcessEnds(p)
        \/ CancelMark(p) \/ CancelKill(p) \/ CancelRead(p) \/ CancelRemark(p)
        \/ CancelSet(p) \/ CancelAgain(p) \/ CancelRelease(p)
        \/ DoctorClear(p)

Spec == Init /\ [][Next]_vars

-----------------------------------------------------------------------------
(* Properties *)

Driving(p, r) == At(p, "drive") /\ pc[p] = "holding" /\ cmd[p].todo = {r}

\* The start_pid of a row is the process that drives the run, through crashes
\* and resumes: what cancel kills by and clean spares by.
OwnerOnRecord ==
    ~revoked => \A p \in Proc, r \in Run : Driving(p, r) => row[r].pid = p

\* FR-016: when cancel is done with a run that was never resumed, its engine is
\* gone, wherever it was when the cancel began, and the run is over, unless a
\* second cancel marks it once more.
CancelStops ==
    \A r \in past.stopped \ past.resumed :
        /\ \A p \in Proc : ~Driving(p, r)
        /\ r \notin past.again => Ended(row[r])

LockStays(p, r) ==
    Driving(p, r) /\ ~Ended(row[r])
        => r \in trees /\ \E x \in LockPath : /\ IsHolder(x)
                                                   /\ file[x].run = r /\ file[x].pid = p

\* clean.rs: active runs and their locks are never touched.  It holds for a run
\* that was not resumed, whatever the other commands do, as long as claims are
\* not exclusive.  (With one LOCK file for all runs, a run that is over but whose
\* process still lives can lose its lock to a clean or cancel; its late release
\* then removes the LOCK of the next run.)
FreshRunUntouched == \A p \in Proc, r \in Run \ past.resumed : LockStays(p, r)

\* FR-018: neither doctor nor clean takes the accept away from a run; its row
\* stays as it is unless a cancel or a resume was called for.
AcceptedRowStays ==
    [][\A r \in Run : row[r] # NoRow /\ row[r].state = "accepted"
                          /\ r \notin past.resumed \cup past.cancels
                      => row'[r] = row[r]]_vars

\* clean.rs, "a live process always wins, never touch it", for resumed runs too.
\* Violated by clean --include-dead: it goes by the start_pid it has read, and a
\* resume takes the lock before it writes its own.
ActiveLockUntouched == \A p \in Proc, r \in Run : LockStays(p, r)

\* docs/PRD.md and the test terminal_cannot_leave: a terminal state is final.
\* Violated: set_state checks the state its caller once read.
TerminalIsFinal ==
    [][\A r \in Run : row[r] # NoRow /\ Ended(row[r]) => row'[r].state = row[r].state]_vars
=============================================================================
