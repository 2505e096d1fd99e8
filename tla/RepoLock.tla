------------------------------ MODULE RepoLock ------------------------------
(***************************************************************************)
(* The repository lock of wanax (crates/wanax-core/src/lock.rs).           *)
(*                                                                         *)
(* A lock is a FILE: .wanax/LOCK for an exclusive claim, or                *)
(* .wanax/locks/<run_id> for a claim on the contract's allowed globs.  The *)
(* file names the run and the pid of the process that made it; whether     *)
(* that process is alive is asked of the operating system when the file is *)
(* read.  The functions that read and then change the set of files hold an *)
(* flock on .wanax/LOCKSET meanwhile; RepoLock::release does not.          *)
(*                                                                         *)
(* A process creates its file in two steps (create_new, then write_lock),  *)
(* so the file is empty, and unreadable to everyone, in between.           *)
(***************************************************************************)
EXTENDS FiniteSets

CONSTANTS
    Proc,       \* operating-system processes, by pid; a pid is not reused
    Run,        \* run ids
    Glob,       \* glob patterns
    Paths,      \* the allowed globs of each run's contract
    Overlap,    \* the pairs of globs peer_glob_sets_overlap finds to meet
    Absent,     \* no file at this path
    Malformed,  \* a file without a run_id line
    NoProc

LockPath == {"LOCK"} \cup Run
Claim    == [run : Run, exclusive : BOOLEAN]
Holder   == [run : Run, pid : Proc, exclusive : BOOLEAN]

ASSUME RunNonEmpty == Run # {}
ASSUME PathsType   == Paths \in [Run -> SUBSET Glob]
ASSUME OverlapSymm == \A a, b \in Glob : <<a, b>> \in Overlap => <<b, a>> \in Overlap
ASSUME Distinct    == /\ "LOCK" \notin Run
                      /\ Absent \notin Holder
                      /\ Malformed \notin Holder
                      /\ Absent # Malformed
                      /\ NoProc \notin Proc

VARIABLES
    file,       \* what is at each lock path
    pc,         \* where each process is in its use of the lock
    claim,      \* the claim a process acquires or holds (its RepoLock value)
    lockset,    \* the process that holds the LOCKSET flock between two steps
    started,    \* the run ids that some process has been granted a lock for
    revoked     \* history: release_run_lock took the file of a live process

lockVars == <<file, pc, claim, lockset, started, revoked>>

PC == {"idle", "creating", "holding", "gone"}

LockTypeOK ==
    /\ file \in [LockPath -> Holder \cup {Absent, Malformed}]
    /\ pc \in [Proc -> PC]
    /\ claim \in [Proc -> Claim]
    /\ lockset \in Proc \cup {NoProc}
    /\ started \in SUBSET Run
    /\ revoked \in BOOLEAN

LockInit ==
    /\ file = [x \in LockPath |-> Absent]
    /\ pc = [p \in Proc |-> "idle"]
    /\ claim = [p \in Proc |-> [run |-> CHOOSE r \in Run : TRUE, exclusive |-> TRUE]]
    /\ lockset = NoProc
    /\ started = {}
    /\ revoked = FALSE

-----------------------------------------------------------------------------
(* Reading the lock files *)

PidAlive(p) == pc[p] # "gone"

IsHolder(x) == file[x] \in Holder

\* list_holders_unlocked fails as soon as one file cannot be parsed.
Readable == \A x \in LockPath : file[x] # Malformed

HoldersOf(r) == {x \in LockPath : IsHolder(x) /\ file[x].run = r}
DeadHolders  == {x \in LockPath : IsHolder(x) /\ ~PidAlive(file[x].pid)}

\* An empty path set fails closed as exclusive.
Exclusive(c) == c.exclusive \/ Paths[c.run] = {}

PathOf(c) == IF Exclusive(c) THEN "LOCK" ELSE c.run

Conflicts(c, d) ==
    \/ Exclusive(c) \/ Exclusive(d)
    \/ \E a \in Paths[c.run], b \in Paths[d.run] : <<a, b>> \in Overlap

Without(paths) == [x \in LockPath |-> IF x \in paths THEN Absent ELSE file[x]]

-----------------------------------------------------------------------------
(* acquire_with *)

\* MUTANT: a resume replaces its run's files without asking for their pid.
RefusesNoResume(r) == FALSE

\* A resume may replace the files its run left behind, unless one is alive.
RefusesResume(r) == \E x \in HoldersOf(r) : PidAlive(file[x].pid)
Stale(r, resume) == IF resume THEN HoldersOf(r) ELSE {}

\* MUTANT: only the LOCK file is looked at, not the holders under locks/.
BlockedByLockFile(c, resume) ==
    IsHolder("LOCK") /\ "LOCK" \notin Stale(c.run, resume)

\* The check made over the holders that remain: dead ones conflict as well.
Blocked(c, resume) ==
    \E x \in LockPath \ Stale(c.run, resume) :
        IsHolder(x) /\ (file[x].run = c.run \/ Conflicts(file[x], c))

Admits(c, resume) ==
    /\ Readable
    /\ resume => ~RefusesResume(c.run)
    /\ ~Blocked(c, resume)

\* Granted: remove the stale files of the run and create the holder, still empty.
Acquire(p, c, resume) ==
    /\ pc[p] = "idle"
    /\ lockset = NoProc
    /\ Admits(c, resume)
    /\ file' = [Without(Stale(c.run, resume)) EXCEPT ![PathOf(c)] = Malformed]
    /\ pc' = [pc EXCEPT ![p] = "creating"]
    /\ claim' = [claim EXCEPT ![p] = c]
    /\ lockset' = p
    /\ started' = started \cup {c.run}
    /\ UNCHANGED revoked

\* Refused, and the command ends.  A resume refused by ANOTHER run's holder has
\* already removed the stale files of its own run.
Refuse(p, c, resume) ==
    /\ pc[p] = "idle"
    /\ lockset = NoProc
    /\ ~Admits(c, resume)
    /\ file' = IF Readable /\ ~RefusesResume(c.run)
               THEN Without(Stale(c.run, resume)) ELSE file
    /\ pc' = [pc EXCEPT ![p] = "gone"]
    /\ UNCHANGED <<claim, lockset, started, revoked>>

\* write_lock goes to the open file: if the path was unlinked meanwhile the
\* text is lost with it.
WriteHolder(p) ==
    /\ pc[p] = "creating"
    /\ LET x == PathOf(claim[p]) IN
       file' = IF file[x] = Absent THEN file
               ELSE [file EXCEPT ![x] = [run |-> claim[p].run, pid |-> p,
                                         exclusive |-> Exclusive(claim[p])]]
    /\ pc' = [pc EXCEPT ![p] = "holding"]
    /\ lockset' = NoProc
    /\ UNCHANGED <<claim, started, revoked>>

\* start: a fresh run id.  resume: the id of a run that was started before.
Start(p, c)  == c.run \notin started /\ (Acquire(p, c, FALSE) \/ Refuse(p, c, FALSE))
Resume(p, c) == c.run \in started /\ (Acquire(p, c, TRUE) \/ Refuse(p, c, TRUE))

-----------------------------------------------------------------------------
(* release, the death of a process, and removal by others *)

\* RepoLock::release unlinks the path it was granted, whoever's file is there
\* now, and without the LOCKSET flock.  The process lives on (improve acquires
\* again) until it exits.
Release(p) ==
    /\ pc[p] = "holding"
    /\ file' = Without({PathOf(claim[p])})
    /\ pc' = [pc EXCEPT ![p] = "idle"]
    /\ UNCHANGED <<claim, lockset, started, revoked>>

\* A process ends, in the middle of anything; the kernel drops its flock.
Exit(p) ==
    /\ pc[p] # "gone"
    /\ pc' = [pc EXCEPT ![p] = "gone"]
    /\ lockset' = IF lockset = p THEN NoProc ELSE lockset
    /\ UNCHANGED <<file, claim, started, revoked>>

\* release_run_lock, called by cancel and clean: every file of the run goes,
\* alive or not.
ReleaseRunLock(r) ==
    /\ lockset = NoProc
    /\ Readable
    /\ HoldersOf(r) # {}
    /\ file' = Without(HoldersOf(r))
    /\ revoked' = (revoked \/ \E x \in HoldersOf(r) : PidAlive(file[x].pid))
    /\ UNCHANGED <<pc, claim, lockset, started>>

\* MUTANT: doctor --fix-lock does not ask whether the process is alive.
ClearAnyLock ==
    /\ lockset = NoProc
    /\ Readable
    /\ \E x \in LockPath : IsHolder(x)
    /\ file' = [x \in LockPath |-> Absent]
    /\ UNCHANGED <<pc, claim, lockset, started, revoked>>

\* clear_stale_lock (doctor --fix-lock) reports an error when it has nothing
\* to clear, and when a file cannot be read.
ClearSucceeds == Readable /\ DeadHolders # {}

ClearStaleLock ==
    /\ lockset = NoProc
    /\ ClearSucceeds
    /\ file' = Without(DeadHolders)
    /\ UNCHANGED <<pc, claim, lockset, started, revoked>>

LockNext ==
    \/ \E p \in Proc, c \in Claim : Start(p, c) \/ Resume(p, c)
    \/ \E p \in Proc : WriteHolder(p) \/ Release(p) \/ Exit(p)
    \/ \E r \in Run : ReleaseRunLock(r)
    \/ ClearStaleLock

LockSpec == LockInit /\ [][LockNext]_lockVars

-----------------------------------------------------------------------------
(* Properties *)

\* FR-004 and FR-027: two processes that both believe they hold the lock have
\* compatible claims, as long as nobody removed the lock of a live process.
\* It rests on every step of acquire, release and fix-lock, in any order, with
\* crashes anywhere.
Exclusion ==
    ~revoked =>
        \A p, q \in Proc :
            p # q /\ pc[p] = "holding" /\ pc[q] = "holding"
                => ~Conflicts(claim[p], claim[q])

\* No two engines drive the same run, whatever its paths are, under the same
\* condition (acquire_with refuses a resume while the run's process lives).
OneEnginePerRun ==
    ~revoked =>
        \A p, q \in Proc :
            p # q /\ pc[p] = "holding" /\ pc[q] = "holding"
                => claim[p].run # claim[q].run

\* The lock a process holds is on disk under its name, so that the processes
\* that come later can see it.
HolderOnDisk ==
    ~revoked =>
        \A p \in Proc :
            pc[p] = "holding" =>
                file[PathOf(claim[p])] =
                    [run |-> claim[p].run, pid |-> p, exclusive |-> Exclusive(claim[p])]

\* FR-004, "start itself must not quietly clear a lock": the file of a crashed
\* run outlives every start and every release of another process, and goes only
\* by doctor --fix-lock, by a cancel or clean, or by a resume of that very run.
StaleLockStays ==
    [][\A p \in Proc : \A c \in Claim :
          (Start(p, c) \/ (~revoked /\ Release(p)))
              => \A x \in DeadHolders : file'[x] = file[x]]_lockVars

\* FR-004: "a crash left LOCK behind and its pid is gone: doctor --fix-lock can
\* clear it".  Violated: a crash between create_new and write_lock leaves a file
\* no reader can parse, and clear_stale_lock gives up on it.
FixLockRecovers ==
    ((\A p \in Proc : ~PidAlive(p)) /\ (\E x \in LockPath : file[x] # Absent))
        => ClearSucceeds
=============================================================================
