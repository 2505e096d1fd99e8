--------------------------- MODULE RepoLockProofs ---------------------------
(***************************************************************************)
(* Proofs about RepoLock and about Commands, which runs on it, for any set *)
(* of processes, runs and globs.                                           *)
(*                                                                         *)
(* Exclusion is not inductive: a process that holds the lock is protected  *)
(* only by its file, so the invariant IInv says that the file of every     *)
(* process between acquire and release is on disk (empty while it is being *)
(* written), and that a file's place tells its kind.                       *)
(*                                                                         *)
(* What cancel, clean and doctor do to a run rests on what each of them    *)
(* has read before.  CmdInv follows a run from the lock granted to its     *)
(* start (nobody knows of it) over its row (its pid is the process that    *)
(* drives it) to a cancel; it says that whoever has seen the row of a run  *)
(* that its first process still drives has seen that process in it.        *)
(***************************************************************************)
EXTENDS Commands, TLAPS

Active(p) == pc[p] \in {"creating", "holding"}

\* The file of a process between acquire and release.
OwnFile(p) ==
    IF pc[p] = "creating" THEN Malformed
    ELSE [run |-> claim[p].run, pid |-> p, exclusive |-> Exclusive(claim[p])]

\* LOCKSET is held exactly by the process that is creating its file.
LocksetInv ==
    /\ lockset # NoProc => pc[lockset] = "creating"
    /\ \A p \in Proc : pc[p] = "creating" => lockset = p

FilesInv == ~revoked => \A p \in Proc : Active(p) => file[PathOf(claim[p])] = OwnFile(p)

ClaimsInv ==
    ~revoked =>
        \A p, q \in Proc :
            p # q /\ Active(p) /\ Active(q)
                => /\ ~Conflicts(claim[p], claim[q])
                   /\ claim[p].run # claim[q].run

\* A file under locks/ is named after the run it holds for.
PlaceInv == \A x \in Run : IsHolder(x) => file[x].run = x

IInv == LockTypeOK /\ LocksetInv /\ FilesInv /\ ClaimsInv /\ PlaceInv

\* Two claims that do not conflict live at different paths.
LEMMA PathsDiffer ==
    ASSUME NEW c \in Claim, NEW d \in Claim, ~Conflicts(c, d), c.run # d.run
    PROVE  PathOf(c) # PathOf(d)
  BY DEF Conflicts, PathOf, Claim

LEMMA PathOfType ==
    ASSUME NEW c \in Claim
    PROVE  PathOf(c) \in LockPath
  BY DEF PathOf, LockPath, Claim

LEMMA ConflictsSymm ==
    ASSUME NEW c \in Claim, NEW d \in Claim, Conflicts(c, d)
    PROVE  Conflicts(d, c)
  <1>1. CASE Exclusive(c) \/ Exclusive(d)
    BY <1>1 DEF Conflicts
  <1>2. CASE \E a \in Paths[c.run], b \in Paths[d.run] : <<a, b>> \in Overlap
    <2>1. PICK a \in Paths[c.run], b \in Paths[d.run] : <<a, b>> \in Overlap
      BY <1>2
    <2>2. a \in Glob /\ b \in Glob
      BY PathsType DEF Claim
    <2>3. <<b, a>> \in Overlap
      BY <2>1, <2>2, OverlapSymm
    <2> QED BY <2>3 DEF Conflicts
  <1> QED BY <1>1, <1>2 DEF Conflicts

\* A holder file stands for the claim it was written from.
LEMMA HolderConflicts ==
    ASSUME NEW p \in Proc, NEW c \in Claim, NEW d \in Claim, NEW h,
           h = [run |-> c.run, pid |-> p, exclusive |-> Exclusive(c)],
           ~Conflicts(h, d)
    PROVE  ~Conflicts(c, d)
  BY DEF Conflicts, Exclusive

-----------------------------------------------------------------------------

LEMMA AcquireStep ==
    ASSUME IInv, NEW p \in Proc, NEW c \in Claim, NEW resume \in BOOLEAN,
           Acquire(p, c, resume)
    PROVE  IInv'
  <1> USE DEF IInv
  <1>0. PathOf(c) \in LockPath
    BY PathOfType
  <1>1. LockTypeOK'
    <2>1. file' \in [LockPath -> Holder \cup {Absent, Malformed}]
      BY <1>0 DEF Acquire, LockTypeOK, Without
    <2> QED BY <2>1 DEF Acquire, LockTypeOK, PC, Claim
  <1>2. LocksetInv'
    BY Distinct DEF Acquire, LockTypeOK, LocksetInv
  <1>3. ASSUME NEW q \in Proc, q # p, Active(q), ~revoked
        PROVE  /\ pc[q] = "holding"
               /\ PathOf(claim[q]) \notin Stale(c.run, resume)
               /\ ~Conflicts(claim[q], c)
               /\ claim[q].run # c.run
               /\ PathOf(claim[q]) # PathOf(c)
    <2> DEFINE x == PathOf(claim[q])
    <2>1. claim[q] \in Claim /\ x \in LockPath
      BY PathOfType DEF LockTypeOK
    <2>2. pc[q] = "holding"
      BY <1>3, Distinct DEF Active, LocksetInv, Acquire
    <2>3. file[x] = [run |-> claim[q].run, pid |-> q, exclusive |-> Exclusive(claim[q])]
      BY <1>3, <2>2 DEF FilesInv, OwnFile, Active
    <2>4. IsHolder(x)
      BY <2>1, <2>3 DEF IsHolder, Holder, Claim, Exclusive
    <2>5. PidAlive(file[x].pid)
      BY <2>2, <2>3 DEF PidAlive
    <2>6. x \notin Stale(c.run, resume)
      BY <2>1, <2>3, <2>4, <2>5 DEF Stale, HoldersOf, Acquire, Admits, RefusesResume
    <2>7. ~Conflicts(file[x], c) /\ file[x].run # c.run
      BY <2>1, <2>4, <2>6 DEF Acquire, Admits, Blocked
    <2>8. ~Conflicts(claim[q], c) /\ claim[q].run # c.run
      BY <2>1, <2>3, <2>7, HolderConflicts
    <2>9. PathOf(claim[q]) # PathOf(c)
      BY <2>1, <2>8, PathsDiffer
    <2> QED BY <2>2, <2>6, <2>8, <2>9
  <1>4. FilesInv'
    <2> SUFFICES ASSUME ~revoked', NEW q \in Proc, Active(q)'
                 PROVE  file'[PathOf(claim'[q])] = OwnFile(q)'
      BY DEF FilesInv, PathOf, Exclusive
    <2>1. CASE q = p
      BY <2>1, <1>0 DEF Acquire, OwnFile, LockTypeOK, Without, PathOf, Exclusive
    <2>2. CASE q # p
      <3>1. Active(q) /\ claim'[q] = claim[q] /\ pc'[q] = pc[q] /\ ~revoked
        BY <2>2 DEF Acquire, Active, LockTypeOK
      <3>2. PathOf(claim[q]) \in LockPath
        BY PathOfType DEF LockTypeOK
      <3>3. file'[PathOf(claim[q])] = file[PathOf(claim[q])]
        BY <1>3, <2>2, <3>1, <3>2 DEF Acquire, Without
      <3>4. file[PathOf(claim[q])] = OwnFile(q)
        BY <3>1 DEF FilesInv
      <3> QED BY <3>1, <3>3, <3>4 DEF OwnFile, PathOf, Exclusive
    <2> QED BY <2>1, <2>2
  <1>5. ClaimsInv'
    <2> SUFFICES ASSUME ~revoked', NEW q \in Proc, NEW s \in Proc, q # s,
                        Active(q)', Active(s)'
                 PROVE  ~Conflicts(claim'[q], claim'[s]) /\ claim'[q].run # claim'[s].run
      BY DEF ClaimsInv, Conflicts, Exclusive
    <2>1. ~revoked /\ claim' = [claim EXCEPT ![p] = c] /\ c \in Claim
      BY DEF Acquire
    <2>2. \A t \in Proc : t # p /\ Active(t)' => Active(t) /\ claim'[t] = claim[t]
      BY DEF Acquire, Active, LockTypeOK
    <2>3. claim'[p] = c
      BY <2>1 DEF LockTypeOK
    <2>4. claim[q] \in Claim /\ claim[s] \in Claim
      BY DEF LockTypeOK
    <2>5. CASE q = p
      BY <1>3, <2>1, <2>2, <2>3, <2>4, <2>5, ConflictsSymm
    <2>6. CASE s = p
      BY <1>3, <2>1, <2>2, <2>3, <2>4, <2>6
    <2>7. CASE q # p /\ s # p
      BY <2>1, <2>2, <2>7 DEF ClaimsInv
    <2> QED BY <2>5, <2>6, <2>7
  <1>6. PlaceInv'
    BY <1>0, Distinct DEF Acquire, LockTypeOK, PlaceInv, IsHolder, Without, LockPath
  <1> QED BY <1>1, <1>2, <1>4, <1>5, <1>6

LEMMA RefuseStep ==
    ASSUME IInv, NEW p \in Proc, NEW c \in Claim, NEW resume \in BOOLEAN,
           Refuse(p, c, resume)
    PROVE  IInv'
  <1> USE DEF IInv
  <1>1. LockTypeOK'
    BY DEF Refuse, LockTypeOK, Without, PC
  <1>2. LocksetInv'
    BY DEF Refuse, LockTypeOK, LocksetInv
  <1>3. \A q \in Proc : Active(q)' => Active(q) /\ pc'[q] = pc[q]
    BY DEF Refuse, LockTypeOK, Active
  <1>4. FilesInv'
    <2> SUFFICES ASSUME ~revoked', NEW q \in Proc, Active(q)'
                 PROVE  file'[PathOf(claim[q])] = OwnFile(q)'
      BY DEF FilesInv, PathOf, Exclusive, Refuse
    <2> DEFINE x == PathOf(claim[q])
    <2>1. Active(q) /\ ~revoked /\ x \in LockPath
      BY <1>3, PathOfType DEF Refuse, LockTypeOK
    <2>2. file[x] = OwnFile(q)
      BY <2>1 DEF FilesInv
    <2>3. pc[q] = "holding"
      BY <2>1, Distinct DEF Active, LocksetInv, Refuse
    <2>4. ASSUME Readable, ~RefusesResume(c.run)
          PROVE  x \notin Stale(c.run, resume)
      BY <2>1, <2>2, <2>3, <2>4
         DEF OwnFile, Stale, HoldersOf, RefusesResume, PidAlive
    <2>5. file'[x] = file[x]
      BY <2>1, <2>4 DEF Refuse, Without
    <2> QED BY <1>3, <2>2, <2>5 DEF OwnFile, Refuse, Exclusive
  <1>5. ClaimsInv'
    BY <1>3 DEF ClaimsInv, Refuse, Conflicts, Exclusive
  <1>6. PlaceInv'
    BY Distinct DEF Refuse, LockTypeOK, PlaceInv, IsHolder, Without, LockPath
  <1> QED BY <1>1, <1>2, <1>4, <1>5, <1>6

LEMMA WriteHolderStep ==
    ASSUME IInv, NEW p \in Proc, WriteHolder(p)
    PROVE  IInv'
  <1> USE DEF IInv
  <1> DEFINE x == PathOf(claim[p])
  <1>0. x \in LockPath /\ claim[p] \in Claim
    BY PathOfType DEF LockTypeOK
  <1>1. LockTypeOK'
    <2>1. [run |-> claim[p].run, pid |-> p, exclusive |-> Exclusive(claim[p])] \in Holder
      BY <1>0 DEF Holder, Claim, Exclusive
    <2>2. file' \in [LockPath -> Holder \cup {Absent, Malformed}]
      BY <1>0, <2>1 DEF WriteHolder, LockTypeOK
    <2> QED BY <2>2 DEF WriteHolder, LockTypeOK, PC
  <1>2. LocksetInv'
    BY DEF WriteHolder, LockTypeOK, LocksetInv
  <1>3. \A q \in Proc : Active(q)' => Active(q)
    BY DEF WriteHolder, LockTypeOK, Active
  <1>4. FilesInv'
    <2> SUFFICES ASSUME ~revoked', NEW q \in Proc, Active(q)'
                 PROVE  file'[PathOf(claim[q])] = OwnFile(q)'
      BY DEF FilesInv, PathOf, Exclusive, WriteHolder
    <2>0. Active(q) /\ Active(p) /\ ~revoked
      BY <1>3 DEF WriteHolder, Active
    <2>1. CASE q = p
      <3>1. file[x] = Malformed
        BY <2>0 DEF FilesInv, OwnFile, WriteHolder
      <3>2. file'[x] = [run |-> claim[p].run, pid |-> p, exclusive |-> Exclusive(claim[p])]
        BY <1>0, <3>1, Distinct DEF WriteHolder, LockTypeOK
      <3>3. pc'[p] = "holding" /\ claim' = claim
        BY DEF WriteHolder, LockTypeOK
      <3> QED BY <2>1, <3>2, <3>3 DEF OwnFile, Exclusive
    <2>2. CASE q # p
      <3>1. claim[q] \in Claim /\ PathOf(claim[q]) \in LockPath
        BY PathOfType DEF LockTypeOK
      <3>2. ~Conflicts(claim[q], claim[p]) /\ claim[q].run # claim[p].run
        BY <2>0, <2>2 DEF ClaimsInv
      <3>3. PathOf(claim[q]) # x
        BY <1>0, <3>1, <3>2, PathsDiffer
      <3>4. file'[PathOf(claim[q])] = file[PathOf(claim[q])]
        BY <1>0, <3>1, <3>3 DEF WriteHolder, LockTypeOK
      <3>5. pc'[q] = pc[q] /\ claim' = claim
        BY <2>2 DEF WriteHolder, LockTypeOK
      <3> QED BY <2>0, <3>4, <3>5 DEF FilesInv, OwnFile, Exclusive
    <2> QED BY <2>1, <2>2
  <1>5. ClaimsInv'
    BY <1>3 DEF ClaimsInv, WriteHolder, Conflicts, Exclusive
  <1>6. PlaceInv'
    BY <1>0, Distinct DEF WriteHolder, LockTypeOK, PlaceInv, IsHolder, PathOf, LockPath
  <1> QED BY <1>1, <1>2, <1>4, <1>5, <1>6

LEMMA ReleaseStep ==
    ASSUME IInv, NEW p \in Proc, Release(p)
    PROVE  IInv'
  <1> USE DEF IInv
  <1>1. LockTypeOK'
    BY DEF Release, LockTypeOK, Without, PC
  <1>2. LocksetInv'
    BY DEF Release, LockTypeOK, LocksetInv
  <1>3. \A q \in Proc : Active(q)' => Active(q) /\ q # p /\ pc'[q] = pc[q]
    BY DEF Release, LockTypeOK, Active
  <1>4. FilesInv'
    <2> SUFFICES ASSUME ~revoked', NEW q \in Proc, Active(q)'
                 PROVE  file'[PathOf(claim[q])] = OwnFile(q)'
      BY DEF FilesInv, PathOf, Exclusive, Release
    <2>1. Active(q) /\ Active(p) /\ ~revoked /\ q # p
      BY <1>3 DEF Release, Active
    <2>2. claim[q] \in Claim /\ claim[p] \in Claim /\ PathOf(claim[q]) \in LockPath
      BY PathOfType DEF LockTypeOK
    <2>3. PathOf(claim[q]) # PathOf(claim[p])
      BY <2>1, <2>2, PathsDiffer DEF ClaimsInv
    <2>4. file'[PathOf(claim[q])] = file[PathOf(claim[q])]
      BY <2>2, <2>3 DEF Release, Without
    <2> QED BY <1>3, <2>1, <2>4 DEF FilesInv, OwnFile, Release, Exclusive
  <1>5. ClaimsInv'
    BY <1>3 DEF ClaimsInv, Release, Conflicts, Exclusive
  <1>6. PlaceInv'
    BY Distinct DEF Release, LockTypeOK, PlaceInv, IsHolder, Without, LockPath
  <1> QED BY <1>1, <1>2, <1>4, <1>5, <1>6

LEMMA ExitStep ==
    ASSUME IInv, NEW p \in Proc, Exit(p)
    PROVE  IInv'
  <1> USE DEF IInv
  <1>1. LockTypeOK'
    BY DEF Exit, LockTypeOK, PC
  <1>2. LocksetInv'
    BY DEF Exit, LockTypeOK, LocksetInv
  <1>3. \A q \in Proc : Active(q)' => Active(q) /\ pc'[q] = pc[q]
    BY DEF Exit, LockTypeOK, Active
  <1>4. FilesInv'
    BY <1>3 DEF FilesInv, OwnFile, Exit, PathOf, Exclusive
  <1>5. ClaimsInv'
    BY <1>3 DEF ClaimsInv, Exit, Conflicts, Exclusive
  <1>6. PlaceInv'
    BY DEF Exit, PlaceInv, IsHolder
  <1> QED BY <1>1, <1>2, <1>4, <1>5, <1>6

LEMMA ReleaseRunLockStep ==
    ASSUME IInv, NEW r \in Run, ReleaseRunLock(r)
    PROVE  IInv'
  <1> USE DEF IInv
  <1>1. LockTypeOK'
    BY DEF ReleaseRunLock, LockTypeOK, Without
  <1>2. LocksetInv'
    BY DEF ReleaseRunLock, LocksetInv
  <1>3. FilesInv'
    <2> SUFFICES ASSUME ~revoked', NEW q \in Proc, Active(q)'
                 PROVE  file'[PathOf(claim[q])] = OwnFile(q)'
      BY DEF FilesInv, PathOf, Exclusive, ReleaseRunLock
    <2>1. Active(q) /\ ~revoked /\ PathOf(claim[q]) \in LockPath
      BY PathOfType DEF Active, ReleaseRunLock, LockTypeOK
    <2>2. pc[q] = "holding"
      BY <2>1, Distinct DEF Active, LocksetInv, ReleaseRunLock
    <2>3. file[PathOf(claim[q])] = OwnFile(q) /\ OwnFile(q).pid = q
      BY <2>1, <2>2 DEF FilesInv, OwnFile
    <2>4. PathOf(claim[q]) \notin HoldersOf(r)
      BY <2>2, <2>3 DEF ReleaseRunLock, PidAlive
    <2>5. file'[PathOf(claim[q])] = file[PathOf(claim[q])]
      BY <2>1, <2>4 DEF ReleaseRunLock, Without
    <2> QED BY <2>3, <2>5 DEF OwnFile, ReleaseRunLock, Exclusive
  <1>4. ClaimsInv'
    BY DEF ClaimsInv, ReleaseRunLock, Conflicts, Exclusive, Active
  <1>5. PlaceInv'
    BY Distinct DEF ReleaseRunLock, LockTypeOK, PlaceInv, IsHolder, Without, LockPath
  <1> QED BY <1>1, <1>2, <1>3, <1>4, <1>5

LEMMA ClearStaleLockStep ==
    ASSUME IInv, ClearStaleLock
    PROVE  IInv'
  <1> USE DEF IInv
  <1>1. LockTypeOK'
    BY DEF ClearStaleLock, LockTypeOK, Without
  <1>2. LocksetInv'
    BY DEF ClearStaleLock, LocksetInv
  <1>3. FilesInv'
    <2> SUFFICES ASSUME ~revoked', NEW q \in Proc, Active(q)'
                 PROVE  file'[PathOf(claim[q])] = OwnFile(q)'
      BY DEF FilesInv, PathOf, Exclusive, ClearStaleLock
    <2>1. Active(q) /\ ~revoked /\ PathOf(claim[q]) \in LockPath
      BY PathOfType DEF Active, ClearStaleLock, LockTypeOK
    <2>2. pc[q] = "holding"
      BY <2>1, Distinct DEF Active, LocksetInv, ClearStaleLock
    <2>3. file[PathOf(claim[q])] = OwnFile(q) /\ OwnFile(q).pid = q
      BY <2>1, <2>2 DEF FilesInv, OwnFile
    <2>4. PathOf(claim[q]) \notin DeadHolders
      BY <2>2, <2>3 DEF DeadHolders, PidAlive
    <2>5. file'[PathOf(claim[q])] = file[PathOf(claim[q])]
      BY <2>1, <2>4 DEF ClearStaleLock, Without
    <2> QED BY <2>3, <2>5 DEF OwnFile, ClearStaleLock, Exclusive
  <1>4. ClaimsInv'
    BY DEF ClaimsInv, ClearStaleLock, Conflicts, Exclusive, Active
  <1>5. PlaceInv'
    BY Distinct DEF ClearStaleLock, LockTypeOK, PlaceInv, IsHolder, Without, LockPath
  <1> QED BY <1>1, <1>2, <1>3, <1>4, <1>5

-----------------------------------------------------------------------------

LEMMA InitIInv == LockInit => IInv
  <1> SUFFICES ASSUME LockInit PROVE IInv
    OBVIOUS
  <1>1. [run |-> CHOOSE r \in Run : TRUE, exclusive |-> TRUE] \in Claim
    BY RunNonEmpty DEF Claim
  <1>2. LockTypeOK
    BY <1>1 DEF LockInit, LockTypeOK, PC
  <1>3. PlaceInv
    BY Distinct DEF LockInit, PlaceInv, IsHolder, LockPath
  <1> QED BY <1>2, <1>3 DEF LockInit, IInv, LocksetInv, FilesInv, ClaimsInv, Active

LEMMA NextIInv == IInv /\ [LockNext]_lockVars => IInv'
  <1> SUFFICES ASSUME IInv, [LockNext]_lockVars PROVE IInv'
    OBVIOUS
  <1>1. ASSUME NEW p \in Proc, NEW c \in Claim, Start(p, c) \/ Resume(p, c)
        PROVE  IInv'
    BY <1>1, AcquireStep, RefuseStep DEF Start, Resume
  <1>2. ASSUME NEW p \in Proc, WriteHolder(p) PROVE IInv'
    BY <1>2, WriteHolderStep
  <1>3. ASSUME NEW p \in Proc, Release(p) PROVE IInv'
    BY <1>3, ReleaseStep
  <1>4. ASSUME NEW p \in Proc, Exit(p) PROVE IInv'
    BY <1>4, ExitStep
  <1>5. ASSUME NEW r \in Run, ReleaseRunLock(r) PROVE IInv'
    BY <1>5, ReleaseRunLockStep
  <1>6. CASE ClearStaleLock
    BY <1>6, ClearStaleLockStep
  <1>7. CASE UNCHANGED lockVars
    BY <1>7 DEF lockVars, IInv, LockTypeOK, LocksetInv, FilesInv, ClaimsInv, PlaceInv, IsHolder,
                Active, OwnFile, PathOf, Conflicts, Exclusive
  <1> QED BY <1>1, <1>2, <1>3, <1>4, <1>5, <1>6, <1>7 DEF LockNext

\* The lock module keeps its types: every file is absent, unreadable or names a
\* run, a process and a kind.
THEOREM TypeCorrect == LockSpec => []LockTypeOK
  <1>1. IInv => LockTypeOK
    BY DEF IInv
  <1> QED BY <1>1, InitIInv, NextIInv, PTL DEF LockSpec

\* FR-004 and FR-027 for any number of processes and runs: unless release_run_lock
\* took the lock of a live process, two processes that hold the lock have claims
\* that do not conflict.
THEOREM MutualExclusion == LockSpec => []Exclusion
  <1>1. IInv => Exclusion
    BY DEF IInv, ClaimsInv, Exclusion, Active
  <1> QED BY <1>1, InitIInv, NextIInv, PTL DEF LockSpec

\* No run is driven by two live engines, under the same condition.
THEOREM SingleEngine == LockSpec => []OneEnginePerRun
  <1>1. IInv => OneEnginePerRun
    BY DEF IInv, ClaimsInv, OneEnginePerRun, Active
  <1> QED BY <1>1, InitIInv, NextIInv, PTL DEF LockSpec

\* The file a holder relies on is on disk under its name, so that every later
\* acquire sees it.
THEOREM LockVisible == LockSpec => []HolderOnDisk
  <1>1. IInv => HolderOnDisk
    BY DEF IInv, FilesInv, HolderOnDisk, Active, OwnFile
  <1> QED BY <1>1, InitIInv, NextIInv, PTL DEF LockSpec

\* A start, and the release of another process, leave the file of a crashed run
\* where it is.
THEOREM StaleSurvives == LockSpec => StaleLockStays
  <1> DEFINE Keeps == \A p \in Proc : \A c \in Claim :
                        (Start(p, c) \/ (~revoked /\ Release(p)))
                            => \A x \in DeadHolders : file'[x] = file[x]
  <1>1. ASSUME IInv PROVE Keeps
    <2> SUFFICES ASSUME NEW p \in Proc, NEW c \in Claim, NEW x \in DeadHolders,
                        Start(p, c) \/ (~revoked /\ Release(p))
                 PROVE  file'[x] = file[x]
      OBVIOUS
    <2>1. x \in LockPath /\ IsHolder(x) /\ ~PidAlive(file[x].pid)
      BY DEF DeadHolders
    <2>2. PathOf(c) \in LockPath
      BY PathOfType
    <2>3. CASE Acquire(p, c, FALSE)
      <3>1. ~Conflicts(file[x], c) /\ file[x].run # c.run
        BY <2>1, <2>3 DEF Acquire, Admits, Blocked, Stale
      <3>2. x # PathOf(c)
        BY <1>1, <2>1, <3>1, Distinct
           DEF PathOf, Conflicts, IInv, PlaceInv, LockPath, Claim
      <3> QED BY <2>1, <2>2, <2>3, <3>2 DEF Acquire, Without, Stale
    <2>4. CASE Refuse(p, c, FALSE)
      BY <2>1, <2>4 DEF Refuse, Without, Stale
    <2>5. CASE ~revoked /\ Release(p)
      <3>1. file[PathOf(claim[p])] = OwnFile(p)
        BY <1>1, <2>5 DEF IInv, FilesInv, Active, Release
      <3>2. OwnFile(p).pid = p /\ PidAlive(p)
        BY <2>5 DEF OwnFile, Release, PidAlive
      <3>3. x # PathOf(claim[p])
        BY <2>1, <3>1, <3>2
      <3> QED BY <2>1, <2>5, <3>3 DEF Release, Without
    <2> QED BY <2>3, <2>4, <2>5 DEF Start
  <1>2. IInv /\ [LockNext]_lockVars => [Keeps]_lockVars
    BY <1>1
  <1>3. StaleLockStays <=> [][Keeps]_lockVars
    BY DEF StaleLockStays
  <1> QED BY <1>2, <1>3, InitIInv, NextIInv, PTL DEF LockSpec

-----------------------------------------------------------------------------
(* The commands *)

Working  == {"insert", "drive"}
Engine   == Working \cup {"save", "finish"}
Marking  == {"cancel_mark", "cancel_kill", "cancel_read", "cancel_remark", "cancel_set",
             "cancel_again"}
Cleaning == {"clean", "clean_dry"}
Curing   == {"doctor", "doctor_set"}
HasSeen  == Marking \cup Cleaning \cup {"save", "drive", "finish", "want_resume", "cancel_release"}
OnOne    == (HasSeen \ Cleaning) \cup {"insert"}

\* Steps that a cancel, or doctor, comes to when the engine is gone.
Late     == (Marking \ {"cancel_mark", "cancel_kill"}) \cup Curing \cup {"cancel_release"}

\* p is at one of the steps, with r before it.
On(p, steps, r) == cmd[p].at \in steps /\ r \in cmd[p].todo

Fresh == Run \ past.resumed

RowTyped == row \in [Run -> Row \cup {NoRow}] /\ trees \subseteq Run
PastTyped == past \in [resumed : SUBSET Run, cancels : SUBSET Run,
                       again : SUBSET Run, stopped : SUBSET Run]
MemTyped == cmd \in [Proc -> [at : Steps, todo : SUBSET Run, seen : [Run -> Row \cup {NoRow}]]]

\* A command that goes on has a run, and a row once seen is there.
Aimed == \A p \in Proc :
    /\ cmd[p].at \in OnOne => \E r \in Run : cmd[p].todo = {r}
    /\ \A r \in Run : /\ On(p, HasSeen, r) => cmd[p].seen[r] # NoRow
                      /\ cmd[p].seen[r] # NoRow => row[r] # NoRow

\* Who is named in a row has driven a run, and does not turn to anything else.
HasDriven(p) == pc[p] = "gone" \/ cmd[p].at \in Engine \cup {"done"}

Manned == \A r \in Run :
    /\ row[r] # NoRow => HasDriven(row[r].pid)
    /\ \A q \in Proc : cmd[q].seen[r] # NoRow => HasDriven(cmd[q].seen[r].pid)

\* Whatever is known of a run, a lock was granted for it.
Granted ==
    /\ \A p \in Proc : /\ Active(p) => claim[p] = ClaimOf(claim[p].run) /\ claim[p].run \in started
                       /\ \A r \in Run : On(p, Curing, r) => r \in started
    /\ \A r \in Run : row[r] # NoRow => r \in started
    /\ \A x \in LockPath : IsHolder(x) => file[x].run \in started
    /\ \A r \in past.stopped : row[r] # NoRow

\* The engine at work on a run holds its lock.
Engaged == \A p \in Proc, r \in Run :
    /\ On(p, Engine, r) => Active(p) /\ claim[p].run = r
    /\ On(p, {"drive", "finish"}, r) => pc[p] = "holding"
    /\ On(p, {"save"}, r) => r \in past.resumed

\* As long as a run is not resumed, one process ever has its lock.
Sole == \A r \in Fresh : \A p, q \in Proc :
    Active(p) /\ Active(q) /\ claim[p].run = r /\ claim[q].run = r => p = q

Owned == ~revoked => \A p \in Proc, r \in Run : On(p, {"drive"}, r) => row[r].pid = p

\* A run that its first process works on: its row says so, nobody has come far
\* enough with it to harm it, and every lock file of it names that process.
Untouched == \A r \in Fresh, p \in Proc : On(p, Working, r) =>
    /\ cmd[p].at = "insert" => row[r] = NoRow
    /\ cmd[p].at = "drive" => /\ row[r].pid = p /\ ~Ended(row[r])
                              /\ ~Ended(cmd[p].seen[r]) /\ r \in trees
    /\ r \notin past.stopped
    /\ \A q \in Proc : /\ ~On(q, Late, r)
                       /\ On(q, {"cancel_mark", "cancel_kill"} \cup Cleaning, r)
                            => cmd[q].seen[r].pid = p
                       /\ On(q, Cleaning, r) => ~Ended(cmd[q].seen[r])
    /\ \A x \in LockPath : IsHolder(x) /\ file[x].run = r => file[x].pid = p

\* The one cancel of a run that was never resumed.
Cancels ==
    /\ past.stopped \subseteq past.cancels
    /\ \A q \in Proc, r \in Run : On(q, Marking \cup {"cancel_release"}, r) => r \in past.cancels
    /\ \A r \in Fresh \ past.again :
        /\ \A p, q \in Proc : On(p, Marking, r) /\ On(q, Marking, r) => p = q
        /\ r \in past.stopped => Ended(row[r]) /\ \A q \in Proc : ~On(q, Marking, r)
        /\ \A q \in Proc :
            /\ On(q, {"cancel_remark"}, r) => ~Ended(cmd[q].seen[r])
            /\ On(q, {"cancel_set"}, r) => cmd[q].seen[r].state = "canceling"
            /\ On(q, {"cancel_again"}, r) => Ended(row[r])

\* Doctor has no accepted run before it.
Cures == \A r \in Fresh \ past.cancels, q \in Proc :
    On(q, Curing, r) /\ cmd[q].seen[r] # NoRow => row[r].state # "accepted"

\* Without exclusive claims, the lock of such a run is at its own path.
Locked == \A r \in Fresh, p \in Proc : On(p, Working, r) => file[r] = OwnFile(p)

Beside == RowTyped /\ PastTyped /\ MemTyped /\ Aimed /\ Manned /\ Granted /\ Engaged /\ Sole /\ Owned

CmdInv == Beside /\ Untouched /\ Cancels /\ Cures

USE NoRowIsNone, ExclusiveType, EngineStatesType

Others(p) == \A q \in Proc \ {p} : cmd'[q] = cmd[q]

LEMMA TargetIs ==
    ASSUME Aimed, NEW p \in Proc, cmd[p].at \in OnOne
    PROVE  Target(p) \in Run /\ cmd[p].todo = {Target(p)}
  BY DEF Aimed, Target

LEMMA RowParts ==
    ASSUME RowTyped, MemTyped
    PROVE  /\ \A r \in Run : row[r] # NoRow =>
                row[r] \in Row /\ row[r].pid \in Proc /\ row[r].state \in RunStates
           /\ \A q \in Proc, r \in Run : cmd[q].seen[r] # NoRow =>
                /\ cmd[q].seen[r] \in Row /\ cmd[q].seen[r].pid \in Proc
                /\ cmd[q].seen[r].state \in RunStates
  BY DEF RowTyped, MemTyped, Row

\* What SetState does to the row and to the memory of its caller.
LEMMA SetStateDoes ==
    ASSUME RowTyped, MemTyped, NEW p \in Proc, NEW r \in Run, NEW to \in RunStates, NEW step \in Steps,
           cmd[p].seen[r] # NoRow, row[r] # NoRow, SetState(p, r, to, step)
    PROVE  /\ row' \in [Run -> Row \cup {NoRow}] /\ MemTyped' /\ Others(p)
           /\ \A s \in Run \ {r} : row'[s] = row[s] /\ cmd'[p].seen[s] = cmd[p].seen[s]
           /\ cmd'[p].at = step /\ cmd'[p].todo = cmd[p].todo
           /\ row'[r] # NoRow /\ cmd'[p].seen[r] # NoRow
           /\ row'[r].pid = row[r].pid /\ cmd'[p].seen[r].pid = cmd[p].seen[r].pid
           /\ IF CanTransition(cmd[p].seen[r].state, to)
              THEN row'[r].state = to /\ cmd'[p].seen[r].state = to
              ELSE row'[r] = row[r] /\ cmd'[p].seen[r] = cmd[p].seen[r]
<1>0. cmd[p].seen[r] \in Row /\ row[r] \in Row
  BY DEF RowTyped, MemTyped
<1>1. CASE CanTransition(cmd[p].seen[r].state, to)
  <2>1. row' = [row EXCEPT ![r].state = to] /\ cmd' = [cmd EXCEPT ![p].seen[r].state = to, ![p].at = step]
    BY <1>1 DEF SetState
  <2>2. [row[r] EXCEPT !.state = to] \in Row /\ [cmd[p].seen[r] EXCEPT !.state = to] \in Row
    BY <1>0 DEF Row
  <2>3. row' = [row EXCEPT ![r] = [row[r] EXCEPT !.state = to]]
    BY <2>1
  <2>4. /\ row' \in [Run -> Row \cup {NoRow}] /\ \A s \in Run \ {r} : row'[s] = row[s]
        /\ row'[r] = [row[r] EXCEPT !.state = to]
    BY <2>2, <2>3 DEF RowTyped
  <2>5. cmd' = [cmd EXCEPT ![p] = [at |-> step, todo |-> cmd[p].todo,
                    seen |-> [cmd[p].seen EXCEPT ![r] = [cmd[p].seen[r] EXCEPT !.state = to]]]]
    <3> DEFINE one == [cmd EXCEPT ![p].seen[r].state = to]
    <3>1. cmd[p] = [at |-> cmd[p].at, todo |-> cmd[p].todo, seen |-> cmd[p].seen]
      BY DEF MemTyped
    <3>2. DOMAIN cmd = Proc /\ DOMAIN one = Proc /\ \A q \in Proc \ {p} : one[q] = cmd[q]
      BY DEF MemTyped
    <3>3. one[p] = [cmd[p] EXCEPT !.seen[r].state = to]
      BY DEF MemTyped
    <3>4. one[p] = [at |-> cmd[p].at, todo |-> cmd[p].todo,
                    seen |-> [cmd[p].seen EXCEPT ![r] = [cmd[p].seen[r] EXCEPT !.state = to]]]
      BY <3>1, <3>3
    <3>5. cmd' = [one EXCEPT ![p].at = step]
      BY <2>1
    <3> HIDE DEF one
    <3>6. cmd'[p] = [one[p] EXCEPT !.at = step]
      BY <3>2, <3>5
    <3>7. cmd'[p] = [at |-> step, todo |-> cmd[p].todo,
                     seen |-> [cmd[p].seen EXCEPT ![r] = [cmd[p].seen[r] EXCEPT !.state = to]]]
      BY <3>4, <3>6
    <3> QED
      BY <3>2, <3>5, <3>7 DEF MemTyped
  <2>6. /\ MemTyped' /\ Others(p)
        /\ cmd'[p] = [at |-> step, todo |-> cmd[p].todo,
                      seen |-> [cmd[p].seen EXCEPT ![r] = [cmd[p].seen[r] EXCEPT !.state = to]]]
    BY <2>2, <2>5 DEF MemTyped, Others
  <2>7. /\ cmd'[p].seen[r] = [cmd[p].seen[r] EXCEPT !.state = to]
        /\ \A s \in Run \ {r} : cmd'[p].seen[s] = cmd[p].seen[s]
    BY <2>6 DEF MemTyped
  <2>8. /\ row'[r].state = to /\ row'[r].pid = row[r].pid /\ row'[r] # NoRow
        /\ cmd'[p].seen[r].state = to /\ cmd'[p].seen[r].pid = cmd[p].seen[r].pid /\ cmd'[p].seen[r] # NoRow
    BY <1>0, <2>2, <2>4, <2>7 DEF Row
  <2> QED
    BY <1>1, <2>4, <2>6, <2>7, <2>8
<1>2. CASE ~CanTransition(cmd[p].seen[r].state, to)
  <2>1. row' = row /\ cmd' = [cmd EXCEPT ![p].at = step]
    BY <1>2 DEF SetState, Go
  <2>2. MemTyped' /\ Others(p) /\ cmd'[p].at = step /\ cmd'[p].todo = cmd[p].todo /\ cmd'[p].seen = cmd[p].seen
    BY <2>1 DEF MemTyped, Others
  <2> QED
    BY <1>2, <2>1, <2>2 DEF RowTyped
<1> QED
  BY <1>1, <1>2

\* Go changes the place only.
LEMMA GoDoes ==
    ASSUME MemTyped, NEW p \in Proc, NEW step \in Steps, Go(p, step)
    PROVE  /\ MemTyped' /\ Others(p)
           /\ cmd'[p].at = step /\ cmd'[p].todo = cmd[p].todo /\ cmd'[p].seen = cmd[p].seen
  BY DEF MemTyped, Others, Go

LEMMA StepsAre ==
    /\ Engine \cup HasSeen \cup OnOne \cup Late \cup Curing \cup Marking \cup Cleaning
         \cup {"done", "none"} \subseteq Steps
  BY DEF Working, Engine, HasSeen, OnOne, Late, Curing, Marking, Cleaning, Steps

-----------------------------------------------------------------------------
(* What the lock keeps, whatever the command *)

\* Who is still between acquire and release after a step that is no acquire.
Keeping == \A q \in Proc : Active(q)' => Active(q) /\ claim'[q] = claim[q]

LEMMA KeptSole ==
    ASSUME Sole, Keeping, past.resumed \subseteq past'.resumed PROVE Sole'
  BY DEF Sole, Keeping, Fresh

\* A lock step gives nobody the place of a process that is gone.
LEMMA GoneStays == ASSUME IInv, [LockNext]_lockVars, NEW q \in Proc, pc[q] = "gone" PROVE pc'[q] = "gone"
<1> USE DEF IInv, LockTypeOK
<1>1. ASSUME NEW p \in Proc, NEW c \in Claim, Start(p, c) \/ Resume(p, c) PROVE pc'[q] = "gone"
  BY <1>1 DEF Start, Resume, Acquire, Refuse
<1>2. ASSUME NEW p \in Proc, WriteHolder(p) \/ Release(p) \/ Exit(p) PROVE pc'[q] = "gone"
  BY <1>2 DEF WriteHolder, Release, Exit
<1>3. ASSUME NEW r \in Run, ReleaseRunLock(r) PROVE pc'[q] = "gone"
  BY <1>3 DEF ReleaseRunLock
<1>4. CASE ClearStaleLock
  BY <1>4 DEF ClearStaleLock
<1>5. CASE UNCHANGED lockVars
  BY <1>5 DEF lockVars
<1> QED
  BY <1>1, <1>2, <1>3, <1>4, <1>5 DEF LockNext

\* Who has driven a run, has.
LEMMA DrivenStays ==
    ASSUME Manned, NEW p \in Proc, HasDriven(p),
           pc[p] = "gone" => pc'[p] = "gone",
           \/ cmd'[p] = cmd[p]
           \/ pc'[p] = "gone"
           \/ cmd[p].at \notin Engine \cup {"done"}
           \/ cmd'[p].at \in Engine \cup {"done"}
    PROVE  HasDriven(p)'
  BY DEF HasDriven

\* What is on record is not lost.
LEMMA KeptGranted ==
    ASSUME Granted, started \subseteq started',
           \A q \in Proc : Active(q)' => Active(q) /\ claim'[q] = claim[q],
           \A q \in Proc, r \in Run : On(q, Curing, r)' => On(q, Curing, r) \/ r \in started,
           \A r \in Run : row'[r] # NoRow => row[r] # NoRow \/ r \in started,
           \A x \in LockPath : IsHolder(x)' => (file'[x] = file[x] \/ file'[x].run \in started),
           \A r \in past'.stopped : row'[r] # NoRow
    PROVE  Granted'
<1>1. ASSUME NEW q \in Proc, Active(q)' PROVE claim'[q] = ClaimOf(claim'[q].run) /\ claim'[q].run \in started'
  BY <1>1 DEF Granted
<1>2. \A q \in Proc, r \in Run : On(q, Curing, r)' => r \in started'
  BY DEF Granted
<1>3. \A r \in Run : row'[r] # NoRow => r \in started'
  BY DEF Granted
<1>4. \A x \in LockPath : IsHolder(x)' => file'[x].run \in started'
  BY DEF Granted, IsHolder
<1> QED
  BY <1>1, <1>2, <1>3, <1>4 DEF Granted, ClaimOf

-----------------------------------------------------------------------------
(* Steps that leave the lock alone *)

LEMMA Quiet ==
    ASSUME UNCHANGED lockVars
    PROVE  /\ \A q \in Proc : pc'[q] = pc[q] /\ claim'[q] = claim[q] /\ (Active(q)' <=> Active(q))
           /\ UNCHANGED <<file, started, revoked, lockset>>
           /\ \A x \in LockPath : IsHolder(x)' <=> IsHolder(x)
  BY DEF lockVars, Active, IsHolder

\* Lock files may go, no more.
Looser ==
    /\ UNCHANGED <<pc, claim, started>> /\ (revoked => revoked')
    /\ \A x \in LockPath : IsHolder(x)' => IsHolder(x) /\ file'[x] = file[x]

\* Nobody works on the run, if it was never resumed.
Unworked(s) == s \in Fresh => \A w \in Proc : ~On(w, Working, s)

LEMMA QuietIsLooser == ASSUME UNCHANGED lockVars PROVE Looser
  BY Quiet DEF Looser, lockVars

LEMMA LooserActive ==
    ASSUME Looser
    PROVE  \A q \in Proc : pc'[q] = pc[q] /\ claim'[q] = claim[q] /\ (Active(q)' <=> Active(q))
  BY DEF Looser, Active

\* A transition by a command that goes on with the run, or by the engine.
LEMMA SetStateKeeps ==
    ASSUME IInv, Beside, NEW p \in Proc, NEW r \in Run, NEW to \in RunStates, NEW step \in Steps,
           cmd[p].todo = {r},
           \/ cmd[p].at \in Marking /\ step \in Marking \cup {"cancel_release"}
           \/ cmd[p].at = "drive" /\ step \in {"drive", "finish"},
           SetState(p, r, to, step),
           UNCHANGED <<lockVars, trees>>, PastTyped', past'.resumed = past.resumed,
           past'.stopped \subseteq past.stopped \cup {r}
    PROVE  Beside'
<1> USE DEF Beside
<1>1. cmd[p].seen[r] # NoRow /\ row[r] # NoRow
  BY DEF Aimed, On, HasSeen
<1>2. /\ row' \in [Run -> Row \cup {NoRow}] /\ MemTyped' /\ Others(p)
      /\ \A s \in Run \ {r} : row'[s] = row[s] /\ cmd'[p].seen[s] = cmd[p].seen[s]
      /\ cmd'[p].at = step /\ cmd'[p].todo = cmd[p].todo
      /\ row'[r] # NoRow /\ cmd'[p].seen[r] # NoRow
      /\ row'[r].pid = row[r].pid /\ cmd'[p].seen[r].pid = cmd[p].seen[r].pid
  BY <1>1, SetStateDoes
<1>3. RowTyped'
  BY <1>2 DEF RowTyped
<1>4. Aimed'
  BY <1>1, <1>2 DEF Aimed, On, Others, HasSeen, OnOne
<1>5. Manned'
  <2>1. \A q \in Proc : HasDriven(q) => HasDriven(q)'
    BY <1>2, Quiet, DrivenStays DEF Others, Marking, Engine, Working, HasDriven
  <2> QED
    BY <1>1, <1>2, <2>1, RowParts DEF Manned, Others, HasDriven
<1>6. Granted'
  <2>1. \A q \in Proc, s \in Run : On(q, Curing, s)' => On(q, Curing, s)
    BY <1>2 DEF On, Others, Curing, Marking
  <2>2. \A s \in Run : row'[s] # NoRow => row[s] # NoRow
    BY <1>1, <1>2
  <2>3. \A s \in past'.stopped : row'[s] # NoRow
    BY <1>1, <1>2 DEF Granted, PastTyped
  <2> QED
    BY <2>1, <2>2, <2>3, Quiet, KeptGranted
<1>7. Engaged'
  <2>1. \A q \in Proc, s \in Run : /\ On(q, Engine, s)' => On(q, Engine, s)
                                   /\ On(q, {"drive", "finish"}, s)' => On(q, {"drive", "finish"}, s)
                                   /\ On(q, {"save"}, s)' => On(q, {"save"}, s)
    BY <1>2 DEF On, Others, Engine, Working, Marking
  <2> QED
    BY <2>1, Quiet DEF Engaged
<1>8. Sole'
  BY Quiet, KeptSole DEF Keeping
<1>9. Owned'
  <2>1. \A q \in Proc, s \in Run : On(q, {"drive"}, s)' => On(q, {"drive"}, s)
    BY <1>2 DEF On, Others, Marking
  <2> QED
    BY <1>2, <2>1, Quiet DEF Owned
<1> QED
  BY <1>2, <1>3, <1>4, <1>5, <1>6, <1>7, <1>8, <1>9

\* A step that changes what a command remembers; rows keep their pid.
LEMMA CommandKeeps ==
    ASSUME IInv, Beside, NEW p \in Proc, MemTyped', Others(p),
           Looser, RowTyped', PastTyped', past'.resumed = past.resumed,
           past'.stopped \subseteq past.stopped,
           cmd[p].at \notin Engine \cup {"done"},
           cmd'[p].at \notin Engine,
           cmd'[p].at \in OnOne => \E r \in Run : cmd'[p].todo = {r},
           \A r \in Run : /\ On(p, HasSeen, r)' => cmd'[p].seen[r] # NoRow
                          /\ cmd'[p].seen[r] \in {NoRow, cmd[p].seen[r], row[r]}
                          /\ On(p, Curing, r)' => On(p, Curing, r) \/ r \in started,
           \A r \in Run : /\ row'[r] = NoRow <=> row[r] = NoRow
                          /\ row[r] # NoRow => row'[r].pid = row[r].pid
    PROVE  Beside'
<1> USE DEF Beside
<1>4. Aimed'
  BY DEF Aimed, On, Others
<1>5. Manned'
  <2>1. \A q \in Proc : HasDriven(q) => HasDriven(q)'
    BY LooserActive, DrivenStays DEF Others, HasDriven
  <2> QED
    BY <2>1, RowParts DEF Manned, Others, HasDriven
<1>6. Granted'
  <2>1. \A q \in Proc, s \in Run : On(q, Curing, s)' => On(q, Curing, s) \/ s \in started
    BY DEF On, Others
  <2>2. \A s \in past'.stopped : row'[s] # NoRow
    BY DEF Granted, PastTyped
  <2> QED
    BY <2>1, <2>2, LooserActive, KeptGranted DEF Granted, Looser
<1>7. Engaged'
  <2>1. \A q \in Proc, s \in Run : /\ On(q, Engine, s)' => On(q, Engine, s)
                                   /\ On(q, {"drive", "finish"}, s)' => On(q, {"drive", "finish"}, s)
                                   /\ On(q, {"save"}, s)' => On(q, {"save"}, s)
    BY DEF On, Others, Engine, Working
  <2> QED
    BY <2>1, LooserActive DEF Engaged
<1>8. Sole'
  BY LooserActive, KeptSole DEF Keeping
<1>9. Owned'
  <2>1. \A q \in Proc, s \in Run : On(q, {"drive"}, s)' => On(q, {"drive"}, s)
    BY DEF On, Others, Engine, Working
  <2> QED
    BY <2>1, LooserActive DEF Owned, Looser
<1> QED
  BY <1>4, <1>5, <1>6, <1>7, <1>8, <1>9

\* A step that changes what a command remembers, and nothing else.
LEMMA MemoryKeeps ==
    ASSUME IInv, Beside, NEW p \in Proc, MemTyped', Others(p),
           Looser, row' = row, trees' \subseteq Run, PastTyped', past'.resumed = past.resumed,
           past'.stopped \subseteq past.stopped,
           cmd[p].at \notin Engine \cup {"done"},
           cmd'[p].at \notin Engine,
           cmd'[p].at \in OnOne => \E r \in Run : cmd'[p].todo = {r},
           \A r \in Run : /\ On(p, HasSeen, r)' => cmd'[p].seen[r] # NoRow
                          /\ cmd'[p].seen[r] \in {NoRow, cmd[p].seen[r], row[r]}
                          /\ On(p, Curing, r)' => On(p, Curing, r) \/ r \in started
    PROVE  Beside'
<1>1. RowTyped'
  BY DEF Beside, RowTyped
<1> QED
  BY <1>1, CommandKeeps

\* As long as it takes what it remembers from the rows, and the late steps from
\* the rows of runs that are over.
LEMMA MemoryUntouched ==
    ASSUME Untouched, Cures, NEW p \in Proc, Others(p), Looser, row' = row,
           \A s \in trees \ trees' : Unworked(s),
           past'.resumed = past.resumed, past'.stopped \subseteq past.stopped,
           past.cancels \subseteq past'.cancels,
           cmd'[p].at \notin Working,
           \A s \in Run :
            /\ On(p, Late, s)' => On(p, Late, s) \/ (row[s] # NoRow /\ Ended(row[s])) \/ Unworked(s)
            /\ On(p, {"cancel_mark", "cancel_kill"} \cup Cleaning, s)' =>
                    \/ row[s] # NoRow /\ cmd'[p].seen[s] = row[s]
                    \/ /\ On(p, {"cancel_mark", "cancel_kill"} \cup Cleaning, s)
                       /\ cmd'[p].seen[s] = cmd[p].seen[s]
                       /\ On(p, Cleaning, s)' => On(p, Cleaning, s)
            /\ On(p, Curing, s)' =>
                    \/ On(p, Curing, s) /\ cmd'[p].seen[s] = cmd[p].seen[s]
                    \/ cmd'[p].seen[s] = NoRow
                    \/ row[s].state # "accepted"
    PROVE  Untouched' /\ Cures'
<1>1. Untouched'
  <2> SUFFICES ASSUME NEW s \in Fresh, NEW w \in Proc, On(w, Working, s)'
               PROVE  /\ cmd'[w].at = "insert" => row'[s] = NoRow
                      /\ cmd'[w].at = "drive" =>
                            /\ row'[s].pid = w /\ ~Ended(row'[s])
                            /\ ~Ended(cmd'[w].seen[s]) /\ s \in trees'
                      /\ s \notin past'.stopped
                      /\ \A q \in Proc :
                            /\ ~On(q, Late, s)'
                            /\ On(q, {"cancel_mark", "cancel_kill"} \cup Cleaning, s)'
                                    => cmd'[q].seen[s].pid = w
                            /\ On(q, Cleaning, s)' => ~Ended(cmd'[q].seen[s])
                      /\ \A x \in LockPath : IsHolder(x)' /\ file'[x].run = s => file'[x].pid = w
    BY DEF Untouched, Fresh, On, Ended, IsHolder
  <2>1. w # p /\ cmd'[w] = cmd[w] /\ On(w, Working, s) /\ s \in Run
    BY DEF On, Others, Working, Fresh
  <2>2. ~On(p, Late, s) /\ ~Unworked(s) /\ s \in Fresh
    BY <2>1 DEF Untouched, Unworked, Fresh
  <2>3. row[s] = NoRow \/ (row[s].pid = w /\ ~Ended(row[s]))
    BY <2>1 DEF Untouched, On, Working
  <2>4. /\ cmd'[w].at = "insert" => row'[s] = NoRow
        /\ cmd'[w].at = "drive" => /\ row'[s].pid = w /\ ~Ended(row'[s])
                                   /\ ~Ended(cmd'[w].seen[s]) /\ s \in trees'
        /\ s \notin past'.stopped
    BY <2>1, <2>2 DEF Untouched
  <2>5. ASSUME NEW q \in Proc
        PROVE  /\ ~On(q, Late, s)'
               /\ On(q, {"cancel_mark", "cancel_kill"} \cup Cleaning, s)' => cmd'[q].seen[s].pid = w
               /\ On(q, Cleaning, s)' => ~Ended(cmd'[q].seen[s])
    <3>1. CASE q # p
      BY <2>1, <3>1 DEF Untouched, On, Others
    <3>2. CASE q = p
      <4>1. ~On(p, Late, s)'
        BY <2>1, <2>2, <2>3
      <4>2. \/ ~On(p, {"cancel_mark", "cancel_kill"} \cup Cleaning, s)'
            \/ cmd'[p].seen[s] = row[s] /\ row[s] # NoRow
            \/ /\ On(p, {"cancel_mark", "cancel_kill"} \cup Cleaning, s)
               /\ cmd'[p].seen[s] = cmd[p].seen[s]
               /\ On(p, Cleaning, s)' => On(p, Cleaning, s)
        BY <2>1
      <4>3. On(p, Cleaning, s)' => On(p, {"cancel_mark", "cancel_kill"} \cup Cleaning, s)'
        BY DEF On
      <4>4. /\ On(p, {"cancel_mark", "cancel_kill"} \cup Cleaning, s) => cmd[p].seen[s].pid = w
            /\ On(p, Cleaning, s) => ~Ended(cmd[p].seen[s])
        BY <2>1 DEF Untouched, On
      <4>5. /\ On(p, {"cancel_mark", "cancel_kill"} \cup Cleaning, s)' => cmd'[p].seen[s].pid = w
            /\ On(p, Cleaning, s)' => ~Ended(cmd'[p].seen[s])
        <5>1. CASE cmd'[p].seen[s] = row[s] /\ row[s] # NoRow
          BY <2>3, <5>1 DEF Ended
        <5>2. CASE ~On(p, {"cancel_mark", "cancel_kill"} \cup Cleaning, s)'
          BY <4>3, <5>2
        <5>3. CASE /\ On(p, {"cancel_mark", "cancel_kill"} \cup Cleaning, s)
                   /\ cmd'[p].seen[s] = cmd[p].seen[s]
                   /\ On(p, Cleaning, s)' => On(p, Cleaning, s)
          BY <4>4, <5>3 DEF Ended
        <5> QED
          BY <4>2, <5>1, <5>2, <5>3
      <4> QED
        BY <3>2, <4>1, <4>5 DEF On
    <3> QED
      BY <3>1, <3>2
  <2>6. \A x \in LockPath : IsHolder(x)' /\ file'[x].run = s => file'[x].pid = w
    BY <2>1 DEF Untouched, Looser
  <2> QED
    BY <2>4, <2>5, <2>6
<1>2. Cures'
  <2> SUFFICES ASSUME NEW s \in Fresh \ past'.cancels, NEW q \in Proc,
                      On(q, Curing, s)', cmd'[q].seen[s] # NoRow
               PROVE  row'[s].state # "accepted"
    BY DEF Cures, Fresh
  <2>1. CASE q # p
    BY <2>1 DEF Cures, On, Others
  <2>2. CASE q = p
    BY <2>2 DEF Cures, Fresh
  <2> QED
    BY <2>1, <2>2
<1> QED
  BY <1>1, <1>2

-----------------------------------------------------------------------------
(* cancel *)

Moves ==
    /\ \A s \in {"canceling", "cancelled"} : s \in RunStates
    /\ "canceling" \notin Terminal /\ "cancelled" \in Terminal /\ "failed" \in Terminal
    /\ "contract_ready" \notin Terminal
    /\ \A s \in RunStates \ Terminal : CanTransition(s, "canceling")
    /\ CanTransition("canceling", "cancelled")

LEMMA MovesAre == Moves
  BY DEF Moves, RunStates, Terminal, CanTransition, Arcs, Exits

\* What a cancel writes to the row of its run.
LEMMA MarkKeeps ==
    ASSUME IInv, CmdInv, NEW p \in Proc, NEW r \in Run, NEW to \in {"canceling", "cancelled"},
           NEW step \in Marking \cup {"cancel_release"},
           cmd[p].todo = {r}, cmd[p].at \in Marking \ {"cancel_kill"},
           cmd[p].at = "cancel_mark" => to = "canceling" /\ step = "cancel_kill" /\ past' = past,
           SetState(p, r, to, step),
           UNCHANGED <<lockVars, trees>>, PastTyped',
           past'.resumed = past.resumed, past'.cancels = past.cancels, past'.again = past.again,
           past'.stopped \subseteq past.stopped \cup {r}
    PROVE  Beside' /\ Untouched' /\ Cures'
<1> USE DEF CmdInv
<1>0. to \in RunStates /\ step \in Steps /\ cmd[p].seen[r] # NoRow /\ row[r] # NoRow
  BY MovesAre, StepsAre DEF Beside, Aimed, On, HasSeen, Moves, Marking, Steps
<1>1. Beside'
  BY <1>0, SetStateKeeps
<1>2. /\ Others(p)
      /\ \A s \in Run \ {r} : row'[s] = row[s] /\ cmd'[p].seen[s] = cmd[p].seen[s]
      /\ cmd'[p].at = step /\ cmd'[p].todo = {r}
      /\ row'[r].pid = row[r].pid /\ cmd'[p].seen[r].pid = cmd[p].seen[r].pid
      /\ row'[r].state = row[r].state \/ row'[r].state = to
  BY <1>0, SetStateDoes DEF Beside
<1>3. Untouched'
  <2> SUFFICES ASSUME NEW s \in Fresh, NEW w \in Proc, On(w, Working, s)'
               PROVE  /\ cmd'[w].at = "insert" => row'[s] = NoRow
                      /\ cmd'[w].at = "drive" =>
                            /\ row'[s].pid = w /\ ~Ended(row'[s])
                            /\ ~Ended(cmd'[w].seen[s]) /\ s \in trees'
                      /\ s \notin past'.stopped
                      /\ \A q \in Proc :
                            /\ ~On(q, Late, s)'
                            /\ On(q, {"cancel_mark", "cancel_kill"} \cup Cleaning, s)'
                                    => cmd'[q].seen[s].pid = w
                            /\ On(q, Cleaning, s)' => ~Ended(cmd'[q].seen[s])
                      /\ \A x \in LockPath : IsHolder(x)' /\ file'[x].run = s => file'[x].pid = w
    BY DEF Untouched, Fresh, On, Ended, IsHolder
  <2>1. w # p /\ cmd'[w] = cmd[w] /\ On(w, Working, s)
    BY <1>2 DEF On, Others, Working, Marking
  <2>2. ~On(p, Late, s)
    BY <2>1 DEF Untouched
  <2>3. s # r \/ (cmd[p].at = "cancel_mark" /\ to = "canceling" /\ step = "cancel_kill" /\ past' = past)
    BY <2>2 DEF On, Late, Marking
  <2>4. /\ cmd'[w].at = "insert" => row'[s] = NoRow
        /\ cmd'[w].at = "drive" => /\ row'[s].pid = w /\ ~Ended(row'[s])
                                   /\ ~Ended(cmd'[w].seen[s]) /\ s \in trees'
    BY <1>0, <1>2, <2>1, <2>3, MovesAre DEF Untouched, Fresh, Ended, Moves
  <2>5. s \notin past'.stopped
    BY <2>1, <2>3 DEF Untouched
  <2>6. ASSUME NEW q \in Proc
        PROVE  /\ ~On(q, Late, s)'
               /\ On(q, {"cancel_mark", "cancel_kill"} \cup Cleaning, s)' => cmd'[q].seen[s].pid = w
               /\ On(q, Cleaning, s)' => ~Ended(cmd'[q].seen[s])
    <3>1. CASE q # p
      BY <1>2, <2>1, <3>1 DEF Untouched, On, Others
    <3>2. CASE q = p
      BY <1>2, <2>1, <2>3, <3>2 DEF Untouched, On, Late, Cleaning, Curing, Marking
    <3> QED
      BY <3>1, <3>2
  <2>7. \A x \in LockPath : IsHolder(x)' /\ file'[x].run = s => file'[x].pid = w
    BY <2>1, Quiet DEF Untouched
  <2> QED
    BY <2>4, <2>5, <2>6, <2>7
<1>4. Cures'
  <2>1. r \in past.cancels
    BY DEF Cancels, On
  <2>2. \A q \in Proc, s \in Run : On(q, Curing, s)' => cmd'[q] = cmd[q] /\ On(q, Curing, s)
    BY <1>2 DEF On, Others, Curing, Marking
  <2> QED
    BY <1>2, <2>1, <2>2 DEF Cures, Fresh
<1> QED
  BY <1>1, <1>3, <1>4

LEMMA StepCancelMark == ASSUME IInv, CmdInv, NEW p \in Proc, CancelMark(p) PROVE CmdInv'
<1> DEFINE r == Target(p)
<1>1. r \in Run /\ cmd[p].todo = {r} /\ cmd[p].at = "cancel_mark"
  BY TargetIs DEF CmdInv, Beside, CancelMark, At, OnOne, HasSeen, Marking, Cleaning
<1> HIDE DEF r
<1>2. SetState(p, r, "canceling", "cancel_kill") /\ UNCHANGED <<lockVars, trees, past>>
  BY DEF CancelMark, r
<1>3. Beside' /\ Untouched' /\ Cures'
  BY <1>1, <1>2, MarkKeeps DEF Marking, CmdInv, Beside, PastTyped
<1>4. Cancels'
  <2>1. /\ Others(p) /\ \A s \in Run \ {r} : row'[s] = row[s]
        /\ cmd'[p].at = "cancel_kill" /\ cmd'[p].todo = {r}
    BY <1>1, <1>2, SetStateDoes, MovesAre, StepsAre
       DEF CmdInv, Beside, Aimed, On, HasSeen, Marking, Moves
  <2>2. \A q \in Proc, s \in Run : /\ On(q, Marking, s)' <=> On(q, Marking, s)
                                   /\ On(q, {"cancel_release"}, s)' <=> On(q, {"cancel_release"}, s)
    BY <1>1, <2>1 DEF On, Others, Marking
  <2>3. \A q \in Proc, s \in Run :
            On(q, {"cancel_remark", "cancel_set", "cancel_again"}, s)' => cmd'[q] = cmd[q] /\ q # p
    BY <2>1 DEF On, Others
  <2> QED
    BY <1>1, <1>2, <2>1, <2>2, <2>3 DEF CmdInv, Cancels, Fresh, On, Ended, Marking
<1> QED
  BY <1>3, <1>4 DEF CmdInv

LEMMA StepCancelRemark == ASSUME IInv, CmdInv, NEW p \in Proc, CancelRemark(p) PROVE CmdInv'
<1> DEFINE r == Target(p)
<1>1. r \in Run /\ cmd[p].todo = {r} /\ cmd[p].at = "cancel_remark"
  BY TargetIs DEF CmdInv, Beside, CancelRemark, At, OnOne, HasSeen, Marking, Cleaning
<1> HIDE DEF r
<1>2. /\ \/ cmd[p].seen[r].state = "canceling" /\ Go(p, "cancel_set") /\ UNCHANGED row
         \/ cmd[p].seen[r].state # "canceling" /\ SetState(p, r, "canceling", "cancel_set")
      /\ UNCHANGED <<lockVars, trees, past>>
  BY DEF CancelRemark, Seen, r
<1>3. Beside' /\ Untouched' /\ Cures'
  <2>1. CASE Go(p, "cancel_set") /\ UNCHANGED row
    <3>1. /\ MemTyped' /\ Others(p)
          /\ cmd'[p].at = "cancel_set" /\ cmd'[p].todo = cmd[p].todo /\ cmd'[p].seen = cmd[p].seen
      BY <2>1, GoDoes, StepsAre DEF Marking, CmdInv, Beside
    <3>l. Looser
      BY <1>2, QuietIsLooser
    <3>2. Beside'
      BY <1>1, <1>2, <2>1, <3>1, <3>l, MemoryKeeps
         DEF CmdInv, Beside, RowTyped, PastTyped, Aimed, On, HasSeen, OnOne, Engine, Working, Marking, Cleaning, Curing
    <3>3. Untouched' /\ Cures'
      BY <1>1, <1>2, <2>1, <3>1, <3>l, MemoryUntouched
         DEF CmdInv, On, Working, Marking, Cleaning, Curing, Late
    <3> QED
      BY <3>2, <3>3
  <2>2. CASE SetState(p, r, "canceling", "cancel_set")
    BY <1>1, <1>2, <2>2, MarkKeeps DEF Marking, CmdInv, Beside, PastTyped
  <2> QED
    BY <1>2, <2>1, <2>2
<1>4. Cancels'
  <2>0. cmd[p].seen[r] # NoRow /\ row[r] # NoRow /\ On(p, {"cancel_remark"}, r) /\ On(p, Marking, r)
    BY <1>1 DEF CmdInv, Beside, Aimed, On, HasSeen, Marking
  <2>1. /\ Others(p) /\ \A s \in Run \ {r} : row'[s] = row[s]
        /\ cmd'[p].at = "cancel_set" /\ cmd'[p].todo = {r}
        /\ ~Ended(cmd[p].seen[r]) => cmd'[p].seen[r].state = "canceling"
    <3>1. CASE Go(p, "cancel_set") /\ UNCHANGED row /\ cmd[p].seen[r].state = "canceling"
      BY <1>1, <3>1, GoDoes, StepsAre DEF CmdInv, Beside, Marking
    <3>2. CASE SetState(p, r, "canceling", "cancel_set")
      <4>1. cmd[p].seen[r].state \in RunStates
        BY <1>1, <2>0, RowParts DEF CmdInv, Beside
      <4> QED
        BY <1>1, <2>0, <3>2, <4>1, SetStateDoes, MovesAre, StepsAre
           DEF CmdInv, Beside, Marking, Moves, Ended
    <3> QED
      BY <1>2, <3>1, <3>2
  <2>2. \A q \in Proc, s \in Run : /\ On(q, Marking, s)' <=> On(q, Marking, s)
                                   /\ On(q, {"cancel_release"}, s)' <=> On(q, {"cancel_release"}, s)
    BY <1>1, <2>1 DEF On, Others, Marking
  <2>3. \A q \in Proc, s \in Run :
            On(q, {"cancel_remark", "cancel_again"}, s)' => cmd'[q] = cmd[q] /\ q # p
    BY <2>1 DEF On, Others
  <2> QED
    BY <1>1, <1>2, <2>0, <2>1, <2>2, <2>3 DEF CmdInv, Cancels, Fresh, On, Ended, Marking, Others
<1> QED
  BY <1>3, <1>4 DEF CmdInv

LEMMA StepCancelSet == ASSUME IInv, CmdInv, NEW p \in Proc, CancelSet(p) PROVE CmdInv'
<1> DEFINE r == Target(p)
<1>1. r \in Run /\ cmd[p].todo = {r} /\ cmd[p].at = "cancel_set"
  BY TargetIs DEF CmdInv, Beside, CancelSet, At, OnOne, HasSeen, Marking, Cleaning
<1> HIDE DEF r
<1>2. SetState(p, r, "cancelled", "cancel_again") /\ UNCHANGED <<lockVars, trees, past>>
  BY DEF CancelSet, r
<1>3. Beside' /\ Untouched' /\ Cures'
  BY <1>1, <1>2, MarkKeeps DEF Marking, CmdInv, Beside, PastTyped
<1>4. Cancels'
  <2>0. cmd[p].seen[r] # NoRow /\ row[r] # NoRow /\ On(p, {"cancel_set"}, r) /\ On(p, Marking, r)
    BY <1>1 DEF CmdInv, Beside, Aimed, On, HasSeen, Marking
  <2>1. /\ Others(p) /\ \A s \in Run \ {r} : row'[s] = row[s]
        /\ cmd'[p].at = "cancel_again" /\ cmd'[p].todo = {r}
        /\ cmd[p].seen[r].state = "canceling" => Ended(row'[r])
    BY <1>1, <1>2, <2>0, SetStateDoes, MovesAre, StepsAre DEF CmdInv, Beside, Marking, Moves, Ended
  <2>2. \A q \in Proc, s \in Run : /\ On(q, Marking, s)' <=> On(q, Marking, s)
                                   /\ On(q, {"cancel_release"}, s)' <=> On(q, {"cancel_release"}, s)
    BY <1>1, <2>1 DEF On, Others, Marking
  <2>3. \A q \in Proc, s \in Run : On(q, {"cancel_remark", "cancel_set"}, s)' => cmd'[q] = cmd[q] /\ q # p
    BY <2>1 DEF On, Others
  <2> QED
    BY <1>1, <1>2, <2>0, <2>1, <2>2, <2>3 DEF CmdInv, Cancels, Fresh, On, Ended, Marking, Others
<1> QED
  BY <1>3, <1>4 DEF CmdInv

LEMMA StepCancelAgain == ASSUME IInv, CmdInv, NEW p \in Proc, CancelAgain(p) PROVE CmdInv'
<1> DEFINE r == Target(p)
<1>1. r \in Run /\ cmd[p].todo = {r} /\ cmd[p].at = "cancel_again"
  BY TargetIs DEF CmdInv, Beside, CancelAgain, At, OnOne, HasSeen, Marking, Cleaning
<1> HIDE DEF r
<1>2. /\ SetState(p, r, "cancelled", "cancel_release") /\ UNCHANGED <<lockVars, trees>>
      /\ past' = [past EXCEPT !.stopped = @ \cup {r}]
  BY DEF CancelAgain, r
<1>3. /\ PastTyped' /\ past'.resumed = past.resumed /\ past'.cancels = past.cancels
      /\ past'.again = past.again /\ past'.stopped = past.stopped \cup {r}
  BY <1>1, <1>2 DEF CmdInv, Beside, PastTyped
<1>4. Beside' /\ Untouched' /\ Cures'
  BY <1>1, <1>2, <1>3, MarkKeeps DEF Marking, CmdInv
<1>5. Cancels'
  <2>0. /\ cmd[p].seen[r] # NoRow /\ row[r] # NoRow /\ On(p, {"cancel_again"}, r) /\ On(p, Marking, r)
        /\ r \in past.cancels
    BY <1>1 DEF CmdInv, Beside, Aimed, Cancels, On, HasSeen, Marking
  <2>1. /\ Others(p) /\ \A s \in Run \ {r} : row'[s] = row[s]
        /\ cmd'[p].at = "cancel_release" /\ cmd'[p].todo = {r}
        /\ Ended(row[r]) => Ended(row'[r])
    <3>1. "cancelled" \in RunStates /\ "cancelled" \in Terminal /\ "cancel_release" \in Steps
      BY MovesAre DEF Moves, Steps
    <3>2. RowTyped /\ MemTyped
      BY DEF CmdInv, Beside
    <3> QED
      BY <1>1, <1>2, <2>0, <3>1, <3>2, SetStateDoes DEF Ended
  <2>2. \A q \in Proc, s \in Run :
            /\ On(q, Marking, s)' <=> On(q, Marking, s) /\ q # p
            /\ On(q, {"cancel_release"}, s)' <=> On(q, {"cancel_release"}, s) \/ (q = p /\ s = r)
    BY <1>1, <2>1 DEF On, Others, Marking
  <2>3. \A q \in Proc, s \in Run :
            On(q, {"cancel_remark", "cancel_set", "cancel_again"}, s)' => cmd'[q] = cmd[q] /\ q # p
    BY <2>1 DEF On, Others
  <2>4. /\ past'.stopped \subseteq past'.cancels
        /\ \A q \in Proc, s \in Run : On(q, Marking \cup {"cancel_release"}, s)' => s \in past'.cancels
    BY <1>1, <1>3, <2>0, <2>2 DEF CmdInv, Cancels, On
  <2> SUFFICES ASSUME NEW s \in Fresh \ past.again
               PROVE  /\ \A t, q \in Proc : On(t, Marking, s)' /\ On(q, Marking, s)' => t = q
                      /\ s \in past'.stopped => Ended(row'[s]) /\ \A q \in Proc : ~On(q, Marking, s)'
                      /\ \A q \in Proc :
                            /\ On(q, {"cancel_remark"}, s)' => ~Ended(cmd'[q].seen[s])
                            /\ On(q, {"cancel_set"}, s)' => cmd'[q].seen[s].state = "canceling"
                            /\ On(q, {"cancel_again"}, s)' => Ended(row'[s])
    BY <1>3, <2>4 DEF Cancels, Fresh, Ended, On
  <2>5. \A t, q \in Proc : On(t, Marking, s)' /\ On(q, Marking, s)' => t = q
    BY <2>2 DEF CmdInv, Cancels, Fresh
  <2>6. s \in past'.stopped => Ended(row'[s]) /\ \A q \in Proc : ~On(q, Marking, s)'
    BY <1>3, <2>0, <2>1, <2>2 DEF CmdInv, Cancels, Fresh, Ended
  <2>7. ASSUME NEW q \in Proc
        PROVE  /\ On(q, {"cancel_remark"}, s)' => ~Ended(cmd'[q].seen[s])
               /\ On(q, {"cancel_set"}, s)' => cmd'[q].seen[s].state = "canceling"
               /\ On(q, {"cancel_again"}, s)' => Ended(row'[s])
    <3>1. CASE q = p
      BY <2>1, <3>1 DEF On
    <3>2. CASE q # p
      BY <2>0, <2>1, <3>2 DEF CmdInv, Cancels, Fresh, Ended, On, Others
    <3> QED
      BY <3>1, <3>2
  <2> QED
    BY <2>5, <2>6, <2>7
<1> QED
  BY <1>4, <1>5 DEF CmdInv

LEMMA StepCancelRead == ASSUME IInv, CmdInv, NEW p \in Proc, CancelRead(p) PROVE CmdInv'
<1> DEFINE r == Target(p)
           live == row[r]
<1>1. r \in Run /\ cmd[p].todo = {r} /\ cmd[p].at = "cancel_read"
  BY TargetIs DEF CmdInv, Beside, CancelRead, At, OnOne, HasSeen, Marking, Cleaning
<1>2. cmd[p].seen[r] # NoRow /\ live # NoRow /\ live \in Row \cup {NoRow}
  BY <1>1 DEF CmdInv, Beside, Aimed, RowTyped, On, HasSeen, Marking
<1>3. /\ cmd' = [cmd EXCEPT ![p].seen[r] = live,
                            ![p].at = IF Ended(live) THEN "cancel_again" ELSE "cancel_remark"]
      /\ UNCHANGED <<lockVars, row, trees, past>>
  BY DEF CancelRead, OnlyMemory
<1> HIDE DEF r
<1>4. /\ MemTyped' /\ Others(p)
      /\ cmd'[p].at \in {"cancel_again", "cancel_remark"}
      /\ cmd'[p].at = "cancel_again" <=> Ended(live)
      /\ cmd'[p].todo = {r} /\ cmd'[p].seen = [cmd[p].seen EXCEPT ![r] = live]
  <2>1. (IF Ended(live) THEN "cancel_again" ELSE "cancel_remark") \in Steps
    BY DEF Steps
  <2> QED
    BY <1>1, <1>2, <1>3, <2>1 DEF CmdInv, Beside, MemTyped, Others
<1> HIDE DEF live
<1>5. cmd'[p].seen[r] = live /\ \A s \in Run \ {r} : cmd'[p].seen[s] = cmd[p].seen[s]
  BY <1>1, <1>4 DEF CmdInv, Beside, MemTyped
<1>l. live = row[r]
  BY DEF live
<1>o. Looser
  BY <1>3, QuietIsLooser
<1>6. Beside'
  BY <1>1, <1>2, <1>3, <1>4, <1>5, <1>l, <1>o, MemoryKeeps
     DEF CmdInv, Beside, RowTyped, PastTyped, Aimed, On, HasSeen, OnOne, Engine, Working, Marking, Cleaning, Curing
<1>7. Untouched' /\ Cures'
  BY <1>1, <1>3, <1>4, <1>5, <1>l, <1>o, MemoryUntouched
     DEF CmdInv, On, Working, Marking, Cleaning, Curing, Late
<1>8. Cancels'
  <2>0. On(p, Marking, r)
    BY <1>1 DEF On, Marking
  <2>2. \A q \in Proc, s \in Run : /\ On(q, Marking, s)' <=> On(q, Marking, s)
                                   /\ On(q, {"cancel_release"}, s)' <=> On(q, {"cancel_release"}, s)
    BY <1>1, <1>4 DEF On, Others, Marking
  <2>3. \A q \in Proc, s \in Run : On(q, {"cancel_set"}, s)' => cmd'[q] = cmd[q] /\ q # p
    BY <1>4 DEF On, Others
  <2>4. /\ past'.stopped \subseteq past'.cancels
        /\ \A q \in Proc, s \in Run : On(q, Marking \cup {"cancel_release"}, s)' => s \in past'.cancels
    <3>1. \A q \in Proc, s \in Run : On(q, Marking \cup {"cancel_release"}, s)'
                                        => On(q, Marking \cup {"cancel_release"}, s)
      BY <2>2 DEF On
    <3> QED
      BY <1>3, <3>1 DEF CmdInv, Cancels
  <2> SUFFICES ASSUME NEW s \in Fresh \ past.again
               PROVE  /\ \A t, q \in Proc : On(t, Marking, s)' /\ On(q, Marking, s)' => t = q
                      /\ s \in past'.stopped => Ended(row'[s]) /\ \A q \in Proc : ~On(q, Marking, s)'
                      /\ \A q \in Proc :
                            /\ On(q, {"cancel_remark"}, s)' => ~Ended(cmd'[q].seen[s])
                            /\ On(q, {"cancel_set"}, s)' => cmd'[q].seen[s].state = "canceling"
                            /\ On(q, {"cancel_again"}, s)' => Ended(row'[s])
    BY <1>3, <2>4 DEF Cancels, Fresh, Ended, On
  <2>5. \A t, q \in Proc : On(t, Marking, s)' /\ On(q, Marking, s)' => t = q
    BY <2>2 DEF CmdInv, Cancels, Fresh
  <2>6. s \in past'.stopped => Ended(row'[s]) /\ \A q \in Proc : ~On(q, Marking, s)'
    BY <1>3, <2>2 DEF CmdInv, Cancels, Fresh, Ended
  <2>7. ASSUME NEW q \in Proc
        PROVE  /\ On(q, {"cancel_remark"}, s)' => ~Ended(cmd'[q].seen[s])
               /\ On(q, {"cancel_set"}, s)' => cmd'[q].seen[s].state = "canceling"
               /\ On(q, {"cancel_again"}, s)' => Ended(row'[s])
    <3>1. CASE q = p
      <4>1. On(p, {"cancel_remark", "cancel_set", "cancel_again"}, s)' => s = r
        BY <1>4 DEF On
      <4>2. /\ ~On(p, {"cancel_set"}, s)'
            /\ On(p, {"cancel_remark"}, s)' => ~Ended(live) /\ s = r
            /\ On(p, {"cancel_again"}, s)' => Ended(live) /\ s = r
        BY <1>4, <4>1 DEF On
      <4>3. cmd'[p].seen[r] = row[r] /\ row'[r] = row[r]
        BY <1>3, <1>5, <1>l
      <4> QED
        BY <1>l, <3>1, <4>2, <4>3 DEF Ended, On
    <3>2. CASE q # p
      <4>1. cmd'[q] = cmd[q] /\ row' = row
        BY <1>3, <1>4, <3>2 DEF Others
      <4>2. /\ On(q, {"cancel_remark"}, s) => ~Ended(cmd[q].seen[s])
            /\ On(q, {"cancel_set"}, s) => cmd[q].seen[s].state = "canceling"
            /\ On(q, {"cancel_again"}, s) => Ended(row[s])
        BY DEF CmdInv, Cancels
      <4> QED
        BY <4>1, <4>2 DEF Ended, On
    <3> QED
      BY <3>1, <3>2
  <2> QED
    BY <2>5, <2>6, <2>7
<1> QED
  BY <1>6, <1>7, <1>8 DEF CmdInv

-----------------------------------------------------------------------------
(* Steps that change what a command remembers *)

\* A step of anything but a cancel, or the signal that a cancel sends.
LEMMA CancelsKept ==
    ASSUME Cancels, past'.resumed = past.resumed \/ past.resumed \subseteq past'.resumed,
           past'.stopped = past.stopped, past'.cancels = past.cancels, past'.again = past.again,
           \A q \in Proc :
              \/ cmd'[q] = cmd[q]
              \/ cmd'[q].at \notin Marking \cup {"cancel_release"}
              \/ /\ cmd[q].at = "cancel_kill" /\ cmd'[q].at = "cancel_read"
                 /\ cmd'[q].todo = cmd[q].todo,
           \A s \in Fresh : row[s] # NoRow /\ Ended(row[s]) => Ended(row'[s]),
           \A q \in Proc, s \in Run : On(q, Marking, s) => row[s] # NoRow,
           \A s \in past.stopped : row[s] # NoRow
    PROVE  Cancels'
<1>1. \A q \in Proc, s \in Run : /\ On(q, Marking, s)' => On(q, Marking, s)
                                 /\ On(q, {"cancel_release"}, s)' => On(q, {"cancel_release"}, s)
                                 /\ On(q, {"cancel_remark", "cancel_set", "cancel_again"}, s)'
                                        => cmd'[q] = cmd[q]
  BY DEF On, Marking
<1>2. /\ past'.stopped \subseteq past'.cancels
      /\ \A q \in Proc, s \in Run : On(q, Marking \cup {"cancel_release"}, s)' => s \in past'.cancels
  <2>1. \A q \in Proc, s \in Run : On(q, Marking \cup {"cancel_release"}, s)'
                                      => On(q, Marking \cup {"cancel_release"}, s)
    BY <1>1 DEF On
  <2> QED
    BY <2>1 DEF Cancels
<1> SUFFICES ASSUME NEW s \in Fresh \ past.again
             PROVE  /\ \A t, q \in Proc : On(t, Marking, s)' /\ On(q, Marking, s)' => t = q
                    /\ s \in past'.stopped => Ended(row'[s]) /\ \A q \in Proc : ~On(q, Marking, s)'
                    /\ \A q \in Proc :
                          /\ On(q, {"cancel_remark"}, s)' => ~Ended(cmd'[q].seen[s])
                          /\ On(q, {"cancel_set"}, s)' => cmd'[q].seen[s].state = "canceling"
                          /\ On(q, {"cancel_again"}, s)' => Ended(row'[s])
  BY <1>2 DEF Cancels, Fresh, Ended, On
<1>0. s \in Run /\ s \in Fresh
  BY DEF Fresh
<1>3. \A t, q \in Proc : On(t, Marking, s)' /\ On(q, Marking, s)' => t = q
  BY <1>1, <1>0 DEF Cancels
<1>4. s \in past'.stopped => Ended(row'[s]) /\ \A q \in Proc : ~On(q, Marking, s)'
  BY <1>1, <1>0 DEF Cancels
<1>5. ASSUME NEW q \in Proc
      PROVE  /\ On(q, {"cancel_remark"}, s)' => ~Ended(cmd'[q].seen[s])
             /\ On(q, {"cancel_set"}, s)' => cmd'[q].seen[s].state = "canceling"
             /\ On(q, {"cancel_again"}, s)' => Ended(row'[s])
  <2>1. CASE cmd'[q] = cmd[q]
    <3>1. /\ On(q, {"cancel_remark"}, s) => ~Ended(cmd[q].seen[s])
          /\ On(q, {"cancel_set"}, s) => cmd[q].seen[s].state = "canceling"
          /\ On(q, {"cancel_again"}, s) => Ended(row[s])
      BY DEF Cancels
    <3>2. On(q, {"cancel_again"}, s) => row[s] # NoRow
      BY <1>0 DEF On, Marking
    <3> QED
      BY <1>0, <2>1, <3>1, <3>2 DEF Ended, On
  <2>2. CASE cmd'[q] # cmd[q]
    BY <1>0, <1>1, <2>2 DEF On
  <2> QED
    BY <2>1, <2>2
<1> QED
  BY <1>3, <1>4, <1>5

\* A row that a cancel, or its end, has seen is there.
LEMMA MarkedHaveRows ==
    ASSUME Beside
    PROVE  /\ \A q \in Proc, s \in Run : On(q, Marking, s) => row[s] # NoRow
           /\ \A s \in past.stopped : row[s] # NoRow
  BY DEF Beside, Aimed, Granted, On, HasSeen

\* All in all, for a command that only remembers.
LEMMA MemoryStep ==
    ASSUME IInv, CmdInv, NEW p \in Proc, MemTyped', Others(p), Looser,
           row' = row, trees' \subseteq Run, past' = past,
           \A s \in trees \ trees' : Unworked(s),
           cmd[p].at \notin Engine \cup {"done"},
           cmd'[p].at \notin Engine \cup Marking \cup {"cancel_release"},
           cmd'[p].at \in OnOne => \E r \in Run : cmd'[p].todo = {r},
           \A s \in Run :
            /\ On(p, HasSeen, s)' => cmd'[p].seen[s] # NoRow
            /\ cmd'[p].seen[s] \in {NoRow, cmd[p].seen[s], row[s]}
            /\ On(p, Cleaning, s)' =>
                    \/ row[s] # NoRow /\ cmd'[p].seen[s] = row[s]
                    \/ On(p, Cleaning, s) /\ cmd'[p].seen[s] = cmd[p].seen[s]
            /\ On(p, Curing, s)' =>
                    \/ On(p, Curing, s) /\ cmd'[p].seen[s] = cmd[p].seen[s]
                    \/ /\ On(p, Curing, s) \/ (s \in started /\ Unworked(s))
                       /\ cmd'[p].seen[s] = NoRow \/ row[s].state # "accepted"
    PROVE  CmdInv'
<1> USE DEF CmdInv
<1>1. PastTyped' /\ past'.resumed = past.resumed
  BY DEF Beside, PastTyped
<1>2. /\ "cancel_mark" \in Marking /\ "cancel_kill" \in Marking
      /\ \A s \in Run : On(p, Late, s)' => On(p, Curing, s)'
      /\ \A s \in Run : On(p, {"cancel_mark", "cancel_kill"} \cup Cleaning, s)' => On(p, Cleaning, s)'
      /\ \A s \in Run : On(p, Curing, s) => On(p, Late, s)
      /\ \A s \in Run : On(p, Cleaning, s) => On(p, {"cancel_mark", "cancel_kill"} \cup Cleaning, s)
      /\ Working \subseteq Engine
  BY DEF On, Late, Marking, Engine
<1>3. Beside'
  BY <1>1, MemoryKeeps
<1>4. Untouched' /\ Cures'
  BY <1>1, <1>2, MemoryUntouched
<1>5. Cancels'
  BY <1>1, MarkedHaveRows, CancelsKept DEF Others
<1> QED
  BY <1>3, <1>4, <1>5

\* A command moves on and notes a row.
Notes(p, r, a, x) == cmd' = [cmd EXCEPT ![p].at = a, ![p].seen[r] = x]

LEMMA SeenUpdate ==
    ASSUME NEW a, NEW t, NEW f, NEW r, NEW x
    PROVE  [[at |-> a, todo |-> t, seen |-> f] EXCEPT !.seen[r] = x]
             = [at |-> a, todo |-> t, seen |-> [f EXCEPT ![r] = x]]
  OBVIOUS

LEMMA NotesDoes ==
    ASSUME MemTyped, NEW p \in Proc, NEW r \in Run, NEW a \in Steps, NEW x \in Row \cup {NoRow},
           Notes(p, r, a, x)
    PROVE  /\ Others(p) /\ MemTyped'
           /\ cmd'[p].at = a /\ cmd'[p].todo = cmd[p].todo /\ cmd'[p].seen[r] = x
           /\ \A s \in Run \ {r} : cmd'[p].seen[s] = cmd[p].seen[s]
<1> DEFINE one == [cmd EXCEPT ![p].at = a]
           f   == cmd[p].seen
<1>1. cmd[p] = [at |-> cmd[p].at, todo |-> cmd[p].todo, seen |-> f]
  BY DEF MemTyped
<1>2. DOMAIN cmd = Proc /\ DOMAIN one = Proc /\ \A q \in Proc \ {p} : one[q] = cmd[q]
  BY DEF MemTyped
<1>3. one[p] = [at |-> a, todo |-> cmd[p].todo, seen |-> f]
  BY <1>1 DEF MemTyped
<1>4. cmd' = [one EXCEPT ![p].seen[r] = x]
  BY DEF Notes
<1>0. f \in [Run -> Row \cup {NoRow}] /\ cmd[p].todo \subseteq Run
  BY DEF MemTyped
<1> HIDE DEF one, f
<1>5. cmd'[p] = [one[p] EXCEPT !.seen[r] = x]
  BY <1>2, <1>4
<1>6. cmd'[p] = [at |-> a, todo |-> cmd[p].todo, seen |-> [f EXCEPT ![r] = x]]
  BY <1>3, <1>5, SeenUpdate
<1>7. cmd' = [q \in Proc |-> IF q = p THEN cmd'[p] ELSE cmd[q]]
  BY <1>2, <1>4
<1>8. [f EXCEPT ![r] = x] \in [Run -> Row \cup {NoRow}]
  BY <1>0
<1>9. MemTyped' /\ Others(p)
  BY <1>0, <1>6, <1>7, <1>8 DEF MemTyped, Others
<1>f. f = cmd[p].seen
  BY DEF f
<1> QED
  BY <1>0, <1>6, <1>9, <1>f

LEMMA StepReadForResume ==
    ASSUME IInv, CmdInv, NEW p \in Proc, NEW r \in Run, ReadForResume(p, r) PROVE CmdInv'
<1>1. /\ cmd[p].at = "none" /\ row[r] # NoRow
      /\ cmd' = [cmd EXCEPT ![p] = [at |-> "want_resume", todo |-> {r},
                                    seen |-> [[s \in Run |-> NoRow] EXCEPT ![r] = row[r]]]]
      /\ UNCHANGED <<lockVars, row, trees, past>>
  BY DEF ReadForResume, At, Idle, OnlyMemory
<1>2. /\ Others(p) /\ MemTyped'
      /\ cmd'[p].at = "want_resume" /\ cmd'[p].todo = {r} /\ cmd'[p].seen[r] = row[r]
      /\ \A s \in Run \ {r} : cmd'[p].seen[s] = NoRow
  BY <1>1 DEF CmdInv, Beside, MemTyped, RowTyped, Others, Steps
<1>3. Looser /\ trees' \subseteq Run /\ row' = row /\ trees' = trees /\ past' = past
  BY <1>1, QuietIsLooser DEF CmdInv, Beside, RowTyped
<1> QED
  BY <1>1, <1>2, <1>3, MemoryStep DEF On, Engine, Working, Marking, Cleaning, Curing, OnOne

LEMMA StepClean ==
    ASSUME IInv, CmdInv, NEW p \in Proc, NEW accepted \in BOOLEAN, NEW dead \in BOOLEAN,
           NEW step, Clean(p, accepted, dead, step) PROVE CmdInv'
<1> DEFINE runs == {r \in Run : /\ row[r] # NoRow
                                /\ IF Ended(row[r]) THEN row[r].state = "accepted" => accepted
                                   ELSE dead}
<1>1. /\ cmd[p].at = "none" /\ step \in {"clean", "clean_dry"}
      /\ cmd' = [cmd EXCEPT ![p] = [at |-> step, todo |-> runs, seen |-> row]]
      /\ UNCHANGED <<lockVars, row, trees, past>>
  BY DEF Clean, At, OnlyMemory
<1>2. runs \subseteq Run /\ \A s \in runs : row[s] # NoRow
  OBVIOUS
<1> HIDE DEF runs
<1>3. /\ Others(p) /\ MemTyped'
      /\ cmd'[p].at = step /\ cmd'[p].todo = runs /\ cmd'[p].seen = row
  BY <1>1, <1>2 DEF CmdInv, Beside, MemTyped, RowTyped, Others, Steps
<1>4. Looser /\ trees' \subseteq Run /\ row' = row /\ trees' = trees /\ past' = past
  BY <1>1, QuietIsLooser DEF CmdInv, Beside, RowTyped
<1> QED
  BY <1>1, <1>2, <1>3, <1>4, MemoryStep DEF On, Engine, Working, Marking, Cleaning, Curing, HasSeen, OnOne

LEMMA StepDoctorRead ==
    ASSUME IInv, CmdInv, NEW p \in Proc, NEW r \in Run, DoctorRead(p, r) PROVE CmdInv'
<1>1. /\ cmd[p].at = "doctor" /\ r \in cmd[p].todo
      /\ cmd' = IF row[r] = NoRow \/ Ended(row[r])
                THEN [cmd EXCEPT ![p].todo = @ \ {r}]
                ELSE [cmd EXCEPT ![p].at = "doctor_set", ![p].seen[r] = row[r]]
      /\ UNCHANGED <<lockVars, row, trees, past>>
  BY DEF DoctorRead, At, OnlyMemory
<1>2. row[r] \in Row \cup {NoRow} /\ "accepted" \in Terminal
  BY DEF CmdInv, Beside, RowTyped, Terminal
<1>3. /\ Others(p) /\ MemTyped'
      /\ cmd'[p].at \in Curing /\ cmd'[p].todo \subseteq cmd[p].todo
      /\ \A s \in Run \ {r} : cmd'[p].seen[s] = cmd[p].seen[s]
      /\ cmd'[p].seen[r] = cmd[p].seen[r]
            \/ (cmd'[p].seen[r] = row[r] /\ row[r] # NoRow /\ ~Ended(row[r]))
  <2>1. CASE row[r] = NoRow \/ Ended(row[r])
    BY <1>1, <2>1 DEF CmdInv, Beside, MemTyped, Others, Curing
  <2>2. CASE ~(row[r] = NoRow \/ Ended(row[r]))
    <3>1. Notes(p, r, "doctor_set", row[r]) /\ "doctor_set" \in Steps
      BY <1>1, <2>2 DEF Notes, Steps
    <3> QED
      BY <1>2, <2>2, <3>1, NotesDoes DEF CmdInv, Beside, Curing
  <2> QED
    BY <2>1, <2>2
<1>4. Looser /\ trees' \subseteq Run /\ row' = row /\ trees' = trees /\ past' = past
  BY <1>1, QuietIsLooser DEF CmdInv, Beside, RowTyped
<1>5. \A s \in Run : On(p, Curing, s)' => On(p, Curing, s)
  BY <1>1, <1>3 DEF On, Curing
<1>6. /\ cmd[p].at \notin Engine \cup {"done"}
      /\ cmd'[p].at \notin Engine \cup Marking \cup Cleaning \cup OnOne \cup HasSeen \cup {"cancel_release"}
  BY <1>1, <1>3 DEF Engine, Working, Marking, Cleaning, Curing, HasSeen, OnOne
<1>7. \A s \in Run : /\ ~On(p, HasSeen, s)' /\ ~On(p, Cleaning, s)'
                     /\ cmd'[p].seen[s] \in {NoRow, cmd[p].seen[s], row[s]}
  BY <1>3, <1>6 DEF On
<1>8. \A s \in Run : cmd'[p].seen[s] = cmd[p].seen[s] \/ row[s].state # "accepted"
  BY <1>2, <1>3 DEF Ended
<1> QED
  BY <1>3, <1>4, <1>5, <1>6, <1>7, <1>8, MemoryStep

LEMMA ReleaseIsLooser == ASSUME NEW r \in Run, ReleaseRun(r) PROVE Looser
<1>1. CASE ReleaseRunLock(r)
  BY <1>1, Distinct DEF ReleaseRunLock, Looser, Without, IsHolder, HoldersOf
<1>2. CASE UNCHANGED lockVars
  BY <1>2, QuietIsLooser
<1> QED
  BY <1>1, <1>2 DEF ReleaseRun

LEMMA ClearIsLooser == ASSUME ClearStaleLock PROVE Looser
  BY Distinct DEF ClearStaleLock, Looser, Without, IsHolder

LEMMA WorkersLive ==
    ASSUME Beside, NEW w \in Proc, NEW s \in Run, On(w, Working, s)
    PROVE  pc[w] # "gone"
  BY DEF Beside, Engaged, On, Engine, Active

\* clean takes a run from its list.
LEMMA TodoDoes ==
    ASSUME MemTyped, NEW p \in Proc, NEW r \in Run, cmd' = [cmd EXCEPT ![p].todo = @ \ {r}]
    PROVE  /\ Others(p) /\ MemTyped'
           /\ cmd'[p].at = cmd[p].at /\ cmd'[p].seen = cmd[p].seen
           /\ cmd'[p].todo = cmd[p].todo \ {r}
  BY DEF MemTyped, Others

LEMMA StepCleanRun ==
    ASSUME IInv, CmdInv, NEW p \in Proc, NEW r \in Run, CleanRun(p, r) PROVE CmdInv'
<1>1. /\ On(p, Cleaning, r) /\ cmd' = [cmd EXCEPT ![p].todo = @ \ {r}]
      /\ UNCHANGED <<row, past>>
  BY DEF CleanRun, At, On, Cleaning
<1>2. /\ Others(p) /\ MemTyped'
      /\ cmd'[p].at = cmd[p].at /\ cmd'[p].seen = cmd[p].seen
      /\ cmd'[p].todo = cmd[p].todo \ {r}
  BY <1>1, TodoDoes DEF CmdInv, Beside
<1>3. Looser
  BY ReleaseIsLooser, QuietIsLooser DEF CleanRun
<1>4. trees' \subseteq Run /\ \A s \in trees \ trees' : Unworked(s)
  <2>1. CASE Spared(p, r)
    BY <2>1 DEF CleanRun, CmdInv, Beside, RowTyped
  <2>2. CASE ~Spared(p, r)
    <3>1. trees' \subseteq Run /\ trees \ trees' \subseteq {r}
      BY <2>2 DEF CleanRun, CmdInv, Beside, RowTyped
    <3>2. ASSUME r \in Fresh, NEW w \in Proc, On(w, Working, r) PROVE FALSE
      <4>1. cmd[p].seen[r].pid = w /\ ~Ended(cmd[p].seen[r])
        BY <1>1, <3>2 DEF CmdInv, Untouched, On
      <4>2. pc[w] # "gone"
        BY <3>2, WorkersLive DEF CmdInv
      <4> QED
        BY <2>2, <4>1, <4>2 DEF Spared, PidAlive
    <3> QED
      BY <3>1, <3>2 DEF Unworked
  <2> QED
    BY <2>1, <2>2
<1>5. /\ cmd[p].at \notin Engine \cup {"done"}
      /\ cmd'[p].at \notin Engine \cup Marking \cup {"cancel_release"}
      /\ cmd'[p].at \notin OnOne /\ cmd'[p].at \notin Curing
  BY <1>1, <1>2 DEF On, Cleaning, Engine, Working, Marking, Curing, OnOne, HasSeen
<1>6. \A s \in Run : /\ On(p, HasSeen, s)' => On(p, HasSeen, s)
                     /\ On(p, Cleaning, s)' => On(p, Cleaning, s)
                     /\ ~On(p, Curing, s)'
  BY <1>2, <1>5 DEF On
<1>7. \A s \in Run : On(p, HasSeen, s)' => cmd'[p].seen[s] # NoRow
  BY <1>2, <1>6 DEF CmdInv, Beside, Aimed
<1> QED
  BY <1>1, <1>2, <1>3, <1>4, <1>5, <1>6, <1>7, MemoryStep

\* A command begins.
Begun(a, t) == [Idle EXCEPT !.at = a, !.todo = t]

LEMMA BegunIs ==
    ASSUME NEW a, NEW t
    PROVE  Begun(a, t) = [at |-> a, todo |-> t, seen |-> [s \in Run |-> NoRow]]
<1>1. ASSUME NEW g, g = [Idle EXCEPT !.at = a, !.todo = t]
      PROVE  g = [at |-> a, todo |-> t, seen |-> [s \in Run |-> NoRow]]
  BY <1>1 DEF Idle
<1> QED
  BY <1>1 DEF Begun

LEMMA StepDoctorClear ==
    ASSUME IInv, CmdInv, NEW p \in Proc, DoctorClear(p) PROVE CmdInv'
<1> DEFINE runs == {file[x].run : x \in DeadHolders}
<1>1. /\ cmd[p].at = "none" /\ ClearStaleLock
      /\ cmd' = [cmd EXCEPT ![p] = [at |-> "doctor", todo |-> runs, seen |-> [s \in Run |-> NoRow]]]
      /\ UNCHANGED <<row, trees, past>>
  <2>1. /\ cmd[p].at = "none" /\ ClearStaleLock /\ UNCHANGED <<row, trees, past>>
        /\ cmd' = [cmd EXCEPT ![p] = Begun("doctor", runs)]
    BY DEF DoctorClear, At, Begun
  <2> HIDE DEF runs
  <2> QED
    BY <2>1, BegunIs
<1>2. runs \subseteq Run
  BY DEF DeadHolders, IsHolder, Holder
<1>3. \A s \in runs : s \in started /\ Unworked(s)
  <2> SUFFICES ASSUME NEW x \in DeadHolders
               PROVE  file[x].run \in started /\ Unworked(file[x].run)
    OBVIOUS
  <2>1. x \in LockPath /\ IsHolder(x) /\ ~PidAlive(file[x].pid)
    BY DEF DeadHolders
  <2>2. file[x].run \in started
    BY <2>1 DEF CmdInv, Beside, Granted
  <2>3. ASSUME file[x].run \in Fresh, NEW w \in Proc, On(w, Working, file[x].run) PROVE FALSE
    <3>1. file[x].pid = w
      BY <2>1, <2>3 DEF CmdInv, Untouched
    <3>2. pc[w] # "gone"
      BY <2>3, WorkersLive DEF CmdInv, Fresh
    <3> QED
      BY <2>1, <3>1, <3>2 DEF PidAlive
  <2> QED
    BY <2>2, <2>3 DEF Unworked
<1> HIDE DEF runs
<1>4. /\ Others(p) /\ MemTyped'
      /\ cmd'[p].at = "doctor" /\ cmd'[p].todo = runs /\ \A s \in Run : cmd'[p].seen[s] = NoRow
  BY <1>1, <1>2 DEF CmdInv, Beside, MemTyped, Others, Steps
<1>5. Looser /\ trees' \subseteq Run /\ row' = row /\ trees' = trees /\ past' = past
  BY <1>1, ClearIsLooser DEF CmdInv, Beside, RowTyped
<1>6. /\ cmd[p].at \notin Engine \cup {"done"}
      /\ cmd'[p].at \notin Engine \cup Marking \cup {"cancel_release"}
      /\ cmd'[p].at \notin OnOne /\ cmd'[p].at \notin HasSeen /\ cmd'[p].at \notin Cleaning
  BY <1>1, <1>4 DEF Cleaning, Engine, Working, Marking, OnOne, HasSeen
<1>7. \A s \in Run : /\ ~On(p, HasSeen, s)' /\ ~On(p, Cleaning, s)'
                     /\ On(p, Curing, s)' => s \in started /\ Unworked(s)
  BY <1>3, <1>4, <1>6 DEF On
<1> QED
  BY <1>4, <1>5, <1>6, <1>7, MemoryStep

LEMMA StepCancelRelease ==
    ASSUME IInv, CmdInv, NEW p \in Proc, CancelRelease(p) PROVE CmdInv'
<1>1. /\ cmd[p].at = "cancel_release" /\ ReleaseRun(Target(p)) /\ Go(p, "done")
      /\ UNCHANGED <<row, trees, past>>
  BY DEF CancelRelease, At
<1>2. Target(p) \in Run
  BY <1>1, TargetIs DEF CmdInv, Beside, OnOne, HasSeen, Cleaning
<1>3. /\ MemTyped' /\ Others(p)
      /\ cmd'[p].at = "done" /\ cmd'[p].todo = cmd[p].todo /\ cmd'[p].seen = cmd[p].seen
  BY <1>1, GoDoes DEF CmdInv, Beside, Steps
<1>4. Looser /\ trees' \subseteq Run
  BY <1>1, <1>2, ReleaseIsLooser DEF CmdInv, Beside, RowTyped
<1>5. /\ cmd[p].at \notin Engine \cup {"done"}
      /\ cmd'[p].at \notin Engine \cup Marking \cup {"cancel_release"}
      /\ cmd'[p].at \notin OnOne /\ cmd'[p].at \notin HasSeen
      /\ cmd'[p].at \notin Cleaning /\ cmd'[p].at \notin Curing
  BY <1>1, <1>3 DEF Cleaning, Engine, Working, Marking, OnOne, HasSeen, Curing
<1>6. \A s \in Run : ~On(p, HasSeen, s)' /\ ~On(p, Cleaning, s)' /\ ~On(p, Curing, s)'
  BY <1>5 DEF On
<1> QED
  BY <1>1, <1>3, <1>4, <1>5, <1>6, MemoryStep

LEMMA StepCancel ==
    ASSUME IInv, CmdInv, NEW p \in Proc, NEW r \in Run, Cancel(p, r) PROVE CmdInv'
<1> DEFINE step == IF Ended(row[r]) THEN "cancel_release" ELSE "cancel_mark"
<1>1. /\ cmd[p].at = "none" /\ row[r] # NoRow
      /\ cmd' = [cmd EXCEPT ![p] = [at |-> step, todo |-> {r},
                                    seen |-> [[s \in Run |-> NoRow] EXCEPT ![r] = row[r]]]]
      /\ UNCHANGED <<lockVars, row, trees>>
      /\ past' = [past EXCEPT !.cancels = @ \cup {r}, !.again = @ \cup (past.cancels \cap {r})]
  BY DEF Cancel, At, Idle
<1>2. /\ PastTyped' /\ past'.resumed = past.resumed /\ past'.stopped = past.stopped
      /\ past'.cancels = past.cancels \cup {r}
      /\ past'.again = past.again \cup (past.cancels \cap {r})
  BY <1>1 DEF CmdInv, Beside, PastTyped
<1>3. /\ step \in {"cancel_release", "cancel_mark"}
      /\ step = "cancel_release" <=> Ended(row[r])
  OBVIOUS
<1> HIDE DEF step
<1>4. /\ Others(p) /\ MemTyped'
      /\ cmd'[p].at = step /\ cmd'[p].todo = {r} /\ cmd'[p].seen[r] = row[r]
      /\ \A s \in Run \ {r} : cmd'[p].seen[s] = NoRow
  BY <1>1, <1>3 DEF CmdInv, Beside, MemTyped, RowTyped, Others, Steps
<1>5. Looser /\ row' = row /\ trees' \subseteq Run /\ trees' = trees
  BY <1>1, QuietIsLooser DEF CmdInv, Beside, RowTyped
<1>6. /\ cmd[p].at \notin Engine \cup {"done"} /\ cmd'[p].at \notin Engine
      /\ cmd'[p].at \notin Working /\ cmd'[p].at \notin Cleaning /\ cmd'[p].at \notin Curing
      /\ cmd[p].at \notin Marking \cup {"cancel_release"}
  BY <1>1, <1>3, <1>4 DEF Cleaning, Engine, Working, Marking, Curing
<1>7. \A s \in Run : /\ On(p, HasSeen, s)' => s = r
                     /\ On(p, Late, s)' => s = r /\ Ended(row[s])
                     /\ On(p, {"cancel_mark", "cancel_kill"} \cup Cleaning, s)' => s = r
                     /\ ~On(p, Curing, s)' /\ ~On(p, Cleaning, s)'
  <2>1. cmd'[p].at \in Late => step = "cancel_release"
    BY <1>3, <1>4, <1>6 DEF Late
  <2> QED
    BY <1>3, <1>4, <1>6, <2>1 DEF On
<1>8. Beside'
  BY <1>1, <1>2, <1>4, <1>5, <1>6, <1>7, MemoryKeeps DEF CmdInv
<1>9. Untouched' /\ Cures'
  BY <1>1, <1>2, <1>4, <1>5, <1>6, <1>7, MemoryUntouched DEF CmdInv
<1>10. Cancels'
  <2>1. /\ \A s \in Run : On(p, Marking, s)' => s = r /\ ~Ended(row[r])
        /\ \A s \in Run : On(p, {"cancel_release"}, s)' => s = r
        /\ \A s \in Run : ~On(p, {"cancel_remark", "cancel_set", "cancel_again"}, s)'
    BY <1>3, <1>4 DEF On, Marking
  <2>2. \A q \in Proc \ {p} : cmd'[q] = cmd[q]
    BY <1>4 DEF Others
  <2>3. /\ past'.stopped \subseteq past'.cancels
        /\ \A q \in Proc, s \in Run : On(q, Marking \cup {"cancel_release"}, s)' => s \in past'.cancels
    <3>1. \A s \in Run : On(p, Marking \cup {"cancel_release"}, s)' => s = r
      BY <1>4 DEF On
    <3>2. \A q \in Proc \ {p}, s \in Run : On(q, Marking \cup {"cancel_release"}, s)'
                                            => On(q, Marking \cup {"cancel_release"}, s)
      BY <2>2 DEF On
    <3> QED
      BY <1>2, <3>1, <3>2 DEF CmdInv, Cancels
  <2> SUFFICES ASSUME NEW s \in Fresh \ past'.again
               PROVE  /\ \A t, q \in Proc : On(t, Marking, s)' /\ On(q, Marking, s)' => t = q
                      /\ s \in past'.stopped => Ended(row'[s]) /\ \A q \in Proc : ~On(q, Marking, s)'
                      /\ \A q \in Proc :
                            /\ On(q, {"cancel_remark"}, s)' => ~Ended(cmd'[q].seen[s])
                            /\ On(q, {"cancel_set"}, s)' => cmd'[q].seen[s].state = "canceling"
                            /\ On(q, {"cancel_again"}, s)' => Ended(row'[s])
    BY <1>2, <2>3 DEF Cancels, Fresh, Ended, On
  <2>4. s \in Fresh \ past.again /\ s \in Run /\ (s = r => r \notin past.cancels)
    BY <1>2 DEF Fresh
  <2>5. \A q \in Proc \ {p} : On(q, Marking, s)' => On(q, Marking, s) /\ s \in past.cancels
    BY <2>2, <2>4 DEF CmdInv, Cancels, On
  <2>6. \A t, q \in Proc : On(t, Marking, s)' /\ On(q, Marking, s)' => t = q
    BY <2>1, <2>4, <2>5 DEF CmdInv, Cancels
  <2>7. s \in past'.stopped => Ended(row'[s]) /\ \A q \in Proc : ~On(q, Marking, s)'
    BY <1>2, <1>5, <2>1, <2>4, <2>5 DEF CmdInv, Cancels
  <2>8. ASSUME NEW q \in Proc
        PROVE  /\ On(q, {"cancel_remark"}, s)' => ~Ended(cmd'[q].seen[s])
               /\ On(q, {"cancel_set"}, s)' => cmd'[q].seen[s].state = "canceling"
               /\ On(q, {"cancel_again"}, s)' => Ended(row'[s])
    <3>1. CASE q = p
      BY <2>1, <2>4, <3>1 DEF On
    <3>2. CASE q # p
      <4>1. cmd'[q] = cmd[q] /\ row' = row
        BY <1>5, <2>2, <3>2
      <4>2. /\ On(q, {"cancel_remark"}, s) => ~Ended(cmd[q].seen[s])
            /\ On(q, {"cancel_set"}, s) => cmd[q].seen[s].state = "canceling"
            /\ On(q, {"cancel_again"}, s) => Ended(row[s])
        BY <2>4 DEF CmdInv, Cancels
      <4> QED
        BY <4>1, <4>2 DEF Ended, On
    <3> QED
      BY <3>1, <3>2
  <2> QED
    BY <2>6, <2>7, <2>8
<1> QED
  BY <1>8, <1>9, <1>10 DEF CmdInv

-----------------------------------------------------------------------------
(* A process that leaves its command *)

\* x is done, or gone; a cancel that has waited for x goes on.
Leaves(x, end) ==
    /\ pc' = [pc EXCEPT ![x] = end] /\ end \in {"idle", "gone"}
    /\ UNCHANGED <<claim, started, revoked, row, trees, past>>
    /\ \A y \in LockPath : IsHolder(y)' => IsHolder(y) /\ file'[y] = file[y]
    /\ MemTyped'
    /\ cmd'[x].todo = {} /\ \A r \in Run : cmd'[x].seen[r] = NoRow
    /\ cmd'[x].at = "done" \/ (cmd'[x].at = "none" /\ end = "gone")
    /\ \A q \in Proc \ {x} :
          \/ cmd'[q] = cmd[q]
          \/ /\ cmd[q].at = "cancel_kill" /\ cmd'[q].at = "cancel_read"
             /\ cmd'[q].todo = cmd[q].todo /\ cmd'[q].seen = cmd[q].seen
             /\ \A s \in cmd[q].todo : cmd[q].seen[s].pid = x

LEMMA LeavesKeeps ==
    ASSUME IInv, CmdInv, NEW x \in Proc, NEW end, Leaves(x, end)
    PROVE  CmdInv'
<1> USE DEF CmdInv
<1>1. /\ \A q \in Proc \ {x} : pc'[q] = pc[q] /\ (Active(q)' <=> Active(q))
      /\ ~Active(x)' /\ claim' = claim /\ started' = started /\ revoked' = revoked
      /\ row' = row /\ trees' = trees /\ past' = past
  BY DEF Leaves, Active, IInv, LockTypeOK
<1>2. \A steps, s : ~On(x, steps, s)'
  BY DEF Leaves, On
<1>3. \A q \in Proc \ {x} : cmd'[q].todo = cmd[q].todo /\ cmd'[q].seen = cmd[q].seen
  BY DEF Leaves
<1>4. \A q \in Proc \ {x}, s \in Run :
        /\ On(q, Working, s)' => On(q, Working, s) /\ cmd'[q] = cmd[q]
        /\ On(q, Engine, s)' => On(q, Engine, s) /\ cmd'[q] = cmd[q]
        /\ On(q, HasSeen, s)' => On(q, HasSeen, s)
        /\ On(q, Cleaning, s)' => On(q, Cleaning, s)
        /\ On(q, Curing, s)' => On(q, Curing, s)
        /\ On(q, {"cancel_mark", "cancel_kill"} \cup Cleaning, s)'
              => On(q, {"cancel_mark", "cancel_kill"} \cup Cleaning, s)
        /\ On(q, Late, s)' => \/ On(q, Late, s)
                              \/ On(q, {"cancel_kill"}, s) /\ cmd[q].seen[s].pid = x
  BY <1>3 DEF Leaves, On, Working, Engine, HasSeen, Marking, Cleaning, Curing, Late
<1>5. RowTyped' /\ PastTyped' /\ MemTyped'
  BY <1>1 DEF Beside, RowTyped, PastTyped, Leaves
<1>6. Aimed'
  <2> SUFFICES ASSUME NEW q \in Proc
               PROVE  /\ cmd'[q].at \in OnOne => \E r \in Run : cmd'[q].todo = {r}
                      /\ \A r \in Run : /\ On(q, HasSeen, r)' => cmd'[q].seen[r] # NoRow
                                        /\ cmd'[q].seen[r] # NoRow => row'[r] # NoRow
    BY DEF Aimed, On
  <2>1. CASE q = x
    <3>1. cmd'[x].at \notin OnOne
      BY DEF Leaves, OnOne, HasSeen, Marking, Cleaning
    <3> QED
      BY <1>2, <2>1, <3>1 DEF Leaves, On
  <2>2. CASE q # x
    <3>1. cmd'[q].at \in OnOne => cmd[q].at \in OnOne
      BY <2>2 DEF Leaves, OnOne, HasSeen, Marking, Cleaning
    <3> QED
      BY <1>1, <1>3, <1>4, <2>2, <3>1 DEF Beside, Aimed
  <2> QED
    BY <2>1, <2>2
<1>7. Manned'
  <2>1. \A q \in Proc : HasDriven(q) => HasDriven(q)'
    BY <1>1 DEF Leaves, HasDriven, IInv, LockTypeOK, Engine, Working
  <2>2. \A q \in Proc, r \in Run : cmd'[q].seen[r] # NoRow => cmd'[q].seen[r] = cmd[q].seen[r]
    BY <1>3 DEF Leaves
  <2>3. /\ \A r \in Run : row'[r] # NoRow => row'[r] = row[r]
    BY <1>1
  <2> QED
    BY <2>1, <2>2, <2>3, RowParts DEF Beside, Manned, HasDriven
<1>8. Granted'
  <2>1. \A q \in Proc : Active(q)' => Active(q) /\ claim'[q] = claim[q]
    BY <1>1
  <2>2. \A q \in Proc, s \in Run : On(q, Curing, s)' => On(q, Curing, s) \/ s \in started
    BY <1>2, <1>4
  <2>3. \A y \in LockPath : IsHolder(y)' => (file'[y] = file[y] \/ file'[y].run \in started)
    BY DEF Leaves
  <2> QED
    BY <1>1, <2>1, <2>2, <2>3, KeptGranted DEF Beside, Granted
<1>9. Engaged'
  <2> SUFFICES ASSUME NEW q \in Proc, NEW r \in Run
               PROVE  /\ On(q, Engine, r)' => Active(q)' /\ claim'[q].run = r
                      /\ On(q, {"drive", "finish"}, r)' => pc'[q] = "holding"
                      /\ On(q, {"save"}, r)' => r \in past'.resumed
    BY DEF Engaged, On, Active
  <2>1. CASE q = x
    BY <1>2, <2>1
  <2>2. CASE q # x
    <3>1. /\ On(q, {"drive", "finish"}, r)' => On(q, {"drive", "finish"}, r)
          /\ On(q, {"save"}, r)' => On(q, {"save"}, r)
      BY <1>3, <2>2 DEF Leaves, On
    <3> QED
      BY <1>1, <1>4, <2>2, <3>1 DEF Beside, Engaged
  <2> QED
    BY <2>1, <2>2
<1>10. Sole'
  BY <1>1, KeptSole DEF Beside, Keeping
<1>11. Owned'
  <2>1. \A q \in Proc, s \in Run : On(q, {"drive"}, s)' => On(q, {"drive"}, s)
    BY <1>2, <1>3 DEF Leaves, On
  <2> QED
    BY <1>1, <2>1 DEF Beside, Owned
<1>12. Untouched'
  <2> SUFFICES ASSUME NEW s \in Fresh, NEW w \in Proc, On(w, Working, s)'
               PROVE  /\ cmd'[w].at = "insert" => row'[s] = NoRow
                      /\ cmd'[w].at = "drive" =>
                            /\ row'[s].pid = w /\ ~Ended(row'[s])
                            /\ ~Ended(cmd'[w].seen[s]) /\ s \in trees'
                      /\ s \notin past'.stopped
                      /\ \A q \in Proc :
                            /\ ~On(q, Late, s)'
                            /\ On(q, {"cancel_mark", "cancel_kill"} \cup Cleaning, s)'
                                    => cmd'[q].seen[s].pid = w
                            /\ On(q, Cleaning, s)' => ~Ended(cmd'[q].seen[s])
                      /\ \A y \in LockPath : IsHolder(y)' /\ file'[y].run = s => file'[y].pid = w
    BY <1>1 DEF Untouched, Fresh, On, Ended, IsHolder
  <2>1. w # x /\ s \in Run
    BY <1>2 DEF Fresh
  <2>2. On(w, Working, s) /\ cmd'[w] = cmd[w]
    BY <1>4, <2>1
  <2>3. /\ cmd'[w].at = "insert" => row'[s] = NoRow
        /\ cmd'[w].at = "drive" => /\ row'[s].pid = w /\ ~Ended(row'[s])
                                   /\ ~Ended(cmd'[w].seen[s]) /\ s \in trees'
        /\ s \notin past'.stopped
    BY <1>1, <2>2 DEF Untouched
  <2>4. ASSUME NEW q \in Proc
        PROVE  /\ ~On(q, Late, s)'
               /\ On(q, {"cancel_mark", "cancel_kill"} \cup Cleaning, s)' => cmd'[q].seen[s].pid = w
               /\ On(q, Cleaning, s)' => ~Ended(cmd'[q].seen[s])
    <3>1. /\ ~On(q, Late, s)
          /\ On(q, {"cancel_mark", "cancel_kill"} \cup Cleaning, s) => cmd[q].seen[s].pid = w
          /\ On(q, Cleaning, s) => ~Ended(cmd[q].seen[s])
      BY <2>2 DEF Untouched
    <3>2. CASE q = x
      BY <1>2, <3>2
    <3>3. CASE q # x
      <4>1. On(q, {"cancel_kill"}, s) => On(q, {"cancel_mark", "cancel_kill"} \cup Cleaning, s)
        BY DEF On
      <4>2. ~On(q, Late, s)'
        BY <1>4, <2>1, <3>1, <3>3, <4>1
      <4>3. cmd'[q].seen = cmd[q].seen
        BY <1>3, <3>3
      <4> QED
        BY <1>4, <2>1, <3>1, <3>3, <4>2, <4>3 DEF Ended
    <3> QED
      BY <3>2, <3>3
  <2>5. \A y \in LockPath : IsHolder(y)' /\ file'[y].run = s => file'[y].pid = w
    BY <2>2 DEF Untouched, Leaves
  <2> QED
    BY <2>3, <2>4, <2>5
<1>13. Cancels'
  <2>1. \A q \in Proc :
              \/ cmd'[q] = cmd[q]
              \/ cmd'[q].at \notin Marking \cup {"cancel_release"}
              \/ /\ cmd[q].at = "cancel_kill" /\ cmd'[q].at = "cancel_read"
                 /\ cmd'[q].todo = cmd[q].todo
    BY DEF Leaves, Marking
  <2> QED
    BY <1>1, <2>1, MarkedHaveRows, CancelsKept
<1>14. Cures'
  <2> SUFFICES ASSUME NEW s \in Fresh \ past.cancels, NEW q \in Proc,
                      On(q, Curing, s)', cmd'[q].seen[s] # NoRow
               PROVE  row[s].state # "accepted"
    BY <1>1 DEF Cures, Fresh
  <2>1. q # x /\ s \in Run
    BY <1>2 DEF Fresh
  <2> QED
    BY <1>3, <1>4, <2>1 DEF Cures
<1> QED
  BY <1>5, <1>6, <1>7, <1>8, <1>9, <1>10, <1>11, <1>12, <1>13, <1>14 DEF Beside

\* What a process forgets when it is gone.
LEMMA IdleIs == Idle.at = "none" /\ Idle.todo = {} /\ \A r \in Run : Idle.seen[r] = NoRow
  BY DEF Idle

LEMMA IdleTyped == Idle \in [at : Steps, todo : SUBSET Run, seen : [Run -> Row \cup {NoRow}]]
  BY DEF Idle, Steps

LEMMA StepReturn == ASSUME IInv, CmdInv, NEW p \in Proc, Return(p) PROVE CmdInv'
<1>1. /\ Release(p) /\ cmd' = [cmd EXCEPT ![p] = [Idle EXCEPT !.at = "done"]]
      /\ UNCHANGED <<row, trees, past>>
  BY DEF Return
<1>2. /\ pc' = [pc EXCEPT ![p] = "idle"] /\ UNCHANGED <<claim, started, revoked>>
      /\ \A y \in LockPath : IsHolder(y)' => IsHolder(y) /\ file'[y] = file[y]
  BY <1>1, Distinct DEF Release, Without, IsHolder
<1>3. ASSUME NEW g, g = [Idle EXCEPT !.at = "done"]
      PROVE  g = [at |-> "done", todo |-> {}, seen |-> [r \in Run |-> NoRow]]
  BY <1>3 DEF Idle
<1>4. cmd' = [cmd EXCEPT ![p] = [at |-> "done", todo |-> {}, seen |-> [r \in Run |-> NoRow]]]
  BY <1>1, <1>3
<1>5. MemTyped' /\ Others(p) /\ cmd'[p].at = "done" /\ cmd'[p].todo = {}
      /\ \A r \in Run : cmd'[p].seen[r] = NoRow
  BY <1>4 DEF CmdInv, Beside, MemTyped, Others, Steps
<1>6. Leaves(p, "idle")
  BY <1>1, <1>2, <1>5 DEF Leaves, Others
<1> QED
  BY <1>6, LeavesKeeps

LEMMA StepProcessEnds == ASSUME IInv, CmdInv, NEW p \in Proc, ProcessEnds(p) PROVE CmdInv'
<1>1. /\ Exit(p) /\ cmd' = [q \in Proc |-> IF q \in {p} THEN Idle ELSE cmd[q]]
      /\ UNCHANGED <<row, trees, past>>
  BY DEF ProcessEnds, Forget
<1>2. /\ pc' = [pc EXCEPT ![p] = "gone"] /\ UNCHANGED <<claim, started, revoked, file>>
  BY <1>1 DEF Exit
<1>3. /\ MemTyped' /\ Others(p) /\ cmd'[p] = Idle
  BY <1>1, IdleTyped DEF CmdInv, Beside, MemTyped, Others
<1>4. Leaves(p, "gone")
  BY <1>1, <1>2, <1>3, IdleIs DEF Leaves, Others, IsHolder
<1> QED
  BY <1>4, LeavesKeeps

LEMMA StepCancelKill == ASSUME IInv, CmdInv, NEW p \in Proc, CancelKill(p) PROVE CmdInv'
<1> DEFINE r == Target(p)
           x == Seen(p).pid
<1>1. r \in Run /\ cmd[p].todo = {r} /\ cmd[p].at = "cancel_kill"
  BY TargetIs DEF CmdInv, Beside, CancelKill, At, OnOne, HasSeen, Marking, Cleaning
<1>2. /\ cmd[p].seen[r] # NoRow /\ x = cmd[p].seen[r].pid
      /\ On(p, {"cancel_kill"}, r)
  BY <1>1 DEF CmdInv, Beside, Aimed, On, HasSeen, Marking, Seen
<1>3. x \in Proc
  BY <1>1, <1>2, RowParts DEF CmdInv, Beside
<1>4. HasDriven(x)
  BY <1>1, <1>2 DEF CmdInv, Beside, Manned
<1>5. \/ /\ PidAlive(x) /\ Exit(x)
         /\ cmd' = [cmd EXCEPT ![x] = Idle, ![p].at = "cancel_read"]
         /\ UNCHANGED <<row, trees, past>>
      \/ /\ ~PidAlive(x) /\ Go(p, "cancel_read") /\ OnlyMemory
  BY DEF CancelKill
<1> HIDE DEF r, x
<1>6. CASE /\ PidAlive(x) /\ Exit(x)
           /\ cmd' = [cmd EXCEPT ![x] = Idle, ![p].at = "cancel_read"]
           /\ UNCHANGED <<row, trees, past>>
  <2>1. x # p
    BY <1>1, <1>4, <1>6 DEF HasDriven, PidAlive, Engine, Working
  <2>2. /\ pc' = [pc EXCEPT ![x] = "gone"] /\ UNCHANGED <<claim, started, revoked, file>>
    BY <1>6 DEF Exit
  <2> DEFINE one == [cmd EXCEPT ![x] = Idle]
  <2>3. one \in [Proc -> [at : Steps, todo : SUBSET Run, seen : [Run -> Row \cup {NoRow}]]]
    BY IdleTyped DEF CmdInv, Beside, MemTyped
  <2>4. one[x] = Idle /\ \A q \in Proc \ {x} : one[q] = cmd[q]
    BY <1>3 DEF CmdInv, Beside, MemTyped
  <2>5. cmd' = [one EXCEPT ![p].at = "cancel_read"]
    BY <1>6
  <2> HIDE DEF one
  <2>6. /\ MemTyped' /\ cmd'[p].at = "cancel_read" /\ cmd'[p].todo = one[p].todo
        /\ cmd'[p].seen = one[p].seen /\ \A q \in Proc \ {p} : cmd'[q] = one[q]
    BY <2>3, <2>5 DEF MemTyped, Steps
  <2>7. /\ cmd'[x] = Idle /\ \A q \in Proc \ {x, p} : cmd'[q] = cmd[q]
        /\ cmd'[p].todo = cmd[p].todo /\ cmd'[p].seen = cmd[p].seen
    BY <1>3, <2>1, <2>4, <2>6
  <2>8. \A s \in cmd[p].todo : cmd[p].seen[s].pid = x
    BY <1>1, <1>2
  <2>9. Leaves(x, "gone")
    BY <1>1, <1>6, <2>2, <2>6, <2>7, <2>8, IdleIs DEF Leaves, IsHolder
  <2> QED
    BY <1>3, <2>9, LeavesKeeps
<1>7. CASE ~PidAlive(x) /\ Go(p, "cancel_read") /\ OnlyMemory
  <2>1. /\ MemTyped' /\ Others(p)
        /\ cmd'[p].at = "cancel_read" /\ cmd'[p].todo = cmd[p].todo /\ cmd'[p].seen = cmd[p].seen
    BY <1>7, GoDoes DEF CmdInv, Beside, Steps
  <2>2. /\ Looser /\ trees' \subseteq Run /\ row' = row /\ trees' = trees /\ past' = past
        /\ PastTyped' /\ past'.resumed = past.resumed
    BY <1>7, QuietIsLooser DEF CmdInv, Beside, RowTyped, PastTyped, OnlyMemory
  <2>3. /\ cmd[p].at \notin Engine \cup {"done"} /\ cmd'[p].at \notin Engine
        /\ cmd'[p].at \notin Working /\ cmd'[p].at \notin Cleaning /\ cmd'[p].at \notin Curing
        /\ cmd'[p].at \notin {"cancel_mark", "cancel_kill"} \cup Cleaning
    BY <1>1, <2>1 DEF Cleaning, Engine, Working, Marking, Curing
  <2>4. \A s \in Run : /\ On(p, HasSeen, s)' => s = r
                       /\ On(p, Late, s)' => s = r
                       /\ ~On(p, {"cancel_mark", "cancel_kill"} \cup Cleaning, s)'
                       /\ ~On(p, Curing, s)'
    BY <1>1, <2>1, <2>3 DEF On
  <2>5. Unworked(r)
    <3> SUFFICES ASSUME r \in Fresh, NEW w \in Proc, On(w, Working, r) PROVE FALSE
      BY DEF Unworked
    <3>1. cmd[p].seen[r].pid = w
      BY <1>2 DEF CmdInv, Untouched, On
    <3>2. pc[w] # "gone"
      BY <1>1, WorkersLive DEF CmdInv
    <3> QED
      BY <1>2, <1>7, <3>1, <3>2 DEF PidAlive
  <2>6. Beside'
    BY <1>1, <1>2, <2>1, <2>2, <2>3, <2>4, MemoryKeeps DEF CmdInv
  <2>7. Untouched' /\ Cures'
    BY <2>1, <2>2, <2>3, <2>4, <2>5, MemoryUntouched DEF CmdInv
  <2>8. Cancels'
    BY <1>1, <2>1, <2>2, MarkedHaveRows, CancelsKept DEF CmdInv, Others
  <2> QED
    BY <2>6, <2>7, <2>8 DEF CmdInv
<1> QED
  BY <1>5, <1>6, <1>7

-----------------------------------------------------------------------------
(* Steps that write a row *)

\* Who works on a run that was never resumed is the only one.
LEMMA OneWorker ==
    ASSUME Beside, NEW p \in Proc, NEW w \in Proc, NEW r \in Fresh,
           On(p, Engine, r), On(w, Engine, r)
    PROVE  p = w
  BY DEF Beside, Engaged, Sole, Fresh

\* A step of the engine of r.
LEMMA EngineKeeps ==
    ASSUME IInv, CmdInv, NEW p \in Proc, NEW r \in Run, On(p, {"insert", "save", "drive"}, r),
           Others(p), cmd'[p].at \in {"drive", "finish"}, cmd'[p].todo = {r},
           UNCHANGED <<lockVars, past>>, trees \subseteq trees',
           \A s \in Run \ {r} : row'[s] = row[s],
           r \in Fresh /\ cmd'[p].at = "drive" =>
               /\ row'[r].pid = p /\ ~Ended(row'[r])
               /\ ~Ended(cmd'[p].seen[r]) /\ r \in trees'
    PROVE  Untouched' /\ Cancels' /\ Cures'
<1> USE DEF CmdInv
<1>1. On(p, Engine, r) /\ (r \in Fresh => On(p, Working, r))
  BY DEF On, Engine, Working, Beside, Engaged, Fresh
<1>2. Untouched'
  <2> SUFFICES ASSUME NEW s \in Fresh, NEW w \in Proc, On(w, Working, s)'
               PROVE  /\ cmd'[w].at = "insert" => row'[s] = NoRow
                      /\ cmd'[w].at = "drive" =>
                            /\ row'[s].pid = w /\ ~Ended(row'[s])
                            /\ ~Ended(cmd'[w].seen[s]) /\ s \in trees'
                      /\ s \notin past'.stopped
                      /\ \A q \in Proc :
                            /\ ~On(q, Late, s)'
                            /\ On(q, {"cancel_mark", "cancel_kill"} \cup Cleaning, s)'
                                    => cmd'[q].seen[s].pid = w
                            /\ On(q, Cleaning, s)' => ~Ended(cmd'[q].seen[s])
                      /\ \A x \in LockPath : IsHolder(x)' /\ file'[x].run = s => file'[x].pid = w
    BY DEF Untouched, Fresh, On, Ended, IsHolder
  <2>0. s \in Run
    BY DEF Fresh
  <2>1. On(w, Working, s) /\ (w = p => s = r) /\ (w # p => s # r /\ cmd'[w] = cmd[w])
    <3>1. CASE w = p
      BY <1>1, <3>1 DEF On
    <3>2. CASE w # p
      <4>1. cmd'[w] = cmd[w] /\ On(w, Working, s)
        BY <3>2 DEF Others, On
      <4>2. On(w, Engine, s)
        BY <4>1 DEF On, Engine
      <4>3. s # r
        BY <1>1, <3>2, <4>2, OneWorker
      <4> QED
        BY <3>2, <4>1, <4>3
    <3> QED
      BY <3>1, <3>2
  <2>2. /\ cmd'[w].at = "insert" => row'[s] = NoRow
        /\ cmd'[w].at = "drive" => /\ row'[s].pid = w /\ ~Ended(row'[s])
                                   /\ ~Ended(cmd'[w].seen[s]) /\ s \in trees'
    <3>1. CASE w = p
      BY <2>1, <3>1
    <3>2. CASE w # p
      BY <2>0, <2>1, <3>2 DEF Untouched, Ended
    <3> QED
      BY <3>1, <3>2
  <2>3. s \notin past'.stopped
    BY <2>1 DEF Untouched
  <2>4. ASSUME NEW q \in Proc
        PROVE  /\ ~On(q, Late, s)'
               /\ On(q, {"cancel_mark", "cancel_kill"} \cup Cleaning, s)' => cmd'[q].seen[s].pid = w
               /\ On(q, Cleaning, s)' => ~Ended(cmd'[q].seen[s])
    <3>1. CASE q = p
      BY <3>1 DEF On, Late, Cleaning, Curing, Marking
    <3>2. CASE q # p
      BY <2>1, <3>2 DEF Untouched, On, Others, Ended
    <3> QED
      BY <3>1, <3>2
  <2>5. \A x \in LockPath : IsHolder(x)' /\ file'[x].run = s => file'[x].pid = w
    BY <2>1, Quiet DEF Untouched
  <2> QED
    BY <2>2, <2>3, <2>4, <2>5
<1>3. r \in Fresh => /\ row[r] = NoRow \/ ~Ended(row[r])
                     /\ \A q \in Proc : ~On(q, Curing, r)
  BY <1>1 DEF Untouched, On, Working, Late
<1>4. Cancels'
  <2>1. cmd'[p].at \notin Marking \cup {"cancel_release"}
    BY DEF Marking
  <2>2. \A s \in Fresh : row[s] # NoRow /\ Ended(row[s]) => Ended(row'[s])
    BY <1>3 DEF Fresh, Ended
  <2> QED
    BY <2>1, <2>2, MarkedHaveRows, CancelsKept DEF Others
<1>5. Cures'
  <2> SUFFICES ASSUME NEW s \in Fresh \ past.cancels, NEW q \in Proc,
                      On(q, Curing, s)', cmd'[q].seen[s] # NoRow
               PROVE  row'[s].state # "accepted"
    BY DEF Cures, Fresh
  <2>1. cmd'[q] = cmd[q] /\ On(q, Curing, s)
    BY DEF On, Others, Curing
  <2> QED
    BY <1>3, <2>1 DEF Cures, Fresh
<1> QED
  BY <1>2, <1>4, <1>5

\* The engine writes its pid to the row of its run.
LEMMA WritesOwn ==
    ASSUME IInv, CmdInv, NEW p \in Proc, NEW r \in Run, On(p, {"insert", "save", "drive"}, r),
           pc[p] = "holding",
           Others(p), MemTyped', cmd'[p].at = "drive", cmd'[p].todo = {r},
           \A s \in Run \ {r} : cmd'[p].seen[s] = cmd[p].seen[s],
           cmd'[p].seen[r] # NoRow, cmd'[p].seen[r] = cmd[p].seen[r] \/ cmd'[p].seen[r].pid = p,
           UNCHANGED <<lockVars, past>>, trees \subseteq trees', trees' \subseteq Run,
           \A s \in Run \ {r} : row'[s] = row[s],
           row' \in [Run -> Row \cup {NoRow}], row'[r] # NoRow, row'[r].pid = p,
           r \in Fresh => ~Ended(row'[r]) /\ ~Ended(cmd'[p].seen[r]) /\ r \in trees'
    PROVE  CmdInv'
<1> USE DEF CmdInv, Beside
<1>1. On(p, Engine, r) /\ Active(p) /\ claim[p].run = r /\ r \in started
  BY DEF On, Engine, Working, Engaged, Granted
<1>2. RowTyped' /\ PastTyped'
  BY DEF RowTyped, PastTyped
<1>3. Aimed'
  BY DEF Aimed, On, Others
<1>4. Manned'
  <2>1. \A q \in Proc : HasDriven(q) => HasDriven(q)'
    BY Quiet, DrivenStays DEF Others, Engine, Working
  <2>2. HasDriven(p)'
    BY DEF HasDriven, Engine, Working
  <2> QED
    BY <2>1, <2>2, RowParts DEF Manned, Others, HasDriven
<1>5. Granted'
  <2>1. \A q \in Proc, s \in Run : On(q, Curing, s)' => On(q, Curing, s)
    BY DEF On, Others, Curing
  <2>2. \A s \in Run : row'[s] # NoRow => row[s] # NoRow \/ s \in started
    BY <1>1
  <2>3. \A s \in past'.stopped : row'[s] # NoRow
    BY DEF Granted, PastTyped
  <2> QED
    BY <2>1, <2>2, <2>3, Quiet, KeptGranted
<1>6. Engaged'
  <2>1. \A q \in Proc, s \in Run : /\ On(q, Engine, s)' => On(q, Engine, s)
                                   /\ On(q, {"drive", "finish"}, s)' =>
                                        On(q, {"drive", "finish"}, s) \/ q = p
                                   /\ On(q, {"save"}, s)' => On(q, {"save"}, s)
    BY <1>1 DEF On, Others
  <2> QED
    BY <2>1, Quiet DEF Engaged
<1>7. Sole'
  BY Quiet, KeptSole DEF Keeping
<1>8. Owned'
  <2> SUFFICES ASSUME ~revoked, NEW q \in Proc, NEW s \in Run, On(q, {"drive"}, s)'
               PROVE  row'[s].pid = q
    BY Quiet DEF Owned
  <2>1. CASE q = p
    BY <2>1 DEF On
  <2>2. CASE q # p
    <3>1. On(q, {"drive"}, s) /\ On(q, Engine, s)
      BY <2>2 DEF On, Others, Engine, Working
    <3>2. Active(q) /\ claim[q].run = s
      BY <3>1 DEF Engaged
    <3>3. s # r
      BY <1>1, <2>2, <3>2 DEF IInv, ClaimsInv
    <3> QED
      BY <3>1, <3>3 DEF Owned
  <2> QED
    BY <2>1, <2>2
<1>9. Untouched' /\ Cancels' /\ Cures'
  BY EngineKeeps
<1> QED
  BY <1>2, <1>3, <1>4, <1>5, <1>6, <1>7, <1>8, <1>9

LEMMA StepInsertRun == ASSUME IInv, CmdInv, NEW p \in Proc, InsertRun(p) PROVE CmdInv'
<1> DEFINE r   == Target(p)
           new == [state |-> "contract_ready", pid |-> p]
<1>1. r \in Run /\ cmd[p].todo = {r} /\ cmd[p].at = "insert" /\ pc[p] = "holding"
  BY TargetIs DEF CmdInv, Beside, InsertRun, At, OnOne
<1>2. /\ row' = [row EXCEPT ![r] = new] /\ UNCHANGED <<lockVars, past>> /\ trees' = trees \cup {r}
      /\ cmd' = [cmd EXCEPT ![p].seen[r] = new, ![p].at = "drive"]
  BY DEF InsertRun
<1>3. /\ new \in Row /\ new.pid = p /\ new.state = "contract_ready" /\ new # NoRow
      /\ "drive" \in Steps /\ ~Ended(new)
  BY MovesAre DEF Row, RunStates, Steps, Moves, Ended
<1> HIDE DEF r, new
<1>4. Notes(p, r, "drive", new)
  <2>1. [cmd EXCEPT ![p].seen[r] = new, ![p].at = "drive"] = [cmd EXCEPT ![p].at = "drive", ![p].seen[r] = new]
    OBVIOUS
  <2> QED
    BY <1>2, <2>1 DEF Notes
<1>5. /\ Others(p) /\ MemTyped'
      /\ cmd'[p].at = "drive" /\ cmd'[p].todo = {r} /\ cmd'[p].seen[r] = new
      /\ \A s \in Run \ {r} : cmd'[p].seen[s] = cmd[p].seen[s]
  BY <1>1, <1>3, <1>4, NotesDoes DEF CmdInv, Beside
<1>6. /\ row' \in [Run -> Row \cup {NoRow}] /\ row'[r] = new /\ \A s \in Run \ {r} : row'[s] = row[s]
      /\ trees \subseteq trees' /\ trees' \subseteq Run /\ r \in trees'
  BY <1>1, <1>2, <1>3 DEF CmdInv, Beside, RowTyped
<1>7. On(p, {"insert", "save", "drive"}, r)
  BY <1>1 DEF On
<1>8. ~Ended(row'[r]) /\ ~Ended(cmd'[p].seen[r])
  BY <1>3, <1>5, <1>6
<1> QED
  BY <1>1, <1>2, <1>3, <1>5, <1>6, <1>7, <1>8, WritesOwn

\* The row of a run, with another pid.
LEMMA PidUpdate ==
    ASSUME NEW f \in [Run -> Row \cup {NoRow}], NEW r \in Run, f[r] # NoRow, NEW p \in Proc
    PROVE  LET g == [f EXCEPT ![r].pid = p]
           IN  /\ g \in [Run -> Row \cup {NoRow}] /\ \A s \in Run \ {r} : g[s] = f[s]
               /\ g[r].pid = p /\ g[r].state = f[r].state /\ g[r] # NoRow
  BY DEF Row

LEMMA StepSaveProgress == ASSUME IInv, CmdInv, NEW p \in Proc, SaveProgress(p) PROVE CmdInv'
<1> DEFINE r == Target(p)
<1>1. r \in Run /\ cmd[p].todo = {r} /\ cmd[p].at = "drive"
  BY TargetIs DEF CmdInv, Beside, SaveProgress, At, OnOne, HasSeen, Cleaning, Marking
<1>2. row' = [row EXCEPT ![r].pid = p] /\ UNCHANGED <<lockVars, trees, cmd, past>>
  BY DEF SaveProgress
<1> HIDE DEF r
<1>3. On(p, {"drive"}, r) /\ On(p, HasSeen, r) /\ On(p, Working, r) /\ On(p, {"insert", "save", "drive"}, r)
      /\ On(p, {"drive", "finish"}, r)
  BY <1>1 DEF On, HasSeen, Working
<1>4. pc[p] = "holding" /\ cmd[p].seen[r] # NoRow /\ row[r] # NoRow
  BY <1>1, <1>3 DEF CmdInv, Beside, Engaged, Aimed
<1>5. /\ row' \in [Run -> Row \cup {NoRow}] /\ \A s \in Run \ {r} : row'[s] = row[s]
      /\ row'[r].pid = p /\ row'[r].state = row[r].state /\ row'[r] # NoRow
  BY <1>1, <1>2, <1>4, PidUpdate DEF CmdInv, Beside, RowTyped
<1>6. r \in Fresh => ~Ended(row'[r]) /\ ~Ended(cmd'[p].seen[r]) /\ r \in trees'
  BY <1>1, <1>2, <1>3, <1>5 DEF CmdInv, Untouched, Ended
<1>7. Others(p) /\ MemTyped' /\ trees' \subseteq Run /\ trees \subseteq trees' /\ UNCHANGED <<lockVars, past>>
      /\ cmd' = cmd
  BY <1>2 DEF Others, MemTyped, CmdInv, Beside, RowTyped
<1> QED
  BY <1>1, <1>3, <1>4, <1>5, <1>6, <1>7, WritesOwn

LEMMA StepSaveOwner == ASSUME IInv, CmdInv, NEW p \in Proc, SaveOwner(p) PROVE CmdInv'
<1> DEFINE r == Target(p)
<1>1. r \in Run /\ cmd[p].todo = {r} /\ cmd[p].at = "save" /\ pc[p] = "holding"
  BY TargetIs DEF CmdInv, Beside, SaveOwner, At, OnOne, HasSeen, Cleaning, Marking
<1>2. /\ row' = [row EXCEPT ![r].pid = p] /\ UNCHANGED <<lockVars, past>> /\ trees' = trees \cup {r}
      /\ cmd' = [cmd EXCEPT ![p].seen[r].pid = p, ![p].at = "drive"]
  BY DEF SaveOwner
<1> HIDE DEF r
<1>3. On(p, {"save"}, r) /\ On(p, HasSeen, r) /\ On(p, {"insert", "save", "drive"}, r)
  BY <1>1 DEF On, HasSeen
<1>4. r \notin Fresh /\ cmd[p].seen[r] # NoRow /\ row[r] # NoRow
  BY <1>1, <1>3 DEF CmdInv, Beside, Engaged, Aimed, Fresh
<1>5. /\ row' \in [Run -> Row \cup {NoRow}] /\ \A s \in Run \ {r} : row'[s] = row[s]
      /\ row'[r].pid = p /\ row'[r].state = row[r].state /\ row'[r] # NoRow
  BY <1>1, <1>2, <1>4, PidUpdate DEF CmdInv, Beside, RowTyped
<1> DEFINE f   == cmd[p].seen
           one == [cmd EXCEPT ![p].seen[r].pid = p]
           g   == [f EXCEPT ![r].pid = p]
<1>f. f \in [Run -> Row \cup {NoRow}] /\ f[r] # NoRow /\ f = cmd[p].seen
  BY <1>4 DEF CmdInv, Beside, MemTyped
<1>6. one[p] = [cmd[p] EXCEPT !.seen[r].pid = p] /\ DOMAIN one = Proc /\ \A q \in Proc \ {p} : one[q] = cmd[q]
  BY DEF CmdInv, Beside, MemTyped
<1>7. cmd[p] = [at |-> cmd[p].at, todo |-> cmd[p].todo, seen |-> f]
  BY DEF CmdInv, Beside, MemTyped
<1>8. cmd' = [one EXCEPT ![p].at = "drive"]
  BY <1>2
<1> HIDE DEF f, one
<1>9. one[p] = [at |-> cmd[p].at, todo |-> cmd[p].todo, seen |-> g]
  BY <1>6, <1>7
<1>10. /\ g \in [Run -> Row \cup {NoRow}] /\ \A s \in Run \ {r} : g[s] = f[s]
       /\ g[r].pid = p /\ g[r] # NoRow
  BY <1>1, <1>f, PidUpdate
<1> HIDE DEF g
<1>11. cmd'[p] = [one[p] EXCEPT !.at = "drive"]
  BY <1>6, <1>8
<1>12. cmd'[p] = [at |-> "drive", todo |-> cmd[p].todo, seen |-> g]
  BY <1>9, <1>11
<1>13. cmd' = [q \in Proc |-> IF q = p THEN cmd'[p] ELSE cmd[q]]
  BY <1>6, <1>8
<1>14. MemTyped' /\ Others(p)
  BY <1>10, <1>12, <1>13 DEF MemTyped, Others, Steps, CmdInv, Beside
<1>15. /\ cmd'[p].at = "drive" /\ cmd'[p].todo = {r} /\ cmd'[p].seen = g
  BY <1>1, <1>12
<1>16. trees \subseteq trees' /\ trees' \subseteq Run
  BY <1>1, <1>2 DEF CmdInv, Beside, RowTyped
<1>17. /\ cmd'[p].seen[r] # NoRow /\ cmd'[p].seen[r].pid = p
       /\ \A s \in Run \ {r} : cmd'[p].seen[s] = cmd[p].seen[s]
  BY <1>f, <1>10, <1>15
<1> HIDE DEF g
<1>18. cmd'[p].at = "drive" /\ cmd'[p].todo = {r} /\ r \in Run /\ pc[p] = "holding"
       /\ UNCHANGED <<lockVars, past>>
  BY <1>1, <1>2, <1>15
<1> QED
  BY <1>3, <1>4, <1>5, <1>14, <1>16, <1>17, <1>18, WritesOwn

LEMMA StepDrive ==
    ASSUME IInv, CmdInv, NEW p \in Proc, NEW to \in EngineStates, Drive(p, to) PROVE CmdInv'
<1> DEFINE r    == Target(p)
           step == IF to \in Terminal THEN "finish" ELSE "drive"
<1>1. r \in Run /\ cmd[p].todo = {r} /\ cmd[p].at = "drive"
  BY TargetIs DEF CmdInv, Beside, Drive, At, OnOne, HasSeen, Cleaning, Marking
<1>2. /\ CanTransition(cmd[p].seen[r].state, to) /\ SetState(p, r, to, step)
      /\ UNCHANGED <<lockVars, trees, past>>
  BY DEF Drive, Seen
<1>3. step \in {"drive", "finish"} /\ (step = "drive" => to \notin Terminal) /\ step \in Steps
  BY DEF Steps
<1> HIDE DEF r, step
<1>4. On(p, {"drive"}, r) /\ On(p, HasSeen, r) /\ On(p, Working, r) /\ On(p, {"insert", "save", "drive"}, r)
  BY <1>1 DEF On, HasSeen, Working
<1>5. to \in RunStates /\ cmd[p].seen[r] # NoRow /\ row[r] # NoRow
  BY <1>1, <1>4 DEF CmdInv, Beside, Aimed
<1>6. PastTyped' /\ past'.resumed = past.resumed /\ past'.stopped \subseteq past.stopped \cup {r}
  BY <1>2 DEF CmdInv, Beside, PastTyped
<1>7. Beside'
  BY <1>1, <1>2, <1>3, <1>5, <1>6, SetStateKeeps DEF CmdInv
<1>8. /\ Others(p) /\ \A s \in Run \ {r} : row'[s] = row[s]
      /\ cmd'[p].at = step /\ cmd'[p].todo = {r} /\ row'[r].pid = row[r].pid
      /\ row'[r].state = to /\ cmd'[p].seen[r].state = to
  BY <1>1, <1>2, <1>3, <1>5, SetStateDoes DEF CmdInv, Beside
<1>9. r \in Fresh => row[r].pid = p /\ r \in trees
  BY <1>1, <1>4 DEF CmdInv, Untouched
<1>10. r \in Fresh /\ cmd'[p].at = "drive" =>
               /\ row'[r].pid = p /\ ~Ended(row'[r])
               /\ ~Ended(cmd'[p].seen[r]) /\ r \in trees'
  BY <1>2, <1>3, <1>8, <1>9 DEF Ended
<1>11. Untouched' /\ Cancels' /\ Cures'
  BY <1>1, <1>2, <1>3, <1>4, <1>8, <1>10, EngineKeeps
<1> QED
  BY <1>7, <1>11 DEF CmdInv

\* doctor marks a run as failed and goes on to the next.
LEMMA FailedIs ==
    ASSUME NEW f \in [Run -> Row \cup {NoRow}], NEW r \in Run, f[r] # NoRow
    PROVE  LET g == [f EXCEPT ![r].state = "failed"]
           IN  /\ g \in [Run -> Row \cup {NoRow}] /\ \A s \in Run \ {r} : g[s] = f[s]
               /\ g[r].pid = f[r].pid /\ g[r].state = "failed" /\ g[r] # NoRow
  BY DEF Row, RunStates, Terminal

LEMMA StepDoctorSet ==
    ASSUME IInv, CmdInv, NEW p \in Proc, NEW r \in Run, DoctorSet(p, r) PROVE CmdInv'
<1> DEFINE one == [cmd EXCEPT ![p].todo = @ \ {r}]
<1>1. /\ cmd[p].at = "doctor_set" /\ r \in cmd[p].todo /\ cmd[p].seen[r] # NoRow
      /\ row' = [row EXCEPT ![r].state = "failed"]
      /\ cmd' = [cmd EXCEPT ![p].at = "doctor", ![p].todo = @ \ {r}, ![p].seen[r] = NoRow]
      /\ UNCHANGED <<lockVars, trees, past>>
  BY DEF DoctorSet, At
<1>2. row[r] # NoRow
  BY <1>1 DEF CmdInv, Beside, Aimed
<1>3. /\ row' \in [Run -> Row \cup {NoRow}] /\ \A s \in Run \ {r} : row'[s] = row[s]
      /\ row'[r].pid = row[r].pid /\ row'[r].state = "failed" /\ row'[r] # NoRow
  BY <1>1, <1>2, FailedIs DEF CmdInv, Beside, RowTyped
<1>4. /\ Others(p) /\ MemTyped'
      /\ cmd'[p].at = "doctor" /\ cmd'[p].todo = cmd[p].todo \ {r} /\ cmd'[p].seen[r] = NoRow
      /\ \A s \in Run \ {r} : cmd'[p].seen[s] = cmd[p].seen[s]
  <2> DEFINE f   == cmd[p].seen
             t   == cmd[p].todo
             b   == [cmd EXCEPT ![p].at = "doctor", ![p].todo = @ \ {r}]
  <2>1. cmd[p] = [at |-> cmd[p].at, todo |-> t, seen |-> f] /\ f \in [Run -> Row \cup {NoRow}] /\ t \subseteq Run
    BY DEF CmdInv, Beside, MemTyped
  <2>2. DOMAIN b = Proc /\ \A q \in Proc \ {p} : b[q] = cmd[q]
    BY DEF CmdInv, Beside, MemTyped
  <2>3. b[p] = [at |-> "doctor", todo |-> t \ {r}, seen |-> f]
    BY <2>1 DEF CmdInv, Beside, MemTyped
  <2>4. cmd' = [b EXCEPT ![p].seen[r] = NoRow]
    BY <1>1
  <2>f. f = cmd[p].seen /\ t = cmd[p].todo
    OBVIOUS
  <2> HIDE DEF f, t, b
  <2>5. cmd'[p] = [b[p] EXCEPT !.seen[r] = NoRow]
    BY <2>2, <2>4
  <2>6. cmd'[p] = [at |-> "doctor", todo |-> t \ {r}, seen |-> [f EXCEPT ![r] = NoRow]]
    BY <2>3, <2>5, SeenUpdate
  <2>7. cmd' = [q \in Proc |-> IF q = p THEN cmd'[p] ELSE cmd[q]]
    BY <2>2, <2>4
  <2>8. [f EXCEPT ![r] = NoRow] \in [Run -> Row \cup {NoRow}]
    BY <2>1
  <2>9. MemTyped' /\ Others(p)
    BY <2>1, <2>6, <2>7, <2>8 DEF MemTyped, Others, Steps, CmdInv, Beside
  <2> QED
    BY <2>1, <2>6, <2>9, <2>f
<1>5. On(p, Curing, r) /\ On(p, Late, r)
  BY <1>1 DEF On, Curing, Late
<1>6. Unworked(r)
  BY <1>5 DEF CmdInv, Untouched, Unworked
<1>7. /\ RowTyped' /\ PastTyped' /\ past'.resumed = past.resumed /\ past' = past /\ trees' = trees
      /\ Looser
  BY <1>1, <1>3, QuietIsLooser DEF CmdInv, Beside, RowTyped, PastTyped
<1>8. /\ cmd[p].at \notin Engine \cup {"done"} /\ cmd'[p].at \notin Engine
      /\ cmd'[p].at \notin OnOne /\ cmd'[p].at \notin HasSeen /\ cmd'[p].at \notin Cleaning
      /\ cmd'[p].at \notin Marking \cup {"cancel_release"} /\ cmd'[p].at \notin Working
      /\ cmd'[p].at \notin {"cancel_mark", "cancel_kill"} \cup Cleaning
  BY <1>1, <1>4 DEF Engine, Working, Marking, Cleaning, HasSeen, OnOne
<1>9. \A s \in Run : /\ ~On(p, HasSeen, s)'
                     /\ ~On(p, {"cancel_mark", "cancel_kill"} \cup Cleaning, s)' /\ ~On(p, Cleaning, s)'
                     /\ On(p, Curing, s)' => On(p, Curing, s) /\ s # r
                     /\ On(p, Late, s)' => On(p, Late, s) /\ s # r
  BY <1>1, <1>4, <1>8 DEF On, Curing, Late
<1>10. Beside'
  BY <1>1, <1>2, <1>3, <1>4, <1>7, <1>8, <1>9, CommandKeeps DEF CmdInv
<1>11. Untouched'
  <2> SUFFICES ASSUME NEW s \in Fresh, NEW w \in Proc, On(w, Working, s)'
               PROVE  /\ cmd'[w].at = "insert" => row'[s] = NoRow
                      /\ cmd'[w].at = "drive" =>
                            /\ row'[s].pid = w /\ ~Ended(row'[s])
                            /\ ~Ended(cmd'[w].seen[s]) /\ s \in trees'
                      /\ s \notin past'.stopped
                      /\ \A q \in Proc :
                            /\ ~On(q, Late, s)'
                            /\ On(q, {"cancel_mark", "cancel_kill"} \cup Cleaning, s)'
                                    => cmd'[q].seen[s].pid = w
                            /\ On(q, Cleaning, s)' => ~Ended(cmd'[q].seen[s])
                      /\ \A x \in LockPath : IsHolder(x)' /\ file'[x].run = s => file'[x].pid = w
    BY <1>7 DEF Untouched, Fresh, On, Ended, IsHolder
  <2>1. w # p /\ cmd'[w] = cmd[w] /\ On(w, Working, s) /\ s \in Run
    BY <1>4, <1>8 DEF On, Others, Fresh
  <2>2. s # r
    BY <1>6, <2>1 DEF Unworked
  <2>3. row'[s] = row[s]
    BY <1>3, <2>1, <2>2
  <2>4. ASSUME NEW q \in Proc
        PROVE  /\ ~On(q, Late, s)'
               /\ On(q, {"cancel_mark", "cancel_kill"} \cup Cleaning, s)' => cmd'[q].seen[s].pid = w
               /\ On(q, Cleaning, s)' => ~Ended(cmd'[q].seen[s])
    <3>1. CASE q = p
      BY <1>9, <2>1, <3>1 DEF CmdInv, Untouched
    <3>2. CASE q # p
      BY <1>4, <2>1, <3>2 DEF CmdInv, Untouched, On, Others, Ended
    <3> QED
      BY <3>1, <3>2
  <2>5. /\ cmd'[w].at = "insert" => row'[s] = NoRow
        /\ cmd'[w].at = "drive" => /\ row'[s].pid = w /\ ~Ended(row'[s])
                                   /\ ~Ended(cmd'[w].seen[s]) /\ s \in trees'
        /\ s \notin past'.stopped
    BY <1>7, <2>1, <2>3 DEF CmdInv, Untouched, Ended
  <2>6. \A x \in LockPath : IsHolder(x)' /\ file'[x].run = s => file'[x].pid = w
    BY <1>7, <2>1 DEF CmdInv, Untouched, Looser
  <2> QED
    BY <2>4, <2>5, <2>6
<1>12. Cancels'
  <2>1. \A s \in Fresh : row[s] # NoRow /\ Ended(row[s]) => Ended(row'[s])
    BY <1>3, MovesAre DEF Fresh, Ended, Moves
  <2> QED
    BY <1>4, <1>7, <1>8, <2>1, MarkedHaveRows, CancelsKept DEF CmdInv, Others
<1>13. Cures'
  <2> SUFFICES ASSUME NEW s \in Fresh \ past.cancels, NEW q \in Proc,
                      On(q, Curing, s)', cmd'[q].seen[s] # NoRow
               PROVE  row'[s].state # "accepted"
    BY <1>7 DEF Cures, Fresh
  <2>1. CASE s = r
    BY <1>3, <2>1
  <2>2. CASE s # r
    <3>1. On(q, Curing, s) /\ cmd'[q].seen[s] = cmd[q].seen[s]
      BY <1>4, <1>9, <2>2 DEF On, Others, Fresh
    <3> QED
      BY <1>3, <2>2, <3>1 DEF CmdInv, Cures, Fresh
  <2> QED
    BY <2>1, <2>2
<1> QED
  BY <1>10, <1>11, <1>12, <1>13 DEF CmdInv

-----------------------------------------------------------------------------
(* Taking the lock *)

\* What is known of no run that no lock was granted for.
LEMMA Unheard ==
    ASSUME CmdInv, NEW r \in Run \ started
    PROVE  /\ row[r] = NoRow /\ r \notin past.stopped
           /\ \A q \in Proc : /\ ~(Active(q) /\ claim[q].run = r)
                              /\ ~On(q, HasSeen, r) /\ ~On(q, Curing, r)
           /\ \A x \in LockPath : IsHolder(x) => file[x].run # r
<1>1. row[r] = NoRow /\ r \notin past.stopped
  BY DEF CmdInv, Beside, Granted
<1>2. \A q \in Proc : ~On(q, HasSeen, r)
  BY <1>1 DEF CmdInv, Beside, Aimed
<1>3. /\ \A q \in Proc : ~(Active(q) /\ claim[q].run = r) /\ ~On(q, Curing, r)
      /\ \A x \in LockPath : IsHolder(x) => file[x].run # r
  BY DEF CmdInv, Beside, Granted
<1> QED
  BY <1>1, <1>2, <1>3

\* The lock is granted to a start of r, or to a resume.
Takes(p, r) ==
    /\ pc[p] = "idle" /\ pc' = [pc EXCEPT ![p] = "creating"]
    /\ claim' = [claim EXCEPT ![p] = ClaimOf(r)] /\ started' = started \cup {r}
    /\ UNCHANGED <<revoked, row, trees>>
    /\ \A x \in LockPath : IsHolder(x)' => IsHolder(x) /\ file'[x] = file[x]
    /\ Others(p) /\ MemTyped' /\ PastTyped'
    /\ cmd'[p].todo = {r}
    /\ past'.cancels = past.cancels /\ past'.again = past.again /\ past'.stopped = past.stopped
    /\ \/ /\ cmd[p].at = "none" /\ cmd'[p].at = "insert" /\ r \notin started
          /\ past'.resumed = past.resumed
          /\ \A s \in Run : cmd'[p].seen[s] = NoRow
       \/ /\ cmd[p].at = "want_resume" /\ cmd'[p].at = "save" /\ cmd[p].todo = {r}
          /\ past'.resumed = past.resumed \cup {r}
          /\ cmd'[p].seen = cmd[p].seen

LEMMA TakesKeeps ==
    ASSUME IInv, CmdInv, NEW p \in Proc, NEW r \in Run, Takes(p, r)
    PROVE  CmdInv'
<1> USE DEF CmdInv
<1>0. ClaimOf(r) \in Claim /\ ClaimOf(r).run = r
  BY DEF ClaimOf, Claim
<1>1. /\ \A q \in Proc \ {p} : /\ pc'[q] = pc[q] /\ claim'[q] = claim[q] /\ cmd'[q] = cmd[q]
                               /\ Active(q)' <=> Active(q)
      /\ Active(p)' /\ ~Active(p) /\ claim'[p] = ClaimOf(r) /\ pc'[p] = "creating"
      /\ row' = row /\ trees' = trees /\ revoked' = revoked
      /\ past.resumed \subseteq past'.resumed
  BY DEF Takes, Active, IInv, LockTypeOK, Others
<1>2. cmd'[p].at \in {"insert", "save"} /\ cmd'[p].todo = {r} /\ cmd[p].at \in {"none", "want_resume"}
  BY DEF Takes
<1>3. \A s \in Run : /\ ~On(p, Late, s)' /\ ~On(p, Cleaning, s)' /\ ~On(p, Curing, s)'
                     /\ ~On(p, {"cancel_mark", "cancel_kill"} \cup Cleaning, s)'
                     /\ ~On(p, {"drive"}, s)' /\ ~On(p, {"drive", "finish"}, s)'
  BY <1>2 DEF On, Late, Curing, Cleaning, Marking
<1>4. RowTyped' /\ PastTyped' /\ MemTyped'
  BY <1>1 DEF Beside, RowTyped, Takes
<1>5. Aimed'
  <2>1. \A s \in Run : On(p, HasSeen, s)' => cmd'[p].seen[s] # NoRow
    <3>1. CASE cmd'[p].at = "insert"
      BY <3>1 DEF On, HasSeen, Marking, Cleaning
    <3>2. CASE cmd'[p].at = "save"
      <4>1. On(p, HasSeen, r) /\ cmd'[p].seen = cmd[p].seen
        BY <3>2 DEF Takes, On, HasSeen
      <4> QED
        BY <1>2, <4>1 DEF Beside, Aimed, On
    <3> QED
      BY <1>2, <3>1, <3>2
  <2>2. \A s \in Run : cmd'[p].seen[s] # NoRow => row[s] # NoRow
    BY DEF Takes, Beside, Aimed
  <2> QED
    BY <1>1, <1>2, <2>1, <2>2 DEF Beside, Aimed, On
<1>6. Manned'
  <2>1. \A q \in Proc : HasDriven(q) => HasDriven(q)'
    BY <1>1, <1>2 DEF Takes, HasDriven, Engine, Working
  <2>2. \A q \in Proc, s \in Run : cmd'[q].seen[s] # NoRow => cmd'[q].seen[s] = cmd[q].seen[s]
    BY <1>1 DEF Takes
  <2> QED
    BY <1>1, <2>1, <2>2, RowParts DEF Beside, Manned, HasDriven
<1>7. Granted'
  <2>1. \A q \in Proc : Active(q)' => claim'[q] = ClaimOf(claim'[q].run) /\ claim'[q].run \in started'
    <3> SUFFICES ASSUME NEW q \in Proc, Active(q)'
                 PROVE  claim'[q] = ClaimOf(claim'[q].run) /\ claim'[q].run \in started'
      OBVIOUS
    <3>1. CASE q = p
      BY <1>0, <1>1, <3>1 DEF Takes
    <3>2. CASE q # p
      BY <1>1, <3>2 DEF Takes, Beside, Granted
    <3> QED
      BY <3>1, <3>2
  <2>2. \A q \in Proc, s \in Run : On(q, Curing, s)' => s \in started'
    <3>1. \A q \in Proc \ {p}, s \in Run : On(q, Curing, s)' => On(q, Curing, s)
      BY <1>1 DEF On
    <3> QED
      BY <1>3, <3>1 DEF Takes, Beside, Granted
  <2>3. \A s \in Run : row'[s] # NoRow => s \in started'
    BY <1>1 DEF Takes, Beside, Granted
  <2>4. \A x \in LockPath : IsHolder(x)' => file'[x].run \in started'
    BY DEF Takes, Beside, Granted
  <2>5. \A s \in past'.stopped : row'[s] # NoRow
    BY <1>1 DEF Takes, Beside, Granted
  <2> QED
    BY <2>1, <2>2, <2>3, <2>4, <2>5 DEF Granted, ClaimOf
<1>8. Engaged'
  <2> SUFFICES ASSUME NEW q \in Proc, NEW s \in Run
               PROVE  /\ On(q, Engine, s)' => Active(q)' /\ claim'[q].run = s
                      /\ On(q, {"drive", "finish"}, s)' => pc'[q] = "holding"
                      /\ On(q, {"save"}, s)' => s \in past'.resumed
    BY DEF Engaged, On, Active
  <2>1. CASE q = p
    BY <1>0, <1>1, <1>2, <1>3, <2>1 DEF Takes, On
  <2>2. CASE q # p
    <3>1. /\ On(q, Engine, s)' <=> On(q, Engine, s)
          /\ On(q, {"drive", "finish"}, s)' <=> On(q, {"drive", "finish"}, s)
          /\ On(q, {"save"}, s)' <=> On(q, {"save"}, s)
      BY <1>1, <2>2 DEF On
    <3> QED
      BY <1>1, <2>2, <3>1 DEF Beside, Engaged
  <2> QED
    BY <2>1, <2>2
<1>9. Sole'
  <2> SUFFICES ASSUME NEW s \in Run \ past'.resumed, NEW v \in Proc, NEW q \in Proc,
                      Active(v)', Active(q)', claim'[v].run = s, claim'[q].run = s, v # q
               PROVE  FALSE
    BY DEF Sole, Fresh, Active
  <2>1. s \in Fresh
    BY <1>1 DEF Fresh
  <2>2. CASE v # p /\ q # p
    BY <1>1, <2>1, <2>2 DEF Beside, Sole
  <2>3. CASE v = p \/ q = p
    <3>1. s = r /\ r \notin started
      BY <1>0, <1>1, <2>3 DEF Takes
    <3>2. \A u \in Proc : ~(Active(u) /\ claim[u].run = r)
      BY <3>1, Unheard
    <3> QED
      BY <1>1, <2>3, <3>1, <3>2
  <2> QED
    BY <2>2, <2>3
<1>10. Owned'
  <2>1. \A q \in Proc, s \in Run : On(q, {"drive"}, s)' => On(q, {"drive"}, s)
    BY <1>1, <1>3 DEF On
  <2> QED
    BY <1>1, <2>1 DEF Beside, Owned
<1>11. Untouched'
  <2> SUFFICES ASSUME NEW s \in Run \ past'.resumed, NEW w \in Proc, On(w, Working, s)'
               PROVE  /\ cmd'[w].at = "insert" => row'[s] = NoRow
                      /\ cmd'[w].at = "drive" =>
                            /\ row'[s].pid = w /\ ~Ended(row'[s])
                            /\ ~Ended(cmd'[w].seen[s]) /\ s \in trees'
                      /\ s \notin past'.stopped
                      /\ \A q \in Proc :
                            /\ ~On(q, Late, s)'
                            /\ On(q, {"cancel_mark", "cancel_kill"} \cup Cleaning, s)'
                                    => cmd'[q].seen[s].pid = w
                            /\ On(q, Cleaning, s)' => ~Ended(cmd'[q].seen[s])
                      /\ \A y \in LockPath : IsHolder(y)' /\ file'[y].run = s => file'[y].pid = w
    BY DEF Untouched, Fresh, On, Ended, IsHolder
  <2>1. s \in Fresh
    BY <1>1 DEF Fresh
  <2>2. CASE w = p
    <3>1. s = r /\ cmd'[w].at = "insert" /\ r \notin started
      BY <1>2, <2>2 DEF Takes, On, Working
    <3>2. /\ row[r] = NoRow /\ r \notin past.stopped
          /\ \A q \in Proc : ~On(q, HasSeen, r) /\ ~On(q, Curing, r)
          /\ \A x \in LockPath : IsHolder(x) => file[x].run # r
      BY <3>1, Unheard
    <3>3. \A q \in Proc : /\ ~On(q, Late, s)' /\ ~On(q, Cleaning, s)'
                          /\ ~On(q, {"cancel_mark", "cancel_kill"} \cup Cleaning, s)'
      <4> SUFFICES ASSUME NEW q \in Proc, q # p
                   PROVE  /\ ~On(q, Late, s)' /\ ~On(q, Cleaning, s)'
                          /\ ~On(q, {"cancel_mark", "cancel_kill"} \cup Cleaning, s)'
        BY <1>3
      <4>1. cmd'[q] = cmd[q] /\ ~On(q, HasSeen, s) /\ ~On(q, Curing, s)
        BY <1>1, <3>1, <3>2
      <4> QED
        BY <4>1 DEF On, Late, HasSeen, Marking, Cleaning
    <3>4. \A y \in LockPath : IsHolder(y)' => file'[y].run # s
      BY <3>1, <3>2 DEF Takes
    <3> QED
      BY <1>1, <3>1, <3>2, <3>3, <3>4 DEF Takes
  <2>3. CASE w # p
    <3>1. On(w, Working, s) /\ cmd'[w] = cmd[w]
      BY <1>1, <2>3 DEF On
    <3>2. /\ cmd'[w].at = "insert" => row'[s] = NoRow
          /\ cmd'[w].at = "drive" => /\ row'[s].pid = w /\ ~Ended(row'[s])
                                     /\ ~Ended(cmd'[w].seen[s]) /\ s \in trees'
          /\ s \notin past'.stopped
      BY <1>1, <2>1, <3>1 DEF Untouched, Takes
    <3>3. ASSUME NEW q \in Proc
          PROVE  /\ ~On(q, Late, s)'
                 /\ On(q, {"cancel_mark", "cancel_kill"} \cup Cleaning, s)' => cmd'[q].seen[s].pid = w
                 /\ On(q, Cleaning, s)' => ~Ended(cmd'[q].seen[s])
      <4>1. CASE q = p
        BY <1>3, <4>1
      <4>2. CASE q # p
        BY <1>1, <2>1, <3>1, <4>2 DEF Untouched, On, Ended
      <4> QED
        BY <4>1, <4>2
    <3>4. \A y \in LockPath : IsHolder(y)' /\ file'[y].run = s => file'[y].pid = w
      BY <2>1, <3>1 DEF Untouched, Takes
    <3> QED
      BY <3>2, <3>3, <3>4
  <2> QED
    BY <2>2, <2>3
<1>12. Cancels'
  <2>1. cmd'[p].at \notin Marking \cup {"cancel_release"}
    BY <1>2 DEF Marking
  <2>2. /\ past'.stopped = past.stopped /\ past'.cancels = past.cancels /\ past'.again = past.again
    BY DEF Takes
  <2> QED
    BY <1>1, <2>1, <2>2, MarkedHaveRows, CancelsKept
<1>13. Cures'
  <2> SUFFICES ASSUME NEW s \in Run \ (past'.resumed \cup past'.cancels), NEW q \in Proc,
                      On(q, Curing, s)', cmd'[q].seen[s] # NoRow
               PROVE  row'[s].state # "accepted"
    BY DEF Cures, Fresh
  <2>1. s \in Fresh \ past.cancels /\ q # p
    BY <1>1, <1>3 DEF Fresh, Takes
  <2>2. On(q, Curing, s) /\ cmd'[q] = cmd[q]
    BY <1>1, <2>1 DEF On
  <2> QED
    BY <1>1, <2>1, <2>2 DEF Cures
<1> QED
  BY <1>4, <1>5, <1>6, <1>7, <1>8, <1>9, <1>10, <1>11, <1>12, <1>13 DEF Beside

\* What acquire_with does to the lock, for whatever command.
LEMMA AcquireDoes ==
    ASSUME IInv, NEW p \in Proc, NEW c \in Claim, NEW resume \in BOOLEAN, Acquire(p, c, resume)
    PROVE  /\ pc[p] = "idle" /\ pc' = [pc EXCEPT ![p] = "creating"]
           /\ claim' = [claim EXCEPT ![p] = c] /\ started' = started \cup {c.run}
           /\ revoked' = revoked
           /\ \A x \in LockPath : IsHolder(x)' => IsHolder(x) /\ file'[x] = file[x]
<1>1. PathOf(c) \in LockPath
  BY PathOfType
<1>2. Without(Stale(c.run, resume)) \in [LockPath -> Holder \cup {Absent, Malformed}]
  BY DEF Without, IInv, LockTypeOK
<1>3. \A x \in LockPath : file'[x] = IF x = PathOf(c) THEN Malformed ELSE Without(Stale(c.run, resume))[x]
  BY <1>1, <1>2 DEF Acquire
<1>4. \A x \in LockPath : IsHolder(x)' => IsHolder(x) /\ file'[x] = file[x]
  BY <1>3, Distinct DEF Without, IsHolder
<1> QED
  BY <1>4 DEF Acquire

LEMMA RefuseDoes ==
    ASSUME IInv, NEW p \in Proc, NEW c \in Claim, NEW resume \in BOOLEAN, Refuse(p, c, resume)
    PROVE  /\ pc' = [pc EXCEPT ![p] = "gone"] /\ UNCHANGED <<claim, started, revoked>>
           /\ \A x \in LockPath : IsHolder(x)' => IsHolder(x) /\ file'[x] = file[x]
<1>1. \A x \in LockPath : IsHolder(x)' => IsHolder(x) /\ file'[x] = file[x]
  BY Distinct DEF Refuse, Without, IsHolder
<1> QED
  BY <1>1 DEF Refuse

LEMMA StepRunStart ==
    ASSUME IInv, CmdInv, NEW p \in Proc, NEW r \in Run, RunStart(p, r) PROVE CmdInv'
<1>0. ClaimOf(r) \in Claim /\ ClaimOf(r).run = r
  BY DEF ClaimOf, Claim
<1>1. /\ cmd[p].at = "none" /\ r \notin started
      /\ Acquire(p, ClaimOf(r), FALSE) \/ Refuse(p, ClaimOf(r), FALSE)
      /\ cmd' = [cmd EXCEPT ![p] = IF pc'[p] = "gone" THEN Idle ELSE Begun("insert", {r})]
      /\ UNCHANGED <<row, trees, past>>
  BY <1>0 DEF RunStart, Start, At, Begun
<1>2. CASE Acquire(p, ClaimOf(r), FALSE)
  <2>1. /\ pc[p] = "idle" /\ pc' = [pc EXCEPT ![p] = "creating"]
        /\ claim' = [claim EXCEPT ![p] = ClaimOf(r)] /\ started' = started \cup {r}
        /\ revoked' = revoked
        /\ \A x \in LockPath : IsHolder(x)' => IsHolder(x) /\ file'[x] = file[x]
    BY <1>0, <1>2, AcquireDoes
  <2>2. pc'[p] # "gone"
    BY <2>1 DEF IInv, LockTypeOK
  <2>3. cmd' = [cmd EXCEPT ![p] = [at |-> "insert", todo |-> {r}, seen |-> [s \in Run |-> NoRow]]]
    BY <1>1, <2>2, BegunIs
  <2>4. /\ Others(p) /\ MemTyped' /\ cmd'[p].at = "insert" /\ cmd'[p].todo = {r}
        /\ \A s \in Run : cmd'[p].seen[s] = NoRow
    BY <2>3 DEF CmdInv, Beside, MemTyped, Others, Steps
  <2>5. Takes(p, r)
    BY <1>1, <2>1, <2>4 DEF Takes, CmdInv, Beside, PastTyped
  <2> QED
    BY <2>5, TakesKeeps
<1>3. CASE Refuse(p, ClaimOf(r), FALSE)
  <2>1. /\ pc' = [pc EXCEPT ![p] = "gone"] /\ UNCHANGED <<claim, started, revoked>>
        /\ \A x \in LockPath : IsHolder(x)' => IsHolder(x) /\ file'[x] = file[x]
    BY <1>0, <1>3, RefuseDoes
  <2>2. cmd' = [cmd EXCEPT ![p] = Idle]
    BY <1>1, <2>1 DEF IInv, LockTypeOK
  <2>3. MemTyped' /\ Others(p) /\ cmd'[p] = Idle
    BY <2>2, IdleTyped DEF CmdInv, Beside, MemTyped, Others
  <2>4. Leaves(p, "gone")
    BY <1>1, <2>1, <2>3, IdleIs DEF Leaves, Others
  <2> QED
    BY <2>4, LeavesKeeps
<1> QED
  BY <1>1, <1>2, <1>3

LEMMA StepResumeLock == ASSUME IInv, CmdInv, NEW p \in Proc, ResumeLock(p) PROVE CmdInv'
<1> DEFINE r == Target(p)
<1>1. r \in Run /\ cmd[p].todo = {r} /\ cmd[p].at = "want_resume"
  BY TargetIs DEF CmdInv, Beside, ResumeLock, At, OnOne, HasSeen, Marking, Cleaning
<1>2. /\ Acquire(p, ClaimOf(r), TRUE) \/ Refuse(p, ClaimOf(r), TRUE)
      /\ cmd' = [cmd EXCEPT ![p] = IF pc'[p] = "gone" THEN Idle ELSE [cmd[p] EXCEPT !.at = "save"]]
      /\ past' = IF pc'[p] = "gone" THEN past ELSE [past EXCEPT !.resumed = @ \cup {r}]
      /\ UNCHANGED <<row, trees>>
  BY DEF ResumeLock, Resume, CmdInv, Beside, MemTyped
<1> HIDE DEF r
<1>0. ClaimOf(r) \in Claim /\ ClaimOf(r).run = r
  BY <1>1 DEF ClaimOf, Claim
<1>3. CASE Acquire(p, ClaimOf(r), TRUE)
  <2>1. /\ pc[p] = "idle" /\ pc' = [pc EXCEPT ![p] = "creating"]
        /\ claim' = [claim EXCEPT ![p] = ClaimOf(r)] /\ started' = started \cup {r}
        /\ revoked' = revoked
        /\ \A x \in LockPath : IsHolder(x)' => IsHolder(x) /\ file'[x] = file[x]
    BY <1>0, <1>3, AcquireDoes
  <2>2. pc'[p] # "gone"
    BY <2>1 DEF IInv, LockTypeOK
  <2>3. cmd' = [cmd EXCEPT ![p] = [cmd[p] EXCEPT !.at = "save"]]
    BY <1>2, <2>2
  <2>4. /\ Others(p) /\ MemTyped' /\ cmd'[p].at = "save" /\ cmd'[p].todo = cmd[p].todo
        /\ cmd'[p].seen = cmd[p].seen
    BY <2>3 DEF CmdInv, Beside, MemTyped, Others, Steps
  <2>5. /\ past' = [past EXCEPT !.resumed = @ \cup {r}]
    BY <1>2, <2>2
  <2>6. /\ PastTyped' /\ past'.resumed = past.resumed \cup {r} /\ past'.cancels = past.cancels
        /\ past'.again = past.again /\ past'.stopped = past.stopped
    BY <1>1, <2>5 DEF CmdInv, Beside, PastTyped
  <2>7. Takes(p, r)
    BY <1>1, <1>2, <2>1, <2>4, <2>6 DEF Takes
  <2> QED
    BY <1>1, <2>7, TakesKeeps
<1>4. CASE Refuse(p, ClaimOf(r), TRUE)
  <2>1. /\ pc' = [pc EXCEPT ![p] = "gone"] /\ UNCHANGED <<claim, started, revoked>>
        /\ \A x \in LockPath : IsHolder(x)' => IsHolder(x) /\ file'[x] = file[x]
    BY <1>0, <1>4, RefuseDoes
  <2>2. cmd' = [cmd EXCEPT ![p] = Idle] /\ past' = past
    BY <1>2, <2>1 DEF IInv, LockTypeOK
  <2>3. MemTyped' /\ Others(p) /\ cmd'[p] = Idle
    BY <2>2, IdleTyped DEF CmdInv, Beside, MemTyped, Others
  <2>4. Leaves(p, "gone")
    BY <1>2, <2>1, <2>2, <2>3, IdleIs DEF Leaves, Others
  <2> QED
    BY <2>4, LeavesKeeps
<1> QED
  BY <1>2, <1>3, <1>4

LEMMA StepAcquireReturns == ASSUME IInv, CmdInv, NEW p \in Proc, AcquireReturns(p) PROVE CmdInv'
<1> USE DEF CmdInv, Beside
<1> DEFINE new == [run |-> claim[p].run, pid |-> p, exclusive |-> Exclusive(claim[p])]
<1>1. /\ pc[p] = "creating" /\ pc' = [pc EXCEPT ![p] = "holding"]
      /\ UNCHANGED <<claim, started, revoked, row, trees, cmd, past>>
      /\ \A x \in LockPath : file'[x] = file[x] \/ file'[x] = new
  BY DEF AcquireReturns, WriteHolder, IInv, LockTypeOK
<1>2. /\ \A q \in Proc : /\ Active(q)' <=> Active(q)
                         /\ pc[q] = "holding" => pc'[q] = "holding"
                         /\ pc[q] = "gone" <=> pc'[q] = "gone"
      /\ Active(p)
  BY <1>1 DEF IInv, LockTypeOK, Active
<1>3. new.run = claim[p].run /\ new.pid = p /\ claim[p].run \in started
  BY <1>2 DEF Granted
<1> HIDE DEF new
<1>4. RowTyped' /\ PastTyped' /\ MemTyped' /\ Aimed'
  BY <1>1 DEF RowTyped, PastTyped, MemTyped, Aimed, On
<1>5. Manned'
  BY <1>1, <1>2, RowParts DEF Manned, HasDriven
<1>6. Granted'
  <2>1. \A q \in Proc, s \in Run : On(q, Curing, s)' => On(q, Curing, s)
    BY <1>1 DEF On
  <2>2. \A x \in LockPath : IsHolder(x)' => (file'[x] = file[x] \/ file'[x].run \in started)
    BY <1>1, <1>3
  <2>3. \A s \in past'.stopped : row'[s] # NoRow
    BY <1>1 DEF Granted
  <2> QED
    BY <1>1, <1>2, <2>1, <2>2, <2>3, KeptGranted
<1>7. Engaged'
  BY <1>1, <1>2 DEF Engaged, On
<1>8. Sole'
  BY <1>1, <1>2, KeptSole DEF Keeping
<1>9. Owned'
  BY <1>1 DEF Owned, On
<1>10. Untouched'
  <2> SUFFICES ASSUME NEW s \in Fresh, NEW w \in Proc, On(w, Working, s)
               PROVE  \A y \in LockPath : IsHolder(y)' /\ file'[y].run = s => file'[y].pid = w
    BY <1>1 DEF Untouched, Fresh, On, Ended, IsHolder
  <2>1. Active(w) /\ claim[w].run = s
    BY DEF Engaged, On, Engine, Fresh
  <2>2. claim[p].run = s => p = w
    BY <1>2, <2>1 DEF Sole
  <2> QED
    BY <1>1, <1>3, <2>2 DEF Untouched, IsHolder
<1>11. Cancels' /\ Cures'
  BY <1>1 DEF Cancels, Cures, Fresh, On, Ended
<1> QED
  BY <1>4, <1>5, <1>6, <1>7, <1>8, <1>9, <1>10, <1>11

-----------------------------------------------------------------------------
(* Every step of the commands *)

LEMMA InitCmdInv == Init => IInv /\ CmdInv
<1> SUFFICES ASSUME Init PROVE IInv /\ CmdInv
  OBVIOUS
<1>1. IInv
  BY InitIInv DEF Init
<1>2. /\ \A p \in Proc : cmd[p].at = "none" /\ cmd[p].todo = {} /\ \A r \in Run : cmd[p].seen[r] = NoRow
      /\ \A r \in Run : row[r] = NoRow
      /\ \A p \in Proc : pc[p] = "idle"
      /\ \A x \in LockPath : ~IsHolder(x)
      /\ past.resumed = {} /\ past.cancels = {} /\ past.again = {} /\ past.stopped = {}
  BY IdleIs, Distinct DEF Init, LockInit, IsHolder
<1>3. \A p \in Proc : \A steps, r : ~On(p, steps, r)
  BY <1>2 DEF On
<1>4. RowTyped /\ PastTyped /\ MemTyped
  BY IdleTyped DEF Init, RowTyped, PastTyped, MemTyped
<1>5. Aimed
  BY <1>2, <1>3 DEF Aimed, OnOne, HasSeen, Marking, Cleaning
<1>6. Manned /\ Granted /\ Engaged /\ Sole /\ Owned
  BY <1>2, <1>3 DEF Manned, Granted, Engaged, Sole, Owned, Active
<1>7. Untouched
  BY <1>3 DEF Untouched, Fresh
<1>8. Cancels
  BY <1>2, <1>3 DEF Cancels, Fresh
<1>9. Cures
  BY <1>3 DEF Cures, Fresh
<1> QED
  BY <1>1, <1>4, <1>5, <1>6, <1>7, <1>8, <1>9 DEF CmdInv, Beside

\* What a command does to the lock is a step of the lock.
LEMMA StepOfLock == ASSUME IInv, CmdInv, [Next]_vars PROVE [LockNext]_lockVars
<1>1. ASSUME NEW p \in Proc, NEW r \in Run, RunStart(p, r) PROVE LockNext
  <2>1. ClaimOf(r) \in Claim /\ Start(p, ClaimOf(r))
    BY <1>1 DEF RunStart, ClaimOf, Claim
  <2> QED
    BY <2>1 DEF LockNext
<1>2. ASSUME NEW p \in Proc, ResumeLock(p) PROVE LockNext
  <2>1. Target(p) \in Run
    BY <1>2, TargetIs DEF ResumeLock, At, CmdInv, Beside, OnOne, HasSeen, Cleaning
  <2>2. ClaimOf(Target(p)) \in Claim /\ Resume(p, ClaimOf(Target(p)))
    BY <1>2, <2>1 DEF ResumeLock, ClaimOf, Claim
  <2> QED
    BY <2>2 DEF LockNext
<1>3. ASSUME NEW p \in Proc, AcquireReturns(p) \/ Return(p) \/ ProcessEnds(p) PROVE LockNext
  BY <1>3 DEF AcquireReturns, Return, ProcessEnds, LockNext
<1>4. ASSUME NEW r \in Run, ReleaseRun(r) PROVE [LockNext]_lockVars
  BY <1>4 DEF ReleaseRun, LockNext
<1>5. ASSUME NEW p \in Proc, CancelRelease(p) PROVE [LockNext]_lockVars
  <2>1. Target(p) \in Run
    BY <1>5, TargetIs DEF CancelRelease, At, CmdInv, Beside, OnOne, HasSeen, Cleaning
  <2> QED
    BY <1>4, <1>5, <2>1 DEF CancelRelease
<1>6. ASSUME NEW p \in Proc, NEW r \in Run, CleanRun(p, r) PROVE [LockNext]_lockVars
  BY <1>4, <1>6 DEF CleanRun
<1>7. ASSUME NEW p \in Proc, CancelKill(p) PROVE [LockNext]_lockVars
  <2>1. Target(p) \in Run /\ cmd[p].todo = {Target(p)} /\ cmd[p].at = "cancel_kill"
    BY <1>7, TargetIs DEF CancelKill, At, CmdInv, Beside, OnOne, HasSeen, Marking, Cleaning
  <2>2. Seen(p) # NoRow
    BY <2>1 DEF Seen, CmdInv, Beside, Aimed, On, HasSeen, Marking
  <2>3. Seen(p).pid \in Proc
    BY <2>1, <2>2, RowParts DEF Seen, CmdInv, Beside
  <2>4. Exit(Seen(p).pid) \/ UNCHANGED lockVars
    BY <1>7 DEF CancelKill, OnlyMemory
  <2> QED
    BY <2>3, <2>4 DEF LockNext
<1>8. ASSUME NEW p \in Proc, DoctorClear(p) PROVE LockNext
  BY <1>8 DEF DoctorClear, LockNext
<1>9. ASSUME NEW p \in Proc,
             \/ \E r \in Run : ReadForResume(p, r) \/ Cancel(p, r) \/ DoctorRead(p, r) \/ DoctorSet(p, r)
             \/ \E to \in EngineStates : Drive(p, to)
             \/ \E accepted, dead \in BOOLEAN, step \in {"clean", "clean_dry"} : Clean(p, accepted, dead, step)
             \/ InsertRun(p) \/ SaveOwner(p) \/ SaveProgress(p)
             \/ CancelMark(p) \/ CancelRead(p) \/ CancelRemark(p) \/ CancelSet(p) \/ CancelAgain(p)
      PROVE  UNCHANGED lockVars
  BY <1>9 DEF ReadForResume, Cancel, DoctorRead, DoctorSet, Drive, Clean, InsertRun, SaveOwner,
              SaveProgress, CancelMark, CancelRead, CancelRemark, CancelSet, CancelAgain, OnlyMemory
<1>10. CASE Next
  BY <1>1, <1>2, <1>3, <1>5, <1>6, <1>7, <1>8, <1>9, <1>10 DEF Next
<1>11. CASE UNCHANGED vars
  BY <1>11 DEF vars
<1> QED
  BY <1>10, <1>11

LEMMA NextCmdInv == IInv /\ CmdInv /\ [Next]_vars => IInv' /\ CmdInv'
<1> SUFFICES ASSUME IInv, CmdInv, [Next]_vars PROVE IInv' /\ CmdInv'
  OBVIOUS
<1>1. IInv'
  BY StepOfLock, NextIInv
<1>2. CASE Next
  <2> SUFFICES ASSUME NEW p \in Proc,
        \/ \E r \in Run : \/ RunStart(p, r) \/ ReadForResume(p, r) \/ Cancel(p, r)
                          \/ CleanRun(p, r) \/ DoctorRead(p, r) \/ DoctorSet(p, r)
        \/ \E to \in EngineStates : Drive(p, to)
        \/ \E accepted, dead \in BOOLEAN, step \in {"clean", "clean_dry"} :
               Clean(p, accepted, dead, step)
        \/ ResumeLock(p) \/ AcquireReturns(p) \/ InsertRun(p) \/ SaveOwner(p)
        \/ SaveProgress(p)
        \/ Return(p) \/ ProcessEnds(p)
        \/ CancelMark(p) \/ CancelKill(p) \/ CancelRead(p) \/ CancelRemark(p)
        \/ CancelSet(p) \/ CancelAgain(p) \/ CancelRelease(p)
        \/ DoctorClear(p)
               PROVE CmdInv'
    BY <1>1, <1>2 DEF Next
  <2>1. ASSUME NEW r \in Run, RunStart(p, r) \/ ReadForResume(p, r) \/ Cancel(p, r) PROVE CmdInv'
    BY <2>1, StepRunStart, StepReadForResume, StepCancel
  <2>2. ASSUME NEW r \in Run, CleanRun(p, r) \/ DoctorRead(p, r) \/ DoctorSet(p, r) PROVE CmdInv'
    BY <2>2, StepCleanRun, StepDoctorRead, StepDoctorSet
  <2>3. ASSUME NEW to \in EngineStates, Drive(p, to) PROVE CmdInv'
    BY <2>3, StepDrive
  <2>4. ASSUME NEW accepted \in BOOLEAN, NEW dead \in BOOLEAN, NEW step \in {"clean", "clean_dry"},
               Clean(p, accepted, dead, step) PROVE CmdInv'
    BY <2>4, StepClean
  <2>5. CASE ResumeLock(p) \/ AcquireReturns(p) \/ InsertRun(p) \/ SaveOwner(p) \/ SaveProgress(p)
    BY <2>5, StepResumeLock, StepAcquireReturns, StepInsertRun, StepSaveOwner, StepSaveProgress
  <2>6. CASE Return(p) \/ ProcessEnds(p) \/ DoctorClear(p)
    BY <2>6, StepReturn, StepProcessEnds, StepDoctorClear
  <2>7. CASE CancelMark(p) \/ CancelKill(p) \/ CancelRead(p) \/ CancelRemark(p)
    BY <2>7, StepCancelMark, StepCancelKill, StepCancelRead, StepCancelRemark
  <2>8. CASE CancelSet(p) \/ CancelAgain(p) \/ CancelRelease(p)
    BY <2>8, StepCancelSet, StepCancelAgain, StepCancelRelease
  <2> QED
    BY <2>1, <2>2, <2>3, <2>4, <2>5, <2>6, <2>7, <2>8
<1>3. CASE UNCHANGED vars
  <2>1. /\ UNCHANGED <<file, pc, claim, started, revoked, row, trees, cmd, past>>
    BY <1>3 DEF vars, lockVars
  <2>2. Beside'
    BY <2>1 DEF CmdInv, Beside, RowTyped, PastTyped, MemTyped, Aimed, Manned, Granted, Engaged, Sole,
                Owned, On, HasDriven, Active, IsHolder, Fresh
  <2>3. Untouched' /\ Cancels' /\ Cures'
    BY <2>1 DEF CmdInv, Untouched, Cancels, Cures, On, IsHolder, Fresh, Ended
  <2> QED
    BY <1>1, <2>2, <2>3 DEF CmdInv
<1> QED
  BY <1>1, <1>2, <1>3

LEMMA CommandsInv == Spec => [](IInv /\ CmdInv)
<1>1. Init => IInv /\ CmdInv
  BY InitCmdInv
<1>2. (IInv /\ CmdInv) /\ [Next]_vars => (IInv /\ CmdInv)'
  BY NextCmdInv
<1> QED
  BY <1>1, <1>2, PTL DEF Spec

\* What the commands do to the lock is what module RepoLock lets them: each of
\* them, whole, is a step of the lock or leaves it alone.
THEOREM CommandsUseLock == Spec => LockSpec
<1>1. Init => LockInit
  BY DEF Init
<1>2. (IInv /\ CmdInv) /\ [Next]_vars => [LockNext]_lockVars
  BY StepOfLock
<1> QED
  BY <1>1, <1>2, CommandsInv, PTL DEF Spec, LockSpec

\* The start_pid of a run that is being driven names who drives it.
THEOREM OwnerIsOnRecord == Spec => []OwnerOnRecord
<1>1. CmdInv => OwnerOnRecord
  BY DEF CmdInv, Beside, Owned, OwnerOnRecord, Driving, At, On
<1> QED
  BY <1>1, CommandsInv, PTL

\* A cancel that is done leaves no engine behind, and a run that is over.
THEOREM CancelIsFinal == Spec => []CancelStops
<1> SUFFICES ASSUME CmdInv PROVE CancelStops
  <2>1. CmdInv => CancelStops
    OBVIOUS
  <2> QED
    BY <2>1, CommandsInv, PTL
<1>1. ASSUME NEW r \in past.stopped \ past.resumed, NEW p \in Proc, Driving(p, r) PROVE FALSE
  <2>1. r \in Fresh
    BY DEF Fresh, CmdInv, Beside, PastTyped
  <2>2. On(p, Working, r)
    BY <1>1 DEF Driving, At, On, Working
  <2> QED
    BY <2>1, <2>2 DEF CmdInv, Untouched
<1>2. ASSUME NEW r \in past.stopped \ past.resumed, r \notin past.again PROVE Ended(row[r])
  BY <1>2 DEF Fresh, CmdInv, Beside, PastTyped, Cancels
<1> QED
  BY <1>1, <1>2 DEF CancelStops

\* Neither doctor nor clean, nor anything else but a cancel or a resume that was
\* asked for, changes the row of an accepted run.
THEOREM AcceptsStay == Spec => AcceptedRowStays
<1>1. ASSUME IInv, CmdInv, [Next]_vars, NEW r \in Run, row[r] # NoRow, row[r].state = "accepted",
             r \notin past.resumed \cup past.cancels
      PROVE  row'[r] = row[r]
  <2> USE DEF CmdInv
  <2>1. r \in Fresh \ past.cancels /\ Ended(row[r])
    BY <1>1 DEF Fresh, Ended, Terminal
  <2>2. \A p \in Proc : /\ ~On(p, Marking \cup {"cancel_release"}, r) /\ ~On(p, {"save"}, r)
                        /\ ~On(p, {"insert"}, r) /\ ~On(p, {"drive"}, r)
                        /\ On(p, Curing, r) => cmd[p].seen[r] = NoRow
    BY <1>1, <2>1 DEF Cancels, Beside, Engaged, Untouched, Cures, On, Working
  <2>3. ASSUME NEW p \in Proc, cmd[p].at \in (Marking \ {"cancel_read", "cancel_kill"}) \cup {"insert", "save", "drive"}
        PROVE  Target(p) \in Run \ {r} /\ cmd[p].todo = {Target(p)}
    <3>1. Target(p) \in Run /\ cmd[p].todo = {Target(p)}
      <4>1. cmd[p].at \in OnOne
        BY <2>3 DEF OnOne, HasSeen, Marking, Cleaning
      <4> QED
        BY <1>1, <4>1, TargetIs DEF Beside
    <3> QED
      BY <2>2, <2>3, <3>1 DEF On
  <2>4. ASSUME NEW p \in Proc, InsertRun(p) \/ SaveOwner(p) \/ SaveProgress(p) PROVE row'[r] = row[r]
    BY <1>1, <2>3, <2>4 DEF InsertRun, SaveOwner, SaveProgress, At, Beside, RowTyped
  <2>5. ASSUME NEW p \in Proc, NEW s \in Run \ {r}, NEW to, NEW step, SetState(p, s, to, step) \/ UNCHANGED row
        PROVE  row'[r] = row[r]
    BY <1>1, <2>5 DEF SetState, Beside, RowTyped
  <2>6. ASSUME NEW p \in Proc, NEW to \in EngineStates, Drive(p, to) PROVE row'[r] = row[r]
    <3>1. Target(p) \in Run \ {r}
      BY <2>3, <2>6 DEF Drive, At
    <3> QED
      BY <2>5, <2>6, <3>1 DEF Drive
  <2>7. ASSUME NEW p \in Proc, CancelMark(p) \/ CancelRemark(p) \/ CancelSet(p) \/ CancelAgain(p)
        PROVE  row'[r] = row[r]
    <3>1. Target(p) \in Run \ {r}
      BY <2>3, <2>7 DEF CancelMark, CancelRemark, CancelSet, CancelAgain, At, Marking
    <3> QED
      BY <2>5, <2>7, <3>1 DEF CancelMark, CancelRemark, CancelSet, CancelAgain
  <2>8. ASSUME NEW p \in Proc, NEW s \in Run, DoctorSet(p, s) PROVE row'[r] = row[r]
    <3>1. s # r
      BY <2>2, <2>8 DEF DoctorSet, At, On, Curing
    <3> QED
      BY <1>1, <2>8, <3>1 DEF DoctorSet, Beside, RowTyped
  <2>9. ASSUME NEW p \in Proc,
             \/ \E s \in Run : RunStart(p, s) \/ ReadForResume(p, s) \/ Cancel(p, s) \/ CleanRun(p, s)
                                \/ DoctorRead(p, s)
             \/ \E accepted, dead \in BOOLEAN, step \in {"clean", "clean_dry"} : Clean(p, accepted, dead, step)
             \/ ResumeLock(p) \/ AcquireReturns(p) \/ Return(p) \/ ProcessEnds(p)
             \/ CancelKill(p) \/ CancelRead(p) \/ CancelRelease(p) \/ DoctorClear(p)
      PROVE  row' = row
    BY <2>9 DEF RunStart, ReadForResume, Cancel, CleanRun, DoctorRead, Clean, ResumeLock, AcquireReturns,
                Return, ProcessEnds, CancelKill, CancelRead, CancelRelease, DoctorClear, OnlyMemory
  <2>10. CASE Next
    BY <2>4, <2>6, <2>7, <2>8, <2>9, <2>10 DEF Next
  <2>11. CASE UNCHANGED vars
    BY <2>11 DEF vars
  <2> QED
    BY <1>1, <2>10, <2>11
<1>2. (IInv /\ CmdInv) /\ [Next]_vars =>
        [\A r \in Run : row[r] # NoRow /\ row[r].state = "accepted"
                          /\ r \notin past.resumed \cup past.cancels
                      => row'[r] = row[r]]_vars
  BY <1>1
<1> QED
  BY <1>2, CommandsInv, PTL DEF Spec, AcceptedRowStays

\* Whatever the commands do, what they leave is of its type.
THEOREM CommandsTyped == Spec => []TypeOK
<1>1. IInv /\ CmdInv => TypeOK
  BY DEF IInv, CmdInv, Beside, RowTyped, PastTyped, MemTyped, TypeOK
<1> QED
  BY <1>1, CommandsInv, PTL
-----------------------------------------------------------------------------
(* The lock file of a run that was never resumed *)

\* No claim is exclusive.
Plain == ~RepoExclusive /\ \A r \in Run : Paths[r] # {}

LEMMA PlainPath ==
    ASSUME Plain, IInv, Beside
    PROVE  /\ \A r \in Run : PathOf(ClaimOf(r)) = r
           /\ \A p \in Proc : Active(p) => PathOf(claim[p]) = claim[p].run /\ claim[p].run \in Run
<1>1. \A r \in Run : PathOf(ClaimOf(r)) = r
  BY DEF Plain, PathOf, Exclusive, ClaimOf
<1>2. \A p \in Proc : claim[p].run \in Run
  BY DEF IInv, LockTypeOK, Claim
<1>3. \A p \in Proc : Active(p) => claim[p] = ClaimOf(claim[p].run)
  BY DEF Beside, Granted
<1> QED
  BY <1>1, <1>2, <1>3

\* What the file of a worker is, by Locked.
LEMMA WorkersFile ==
    ASSUME IInv, CmdInv, Locked, NEW s \in Fresh, NEW w \in Proc, On(w, Working, s)
    PROVE  /\ s \in Run /\ Active(w) /\ claim[w].run = s /\ PidAlive(w)
           /\ pc[w] = "creating" => file[s] = Malformed
           /\ pc[w] = "holding" => IsHolder(s) /\ file[s].run = s /\ file[s].pid = w
           /\ file[s] # Absent
<1>1. s \in Run /\ Active(w) /\ claim[w].run = s /\ file[s] = OwnFile(w)
  BY DEF CmdInv, Beside, Engaged, On, Engine, Fresh, Locked
<1>2. claim[w] \in Claim /\ Exclusive(claim[w]) \in BOOLEAN
  BY DEF IInv, LockTypeOK, Exclusive, Claim
<1>3. pc[w] = "holding" => file[s] = [run |-> claim[w].run, pid |-> w, exclusive |-> Exclusive(claim[w])]
  BY <1>1 DEF OwnFile
<1>4. pc[w] = "holding" => file[s] \in Holder /\ file[s].run = s /\ file[s].pid = w
  BY <1>1, <1>2, <1>3 DEF Holder
<1>5. pc[w] = "creating" => file[s] = Malformed
  BY <1>1 DEF OwnFile
<1> QED
  BY <1>1, <1>4, <1>5, Distinct DEF IsHolder, Active, PidAlive

\* The file of who works on now is as it was, or is made as it should be.
LEMMA LockedKept ==
    ASSUME Locked, past.resumed \subseteq past'.resumed,
           \A s \in Fresh, w \in Proc : On(w, Working, s)' /\ s \notin past'.resumed =>
               \/ /\ On(w, Working, s) /\ file'[s] = file[s]
                  /\ pc'[w] = pc[w] /\ claim'[w] = claim[w]
               \/ pc'[w] = "creating" /\ file'[s] = Malformed
               \/ /\ pc'[w] = "holding"
                  /\ file'[s] = [run |-> claim'[w].run, pid |-> w, exclusive |-> Exclusive(claim'[w])]
    PROVE  Locked'
<1> SUFFICES ASSUME NEW s \in Run \ past'.resumed, NEW w \in Proc, On(w, Working, s)'
             PROVE  file'[s] = IF pc'[w] = "creating" THEN Malformed
                    ELSE [run |-> claim'[w].run, pid |-> w, exclusive |-> Exclusive(claim'[w])]
  BY DEF Locked, OwnFile, Fresh, On, Exclusive
<1>1. s \in Fresh
  BY DEF Fresh
<1>2. CASE /\ On(w, Working, s) /\ file'[s] = file[s]
           /\ pc'[w] = pc[w] /\ claim'[w] = claim[w]
  <2>1. file[s] = OwnFile(w)
    BY <1>1, <1>2 DEF Locked
  <2> QED
    BY <1>2, <2>1 DEF OwnFile
<1> QED
  BY <1>1, <1>2

\* What release_run_lock leaves of the files.
LEMMA ReleaseSpares ==
    ASSUME IInv, CmdInv, Locked, NEW r \in Run, ReleaseRun(r), NEW s \in Fresh, NEW w \in Proc,
           On(w, Working, s), s # r
    PROVE  file'[s] = file[s]
<1>1. s \in LockPath /\ s \notin HoldersOf(r)
  <2>1. /\ s \in LockPath /\ pc[w] \in {"creating", "holding"}
        /\ pc[w] = "creating" => file[s] = Malformed
        /\ pc[w] = "holding" => file[s].run = s
    BY WorkersFile DEF LockPath, Active
  <2> QED
    BY <2>1, Distinct DEF HoldersOf, IsHolder
<1> QED
  BY <1>1 DEF ReleaseRun, ReleaseRunLock, Without, lockVars

\* A start, or a resume, of another run, and any that is refused, leaves the file.
LEMMA AcquireSpares ==
    ASSUME Plain, IInv, CmdInv, Locked, NEW p \in Proc, NEW r \in Run, NEW resume \in BOOLEAN,
           Acquire(p, ClaimOf(r), resume) \/ Refuse(p, ClaimOf(r), resume),
           NEW s \in Fresh, NEW w \in Proc, On(w, Working, s), s # r \/ resume
    PROVE  file'[s] = file[s] /\ (Acquire(p, ClaimOf(r), resume) => s # r)
<1>0. ClaimOf(r).run = r /\ PathOf(ClaimOf(r)) = r /\ s \in LockPath /\ s \in Run
  BY PlainPath DEF ClaimOf, CmdInv, LockPath, Fresh
<1>w. /\ PidAlive(w) /\ Active(w)
      /\ pc[w] = "creating" => file[s] = Malformed
      /\ pc[w] = "holding" => IsHolder(s) /\ file[s].run = s /\ file[s].pid = w
  BY WorkersFile
<1>1. CASE s # r
  <2>1. s \notin Stale(r, resume)
    BY <1>0, <1>1, <1>w, Distinct DEF Stale, HoldersOf, IsHolder, Active
  <2>2. Without(Stale(r, resume))[s] = file[s]
    BY <1>0, <2>1 DEF Without
  <2>3. Without(Stale(r, resume)) \in [LockPath -> Holder \cup {Absent, Malformed}]
    BY DEF Without, IInv, LockTypeOK
  <2> QED
    BY <1>0, <1>1, <2>2, <2>3 DEF Acquire, Refuse
<1>2. CASE s = r /\ resume
  <2>1. ~Readable \/ RefusesResume(r)
    <3>1. CASE pc[w] = "creating"
      BY <1>0, <1>w, <3>1 DEF Readable
    <3>2. CASE pc[w] = "holding"
      BY <1>0, <1>2, <1>w, <3>2 DEF RefusesResume, HoldersOf
    <3> QED
      BY <1>w, <3>1, <3>2 DEF Active
  <2>2. ~Admits(ClaimOf(r), resume)
    BY <1>0, <1>2, <2>1 DEF Admits
  <2> QED
    BY <1>0, <2>1, <2>2 DEF Acquire, Refuse
<1> QED
  BY <1>1, <1>2

\* Steps that leave the lock alone, and nobody new at work.
LEMMA QuietLocked ==
    ASSUME Locked, UNCHANGED lockVars, past.resumed \subseteq past'.resumed,
           \A s \in Fresh, w \in Proc : On(w, Working, s)' => On(w, Working, s)
    PROVE  Locked'
  BY Quiet, LockedKept

\* SetState leaves a command with its run.
LEMMA SetStateTodo ==
    ASSUME MemTyped, NEW p \in Proc, NEW r \in Run, NEW to, NEW step, SetState(p, r, to, step)
    PROVE  Others(p) /\ cmd'[p].at = step /\ cmd'[p].todo = cmd[p].todo
<1>1. CASE CanTransition(cmd[p].seen[r].state, to)
  <2> DEFINE one == [cmd EXCEPT ![p].seen[r].state = to]
  <2>1. DOMAIN one = Proc /\ one[p] = [cmd[p] EXCEPT !.seen[r].state = to]
    BY DEF MemTyped
  <2>2. \A q \in Proc \ {p} : one[q] = cmd[q]
    BY DEF MemTyped
  <2>3. cmd' = [one EXCEPT ![p].at = step]
    BY <1>1 DEF SetState
  <2>4. one[p] = [at |-> cmd[p].at, todo |-> cmd[p].todo, seen |-> one[p].seen]
    <3>1. cmd[p] = [at |-> cmd[p].at, todo |-> cmd[p].todo, seen |-> cmd[p].seen]
      BY DEF MemTyped
    <3> QED
      BY <2>1, <3>1
  <2> HIDE DEF one
  <2>5. cmd'[p] = [one[p] EXCEPT !.at = step] /\ \A q \in Proc \ {p} : cmd'[q] = one[q]
    BY <2>1, <2>3
  <2> QED
    BY <2>2, <2>4, <2>5 DEF Others
<1>2. CASE ~CanTransition(cmd[p].seen[r].state, to)
  BY <1>2 DEF SetState, Go, MemTyped, Others
<1> QED
  BY <1>1, <1>2

LEMMA NotesTodo ==
    ASSUME MemTyped, NEW p \in Proc, NEW r \in Run, NEW a, NEW x, Notes(p, r, a, x)
    PROVE  Others(p) /\ cmd'[p].at = a /\ cmd'[p].todo = cmd[p].todo
<1> DEFINE one == [cmd EXCEPT ![p].at = a]
<1>1. DOMAIN one = Proc /\ one[p].at = a /\ one[p].todo = cmd[p].todo /\ \A q \in Proc \ {p} : one[q] = cmd[q]
  BY DEF MemTyped
<1>2. one[p] = [at |-> a, todo |-> cmd[p].todo, seen |-> cmd[p].seen]
  BY DEF MemTyped
<1>3. cmd' = [one EXCEPT ![p].seen[r] = x]
  BY DEF Notes
<1> HIDE DEF one
<1>4. cmd'[p] = [one[p] EXCEPT !.seen[r] = x] /\ \A q \in Proc \ {p} : cmd'[q] = one[q]
  BY <1>1, <1>3
<1>5. cmd'[p] = [at |-> a, todo |-> cmd[p].todo, seen |-> [cmd[p].seen EXCEPT ![r] = x]]
  BY <1>2, <1>4, SeenUpdate
<1> QED
  BY <1>1, <1>4, <1>5 DEF Others

\* Steps that leave the lock alone put nobody new to work on a run.
LEMMA WorkStays ==
    ASSUME IInv, CmdInv, NEW p \in Proc,
           \/ \E r \in Run : ReadForResume(p, r) \/ Cancel(p, r) \/ DoctorRead(p, r) \/ DoctorSet(p, r)
           \/ \E to \in EngineStates : Drive(p, to)
           \/ \E accepted, dead \in BOOLEAN, step \in {"clean", "clean_dry"} : Clean(p, accepted, dead, step)
           \/ InsertRun(p) \/ SaveOwner(p) \/ SaveProgress(p)
           \/ CancelMark(p) \/ CancelRead(p) \/ CancelRemark(p) \/ CancelSet(p) \/ CancelAgain(p)
    PROVE  \A s \in Fresh, w \in Proc : On(w, Working, s)' => On(w, Working, s)
<1>0. MemTyped /\ Aimed
  BY DEF CmdInv, Beside
<1>1. SUFFICES Others(p) /\ \A s \in Fresh : On(p, Working, s)' => On(p, Working, s)
  BY <1>1 DEF Others, On
<1>2. ASSUME NEW r \in Run, ReadForResume(p, r) \/ Cancel(p, r)
      PROVE  Others(p) /\ cmd'[p].at \notin Working
  <2>1. CASE ReadForResume(p, r)
    BY <1>0, <2>1 DEF ReadForResume, MemTyped, Others, Working
  <2>2. CASE Cancel(p, r)
    <3> DEFINE a == IF Ended(row[r]) THEN "cancel_release" ELSE "cancel_mark"
    <3>1. cmd' = [cmd EXCEPT ![p] = [at |-> a, todo |-> {r}, seen |-> [Idle.seen EXCEPT ![r] = row[r]]]]
      BY <2>2 DEF Cancel
    <3>2. a \notin Working
      BY DEF Working
    <3> HIDE DEF a
    <3> QED
      BY <1>0, <3>1, <3>2 DEF MemTyped, Others
  <2> QED
    BY <1>2, <2>1, <2>2
<1>3. ASSUME NEW accepted, NEW dead, NEW step, Clean(p, accepted, dead, step)
      PROVE  Others(p) /\ cmd'[p].at \notin Working
  BY <1>0, <1>3 DEF Clean, MemTyped, Others, Working
<1>4. ASSUME NEW r \in Run, DoctorRead(p, r)
      PROVE  Others(p) /\ cmd'[p].at \notin Working
  <2>1. CASE cmd' = [cmd EXCEPT ![p].todo = @ \ {r}]
    BY <1>0, <1>4, <2>1 DEF DoctorRead, At, MemTyped, Others, Working
  <2>2. CASE cmd' = [cmd EXCEPT ![p].at = "doctor_set", ![p].seen[r] = row[r]]
    <3>1. Notes(p, r, "doctor_set", row[r])
      BY <2>2 DEF Notes
    <3> QED
      BY <1>0, <3>1, NotesTodo DEF Working
  <2> QED
    BY <1>4, <2>1, <2>2 DEF DoctorRead
<1>5. ASSUME NEW r \in Run, DoctorSet(p, r)
      PROVE  Others(p) /\ cmd'[p].at \notin Working
  <2> DEFINE b == [cmd EXCEPT ![p].at = "doctor", ![p].todo = @ \ {r}]
  <2>1. DOMAIN b = Proc /\ b[p] = [at |-> "doctor", todo |-> cmd[p].todo \ {r}, seen |-> cmd[p].seen]
    BY <1>0 DEF MemTyped
  <2>2. \A q \in Proc \ {p} : b[q] = cmd[q]
    BY <1>0 DEF MemTyped
  <2>3. cmd' = [b EXCEPT ![p].seen[r] = NoRow]
    BY <1>5 DEF DoctorSet
  <2> HIDE DEF b
  <2>4. cmd'[p] = [b[p] EXCEPT !.seen[r] = NoRow] /\ \A q \in Proc \ {p} : cmd'[q] = b[q]
    BY <2>1, <2>3
  <2>5. cmd'[p] = [at |-> "doctor", todo |-> cmd[p].todo \ {r}, seen |-> [cmd[p].seen EXCEPT ![r] = NoRow]]
    BY <2>1, <2>4, SeenUpdate
  <2> QED
    BY <2>2, <2>4, <2>5 DEF Others, Working
<1>6. ASSUME NEW to \in EngineStates, Drive(p, to)
      PROVE  Others(p) /\ cmd'[p].todo = cmd[p].todo /\ cmd[p].at \in Working
  <2>1. Target(p) \in Run
    BY <1>0, <1>6, TargetIs DEF Drive, At, OnOne, HasSeen, Cleaning, Marking
  <2> QED
    BY <1>0, <1>6, <2>1, SetStateTodo DEF Drive, At, Working
<1>7. ASSUME CancelMark(p) \/ CancelRemark(p) \/ CancelSet(p) \/ CancelAgain(p)
      PROVE  Others(p) /\ cmd'[p].at \notin Working
  <2>1. cmd[p].at \in OnOne
    BY <1>7 DEF CancelMark, CancelRemark, CancelSet, CancelAgain, At, OnOne, HasSeen, Marking, Cleaning
  <2>2. Target(p) \in Run
    BY <1>0, <2>1, TargetIs
  <2>3. CASE Go(p, "cancel_set")
    BY <1>0, <2>3 DEF Go, MemTyped, Others, Working
  <2>4. CASE SetState(p, Target(p), "canceling", "cancel_kill") \/ SetState(p, Target(p), "canceling", "cancel_set")
    BY <1>0, <2>2, <2>4, SetStateTodo DEF Working
  <2>5. CASE SetState(p, Target(p), "cancelled", "cancel_again") \/ SetState(p, Target(p), "cancelled", "cancel_release")
    BY <1>0, <2>2, <2>5, SetStateTodo DEF Working
  <2> QED
    BY <1>7, <2>3, <2>4, <2>5 DEF CancelMark, CancelRemark, CancelSet, CancelAgain
<1>8. ASSUME CancelRead(p)
      PROVE  Others(p) /\ cmd'[p].at \notin Working
  <2> DEFINE r == Target(p)
             a == IF Ended(row[r]) THEN "cancel_again" ELSE "cancel_remark"
  <2>1. r \in Run
    BY <1>0, <1>8, TargetIs DEF CancelRead, At, OnOne, HasSeen, Cleaning, Marking
  <2>2. cmd' = [cmd EXCEPT ![p].seen[r] = row[r], ![p].at = a]
    BY <1>8 DEF CancelRead
  <2>3. a \notin Working
    BY DEF Working
  <2> HIDE DEF r, a
  <2>4. Notes(p, r, a, row[r])
    <3>1. [cmd EXCEPT ![p].seen[r] = row[r], ![p].at = a] = [cmd EXCEPT ![p].at = a, ![p].seen[r] = row[r]]
      OBVIOUS
    <3> QED
      BY <2>2, <3>1 DEF Notes
  <2> QED
    BY <1>0, <2>1, <2>3, <2>4, NotesTodo
<1>9. ASSUME InsertRun(p)
      PROVE  Others(p) /\ cmd'[p].todo = cmd[p].todo /\ cmd[p].at \in Working
  <2> DEFINE r   == Target(p)
             new == [state |-> "contract_ready", pid |-> p]
  <2>1. r \in Run /\ cmd[p].at = "insert"
    BY <1>0, <1>9, TargetIs DEF InsertRun, At, OnOne
  <2>2. cmd' = [cmd EXCEPT ![p].seen[r] = new, ![p].at = "drive"]
    BY <1>9 DEF InsertRun
  <2> HIDE DEF r, new
  <2>3. Notes(p, r, "drive", new)
    <3>1. [cmd EXCEPT ![p].seen[r] = new, ![p].at = "drive"] = [cmd EXCEPT ![p].at = "drive", ![p].seen[r] = new]
      OBVIOUS
    <3> QED
      BY <2>2, <3>1 DEF Notes
  <2> QED
    BY <1>0, <2>1, <2>3, NotesTodo DEF Working
<1>10. ASSUME SaveOwner(p)
       PROVE  Others(p) /\ \A s \in Fresh : ~On(p, Working, s)'
  <2> DEFINE r   == Target(p)
             one == [cmd EXCEPT ![p].seen[r].pid = p]
  <2>1. r \in Run /\ cmd[p].todo = {r} /\ cmd[p].at = "save"
    BY <1>0, <1>10, TargetIs DEF SaveOwner, At, OnOne, HasSeen, Cleaning, Marking
  <2>2. r \in past.resumed
    BY <2>1 DEF CmdInv, Beside, Engaged, On
  <2>3. cmd' = [one EXCEPT ![p].at = "drive"]
    BY <1>10 DEF SaveOwner
  <2>4. DOMAIN one = Proc /\ one[p] = [cmd[p] EXCEPT !.seen[r].pid = p]
    BY <1>0 DEF MemTyped
  <2>5. \A q \in Proc \ {p} : one[q] = cmd[q]
    BY <1>0 DEF MemTyped
  <2>6. one[p] = [at |-> cmd[p].at, todo |-> cmd[p].todo, seen |-> one[p].seen]
    <3>1. cmd[p] = [at |-> cmd[p].at, todo |-> cmd[p].todo, seen |-> cmd[p].seen]
      BY <1>0 DEF MemTyped
    <3> QED
      BY <2>4, <3>1
  <2> HIDE DEF r, one
  <2>7. cmd'[p] = [one[p] EXCEPT !.at = "drive"] /\ \A q \in Proc \ {p} : cmd'[q] = one[q]
    BY <2>3, <2>4
  <2>8. cmd'[p].todo = {r}
    BY <2>1, <2>6, <2>7
  <2> QED
    BY <2>2, <2>5, <2>7, <2>8 DEF Others, On, Fresh
<1>11. ASSUME SaveProgress(p) PROVE cmd' = cmd
  BY <1>11 DEF SaveProgress
<1> QED
  BY <1>2, <1>3, <1>4, <1>5, <1>6, <1>7, <1>8, <1>9, <1>10, <1>11 DEF On, Others

\* The lock file of a run that was never resumed is that of who works on it.
LEMMA NextLocked == ASSUME Plain, IInv, CmdInv, Locked, [Next]_vars PROVE Locked'
<1>0. MemTyped /\ Aimed /\ Engaged /\ Sole
  BY DEF CmdInv, Beside
<1>a. \A s \in Fresh, w \in Proc : On(w, Working, s) => s \in Run /\ Active(w) /\ claim[w].run = s
  BY <1>0 DEF Engaged, On, Engine, Fresh
<1>1. ASSUME NEW p \in Proc, NEW r \in Run, RunStart(p, r) PROVE Locked'
  <2>0. ClaimOf(r) \in Claim /\ ClaimOf(r).run = r /\ PathOf(ClaimOf(r)) = r /\ r \in LockPath
    BY PlainPath DEF ClaimOf, Claim, CmdInv, LockPath
  <2>1. /\ r \notin started /\ past' = past
        /\ Acquire(p, ClaimOf(r), FALSE) \/ Refuse(p, ClaimOf(r), FALSE)
        /\ cmd' = [cmd EXCEPT ![p] = IF pc'[p] = "gone" THEN Idle ELSE Begun("insert", {r})]
    BY <1>1, <2>0 DEF RunStart, Start, Begun
  <2>2. Others(p) /\ cmd'[p] = IF pc'[p] = "gone" THEN Idle ELSE Begun("insert", {r})
    BY <1>0, <2>1 DEF MemTyped, Others
  <2>3. cmd'[p].todo \subseteq {r} /\ (pc'[p] = "gone" => cmd'[p].todo = {})
    BY <2>2, IdleIs, BegunIs
  <2>4. ASSUME NEW s \in Fresh, NEW w \in Proc, On(w, Working, s)'
        PROVE  \/ /\ On(w, Working, s) /\ file'[s] = file[s]
                  /\ pc'[w] = pc[w] /\ claim'[w] = claim[w]
               \/ pc'[w] = "creating" /\ file'[s] = Malformed
    <3>1. CASE w = p
      <4>1. s = r /\ pc'[p] # "gone"
        BY <2>3, <2>4, <3>1 DEF On
      <4>2. Acquire(p, ClaimOf(r), FALSE)
        BY <2>1, <4>1 DEF Refuse, IInv, LockTypeOK
      <4>3. Without(Stale(r, FALSE)) \in [LockPath -> Holder \cup {Absent, Malformed}]
        BY DEF Without, IInv, LockTypeOK
      <4> QED
        BY <2>0, <3>1, <4>1, <4>2, <4>3 DEF Acquire, IInv, LockTypeOK
    <3>2. CASE w # p
      <4>1. On(w, Working, s)
        BY <2>2, <2>4, <3>2 DEF On, Others
      <4>2. s # r
        <5>1. Active(w) /\ claim[w].run \in started /\ claim[w].run = s
          BY <1>a, <4>1 DEF CmdInv, Beside, Granted
        <5> QED
          BY <2>1, <5>1
      <4>3. file'[s] = file[s]
        BY <2>1, <4>1, <4>2, AcquireSpares
      <4>4. pc'[w] = pc[w] /\ claim'[w] = claim[w]
        BY <2>1, <3>2 DEF Acquire, Refuse, IInv, LockTypeOK
      <4> QED
        BY <4>1, <4>3, <4>4
    <3> QED
      BY <3>1, <3>2
  <2> QED
    BY <2>1, <2>4, LockedKept
<1>2. ASSUME NEW p \in Proc, ResumeLock(p) PROVE Locked'
  <2> DEFINE r == Target(p)
  <2>1. r \in Run
    BY <1>0, <1>2, TargetIs DEF ResumeLock, At, OnOne, HasSeen, Marking, Cleaning
  <2>2. /\ Acquire(p, ClaimOf(r), TRUE) \/ Refuse(p, ClaimOf(r), TRUE)
        /\ cmd' = [cmd EXCEPT ![p] = IF pc'[p] = "gone" THEN Idle ELSE [cmd[p] EXCEPT !.at = "save"]]
        /\ past.resumed \subseteq past'.resumed
    BY <1>2 DEF ResumeLock, Resume, CmdInv, Beside, MemTyped, PastTyped
  <2> HIDE DEF r
  <2>3. Others(p) /\ cmd'[p].at \notin Working
    <3>1. Others(p) /\ cmd'[p] = IF pc'[p] = "gone" THEN Idle ELSE [cmd[p] EXCEPT !.at = "save"]
      BY <1>0, <2>2 DEF MemTyped, Others
    <3>2. [cmd[p] EXCEPT !.at = "save"].at = "save"
      BY <1>0 DEF MemTyped
    <3> QED
      BY <3>1, <3>2, IdleIs DEF Working
  <2>4. ASSUME NEW s \in Fresh, NEW w \in Proc, On(w, Working, s)'
        PROVE  /\ On(w, Working, s) /\ file'[s] = file[s]
               /\ pc'[w] = pc[w] /\ claim'[w] = claim[w]
    <3>1. w # p /\ On(w, Working, s)
      BY <2>3, <2>4 DEF On, Others
    <3>2. file'[s] = file[s]
      BY <2>1, <2>2, <3>1, AcquireSpares
    <3>3. pc'[w] = pc[w] /\ claim'[w] = claim[w]
      BY <2>2, <3>1 DEF Acquire, Refuse, IInv, LockTypeOK
    <3> QED
      BY <3>1, <3>2, <3>3
  <2> QED
    BY <2>2, <2>4, LockedKept
<1>3. ASSUME NEW p \in Proc, AcquireReturns(p) PROVE Locked'
  <2> DEFINE new == [run |-> claim[p].run, pid |-> p, exclusive |-> Exclusive(claim[p])]
             x   == PathOf(claim[p])
  <2>1. /\ pc[p] = "creating" /\ pc' = [pc EXCEPT ![p] = "holding"]
        /\ file' = IF file[x] = Absent THEN file ELSE [file EXCEPT ![x] = new]
        /\ UNCHANGED <<claim, cmd, past>>
    BY <1>3 DEF AcquireReturns, WriteHolder
  <2>2. x = claim[p].run /\ x \in Run /\ x \in LockPath /\ Active(p)
    BY <2>1, PlainPath DEF Active, CmdInv, LockPath
  <2>n. new = [run |-> claim[p].run, pid |-> p, exclusive |-> Exclusive(claim[p])]
    OBVIOUS
  <2> HIDE DEF x, new
  <2>3. ASSUME NEW s \in Fresh, NEW w \in Proc, On(w, Working, s)'
        PROVE  \/ /\ On(w, Working, s) /\ file'[s] = file[s]
                  /\ pc'[w] = pc[w] /\ claim'[w] = claim[w]
               \/ /\ pc'[w] = "holding"
                  /\ file'[s] = [run |-> claim'[w].run, pid |-> w, exclusive |-> Exclusive(claim'[w])]
    <3>1. On(w, Working, s) /\ s \in Run /\ Active(w) /\ claim[w].run = s /\ file[s] # Absent
      BY <1>a, <2>1, <2>3, WorkersFile DEF On
    <3>2. CASE w = p
      <4>1. s = x
        BY <2>2, <3>1, <3>2
      <4>2. pc'[w] = "holding"
        BY <2>1, <3>2 DEF IInv, LockTypeOK
      <4>3. file'[s] = new
        BY <2>1, <2>2, <3>1, <4>1 DEF IInv, LockTypeOK
      <4> QED
        BY <2>1, <2>n, <3>2, <4>2, <4>3
    <3>3. CASE w # p
      <4>1. s # x
        BY <1>0, <2>2, <3>1, <3>3 DEF Sole
      <4>2. file'[s] = file[s]
        BY <2>1, <3>1, <4>1 DEF IInv, LockTypeOK, LockPath
      <4> QED
        BY <2>1, <3>1, <3>3, <4>2 DEF IInv, LockTypeOK
    <3> QED
      BY <3>2, <3>3
  <2> QED
    BY <2>1, <2>3, LockedKept
<1>4. ASSUME NEW p \in Proc, Return(p) PROVE Locked'
  <2>1. /\ Active(p) /\ pc' = [pc EXCEPT ![p] = "idle"] /\ file' = Without({PathOf(claim[p])})
        /\ cmd' = [cmd EXCEPT ![p] = [Idle EXCEPT !.at = "done"]] /\ UNCHANGED <<claim, past>>
    BY <1>4 DEF Return, Release, Active
  <2>2. [Idle EXCEPT !.at = "done"].at = "done"
    BY DEF Idle
  <2>3. Others(p) /\ cmd'[p].at = "done"
    BY <1>0, <2>1, <2>2 DEF MemTyped, Others
  <2>4. ASSUME NEW s \in Fresh, NEW w \in Proc, On(w, Working, s)'
        PROVE  /\ On(w, Working, s) /\ file'[s] = file[s]
               /\ pc'[w] = pc[w] /\ claim'[w] = claim[w]
    <3>1. w # p /\ On(w, Working, s)
      BY <2>3, <2>4 DEF On, Others, Working
    <3>2. s # PathOf(claim[p]) /\ s \in LockPath
      BY <1>0, <1>a, <2>1, <3>1, PlainPath DEF Sole, CmdInv, LockPath
    <3> QED
      BY <2>1, <3>1, <3>2 DEF Without, IInv, LockTypeOK
  <2> QED
    BY <2>1, <2>4, LockedKept
<1>5. ASSUME NEW p \in Proc, ProcessEnds(p) PROVE Locked'
  <2>1. /\ pc' = [pc EXCEPT ![p] = "gone"] /\ UNCHANGED <<file, claim, past>>
        /\ cmd' = [q \in Proc |-> IF q \in {p} THEN Idle ELSE cmd[q]]
    BY <1>5 DEF ProcessEnds, Exit, Forget
  <2>2. cmd'[p] = Idle /\ \A q \in Proc \ {p} : cmd'[q] = cmd[q] /\ pc'[q] = pc[q]
    BY <2>1 DEF IInv, LockTypeOK
  <2>3. \A s \in Fresh, w \in Proc : On(w, Working, s)' =>
               /\ On(w, Working, s) /\ file'[s] = file[s]
               /\ pc'[w] = pc[w] /\ claim'[w] = claim[w]
    BY <2>1, <2>2, IdleIs DEF On
  <2> QED
    BY <2>1, <2>3, LockedKept
<1>6. ASSUME NEW p \in Proc, CancelKill(p) PROVE Locked'
  <2> DEFINE r == Target(p)
             x == Seen(p).pid
  <2>1. r \in Run /\ cmd[p].todo = {r} /\ cmd[p].at = "cancel_kill"
    BY <1>0, <1>6, TargetIs DEF CancelKill, At, OnOne, HasSeen, Marking, Cleaning
  <2>2. cmd[p].seen[r] # NoRow
    BY <1>0, <2>1 DEF Aimed, On, HasSeen, Marking
  <2>3. x \in Proc
    BY <2>1, <2>2, RowParts DEF Seen, CmdInv, Beside
  <2>4. \/ Exit(x) /\ cmd' = [cmd EXCEPT ![x] = Idle, ![p].at = "cancel_read"] /\ past' = past
        \/ Go(p, "cancel_read") /\ OnlyMemory
    BY <1>6 DEF CancelKill
  <2> HIDE DEF r, x
  <2>5. CASE Exit(x) /\ cmd' = [cmd EXCEPT ![x] = Idle, ![p].at = "cancel_read"] /\ past' = past
    <3> DEFINE one == [cmd EXCEPT ![x] = Idle]
    <3>1. DOMAIN one = Proc /\ one[x] = Idle /\ \A q \in Proc \ {x} : one[q] = cmd[q]
      BY <1>0, <2>3 DEF MemTyped
    <3>2. one[p] \in [at : Steps, todo : SUBSET Run, seen : [Run -> Row \cup {NoRow}]]
      BY <1>0, <2>3, IdleTyped DEF MemTyped
    <3>3. cmd' = [one EXCEPT ![p].at = "cancel_read"]
      BY <2>5
    <3> HIDE DEF one
    <3>4. cmd'[p].at = "cancel_read" /\ \A q \in Proc \ {p} : cmd'[q] = one[q]
      BY <3>1, <3>2, <3>3
    <3>5. /\ pc' = [pc EXCEPT ![x] = "gone"] /\ UNCHANGED <<file, claim>>
      BY <2>5 DEF Exit
    <3>6. ASSUME NEW s \in Fresh, NEW w \in Proc, On(w, Working, s)'
          PROVE  /\ On(w, Working, s) /\ file'[s] = file[s]
                 /\ pc'[w] = pc[w] /\ claim'[w] = claim[w]
      <4>1. w # p
        BY <3>4, <3>6 DEF On, Working
      <4>2. w # x
        BY <3>1, <3>4, <3>6, <4>1, IdleIs DEF On
      <4> QED
        BY <3>1, <3>4, <3>5, <3>6, <4>1, <4>2 DEF On, IInv, LockTypeOK
    <3> QED
      BY <2>5, <3>6, LockedKept
  <2>6. CASE Go(p, "cancel_read") /\ OnlyMemory
    <3>1. Others(p) /\ cmd'[p].at = "cancel_read"
      BY <1>0, <2>6, GoDoes DEF Steps
    <3>2. \A s \in Fresh, w \in Proc : On(w, Working, s)' => On(w, Working, s)
      BY <3>1 DEF On, Others, Working
    <3> QED
      BY <2>6, <3>2, QuietLocked DEF OnlyMemory
  <2> QED
    BY <2>4, <2>5, <2>6
<1>7. ASSUME NEW p \in Proc, CancelRelease(p) PROVE Locked'
  <2> DEFINE r == Target(p)
  <2>1. r \in Run /\ cmd[p].todo = {r} /\ cmd[p].at = "cancel_release"
    BY <1>0, <1>7, TargetIs DEF CancelRelease, At, OnOne, HasSeen, Marking, Cleaning
  <2>2. ReleaseRun(r) /\ Go(p, "done") /\ past' = past
    BY <1>7 DEF CancelRelease
  <2> HIDE DEF r
  <2>3. Others(p) /\ cmd'[p].at = "done"
    BY <1>0, <2>2, GoDoes DEF Steps
  <2>4. \A w \in Proc : pc'[w] = pc[w] /\ claim'[w] = claim[w]
    BY <2>1, <2>2, ReleaseIsLooser, LooserActive
  <2>5. ASSUME NEW s \in Fresh, NEW w \in Proc, On(w, Working, s)'
        PROVE  On(w, Working, s) /\ file'[s] = file[s]
    <3>1. On(w, Working, s)
      BY <2>3, <2>5 DEF On, Others, Working
    <3>2. s # r
      BY <2>1, <3>1 DEF CmdInv, Untouched, On, Late
    <3> QED
      BY <2>1, <2>2, <3>1, <3>2, ReleaseSpares
  <2> QED
    BY <2>2, <2>4, <2>5, LockedKept
<1>8. ASSUME NEW p \in Proc, NEW r \in Run, CleanRun(p, r) PROVE Locked'
  <2>1. /\ On(p, Cleaning, r) /\ cmd' = [cmd EXCEPT ![p].todo = @ \ {r}] /\ past' = past
        /\ \/ Spared(p, r) /\ UNCHANGED lockVars
           \/ ~Spared(p, r) /\ ReleaseRun(r)
    BY <1>8 DEF CleanRun, At, On, Cleaning
  <2>2. Others(p) /\ cmd'[p].at = cmd[p].at
    BY <1>0, <2>1, TodoDoes
  <2>3. \A s \in Fresh, w \in Proc : On(w, Working, s)' => On(w, Working, s)
    BY <2>1, <2>2 DEF On, Others, Working, Cleaning
  <2>4. CASE UNCHANGED lockVars
    BY <2>1, <2>3, <2>4, QuietLocked
  <2>5. CASE ~Spared(p, r) /\ ReleaseRun(r)
    <3>1. \A w \in Proc : pc'[w] = pc[w] /\ claim'[w] = claim[w]
      BY <2>5, ReleaseIsLooser, LooserActive
    <3>2. ASSUME NEW s \in Fresh, NEW w \in Proc, On(w, Working, s) PROVE file'[s] = file[s]
      <4>1. s # r
        <5> SUFFICES ASSUME s = r PROVE FALSE
          OBVIOUS
        <5>1. cmd[p].seen[r].pid = w /\ ~Ended(cmd[p].seen[r])
          BY <2>1, <3>2 DEF CmdInv, Untouched, On
        <5>2. pc[w] # "gone"
          BY <3>2, WorkersLive DEF CmdInv
        <5> QED
          BY <2>5, <5>1, <5>2 DEF Spared, PidAlive
      <4> QED
        BY <2>5, <3>2, <4>1, ReleaseSpares
    <3> QED
      BY <2>1, <2>3, <3>1, <3>2, LockedKept
  <2> QED
    BY <2>1, <2>4, <2>5
<1>9. ASSUME NEW p \in Proc, DoctorClear(p) PROVE Locked'
  <2>1. /\ file' = Without(DeadHolders) /\ UNCHANGED <<pc, claim, past>>
        /\ cmd' = [cmd EXCEPT ![p] = Begun("doctor", {file[x].run : x \in DeadHolders})]
    BY <1>9 DEF DoctorClear, ClearStaleLock, Begun
  <2>2. Others(p) /\ cmd'[p].at = "doctor"
    BY <1>0, <2>1, BegunIs DEF MemTyped, Others
  <2>3. ASSUME NEW s \in Fresh, NEW w \in Proc, On(w, Working, s)'
        PROVE  On(w, Working, s) /\ file'[s] = file[s]
    <3>1. On(w, Working, s)
      BY <2>2, <2>3 DEF On, Others, Working
    <3>2. s \in LockPath /\ s \notin DeadHolders
      BY <3>1, WorkersFile, Distinct DEF LockPath, DeadHolders, IsHolder, Active
    <3> QED
      BY <2>1, <3>1, <3>2 DEF Without
  <2> QED
    BY <2>1, <2>3, LockedKept
<1>10. ASSUME NEW p \in Proc,
           \/ \E r \in Run : ReadForResume(p, r) \/ Cancel(p, r) \/ DoctorRead(p, r) \/ DoctorSet(p, r)
           \/ \E to \in EngineStates : Drive(p, to)
           \/ \E accepted, dead \in BOOLEAN, step \in {"clean", "clean_dry"} : Clean(p, accepted, dead, step)
           \/ InsertRun(p) \/ SaveOwner(p) \/ SaveProgress(p)
           \/ CancelMark(p) \/ CancelRead(p) \/ CancelRemark(p) \/ CancelSet(p) \/ CancelAgain(p)
       PROVE  Locked'
  <2>1. UNCHANGED lockVars
    BY <1>10 DEF ReadForResume, Cancel, DoctorRead, DoctorSet, Drive, Clean, InsertRun, SaveOwner,
                 SaveProgress, CancelMark, CancelRead, CancelRemark, CancelSet, CancelAgain, OnlyMemory
  <2>2. past'.resumed = past.resumed
    <3>1. \/ past' = past
          \/ \E r \in Run : past' = [past EXCEPT !.stopped = @ \cup {r}]
          \/ \E r \in Run : past' = [past EXCEPT !.cancels = @ \cup {r}, !.again = @ \cup (past.cancels \cap {r})]
      <4>1. ASSUME CancelAgain(p) PROVE Target(p) \in Run
        BY <1>0, <4>1, TargetIs DEF CancelAgain, At, OnOne, HasSeen, Marking, Cleaning
      <4> QED
        BY <1>10, <4>1 DEF ReadForResume, Cancel, DoctorRead, DoctorSet, Drive, Clean, InsertRun, SaveOwner,
                 SaveProgress, CancelMark, CancelRead, CancelRemark, CancelSet, CancelAgain, OnlyMemory
    <3>2. PastTyped
      BY DEF CmdInv, Beside
    <3> QED
      BY <3>1, <3>2 DEF PastTyped
  <2> QED
    BY <1>10, <2>1, <2>2, WorkStays, QuietLocked
<1>11. CASE UNCHANGED vars
  <2>1. UNCHANGED lockVars /\ cmd' = cmd /\ past' = past
    BY <1>11 DEF vars
  <2> QED
    BY <2>1, QuietLocked DEF On
<1>12. CASE Next
  BY <1>1, <1>2, <1>3, <1>4, <1>5, <1>6, <1>7, <1>8, <1>9, <1>10, <1>12 DEF Next
<1> QED
  BY <1>11, <1>12

\* Where claims are not exclusive, no command takes the worktree or the lock file
\* of a run that its first process still drives.
THEOREM FreshIsUntouched ==
    ASSUME ~RepoExclusive, \A r \in Run : Paths[r] # {}
    PROVE  Spec => []FreshRunUntouched
<1>1. Plain
  BY DEF Plain
<1>2. Init => Locked
  <2>1. Init => \A p \in Proc : cmd[p].todo = {}
    BY IdleIs DEF Init
  <2> QED
    BY <2>1 DEF Locked, On
<1>3. (IInv /\ CmdInv) /\ Locked /\ [Next]_vars => Locked'
  BY <1>1, NextLocked
<1>4. IInv /\ CmdInv /\ Locked => FreshRunUntouched
  <2> SUFFICES ASSUME IInv, CmdInv, Locked, NEW p \in Proc, NEW r \in Run \ past.resumed,
                      Driving(p, r), ~Ended(row[r])
               PROVE  r \in trees /\ \E x \in LockPath : /\ IsHolder(x)
                                                         /\ file[x].run = r /\ file[x].pid = p
    BY DEF FreshRunUntouched, LockStays
  <2>1. r \in Fresh /\ On(p, Working, r) /\ pc[p] = "holding" /\ cmd[p].at = "drive" /\ r \in LockPath
    BY DEF Driving, At, On, Working, Fresh, LockPath
  <2>2. r \in trees
    BY <2>1 DEF CmdInv, Untouched
  <2>3. IsHolder(r) /\ file[r].run = r /\ file[r].pid = p
    BY <2>1, WorkersFile
  <2> QED
    BY <2>1, <2>2, <2>3
<1> QED
  BY <1>2, <1>3, <1>4, CommandsInv, PTL DEF Spec

=============================================================================
