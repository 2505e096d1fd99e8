------------------------------- MODULE Harvest -------------------------------
(***************************************************************************)
(* How the work of a worker becomes a commit and is judged: the inner      *)
(* worktree and its branch (crates/wanax-git), collect_inner_receipt and   *)
(* collect_peer_receipt, the merge of a peer and the outer review          *)
(* (engine.rs), with check_boundaries and missing_must_have                *)
(* (crates/wanax-verify).                                                  *)
(*                                                                         *)
(* A worker is any program that edits files and runs git in its worktree.  *)
(* It has the worktree to itself until it ends; what it leaves there is    *)
(* still there after a rework, and after a crash and a resume.             *)
(*                                                                         *)
(* A tree gives every path its file: none, that of the base commit, or a   *)
(* new one.  How alike two files are is left open, and with it which moves *)
(* git takes for a rename.                                                 *)
(***************************************************************************)
EXTENDS AcceptGates, FiniteSets

CONSTANTS
    Paths,      \* those that git prints as they are and does not ignore
    Old,        \* the files of the base commit
    Allowed, Forbidden,     \* the globs of the contract
    Scratch,    \* target/ and Cargo.lock
    Meta,       \* WORK_UNIT.md, .wanax/ and .wanax-bin/
    Records,    \* .wanax/runs/ and .wanax/worktrees/
    MustHave,   \* must_have files of the completion criteria
    Needed      \* the test is green when these are new

ASSUME PathsType ==
    /\ IsFiniteSet(Paths)
    /\ Old \cup Allowed \cup Forbidden \cup Scratch \cup Meta \cup MustHave \cup Needed
           \subseteq Paths
    /\ Records \subseteq Meta

Trees == [Paths -> {"none", "base", "new"}]
Base  == [p \in Paths |-> IF p \in Old THEN "base" ELSE "none"]

VARIABLES
    role,           \* assignee_role of the unit: master, or peer
    work, index,    \* the worktree of the worker and its index
    head, parent,   \* the trees of its HEAD and of the commit before it
    attached,       \* HEAD is the branch of the unit
    descends,       \* HEAD is a descendant of the base commit
    added,          \* the paths of the running harvest
    receipt,        \* the tree of the commit and the files it says have changed
    reworks,
    phase

tree == <<work, index, head, parent, attached, descends>>
vars == <<role, work, index, head, parent, attached, descends,
          added, receipt, reworks, phase>>

Phases == {"working", "added", "receipt", "merged", "rework",
           "accept", "reject", "escalate", "budget", "failed"}

TypeOK ==
    /\ role \in {"master", "peer"}
    /\ work \in Trees /\ index \in Trees /\ head \in Trees /\ parent \in Trees
    /\ attached \in {"yes", "no"} /\ descends \in {"yes", "no"}
    /\ added \subseteq Paths
    /\ receipt \in [commit : Trees, changed : SUBSET Paths]
    /\ reworks \in 0 .. MaxRework
    /\ phase \in Phases

Init ==
    /\ role \in {"master", "peer"}
    /\ work = Base /\ index = Base /\ head = Base /\ parent = Base
    /\ attached = "yes" /\ descends = "yes"
    /\ added = {}
    /\ receipt = [commit |-> Base, changed |-> {}]
    /\ reworks = 0 /\ phase = "working"

-----------------------------------------------------------------------------
(* git *)

Diff(a, b)    == {p \in Paths : a[p] # b[p]}
Created(a, b) == {p \in Paths : a[p] = "none" /\ b[p] # "none"}
Deleted(a, b) == Created(b, a)

\* diff_name_only: of a rename git diff lists the new name alone.  A file that was created
\* is the new name of one deleted file at most.
Listed(a, b) ==
    {Diff(a, b) \ moved :
        moved \in {ds \in SUBSET Deleted(a, b) : Cardinality(ds) <= Cardinality(Created(a, b))}}

\* status_paths: what is untracked, unstaged or staged.  Of these the staged ones alone can
\* be renames: a file that git diff has for created is in the index.
Status == {Diff(work, index) \cup staged : staged \in Listed(head, index)}

\* git add of ps.
WithAdded(ps) == [p \in Paths |-> IF p \in ps THEN work[p] ELSE index[p]]

\* git commit of an index, which has to differ from HEAD.  Only the last commit of
\* a peer is looked at by itself.
Commit ==
    /\ head' = index
    /\ parent' = IF role = "peer" THEN head ELSE parent

-----------------------------------------------------------------------------
(* The worker *)

Working == phase = "working" /\ UNCHANGED <<role, added, receipt, reworks, phase>>

\* A file is written, removed, or as it was.
Edit(p) ==
    /\ Working
    /\ \E v \in {"none", "new", Base[p]} \ {work[p]} : work' = [work EXCEPT ![p] = v]
    /\ UNCHANGED <<index, head, parent, attached, descends>>

\* git add, git rm; with an edit of two files, git mv.
StageByHand(p) ==
    /\ Working
    /\ index' = [index EXCEPT ![p] = work[p]]
    /\ UNCHANGED <<work, head, parent, attached, descends>>

CommitByHand ==
    /\ Working /\ index # head
    /\ Commit
    /\ UNCHANGED <<work, index, attached, descends>>

\* reset --hard to the base commit.
ResetByHand ==
    /\ Working
    /\ work' = Base /\ index' = Base /\ head' = Base /\ parent' = Base
    /\ descends' = "yes"
    /\ UNCHANGED <<attached>>

\* The git wrapper refuses the protected refs alone: a new branch, or an orphan.
LeaveBranch ==
    /\ Working
    /\ attached' = "no"
    /\ descends' \in {descends, "no"}
    /\ UNCHANGED <<work, index, head, parent>>

Worker ==
    \/ \E p \in Paths : Edit(p) \/ StageByHand(p)
    \/ CommitByHand \/ ResetByHand \/ LeaveBranch

-----------------------------------------------------------------------------
(* The receipt *)

LeftOut == Scratch \cup Meta \cup Forbidden

\* MUTANT: what is staged already is not looked for.
AddableUnstaged == {Diff(work, index) \ LeftOut}

Addable == {listed \ LeftOut : listed \in Status}

\* check_boundaries looks over the factory's own records.
InBounds(ps) == ps \ Records \subseteq Allowed \ Forbidden

\* missing_must_have is empty.
MustMet(ps) == MustHave \subseteq ps

Fails(how) == phase' = how /\ UNCHANGED <<role, tree, added, receipt, reworks>>

\* A peer must have kept to its own globs, as far as it has not committed.
PeerOutOfBounds ==
    /\ phase = "working" /\ role = "peer"
    /\ \E ps \in Addable : ~InBounds(ps)
    /\ Fails("failed")

\* A file whose deletion is staged is nowhere where git add could find it.
Nowhere(ps) == {p \in ps : work[p] = "none" /\ index[p] = "none"}

AddFiles ==
    /\ phase = "working"
    /\ \E ps \in Addable :
        /\ role = "peer" => InBounds(ps)
        /\ Nowhere(ps) = {}
        /\ added' = ps
        /\ index' = WithAdded(ps)
    /\ phase' = "added"
    /\ UNCHANGED <<role, work, head, parent, attached, descends, receipt, reworks>>

\* The files are added one by one, up to the first that is nowhere.
AddFails ==
    /\ phase = "working"
    /\ \E ps \in Addable :
        /\ role = "peer" => InBounds(ps)
        /\ Nowhere(ps) # {}
        /\ \E some \in SUBSET (ps \ Nowhere(ps)) : index' = WithAdded(some)
    /\ phase' = "failed"
    /\ UNCHANGED <<role, work, head, parent, attached, descends, added, receipt, reworks>>

\* Killed between the two; the resumed run starts a worker in the same worktree.  (One
\* that is killed among the adds leaves what a worker can stage by hand.)
Crash ==
    /\ phase = "added"
    /\ phase' = "working"
    /\ UNCHANGED <<role, tree, added, receipt, reworks>>

\* The inner worktree is committed as well when something else than its meta
\* files is left over, whether or not it has been added.
ToCommit(listed) ==
    \/ added # {}
    \/ role = "master" /\ listed \ Meta # {}

NothingToCommit ==
    /\ phase = "added"
    /\ index = head /\ \E listed \in Status : ToCommit(listed)
    /\ Fails("failed")

\* MUTANT: HEAD is read before the commit.
CommittedBefore == head

Committed == head'

\* MUTANT: the diff is taken from the last receipt.
FromLast == receipt.commit

From == Base

Receipt ==
    /\ phase = "added"
    /\ \E listed \in Status :
          \/ ToCommit(listed) /\ index # head /\ Commit
          \/ ~ToCommit(listed) /\ UNCHANGED <<head, parent>>
    /\ \E listed \in Listed(From, Committed) :
          receipt' = [commit |-> Committed, changed |-> listed]
    /\ phase' = "receipt"
    /\ added' = {}
    /\ UNCHANGED <<role, work, index, attached, descends, reworks>>

\* cherry_pick of the peer's commit, alone, onto the base: what the inner worktree
\* and its receipt have now.
Picked == [p \in Paths |-> IF head[p] # parent[p] THEN head[p] ELSE Base[p]]

\* A file that the base and the peer's commit have changed in two ways, unless the
\* commit may have moved it.
Clash ==
    \E p \in Paths :
        /\ parent[p] # Base[p] /\ head[p] \notin {parent[p], Base[p]}
        /\ ~ (head[p] = "none" /\ Created(parent, head) \ Old # {})

MergePeer ==
    /\ phase = "receipt" /\ role = "peer"
    /\ Picked # Base /\ ~Clash
    /\ phase' = "merged"
    /\ \E listed \in Listed(From, Picked) :
          receipt' = [commit |-> Picked, changed |-> listed]
    /\ UNCHANGED <<role, tree, added, reworks>>

\* An empty pick fails.  One whose parent is not the base is a merge: it may conflict.
PickFails ==
    /\ phase = "receipt" /\ role = "peer"
    /\ Picked = Base \/ parent # Base
    /\ Fails("failed")

-----------------------------------------------------------------------------
(* The outer review, in a worktree of the commit *)

Reviewing == IF role = "peer" THEN phase = "merged" ELSE phase = "receipt"

\* What the review finds out; the other gates are free.  It takes the diff of the
\* receipt once more, which lists the same.
GatesOf(free) ==
    [outer |-> \A p \in Needed : receipt.commit[p] = "new",
     boundary |-> InBounds(receipt.changed),
     command |-> TRUE,
     descendant |-> role = "peer" \/ descends = "yes",
     changed |-> receipt.changed # {},
     exhausted |-> free.exhausted, plugin |-> free.plugin, bound |-> free.bound,
     secrets |-> free.secrets,
     must |-> MustMet(receipt.changed),
     rework |-> reworks]

Free == [exhausted : BOOLEAN, plugin : BOOLEAN, bound : BOOLEAN, secrets : BOOLEAN]

\* The turns are used up and nothing has changed.
OutOfTurns ==
    /\ Reviewing /\ receipt.changed = {}
    /\ Fails("budget")

Verdict ==
    /\ Reviewing
    /\ \E free \in Free :
        LET g == GatesOf(free) IN
        \E proposed \in Proposals(g) :
            LET dn == EnforceDecision(proposed, g) IN
            phase' = IF dn = <<"accept", "budget">> THEN "budget" ELSE dn[1]
    /\ UNCHANGED <<role, tree, added, receipt, reworks>>

\* A single unit goes on in the same worktree; the next attempt of a batch is in
\* module Waves.
Rework ==
    /\ phase = "rework" /\ role = "master"
    /\ reworks < MaxRework
    /\ reworks' = reworks + 1
    /\ phase' = "working"
    /\ UNCHANGED <<role, tree, added, receipt>>

Next ==
    \/ Worker
    \/ PeerOutOfBounds \/ AddFiles \/ AddFails \/ Crash \/ NothingToCommit \/ Receipt
    \/ MergePeer \/ PickFails
    \/ OutOfTurns \/ Verdict \/ Rework

Spec == Init /\ [][Next]_vars

-----------------------------------------------------------------------------
(* Properties *)

OutOfBounds(tr) == Diff(Base, tr) \ (Records \cup (Allowed \ Forbidden))

\* docs/PRD.md:80, 529: whatever earlier attempts, crashes and the worker's own commits have
\* left on the branch, no file that is accepted is new or other than in the base where the
\* contract does not allow it (but for wanax's own records), and it differs in every file
\* that the criteria name.  A file out of bounds may be gone, where one was created in
\* its stead: git diff does not name what it takes for moved.
AcceptedInBounds ==
    phase = "accept" =>
        LET out == OutOfBounds(receipt.commit)
            new == Created(Base, receipt.commit)
        IN /\ out \subseteq Deleted(Base, receipt.commit)
           /\ Cardinality(out) <= Cardinality(new)
           /\ new \ Records \subseteq Allowed \ Forbidden
           /\ MustHave \subseteq Diff(Base, receipt.commit) /\ Diff(Base, receipt.commit) # {}

\* README.md:114 of allowed_globs, "Only these paths may change", and docs/PRD.md:80: a
\* change of a path outside them is rejected.  Violated by a file that the worker has
\* moved into them.
OnlyAllowedChange == phase = "accept" => OutOfBounds(receipt.commit) = {}

\* README: the branch wanax/<run_id>/inner is the output.  It holds what has been
\* tested, if the worker has not left it for another.
AcceptedIsOnBranch ==
    phase = "accept" /\ attached = "yes" /\ role = "master" => head = receipt.commit

\* What is not in the commit of a receipt as it is in the worktree, of the files that
\* may be handed in.
Behind == Diff(work, receipt.commit) \ LeftOut

\* Every file the worker has left in the worktree, edited, staged, committed or as it
\* was, is in the commit that is judged, for a single unit also the accepted one.  Of
\* its deletions one is left behind only where the worker has staged it and nothing else
\* but a left out file, which git may take for its new name.  And a harvest of a
\* single unit that fails has left out files to hand in only, or a staged deletion, which
\* git add does not find.
WorkHandedIn ==
    /\ phase = "receipt" \/ (phase = "accept" /\ role = "master") =>
          /\ Behind \subseteq Deleted(head, index) \cap Deleted(head, work)
          /\ Behind # {} => /\ Created(head, index) \subseteq LeftOut
                            /\ Cardinality(Behind) <= Cardinality(Created(head, index))
    /\ phase = "failed" /\ role = "master" =>
          \/ Diff(work, head) \subseteq LeftOut
          \/ (Deleted(head, index) \cap Deleted(head, work)) \ LeftOut # {}

\* docs/PRD.md:499, "if there are changes: git commit".  Violated by a worker that uses
\* git rm, and by a crash between the add of a deletion and its commit.
ChangesAreCommitted == phase = "failed" /\ role = "master" => Diff(work, head) \subseteq LeftOut

\* A peer that has committed by itself may have more than one commit, of which
\* only the last is picked: violated.
PeerWorkKept == phase = "merged" => Diff(Base, receipt.commit) = Diff(Base, head)

\* A worker whose work is in, but for files that are left out on purpose, has
\* handed in its work: violated.
HarvestWorks == phase = "failed" /\ role = "master" => Diff(work, head) \ (Scratch \cup Meta) # {}
=============================================================================
