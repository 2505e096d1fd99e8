# A TLA+ model of wanax

wanax drives coding agents over a repository. A *run* is contracted (allowed
and forbidden globs, test commands, budget), a commander model splits or words
the work, a worker in an isolated worktree does it, a second, fresh worktree
repeats the tests, gates and a verdict decide, and a "tombstone" records it all. Everything is done by short-lived CLI processes that share a repository:
a SQLite store, a directory of lock files, an envelope file and git worktrees.
There is no daemon. What is hard is therefore what two processes do to each
other, and what a crash between two writes leaves to the next process.

## Inventory

Paths are below `src/crates/`. Interactions are calls inside a process, and
shared files or rows between processes.

| component | state | operations | hard behaviour | what makes it correct |
|---|---|---|---|---|
| repository lock, `wanax-core/src/lock.rs` | `LOCK`, `locks/<run>`, the `LOCKSET` flock | acquire (new or resume), release, release_run_lock, clear_stale_lock | check and create by several processes; files half written by a crash; files of dead processes; removal without the flock | two live engines never hold conflicting claims; a resume does not expel a live engine |
| run states, `wanax-core/src/state.rs` | state of a run | can_transition | the engine reaches the same state on many paths | the engine only asks for legal moves; terminal is final |
| gates and verdict, `wanax-core/src/accept.rs`, `wanax-llm/src/lib.rs` | none | can_accept, enforce_decision | several gates shut at once; three comparisons with MAX_REWORK | no accept past a closed gate, whatever a model proposes |
| factory engine, `wanax-cli/src/engine.rs` | row, `work_units`, `verdicts`, envelope, worktrees; memory of the loop | run_factory, continue_factory, drive_factory | five stores written one after another, a crash between any two; copies of a unit in memory | no accept without verdicts; no verdict lost or counted twice; the loop ends |
| tombstone replay, `wanax-cli/src/replay.rs` | envelope | envelope_snapshot, apply_verdict_to | folding events in their order; healing the table | table and envelope agree |
| budget, `wanax-core/src/budget.rs`, `money.rs` | spent money, turns | charge, exhausted | charged at every external call | no accept after the budget is spent |
| commands, `wanax-cli/src/main.rs`, `clean.rs`, `doctor.rs` | row, lock, worktrees | start, resume, cancel, clean, doctor --fix-lock | each reads, decides, and writes later | an active run is left alone; a cancelled one stops |
| store, `wanax-core/src/store.rs` | SQLite tables | insert, set_state, upserts, lists | set_state checks the caller's copy | as the commands |
| peer batches and DAG waves, `engine.rs` 2127-2600, `wanax-verify/src/peer.rs` | worktrees of the peers, master unit, wave rework count | run_peer_batch, merge, shared verdict | parallel workers, partial failure, conflicts of a merge, resume of a half-done batch | nothing unmerged is accepted |
| improve loop, `engine.rs` 160-600 | total spent, evidence of the last run; `LEARNINGS.md` | run after run, append_learning | the total is compared after a run; evidence in the order of a hash map; a file rewritten without a lock | it stops, within one run of its cap; no run is forgotten |
| inner goal loop, `engine.rs` 2640-2800, `wanax-llm/src/goal.rs` | iteration, last handle, paths of the last round | worker, test, self review | stop conditions; charges between the checks of the budget | it ends; overspending is bounded |
| tombstone store, `wanax-tombstone` | `envelope.json`, `TOMBSTONE.md`, a temporary file | init, load, append_event, persist | load-change-store by several processes, two files, failed writes | no event lost, nothing half written, Markdown follows |
| clients, `wanax-llm` | tries of a question | dispatch, verdict, retries, parse | tries that are paid and not charged | no question beyond the budget |
| worker adapters and test commands, `wanax-worker`, `wanax-verify` | child processes, their groups and pipes | start, feed, wait, kill | time-outs against leaders that are gone, processes that keep a pipe | no child left behind, every call ends |
| DAG validation `dag.rs`; glob overlap `glob_overlap.rs` | queue and in-degrees of a sort; none | topological order; overlap test | cycles, double and unknown ids; approximation by probe paths | order respects dependencies; overlap is not missed |
| harvest of a worktree, `engine.rs` 2440-2500, 3165-3230, `wanax-git`, `wanax-verify/src/lib.rs` | trees of a worktree, its index and its commits | status, add, commit, diff, pick, check_boundaries | a worker that uses git itself; what an earlier attempt has left | nothing new or changed is accepted out of bounds |
| contract parsing, configuration, sandbox, reporting | | | their results are inputs (gates, constants) of the others | |

`PROJECT.json` lists these and the remaining components with their status, and
the hazards of the code with the line where each bites.

## Modules

**RepoLock** is `lock.rs`. `file` maps the two kinds of lock file (`LOCK` for an
exclusive claim, one path per run otherwise) to absent, malformed, or a holder.
A process is idle, creating, holding or gone. Acquire is one step, as it runs
under the flock of `LOCKSET`, up to the creation of the file; WriteHolder is
`write_lock`, so a crash in between leaves an empty, malformed file. Release,
ReleaseRunLock (cancel, clean) and ClearStaleLock (doctor) are one step each. The
overlap of globs is the constant relation `Overlap`. `revoked` is history: the lock
of a live process was taken away by cancel or clean; the properties say what
holds until then. A pid is not used a second time.

**RunState** is `state.rs`; **AcceptGates** is `accept.rs`, both without
variables. **Review** puts the gates around the successive reviews of one unit:
any gates, any proposal of the commander, any budget, then what drive_factory
makes of the verdict.

**RunPromise** is what a run promises, in five actions and four variables.
**Factory** is `run_factory`, `continue_factory` and `drive_factory`, with the
replay a resume starts from. `row`, `db`, `verdict`, `envelope` and `trees` are on
disk; `m` is the memory of the engine and is lost in a crash. Each action ends
with one write to disk, so a Crash between two actions is a crash between two writes.
The work of a run is unit 0, or the units 1..n of the DAG the commander answers
with. The refinement mapping of `KeepsPromise` reads `RunPromise` off what is on
disk only: a crash changes nothing of what is promised.

**Waves** is `run_peer_batch` and the way drive_factory uses it: a batch the commander
asks for, or the wave of those ready units of a DAG whose globs are disjoint. The envelope
is the sequence of units in the order of their first event, to which each attempt adds a master
and its peers; a commit is the set of units of the plan whose work it has, so that a
pick is a union, a rollback an assignment, and "the accepted work is in what is
shipped" an inclusion. The peers' workers are one step, as each has a worktree of
its own; what they hand in is then collected and picked one by one, and any
of these can fail. A peer that changed nothing hands in the base commit, whose pick is
empty and always fails. Waves leaves out what Factory has: the rows of `work_units`,
money, a crash between two seeds, a first answer that is a single unit.

**Commands** extends RepoLock (its steps are used as they are; those of RepoLock alone are
LockInit, LockNext and LockSpec) with
the rows of the runs and the commands that change them. A command is cut at
every read and write of the row or the lock that another process could
come between; what it has read stays in `cmd[p].seen`. The engine appears in it
as Drive: it moves the row of its run along `can_transition`, the abstraction
of Factory that the other commands can see.

**Child** is one external call after another: a leader in a process group, which may
fork, redirect its output, exit, ignore SIGTERM or not read its input, and the process of
wanax that feeds it, waits with a deadline, and kills. The six kinds of call differ in who
is fed, what the deadline covers and what is killed; the actions name the kind. A process
whose call is over is a stray. Cancel is the SIGTERM of `wanax cancel` to wanax itself.

**Spending** is a run of one unit by what it pays (`paid`) and what it is charged
(`spent`): each question with its tries, each worker, self review and mechanical verdict is
a step with any cost up to the maximum of its kind, and the checks of the budget stand where
the code has them. Factory has one charge per call of these.

**Improve** is `improve` and `append_learning` by several processes: iteration, total,
evidence of the last run, and the copy of LEARNINGS.md between its read and its
write. A run in it is one step.

**Globs** is `glob_overlap.rs` with the matching of globset, on patterns cut into tokens, and
the reference (`Language`, `Meet`). **Planning** takes a commander's answer through
parse_dispatch_plan, topo_sort (one action per unit taken off the queue), seed_dag_units, or
the checks of a peer batch.

**Tombstone** has the two files of a run, the temporary file and what each process holds
in memory. append_event is a load, then for each file open, write and rename; each can
fail by itself (StoreFails, LoadFails; MaxFaults bounds how often), leaving the file it writes as it was, whole or in
part, and a process can die at any of them. No caller but start heeds the error. Engines start and resume as
Commands lets them, a cancel kills the pid it has read. `raced` is history: two processes have
been between a load and the last rename at once. The code does nothing against that, so the
properties are stated until it happens, and what is left to show is that a resume after a
crash, and a cancel that kills before it writes, are *not* such an overlap.

**Harvest** is one worktree. A tree gives each path no file, that of the base, or a new one; the worker edits, moves,
stages, commits, resets and leaves its branch at will, and collect_inner_receipt, collect_peer_receipt,
cherry_pick and the review do what they do to the trees. How alike two files are is open, so `git diff --name-only`, which
looks for renames, leaves out any deleted files, at most as many as were created (Listed). `git add` fails on a file that is in neither the
worktree nor the index (AddFails), a pick where it is empty or conflicts (PickFails). Paths are those that git prints as they are, does not
ignore and takes for no pathspec magic, and nothing is added with intent-to-add. The gates that do
not come from the trees are free, and enforce_decision is that of AcceptGates. Scratch (`target/`,
`Cargo.lock`) and Meta (`WORK_UNIT.md`, `.wanax/`, `.wanax-bin/`) are both left out
of a commit and differ in one place, ToCommit; Records is the part of `.wanax/` that the boundary
check looks over.

How they fit together: Harvest produces the gates that Review and AcceptGates judge by; Child
is what Factory and Spending call a worker, a test or a question; Planning produces the
plans that Factory and Waves take as constants; Globs is the relation `Overlap` of
RepoLock and `Meet` of Waves; Spending bounds the `RunMax` of Improve; Commands
justifies who may write the envelope in Tombstone.

**MCRepoLock**, **MCFactory**, **MCWaves**, **MCCommands**, **MCImprove**, **MCPlanning** and
**MCTombstone** give the constants their values for TLC; Review, Child, Spending and
Harvest need no such module. **RepoLockProofs**, **VerdictProofs**, **ChildProofs**,
**SpendingProofs**, **PlanningProofs**, **TombstoneProofs**, **WavesProofs** and **FactoryProofs**
hold theorems: RepoLockProofs those of RepoLock and of Commands, SpendingProofs those of Spending and of Improve,
VerdictProofs those of Review and of Harvest. To stand beside another module there, RepoLock, Review and Improve
put their name before Init, Next and Spec.

## Runs

| run | what it shows |
|---|---|
| `repo_lock` | Exclusion, one engine per run, the holder is on disk while the lock is held |
| `review` | the accept passes every gate, a red test is never turned into an accept, the fourth rework escalates |
| `factory` | one unit or a DAG of two, up to two crashes anywhere: refinement of RunPromise, table and envelope agree, no dead end in a DAG, no accept over budget, no illegal move, the run ends |
| `factory_resume` (violated) | a run interrupted after its first outer review cannot be finished by any resume: worktree numbers start again, and the worktree exists |
| `waves` | a peer batch or a DAG with a wave, sent back, crashed and resumed: what is picked is not on the inner branch yet, every accepted work is in the commit that ships, a wave is attempted MaxRework + 1 times at most, memory and envelope agree on who is accepted, and an accepted run has an accept on record for all its plan |
| `commands` | start_pid names the process that drives, cancel stops it, no other command touches a run that was never resumed, doctor and clean never change an accepted row |
| `child` | a time-out leaves no process behind, also when the leader is gone; every call with a deadline ends, but for three waits that the deadline does not cover |
| `spending` | a run overspends by one question or one round of worker, self review and mechanical verdict; what is paid and not charged is bounded; the run ends |
| `improve` | the loop exceeds its cap by less than one run; a run that ended is in LEARNINGS.md unless two ended at once; repeated evidence stops it, unless a run had several error codes |
| `planning` | units on record depend on earlier ones, and just those named; only cycles and double ids are refused as cycles; for files and whole trees the overlap test is exact, and all that a peer let through may write is inside the contract |
| `tombstone` | without overlapping appends the envelope is never torn, no event is lost, and the Markdown never runs ahead, and is behind only while a writer is between the two files or after one died or failed there |
| `harvest` | whatever the worker does with git, no file that is accepted is new or changed outside the globs, at most deletions that git takes for moves are; it has the required files, and is the head of the inner worktree; no file that may be handed in is left behind but for staged deletions, and a harvest that fails had these, or only left out files |

`CleanMerge` and `SharedVerdict` are stated for a process that was not interrupted and a
plan that is a DAG. After a batch the commander asked for itself, a rework leaves the merged
work on the branch; and a resume takes every unit of the envelope, masters and
peers included, for a unit of the DAG, so that it may work on them again one by one.
`AcceptedShips` and `AcceptHasVerdicts` hold across crashes all the same.

`FreshRunUntouched` is checked for claims that are not exclusive. With exclusive
claims it does not hold: all runs share the path `LOCK`, release unlinks without
looking whose file it is, and a process that lost its lock to a clean or a cancel
removes the LOCK of the next run when it returns late.

`PeersInContract` is stated for contracts of files and whole trees in which no file and no forbidden glob is the name
that stands for what is below a directory (PlainContract). run_peer_batch looks at one path per glob of a peer; where the contract
forbids just that path, or allows just that, the answer says nothing of the others.

`RepeatStops` excepts evidence with several error codes: evidence_notes (engine.rs:384) takes
them from a HashMap, whose order differs from run to run, so that equal evidence need not be equal text.

The type invariants of RepoLock, Commands, Review, Factory, Waves, Spending, Planning, Tombstone and Harvest are proved instead of run,
and so are three smaller properties: RedTestReworks (a red outer test is a rework or an escalation), CommanderWithinBudget (no question
once the budget is out) and StaleLockStays (no start and no release removes the file of a dead process).

## Known departures

`factory_resume` is checked with the runs. The others below have a configuration
each, to be run by hand (`tlc -config X.cfg M`), in which TLC finds the property violated
within a minute; the code departs from a statement of the repository, or from what the rest of it relies on.

| configuration, module | property | statement | what the code does |
|---|---|---|---|
| `MCRepoLockFix`, MCRepoLock | FixLockRecovers | docs/PRD.md:460, a crash leaves LOCK behind and `doctor --fix-lock` can clear it | create_holder creates the file (lock.rs:155) before write_lock fills it; an empty file is rejected by read_lock, and clear_stale_lock gives up at the first file it cannot read |
| `MCFactoryRework`, MCFactory | ReworkLimit | docs/PRD.md:302, `max_rework=3`, beyond that the run escalates | the count of a unit of a DAG is incremented in a clone (engine.rs:1870); the next turn takes the unit from dag_units again, where it is still 0 |
| `MCFactoryPlan`, MCFactory | AcceptedWholePlan | comment at engine.rs:2611, "the envelope alone must be enough to rebuild the dag set after a crash" | one row and one event per unit; after a crash between two the resume takes what it finds for the whole DAG |
| `MCWavesPending`, MCWaves | PendingIsLatest | comment at replay.rs:241, "Pending = the latest receipt whose unit never reached a verdict state" | the code takes the last unit in order of first events; peers come after their master and no verdict reaches them |
| `MCCommandsLock`, MCCommands | ActiveLockUntouched | clean.rs:33, "A live process always wins — never touch it." | clean asks for the start_pid it read in list_runs; resume acquires the lock (engine.rs:639) before it saves its own pid |
| `MCCommandsFinal`, MCCommands | TerminalIsFinal | test terminal_cannot_leave, state.rs:72 | set_state checks the caller's copy and updates the row unconditionally; cancel writes over accepted or failed |
| `MCChildCancel`, Child | CancelKillsTree | README.md:279, an own process group "so timeouts and `wanax cancel` kill the whole tree" | both pids that cancel signals are wanax's own (engine.rs:2075, 2221); its children are in other groups |
| `MCPlanningGlob`, MCPlanning | OverlapFound | comment at glob_overlap.rs:15, "True when two allowed-glob sets could match the same repo-relative path." | the probes are made from prefixes: `**/*.md` and `src/**` share paths that no probe hits; used by the lock, by batches and by waves |
| `MCTombstoneState`, MCTombstone | StateAgrees | docs/PRD.md:332, current_state agrees with the database | cancel writes cancelled into the envelope after the run has ended (main.rs:621), and a resume goes on with an old row |
| `MCHarvestPeer`, Harvest | PeerWorkKept | a receipt lists what its commit changed since the base | cherry_pick takes the last commit of a peer alone; what it committed itself before is dropped |
| `MCHarvestLeft`, Harvest | HarvestWorks | files that are left out on purpose are skipped (engine.rs:3195) | the second filter (engine.rs:3204) does not leave out target/, Cargo.lock and forbidden files; when only these are dirty, git commit fails and the run with it |
| `MCHarvestMoves`, Harvest | OnlyAllowedChange | README.md:114 of allowed_globs, "Only these paths may change", and docs/PRD.md:80 | diff_name_only (wanax-git lib.rs:231) looks for renames and names a moved file by its new path alone: of a file moved into the globs, the boundary check (engine.rs:1409) never sees that the old one is gone, and the deletion is accepted |
| `MCHarvestRemoved`, Harvest | ChangesAreCommitted | docs/PRD.md:499, "若有变更：`git commit`" (if there are changes) | `git add` of a deletion that is staged already fails (lib.rs:199), after the worker's `git rm` or a crash between the add of a deletion and its commit; the `?` at engine.rs:3200 ends the run with nothing committed |

## Bounds, and why they are enough

- RepoLock: three processes and four runs, with disjoint, overlapping and empty
  globs. A conflict needs two; the third is who clears or resumes between
  their steps. Symmetry in the processes only: the runs differ by their globs.
- Review: none but the code's own; MaxRework is the real 3.
- Factory: MaxRework 1 to 3; MaxUsd 2 and MaxTurns 4, in charges of one unit, so that
  every call can be the one that spends the rest; MaxCrash 2, as the second
  crash hits a resume; DAGs of two units (MaxUnits 2 of the code's 16), as a chain and independent. A third unit
  repeats what the second does: the loop looks at one unit and at who is accepted.
  Worktrees are numbered, never removed by a live run.
- Waves: three units, of which the first and the third share globs, and two DAGs, so that the
  wave comes first, or after an accepted unit that its rollback must spare. MaxRework 1,
  so that a wave is sent back, retried and escalated; MaxTurns 7 is the longest of these
  paths (one single unit, two attempts of a wave of two) with two turns to spare, and it
  bounds the envelope, as every attempt costs turns. MaxCrash 2.
- Factory frees the gates the review itself measures (outer tests, boundary, plugin
  checks, bound evidence), one failing at a time; Review has all combinations.
- Commands: three processes with one command each (one drives, one interferes, one
  takes over), two runs. `EngineStates` is the part of the states a
  driving engine passes through: those from which a command behaves differently,
  one for each phase. The violations need one run only.
- Child: two calls, since a stray is one of an earlier call; a leader and one member, which
  stands for all that a leader starts. Every kind follows every kind.
- Spending: MaxUsd 3 and MaxTurns 3 with costs up to 2 and 1 and up to two turns: the budget
  can end in each call, exactly or beyond. MaxIters 2 and MaxRework 1, so that both limits are
  reached with budget left. Tries is the real 3.
- Improve: two processes, one with three iterations and one with a single run; Cap 2 and
  RunMax 1, and two classes of evidence of which one has two codes.
- Planning: DAGs of up to three units with every list of two dependencies, double, unknown
  and own ids included, some of four and of five (one more than MaxUnits); pairs, and some triples, of
  peers over 13 patterns, against all paths of up to three names out of eight, the probes of trees
  included; a contract of two allowed and two forbidden globs.
- Tombstone: two engines, the second of which can resume, and one cancel; three events, so that
  each of them appends, or an engine on both sides of a cancel; one failed operation, which meets every other step and every crash.
  StateAgrees is looked for without one, as it needs none.
- Harvest: three paths: allowed and required, allowed but forbidden, and outside of the globs in the base. One file can so be moved
  into bounds, out of them, or into what is left out. A fourth one, of Meta or Scratch, differs in ToCommit and Records only; the departures have one,
  and the proofs any. MaxRework 1 gives a second attempt on what the first has left.

## Fairness

Factory: WF of Engine, the disjunction of the engine's own steps, because a live process
goes on and every await in it ends (worker and test time-outs, a bounded number
of retries). Never of Crash, and of Resume only in `factory_resume`, whose question
is whether resuming *always* helps. That every await ends is what Child looks at, and it
names three that do not end by themselves: input that nobody reads, the output of a test
held open by who outlives it, and an agent that ignores SIGTERM. Spending: WF of the next step,
for the same reason.
Child: WF of Supervise, wanax's own steps, and of Deadline, as time passes; nothing is assumed of the child processes.
The other modules need none: their properties are safety. Deadlock checking is off where the
system may stop: a run that is over, a lock that nobody wants any more.

## What is proved

`RepoLockProofs`, for every set of processes, runs and globs and every symmetric
overlap relation, under the named assumptions of RepoLock (there is a run, Paths gives
each run a set of globs, Overlap is symmetric, the marks for an absent and a
malformed file are not holders and "LOCK" is not a run): type correctness, Exclusion, OneEnginePerRun, HolderOnDisk and
StaleLockStays. Exclusion is not inductive: that two holders are compatible depends on the
first one's file having been there, under its own name and readable, when the second one
looked. The invariant adds

- LocksetInv: a process that is creating its file holds the flock, alone;
- FilesInv: until a live lock is revoked, the file at the path of an active process's
  claim is its own (empty while it is creating, complete while it is holding);
- ClaimsInv: until then, the claims of two active processes do not conflict and name
  different runs. With FilesInv it makes the paths of active processes differ, so that no release
  and no creation hits another one's file;
- PlaceInv: a holder under `locks/` holds for the run its file is named after.

The same module proves, for every number of processes and runs, that the commands use the lock as RepoLock says
(`CommandsUseLock`, Spec => LockSpec: each step of a command is a step of the lock or leaves it alone), hence all the above holds
under start, resume, cancel, clean and doctor; the typing of Commands; and OwnerOnRecord, CancelStops, AcceptedRowStays and
FreshRunUntouched. A command acts on what it read several steps ago, so the invariant, CmdInv, says
of each place of a command what its copy is still good for:

- Beside: which run a command is about, that rows seen are rows there are, that a process named in a row has
  driven a run and turns to nothing else (Manned), that whoever is at work holds the lock (Engaged), and that a run which
  was never resumed has one process that ever had its lock (Sole), whence Owned;
- Untouched: while the first process of a run works on it, every copy of its row names that process, and no command has come
  to the steps that follow a dead engine. Commands decide by "is the process I read of alive", so this is what
  makes them spare it;
- Cancels: a run is marked by one cancel at a time, and after its kill the copies at its later steps agree with the row; a second
  cancel, or a resume, is where that ends, and CancelStops excepts them;
- Cures: doctor has no accepted run before it, as it takes only those whose process is gone before the end.

FreshRunUntouched needs Locked on top, that the lock file of such a run is its own, at its own path. Its theorem is
stated where no claim is exclusive, that is for `repo_exclusive` off and contracts with allowed globs
(lock.rs:77 takes a run without any as exclusive); otherwise it is false, for the reason given under Runs.

`VerdictProofs`, of Review for every MaxRework: type correctness, AcceptedThroughGates, RedTestReworks,
EscalatesAtLimit and EnforceSafe. The invariant ties the gates `rework` and `exhausted`
to the unit under review once they are measured: a gate is a value read earlier, and
the verdict is sound only because nothing changes it in between.

`ChildProofs`, for any number of calls: TimeoutLeavesNobody. The invariant says that the call
going on is in the table, has no end yet and is no stray, and that later calls have no end either:
else a later call could put "timeout" next to the stray of an earlier one.

`SpendingProofs`, for every budget, limit and price: type correctness, OvershootBounded,
CommanderWithinBudget and UnchargedBounded. The invariant Room says for each place of the engine how much
of a call beyond the budget can have been charged there. RunFitsLoop reads off it that a run pays at most what Improve
takes as `RunMax`, and for Improve, with any number of processes and iterations, any cap and prices, the module proves CapOvershoot,
RunsRemembered and RepeatStops. CapOvershoot needs that an iteration begins below the cap only; RunsRemembered, that
until two ends of runs overlap one process at most is between the read and the write of LEARNINGS.md, and that its copy
is the file as it still is; RepeatStops, that the evidence kept is that of the iteration before.

`PlanningProofs`, for plans of any size: OrderRight and CycleRight. The invariant of the sort is that a key is
sorted or queued exactly when all it depends on is sorted, and that the in-degree of a key counts what is not:
so a sort that stops short leaves keys each of which waits for another of them.

The module goes on to the globs: type correctness of Planning, OverlapExact and PeersInContract, for any patterns and paths
that are sequences of tokens (TextIsTokens), where the paths have the probes of the trees among them (ProbesArePaths). The
matcher is a recursive function over pairs of places, one in the pattern and one in the text: a table that solves its own
equation. Two solutions are equal, as the last place where they differ would need a later one (OneTable); so it is enough to
write a solution down for files and for trees (MatchesByTable). A tree matches just what is below its directory, two trees
share a path only when one is inside the other, and then the probe of the inner one is in
both (OverlapIsMeet). Both invariants then follow from what the comparison has gone through (PeerInv).
DagsAreLists, that a plan gives each key a sequence of keys, is all the rest needs.

`TombstoneProofs`, for any engines, cancels and events: type correctness, NeverTorn, NothingLost and
MarkdownFollows. The invariant says that, until two appends overlap, one process is writing at most, the
temporary file is its own, and what it has in memory is the envelope and more. A store that fails then leaves the file it was
about as it is, and the Markdown behind if it was the second (Fails).

`VerdictProofs`, of Harvest for any finite set of paths, globs and criteria: type correctness, AcceptedInBounds,
AcceptedIsOnBranch and WorkHandedIn. The invariant says that a receipt is one of the listings git may give of what its commit has changed since the base, and that
the commit of a master's receipt is the head until the worker is started again; what a listing misses is deleted, and no more than was
created (ListedMisses). WorkHandedIn adds Gathered: after the add, index and worktree differ in left out files only, and if nothing was added,
index and HEAD in these and in deletions that pass for moves to them, so that a commit that finds nothing staged leaves no more than that.

`FactoryProofs`, for any DAGs whose units are numbered in topological order (PlansAreSorted), any bounds in Nat
(BoundsAreNat) and any gates: type correctness, AcceptedWithinBudget, NoRefusedMove, AcceptedWorkStands, TablesAgree and
KeepsPromise, the refinement of RunPromise. The typing
needs InHand, that there is a unit in memory wherever the engine uses one and one left to seed while it seeds. Over it
stand four invariants:

- WithinBudget: from the check of the price on, until the accept of a unit is recorded, nothing is charged;
- OnCourse: while nothing has crashed, each place of the engine has one state of the run (Due), and its worktrees are those
  of this process, so that every arc drive_factory asks for exists;
- Standing: the envelope learns of an accept before the table does, and the entries of dag_units know all the table knows
  (TablesLead, DagKnown); hence what a resume reads back is never behind. A single unit that a crash
  left accepted while its run is open is the hard case: the row is then outer_reviewing, so a resume takes the unit for a
  pending review, and meets the worktree of the review before it (Blocked). That it is not worked on again rests on the
  departure `factory_resume` shows: whoever repairs the numbering of worktrees has to look at this theorem;
- Agreed: outside of a unit's turn row and envelope have its state (RowsAgree); an accept as newest verdict is on
  record as the state of its unit, or about to be, or belongs to a run that no resume can review again (VerdictsAgree);
  the unit in memory carries the count of reworks that is on record, or is one behind it between the event and the row
  (CountAgrees); and the units on record are those the engine has in memory (UnitsPlaced).

KeepsPromise is shown step by step: a write to row or envelope is a Replan, the recording of an accept a Judge, the event
of a rework (without an envelope, its row) a Rework, the two places that accept a run an Accept, every other end a Stop,
and all the rest, crashes included, changes nothing the promise is about. That an Accept has its verdicts is
AllAccepted, from VerdictsAgree and UnitsPlaced.

DagNeverWedges is NoDagDeadEnd for plans of any size: units come in an order in which each depends on earlier ones, so the first
that is not accepted can be dispatched, unless it was rejected before a crash. It rests on TablesAgree,
and on what the envelope has of the plan being a beginning of it.

`WavesProofs`, for any plans of sorted units (PlanType), any relation Meet in which a unit meets itself, and any bounds (BoundsType):
type correctness, AcceptedShips, AcceptHasVerdicts, CleanMerge, WaveLimit and SharedVerdict. Each action is first restated field by field; the
lemmas that follow never look at the records again. The type needs Placed and Standing, which unit, commit and state of the run there
are at each place of the engine. What holds across crashes and resumes:

- Crew: the part of a batch's master is what its peers have and what is still to be seeded, and once they are picked the branch
  has it;
- Trial: an engine has seen none of the outer worktrees on disk, or all of them; so a review takes place only in the process that
  opened the first worktree, or where there is none yet;
- Unreviewed: until then nothing has a verdict, and the commit of a receipt that a resume takes up is on the branch. The
  hard case is a batch that was interrupted between its receipts and its picks: its peers' commits are on record and not on
  the branch. That the units on record then form a wave again, and each such peer repeats one of its members (Held, Doubles,
  Spanned), keeps a resume from reviewing them;
- LastOK, HeadOK: a run that comes back from a review without a receipt to go on with has work left;
- Carried: what was accepted is on the branch, in the commit a wave is rolled back to, and in the receipt under review;
- Backed, for AcceptHasVerdicts. Memory alone decides that a run is accepted, and after a resume it need not agree with the envelope:
  a verdict on a wave's master that was taken for a unit reaches its members on record (replay.rs:227) and not in memory.
  Backed says what is left of the agreement. All units of the plan are in memory, or there is no DAG and one master, in hand (Planned);
  a unit accepted in memory is accepted on record, or a member of a master in memory that is not accepted itself (Known), and so
  the verdict that would accept the last such master accepts it on record as well. That units in hand are not accepted
  yet (InHand) holds since an engine that comes back to one with an old worktree does not get as far as a verdict (Trial).

So AcceptedShips and AcceptHasVerdicts, too, rest on the departure `factory_resume` shows: with the numbering of worktrees repaired they
have to be proved again.

What holds until the first crash, and is why the other three are stated for it:

- Course: the engine goes through the plan in order. The wave in hand (TheWave) is the one dag_wave would form now, as
  nothing it depends on changes before a unit is accepted; a greedy choice over a finite set exists and is unique
  (WaveExists, GreedyAgree), so that a reworked wave has the members it had;
- Agrees: between the event of an accept and the loop head the envelope is ahead of memory by the units of the turn (TurnUnits);
- Counting: the masters of a wave are at most the reworks that are counted, and one more while it is in hand; only the last wave
  can be formed again, and not once a member of it was accepted;
- Clean: on the branch is the work of the accepted units, and of the turn: of a wave, the peers picked so far (Picked). Units of
  a plan have no work in common (Distinct), nor have the peers of a batch (Strangers).

Model-checked only: liveness (Ends, RunEnds, CallEnds), which is beyond the prover. Every safety property of a passing run
is proved.

## Not modelled

SQL, JSON, prompts, the conversion of tokens into money, hashing, redaction, HTTP, the sandbox and
its proxy, parsing of configuration and contracts, and the reporting commands are conversions or pure I/O that
no property is about. The notes and instructions of a rework are text. The secret scan and the plugins' verdicts
are free gates. A worker's usage is a number; a usage with one side of its tokens only is charged nothing
(`wanax-llm/src/lib.rs` 109, engine.rs:3041), which is one of the costs 0 of Spending. A child that leaves its
process group is not in Child. What the peers of a wave see of the work
before them is not in Waves: they are branched off the base (engine.rs:2244). `git worktree` and `git branch` fail in
Factory only. Factory fixes the gates on inner commands, descendants, secrets and required checks as passed; Review
and Harvest free them.

## What could follow

1. Factory's GoalIteration refined by Spending, and its dispatch by Planning.
2. A promise for several units at once. RunPromise has one unit per verdict, and Waves refines it with a Judge of several only
   until it is interrupted: a resume takes a wave's master for a unit, and a rework of that master takes back, on record, the accept
   its members were given meanwhile. What is left across crashes is AcceptHasVerdicts.
3. Old envelopes in the replay; `watch` and `replay` as readers of the envelope.
