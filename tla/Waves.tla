------------------------------- MODULE Waves -------------------------------
(***************************************************************************)
(* Peer batches and waves of a DAG (crates/wanax-cli/src/engine.rs,        *)
(* run_peer_batch and its callers in drive_factory): several units are     *)
(* worked on in parallel, each in a worktree made from the base commit,    *)
(* their commits are picked one by one onto the inner branch, and one      *)
(* review of the result is the verdict on all of them.                     *)
(*                                                                         *)
(* The envelope is a sequence of units in the order of their first event.  *)
(* A wave or batch adds a master and its peers to it.  The rows of the     *)
(* table work_units, written just before the events, are in Factory; so    *)
(* are the first answer of the commander when it is a single unit, a       *)
(* crash between two seeds, and money.  A commit is the set of the units   *)
(* of the plan whose work it has.                                          *)
(***************************************************************************)
EXTENDS AcceptGates, RunState, FiniteSetsExt, Sequences

CONSTANTS
    Units,      \* the units of a plan, in topological order
    DagPlans,   \* the DAGs the commander may answer: functions Units -> depends_on
    Declares,   \* those that declare allowed_globs
    Meet,       \* the pairs whose globs overlap
    MaxTurns,   \* max_inner_turns
    MaxCrash,   \* bound on the crashes of a behaviour
    NoCommit

ASSUME PlanType ==
    /\ IsFiniteSet(Units) /\ Units = 1 .. Cardinality(Units)
    /\ DagPlans \subseteq [Units -> SUBSET Units]
    /\ \A plan \in DagPlans, u \in Units : \A d \in plan[u] : d < u
    /\ Declares \subseteq Units
    /\ \A u \in Declares : <<u, u>> \in Meet

ASSUME BoundsType == MaxTurns \in Nat /\ MaxCrash \in Nat

ASSUME NoCommitIsNone == \A work \in SUBSET Units : work # NoCommit

Work  == SUBSET Units
Entry == [kind : {"dag", "master", "peer"}, part : Work, globs : BOOLEAN,
          deps : SUBSET Nat, covers : SUBSET Nat,
          state : {"queued", "implementing", "receipt_ready", "accepted", "rejected"},
          rework : Nat, commit : Work \cup {NoCommit}]
Progress == [state : {"queued", "implementing", "receipt_ready", "accepted", "rejected"},
             rework : Nat]

VARIABLES
    row,        \* factory_runs: state and inner turns
    env,        \* the units of the envelope
    tree,       \* what the inner branch has
    outers,     \* outer worktrees on disk
    result,     \* RESULT: the commit of the accept
    m,          \* the engine
    crashes,
    credited,   \* history: the work that an accept has reviewed
    latest      \* history: the unit of the newest receipt event, or 0

vars == <<row, env, tree, outers, result, m, crashes, credited, latest>>

PC == {"off", "loop", "batch", "seed", "adapters", "receipts", "merge", "single",
       "work", "receipt", "receipt_set", "turns", "outer", "judge", "apply",
       "rework_set", "redispatch"}

NoDag == [i \in {} |-> 0]

\* unit is 0 before there is one.  drafts are the parts of a batch still to be
\* seeded, next is the peer whose receipt or commit comes next.
Off == [pc |-> "off", unit |-> 0, rework |-> 0, dags |-> NoDag, pending |-> FALSE,
        reuse |-> FALSE, outer |-> 0, decision |-> "none",
        wave |-> {}, pre |-> {}, wave_rework |-> 0, wave_key |-> {},
        drafts |-> {}, next |-> 0]

IsEngine(e) ==
    /\ e.dags \in [DOMAIN e.dags -> Progress]
    /\ e \in [pc : PC, unit : Nat, rework : Nat, dags : {e.dags}, pending : BOOLEAN, reuse : BOOLEAN,
              outer : Nat, decision : Decisions \cup {"none"},
              wave : SUBSET Nat, pre : Work, wave_rework : 0 .. MaxRework, wave_key : SUBSET Nat,
              drafts : Work, next : Nat]

TypeOK ==
    /\ row \in [state : RunStates, turns : 0 .. MaxTurns]
    /\ env \in Seq(Entry)
    /\ \A i \in DOMAIN env : env[i].deps \cup env[i].covers \subseteq 1 .. i - 1
    /\ tree \in Work /\ outers \in Nat
    /\ result \in Work \cup {NoCommit}
    /\ IsEngine(m)
    /\ m.unit \in 0 .. Len(env) /\ DOMAIN m.dags \subseteq DOMAIN env
    /\ m.wave \subseteq DOMAIN m.dags
    /\ crashes \in 0 .. MaxCrash
    /\ credited \in Work /\ latest \in 0 .. Len(env)

\* The engine has just entered drive_factory with nothing planned.
Init ==
    /\ row = [state |-> "dispatched", turns |-> 0]
    /\ env = <<>>
    /\ tree = {}
    /\ outers = 0
    /\ result = NoCommit
    /\ m = [Off EXCEPT !.pc = "loop"]
    /\ crashes = 0
    /\ credited = {}
    /\ latest = 0

-----------------------------------------------------------------------------
(* Row and envelope *)

Exhausted == row.turns >= MaxTurns

\* A worker costs a turn.  (What is over the limit makes no difference.)
Spent(n) == IF n < MaxTurns THEN n + 1 ELSE MaxTurns

SetState(to, next) ==
    IF CanTransition(row.state, to)
    THEN /\ row' = [row EXCEPT !.state = to]
         /\ m' = IF to \in Terminal THEN Off ELSE next
    ELSE m' = Off /\ UNCHANGED row

FailRun == SetState("failed", Off)

\* An error of the inner phase fails the run, a refused transition, too.
Working(next) ==
    IF CanTransition(row.state, "inner_working")
    THEN SetState("inner_working", next) ELSE FailRun

OnlyRun == UNCHANGED <<env, tree, outers, result, crashes, credited, latest>>
OnlyEnv == UNCHANGED <<row, tree, outers, result, crashes, credited, latest>>

NewUnit(kind, part, globs, deps, covers, state) ==
    [kind |-> kind, part |-> part, globs |-> globs, deps |-> deps, covers |-> covers,
     state |-> state, rework |-> 0, commit |-> NoCommit]

-----------------------------------------------------------------------------
(* The head of the loop *)

BudgetCheck ==
    /\ m.pc = "loop"
    /\ Exhausted
    /\ SetState("budget_exhausted", Off)
    /\ OnlyRun

AtLoop == m.pc = "loop" /\ ~Exhausted

TakePending ==
    /\ AtLoop
    /\ m.pending
    /\ m' = [m EXCEPT !.pc = "turns", !.pending = FALSE]
    /\ UNCHANGED row /\ OnlyRun

Accepted(dags) == {i \in DOMAIN dags : dags[i].state = "accepted"}

\* e is the envelope.
Ready(e, dags) ==
    {i \in DOMAIN dags : /\ dags[i].state \notin {"accepted", "rejected"}
                         /\ e[i].deps \subseteq Accepted(dags)}

Overlap(e, i, j) == \E u \in e[i].part, v \in e[j].part : <<u, v>> \in Meet

\* dag_wave: of the ready units with globs, each that meets no unit taken
\* before it.
Greedy(e, ready, w) ==
    \A i \in ready : i \in w <=> e[i].globs /\ \A j \in w : j < i => ~Overlap(e, i, j)

Wave(e, ready) == CHOOSE w \in SUBSET ready : Greedy(e, ready, w)

ReadyUnits == Ready(env, m.dags)
NextWave   == Wave(env, ReadyUnits)

\* Checks of run_peer_batch before it writes anything.
Admissible(parts) ==
    /\ Cardinality(parts) >= 2
    /\ \A u, v \in parts : u # v => <<u, v>> \notin Meet

\* The master unit and its dispatch event.
StartBatch(parts, covers, next) ==
    /\ env' = Append(env, NewUnit("master", parts, FALSE, {}, covers, "implementing"))
    /\ m' = [next EXCEPT !.pc = "batch", !.unit = Len(env) + 1, !.rework = 0, !.drafts = parts]
    /\ OnlyEnv

\* MUTANT: the rollback goes to the base commit.
BaseSha == {}
PreSha == tree

\* MUTANT: every turn starts a new count.
WaveReworkLost(w) == 0
WaveRework(w) == IF w = m.wave_key THEN m.wave_rework ELSE 0

Dag == AtLoop /\ ~m.pending /\ m.dags # NoDag

StartWave ==
    /\ Dag
    /\ LET w == NextWave IN
       /\ Cardinality(w) >= 2
       /\ StartBatch(UNION {env[i].part : i \in w}, w,
                     [m EXCEPT !.wave = w, !.pre = PreSha, !.wave_key = w,
                               !.wave_rework = WaveRework(w)])

\* A unit's globs exceed the contract.
WaveRefused ==
    /\ Dag
    /\ Cardinality(NextWave) >= 2
    /\ FailRun
    /\ OnlyRun

\* run_single_unit: the dispatch event.
StartSingle(i, rework) ==
    /\ env' = [env EXCEPT ![i].state = "implementing"]
    /\ m' = [m EXCEPT !.pc = "single", !.unit = i, !.rework = rework, !.reuse = FALSE]
    /\ OnlyEnv

NextSingle ==
    /\ Dag
    /\ ReadyUnits # {} /\ Cardinality(NextWave) < 2
    /\ LET i == Min(ReadyUnits) IN StartSingle(i, m.dags[i].rework)

\* MUTANT: when nothing is left to dispatch the run is done.
CloseDagAnyway ==
    /\ Dag
    /\ ReadyUnits = {}
    /\ SetState("accepted", Off)
    /\ OnlyRun

CloseDag ==
    /\ Dag
    /\ ReadyUnits = {}
    /\ IF Accepted(m.dags) = DOMAIN m.dags THEN SetState("accepted", Off) ELSE FailRun
    /\ OnlyRun

ReuseUnit ==
    /\ AtLoop
    /\ m.reuse
    /\ StartSingle(m.unit, m.rework)

Asking == AtLoop /\ ~m.pending /\ m.dags = NoDag /\ ~m.reuse

\* The answer is a peer batch: not for a rework.
AskPeers(parts) ==
    /\ Asking
    /\ m.unit = 0
    /\ Admissible(parts)
    /\ StartBatch(parts, {}, m)

\* Peers that overlap, are too few, exceed the contract or are meant for a
\* rework; or there is no valid answer.
AskFails ==
    /\ Asking
    /\ FailRun
    /\ OnlyRun

\* The answer is a DAG, seeded in topological order.
AskDag(plan) ==
    /\ Asking
    /\ env' = env \o [u \in Units |->
                 NewUnit("dag", {u}, u \in Declares, {Len(env) + d : d \in plan[u]}, {}, "queued")]
    /\ m' = [m EXCEPT !.dags = [i \in Len(env) + 1 .. Len(env) + Cardinality(Units) |->
                                   [state |-> "queued", rework |-> 0]]]
    /\ OnlyEnv

\* The answer to a rework of a batch is a single unit: its master is reused.
AskSingle ==
    /\ Asking
    /\ m.unit # 0
    /\ StartSingle(m.unit, m.rework)

-----------------------------------------------------------------------------
(* run_peer_batch *)

BatchWorking ==
    /\ m.pc = "batch"
    /\ Working([m EXCEPT !.pc = "seed"])
    /\ OnlyRun

\* Branch and worktree of a peer are made anew from the base commit, whatever an
\* earlier attempt has left; then its row and its event.
SeedPeer ==
    /\ m.pc = "seed"
    /\ LET u == Min(m.drafts) IN
       /\ env' = Append(env, NewUnit("peer", {u}, TRUE, {}, {}, "queued"))
       /\ m' = [m EXCEPT !.drafts = @ \ {u},
                         !.pc = IF m.drafts = {u} THEN "adapters" ELSE "seed"]
       /\ OnlyEnv

\* All workers run, each in its worktree, and are waited for.
RunPeers ==
    /\ m.pc = "adapters"
    /\ m' = [m EXCEPT !.pc = "receipts", !.next = m.unit + 1]
    /\ UNCHANGED row /\ OnlyRun

\* In the order of the peers: turns, then receipt and commit.  A peer that has
\* changed nothing hands in the base commit.
PeerReceipt(commit) ==
    /\ m.pc = "receipts"
    /\ commit \in {{}, env[m.next].part}
    /\ row' = [row EXCEPT !.turns = Spent(@)]
    /\ env' = [env EXCEPT ![m.next].state = "receipt_ready", ![m.next].commit = commit]
    /\ latest' = m.next
    /\ m' = IF m.next = Len(env) THEN [m EXCEPT !.pc = "merge", !.next = m.unit + 1]
                                 ELSE [m EXCEPT !.next = @ + 1]
    /\ UNCHANGED <<tree, outers, result, crashes, credited>>

\* cherry_pick; the base commit is an empty pick, which git refuses.
MergePeer ==
    /\ m.pc = "merge" /\ m.next \in DOMAIN env
    /\ env[m.next].commit # {}
    /\ tree' = tree \cup env[m.next].commit
    /\ m' = [m EXCEPT !.next = @ + 1]
    /\ UNCHANGED <<row, env, outers, result, crashes, credited, latest>>

\* The merged tree is tested; the receipt is the master's.
Merged ==
    /\ m.pc = "merge" /\ m.next \notin DOMAIN env
    /\ m' = [m EXCEPT !.pc = "receipt", !.next = 0]
    /\ UNCHANGED row /\ OnlyRun

-----------------------------------------------------------------------------
(* run_single_unit, and what both ways have in common *)

SingleWorking ==
    /\ m.pc = "single"
    /\ Working([m EXCEPT !.pc = "work"])
    /\ OnlyRun

\* The goal loop on the inner branch, to the commit.
SingleWork(done) ==
    /\ m.pc = "work"
    /\ done \in {{}, env[m.unit].part}
    /\ row' = [row EXCEPT !.turns = Spent(@)]
    /\ tree' = tree \cup done
    /\ m' = [m EXCEPT !.pc = "receipt"]
    /\ UNCHANGED <<env, outers, result, crashes, credited, latest>>

\* A worktree, a worker, a boundary, a pick or a test fails.
InnerFails ==
    /\ m.pc \in {"seed", "adapters", "receipts", "merge", "work"}
    /\ FailRun
    /\ OnlyRun

ReceiptEvent ==
    /\ m.pc = "receipt"
    /\ env' = [env EXCEPT ![m.unit].state = "receipt_ready", ![m.unit].commit = tree]
    /\ latest' = m.unit
    /\ m' = [m EXCEPT !.pc = "receipt_set"]
    /\ UNCHANGED <<row, tree, outers, result, crashes, credited>>

SetReceiptReady ==
    /\ m.pc = "receipt_set"
    /\ SetState("receipt_ready", [m EXCEPT !.pc = "turns"])
    /\ OnlyRun

Receipt == env[m.unit].commit

BeginReview ==
    /\ m.pc = "turns"
    /\ IF Exhausted /\ Receipt = {}
       THEN SetState("budget_exhausted", Off)
       ELSE SetState("outer_reviewing", [m EXCEPT !.pc = "outer"])
    /\ OnlyRun

\* As in Factory: the worktree of an earlier process is in the way.
OuterWorktree ==
    /\ m.pc = "outer"
    /\ IF m.outer + 1 > outers
       THEN /\ outers' = m.outer + 1
            /\ m' = [m EXCEPT !.pc = "judge", !.outer = @ + 1]
       ELSE m' = Off /\ UNCHANGED outers
    /\ UNCHANGED <<row, env, tree, result, crashes, credited, latest>>

\* The rework count is that of the unit or of the wave, whichever is higher.
GatesOf(green) ==
    [outer |-> green, boundary |-> TRUE, command |-> TRUE, descendant |-> TRUE,
     changed |-> Receipt # {}, exhausted |-> Exhausted, plugin |-> TRUE, bound |-> TRUE,
     secrets |-> TRUE, must |-> TRUE, rework |-> Max({m.rework, m.wave_rework})]

\* MUTANT: the verdict is not passed on to the members of a wave.
CoveredNone == {m.unit}
Covered == {m.unit} \cup env[m.unit].covers

\* apply_verdict_to, by which the event changes what a replay finds.
Replayed(e, decision) ==
    CASE decision = "accept" -> [e EXCEPT !.state = "accepted"]
      [] decision = "reject" -> [e EXCEPT !.state = "rejected"]
      [] decision = "rework" -> [e EXCEPT !.state = "queued", !.rework = @ + 1]
      [] OTHER -> e

\* The review of the receipt's commit, the verdict and its event.
Judge(green, proposed) ==
    /\ m.pc = "judge"
    /\ proposed \in Proposals(GatesOf(green))
    /\ LET ruling == EnforceDecision(proposed, GatesOf(green))
           decision == ruling[1]
       IN  IF ruling[2] = "budget" \/ (decision = "accept" /\ Exhausted)
           THEN SetState("budget_exhausted", Off) /\ OnlyRun
           ELSE /\ env' = [i \in DOMAIN env |-> IF i \in Covered THEN Replayed(env[i], decision)
                                                                 ELSE env[i]]
                /\ credited' = IF decision = "accept" THEN credited \cup Receipt ELSE credited
                /\ m' = [m EXCEPT !.pc = "apply", !.decision = decision]
                /\ UNCHANGED <<row, tree, outers, result, crashes, latest>>

JudgeFails ==
    /\ m.pc = "judge"
    /\ FailRun
    /\ OnlyRun

-----------------------------------------------------------------------------
(* What follows from the verdict *)

Turn(pc) == [m EXCEPT !.pc = pc, !.wave = {}, !.pre = {}, !.decision = "none"]

\* The unit and the members of its wave are accepted in memory; the run, when no
\* unit is left.
Accept ==
    /\ m.pc = "apply" /\ m.decision = "accept"
    /\ LET dags == [i \in DOMAIN m.dags |->
                       IF i \in m.wave \cup {m.unit} THEN [m.dags[i] EXCEPT !.state = "accepted"]
                       ELSE m.dags[i]]
       IN  IF Accepted(dags) # DOMAIN dags
           THEN /\ SetState("dispatched", [Turn("loop") EXCEPT !.dags = dags,
                       !.wave_rework = IF m.wave = {} THEN @ ELSE 0])
                /\ UNCHANGED result
           ELSE /\ SetState("accepted", Off)
                /\ result' = Receipt
    /\ UNCHANGED <<env, tree, outers, crashes, credited, latest>>

Close ==
    /\ m.pc = "apply" /\ m.decision \in {"reject", "escalate"}
    /\ SetState(IF m.decision = "reject" THEN "rejected" ELSE "escalate", Off)
    /\ OnlyRun

\* MUTANT: the inner branch stays as it is.
NotRolledBack == tree
RolledBack == IF m.wave = {} THEN tree ELSE m.pre

\* A wave is rolled back and counted for its members; the master's own count is
\* new with every attempt.
Rework ==
    /\ m.pc = "apply" /\ m.decision = "rework"
    /\ tree' = RolledBack
    /\ LET counted == IF m.wave = {} THEN m.wave_rework ELSE m.wave_rework + 1
           dags == [i \in DOMAIN m.dags |-> IF i \in m.wave THEN [m.dags[i] EXCEPT !.rework = @ + 1]
                                            ELSE m.dags[i]]
       IN  IF (m.wave # {} /\ counted > MaxRework) \/ m.rework + 1 > MaxRework
           THEN SetState("escalate", Off)
           ELSE /\ m' = [Turn("rework_set") EXCEPT !.wave_rework = counted, !.dags = dags,
                                                  !.rework = @ + 1]
                /\ UNCHANGED row
    /\ UNCHANGED <<env, outers, result, crashes, credited, latest>>

SetRework ==
    /\ m.pc = "rework_set"
    /\ SetState("rework", [m EXCEPT !.pc = "redispatch"])
    /\ OnlyRun

Redispatch ==
    /\ m.pc = "redispatch"
    /\ SetState("dispatched", [m EXCEPT !.pc = "loop"])
    /\ OnlyRun

-----------------------------------------------------------------------------
(* Crash and resume *)

Crash ==
    /\ m.pc # "off"
    /\ crashes < MaxCrash
    /\ m' = Off
    /\ crashes' = crashes + 1
    /\ UNCHANGED <<row, env, tree, outers, result, credited, latest>>

\* The receipt to go on with: of the last unit, in the order of the units, that
\* waits for a verdict; else that of the last unit, if it has one.
Pending ==
    LET waiting == {i \in DOMAIN env : env[i].state = "receipt_ready" /\ env[i].commit # NoCommit}
        last == {i \in DOMAIN env : i = Len(env) /\ env[i].commit # NoCommit}
    IN  IF row.state \notin {"receipt_ready", "outer_reviewing"} THEN {}
        ELSE IF waiting # {} THEN {Max(waiting)} ELSE last

\* All units of the envelope, masters and peers, too, are taken for a DAG as
\* soon as one of them has a local_key.
Resume ==
    /\ m.pc = "off"
    /\ row.state \notin Terminal
    /\ LET i == IF Pending # {} THEN Max(Pending) ELSE Len(env)
           dag == \E j \in DOMAIN env : env[j].kind # "master"
       IN  m' = [Off EXCEPT !.pc = "loop", !.unit = i,
                    !.rework = IF i = 0 THEN 0 ELSE env[i].rework,
                    !.dags = IF dag THEN [j \in DOMAIN env |-> [state |-> env[j].state,
                                                                rework |-> env[j].rework]]
                                    ELSE NoDag,
                    !.pending = Pending # {},
                    !.reuse = i # 0 /\ Pending = {} /\ ~dag]
    /\ UNCHANGED row /\ OnlyRun

Engine ==
    \/ BudgetCheck \/ TakePending \/ StartWave \/ WaveRefused \/ NextSingle \/ CloseDag \/ ReuseUnit
    \/ \E parts \in SUBSET Units : AskPeers(parts)
    \/ \E plan \in DagPlans : AskDag(plan)
    \/ AskFails \/ AskSingle
    \/ BatchWorking \/ SeedPeer \/ RunPeers
    \/ \E commit \in Work : PeerReceipt(commit)
    \/ MergePeer \/ Merged
    \/ SingleWorking
    \/ \E done \in Work : SingleWork(done)
    \/ InnerFails \/ ReceiptEvent \/ SetReceiptReady
    \/ BeginReview \/ OuterWorktree
    \/ \E green \in BOOLEAN, d \in Decisions : Judge(green, d)
    \/ JudgeFails \/ Accept \/ Close \/ Rework \/ SetRework \/ Redispatch

Next == Engine \/ Resume \/ Crash

Spec == Init /\ [][Next]_vars

-----------------------------------------------------------------------------
(* Properties *)

\* A DAG is all the commander has answered with, and the engine has lived on.
OnlyWaves == crashes = 0 /\ \A i \in DOMAIN env : env[i].kind = "master" => env[i].covers # {}

\* engine.rs, "a reworked wave must not re-merge onto its own leftovers": what is
\* about to be picked is not in the inner branch yet, however often the wave
\* and the units before it were sent back.
CleanMerge ==
    OnlyWaves /\ m.pc = "merge" =>
        \A i \in m.next .. Len(env) : env[i].part \cap tree = {}

\* The commit that is shipped has the work of every accept on the way to it: no
\* rollback of a wave takes away what was accepted before, also after a crash.
AcceptedShips == row.state = "accepted" => result # NoCommit /\ credited \subseteq result

\* What the commander has planned: its DAG, or else the batch it asked for.
Owed ==
    LET dag == {i \in DOMAIN env : env[i].kind = "dag"}
    IN  IF dag # {} THEN dag ELSE {i \in DOMAIN env : env[i].kind = "master" /\ env[i].covers = {}}

\* drive_factory accepts a run when all units it has in memory are accepted there.  The
\* envelope then says the same of every unit of the plan: also where a resume has
\* taken the masters and peers of a wave for units, and a verdict on such a master has
\* changed that of its members on record but not in memory (replay.rs:227).
AcceptHasVerdicts ==
    row.state = "accepted" => Owed # {} /\ \A i \in Owed : env[i].state = "accepted"

\* docs/IMPROVEMENTS.md R-16: MAX_REWORK holds for a wave although each attempt
\* has a new master.
WaveLimit ==
    crashes = 0 =>
        \A w \in {env[i].covers : i \in DOMAIN env} \ {{}} :
            Cardinality({i \in DOMAIN env : env[i].covers = w}) <= MaxRework + 1

\* Members share the verdict of their wave, in memory and in the envelope: at
\* the head of the loop both have the same units accepted.
SharedVerdict ==
    OnlyWaves /\ m.pc = "loop" =>
        \A i \in DOMAIN m.dags : m.dags[i].state = "accepted" <=> env[i].state = "accepted"

\* replay.rs, "the latest receipt whose unit never reached a verdict state".
\* Violated: peers follow their master in the order of the units, and no verdict
\* ever reaches them, so that a peer's own commit is reviewed for the merged one.
PendingIsLatest ==
    m.pending /\ env[latest].state = "receipt_ready" => m.unit = latest
=============================================================================
