----------------------------- MODULE Planning -----------------------------
(***************************************************************************)
(* From the answer of the commander to units on record.  An answer is      *)
(* either a DAG of units (crates/wanax-core/src/dag.rs sorts it, engine.rs *)
(* seed_dag_units records it) or a batch of peers, whose glob sets must    *)
(* not meet (crates/wanax-core/src/glob_overlap.rs) and must stay inside   *)
(* the contract (engine.rs run_peer_batch).  A single unit needs no check. *)
(*                                                                         *)
(* parse_dispatch_plan sorts a DAG to validate it, seed_dag_units sorts    *)
(* the same DAG again; the sort is deterministic and is modelled once.     *)
(* Titles and instructions, and the bounds on their length, are left out.  *)
(***************************************************************************)
EXTENDS Globs, Integers, FiniteSets

CONSTANTS
    Keys,       \* the ids the commander may give to units, in the order of strings
    Dags,       \* the DAGs it may answer: [ids, deps]
    Batches,    \* the batches: sequences of the glob sets of peers
    Allowed,    \* allowed_globs of the contract
    Forbidden,  \* forbidden_globs of the contract
    MaxUnits,   \* 16: the longest list of units the parser takes
    MaxPeers    \* 8

ASSUME KeysAreNat == Keys \subseteq Nat

ASSUME DagsAreLists == Dags \subseteq [ids : Seq(Keys), deps : [Keys -> Seq(Keys)]]

ASSUME GlobsCompile ==
    /\ Batches \subseteq Seq(SUBSET Patterns)
    /\ Allowed \subseteq Patterns /\ Forbidden \subseteq Patterns
    /\ \A p \in Allowed \cup Forbidden : Compiles(p)

ASSUME TextIsTokens == Patterns \subseteq Seq(STRING) /\ Paths \subseteq Seq(STRING)

ASSUME ProbesArePaths == \A p \in Patterns : Tree(p) => Probes(p) \subseteq Paths

VARIABLES
    dag,        \* the DAG of the answer, NoDag when there is none
    batch,      \* its peers, << >> when there are none
    pc,         \* what the engine is doing, then the verdict
    indeg,      \* by key: dependencies not sorted yet
    queue,      \* keys without open dependencies
    out,        \* the order found
    seeded,     \* units on record, by seq
    pair        \* the peers compared next

vars == <<dag, batch, pc, indeg, queue, out, seeded, pair>>

Verdicts == {"seeded", "started", "schema", "dag_cycle", "peer_overlap"}

NoDag == [ids |-> << >>, deps |-> [k \in Keys |-> << >>]]

Listed  == Range(dag.ids)
Deps(k) == Range(dag.deps[k])    \* a dependency named twice is seen once

\* The ascending listings of a finite set of keys: there is just one.
Sortings(S) == {s \in [1 .. Cardinality(S) -> S] :
                    /\ Range(s) = S
                    /\ \A i, j \in DOMAIN s : i < j => s[i] < s[j]}

TypeOK ==
    /\ dag \in [ids : Seq(Keys), deps : [Keys -> Seq(Keys)]]
    /\ batch \in Seq(SUBSET Patterns)
    /\ pc \in {"parse", "sort", "seed", "overlap", "contract"} \cup Verdicts
    /\ indeg \in [Listed -> Nat]
    /\ queue \in Seq(Listed) /\ out \in Seq(Listed)
    /\ seeded \in Seq([key : Listed, depends_on : SUBSET Nat])
    /\ pair \in Nat \X Nat

Init ==
    /\ \/ dag \in Dags /\ batch = << >>
       \/ dag = NoDag /\ batch \in Batches
    /\ pc = "parse"
    /\ indeg = [k \in Listed |-> 0]
    /\ queue = << >> /\ out = << >> /\ seeded = << >>
    /\ pair = <<1, 2>>

----------------------------------------------------------------------------
(* A DAG: parse_dispatch_plan, topo_sort, seed_dag_units. *)

\* A bug: every mention of a dependency counts, but is told to the unit once.
IndegreeOfMentions(k) == Len(dag.deps[k])

Indegree(k) == Cardinality(Deps(k))

\* The parser refuses the list, or topo_sort two units of one id or an id that
\* nobody has, in this order.
RefuseDag ==
    /\ pc = "parse" /\ batch = << >>
    /\ \/ Len(dag.ids) \notin 1 .. MaxUnits /\ pc' = "schema"
       \/ /\ Len(dag.ids) \in 1 .. MaxUnits
          /\ \/ ~ IsInjective(dag.ids) /\ pc' = "dag_cycle"
             \/ /\ IsInjective(dag.ids)
                /\ \E k \in Listed : ~ (Deps(k) \subseteq Listed)
                /\ pc' = "schema"
    /\ UNCHANGED <<dag, batch, indeg, queue, out, seeded, pair>>

StartSort ==
    /\ pc = "parse" /\ batch = << >>
    /\ Len(dag.ids) \in 1 .. MaxUnits
    /\ IsInjective(dag.ids)
    /\ \A k \in Listed : Deps(k) \subseteq Listed
    /\ indeg' = [k \in Listed |-> Indegree(k)]
    /\ queue' \in Sortings({k \in Listed : Indegree(k) = 0})
    /\ pc' = "sort"
    /\ UNCHANGED <<dag, batch, out, seeded, pair>>

\* saturating_sub(1)
Less(n) == IF n = 0 THEN 0 ELSE n - 1

\* A bug: the first dependency that is done frees its dependents.
FreedByAny(k) == {c \in Listed : k \in Deps(c) /\ c \notin Range(out)}

\* The dependents of k that wait for nothing else.
Freed(k) == {c \in Listed : k \in Deps(c) /\ Less(indeg[c]) = 0}

SortNext ==
    /\ pc = "sort" /\ queue # << >>
    /\ out' = Append(out, Head(queue))
    /\ indeg' = [c \in Listed |-> IF Head(queue) \in Deps(c)
                                  THEN Less(indeg[c]) ELSE indeg[c]]
    /\ \E s \in Sortings(Freed(Head(queue))) : queue' = Tail(queue) \o s
    /\ UNCHANGED <<dag, batch, pc, seeded, pair>>

SortEnd ==
    /\ pc = "sort" /\ queue = << >>
    /\ pc' = IF Len(out) = Len(dag.ids) THEN "seed" ELSE "dag_cycle"
    /\ UNCHANGED <<dag, batch, indeg, queue, out, seeded, pair>>

\* by_key turns the keys of the answer into the units seeded from it.
Seed ==
    /\ pc = "seed" /\ Len(seeded) < Len(out)
    /\ LET key == out[Len(seeded) + 1] IN
       seeded' = Append(seeded,
                    [key |-> key,
                     depends_on |-> {i \in DOMAIN out : out[i] \in Deps(key)}])
    /\ UNCHANGED <<dag, batch, pc, indeg, queue, out, pair>>

SeedEnd ==
    /\ pc = "seed" /\ Len(seeded) = Len(out)
    /\ pc' = "seeded"
    /\ UNCHANGED <<dag, batch, indeg, queue, out, seeded, pair>>

----------------------------------------------------------------------------
(* Peers: parse_dispatch_plan, run_peer_batch. *)

RefusePeers ==
    /\ pc = "parse" /\ batch # << >>
    /\ \/ Len(batch) \notin 2 .. MaxPeers
       \/ \E i \in DOMAIN batch : batch[i] = {}
    /\ pc' = "schema"
    /\ UNCHANGED <<dag, batch, indeg, queue, out, seeded, pair>>

TakePeers ==
    /\ pc = "parse" /\ Len(batch) \in 2 .. MaxPeers
    /\ \A i \in DOMAIN batch : batch[i] # {}
    /\ pc' = "overlap"
    /\ UNCHANGED <<dag, batch, indeg, queue, out, seeded, pair>>

\* find_peer_overlap, one pair a step.
ComparePeers ==
    /\ pc = "overlap"
    /\ LET i == pair[1]
           j == pair[2] IN
       \/ /\ Overlap(batch[i], batch[j])
          /\ pc' = "peer_overlap" /\ UNCHANGED pair
       \/ /\ ~ Overlap(batch[i], batch[j])
          /\ \/ j < Len(batch) /\ pair' = <<i, j + 1>> /\ UNCHANGED pc
             \/ j = Len(batch) /\ i + 1 < Len(batch)
                /\ pair' = <<i + 1, i + 2>> /\ UNCHANGED pc
             \/ j = Len(batch) /\ i + 1 = Len(batch)
                /\ pc' = "contract" /\ UNCHANGED pair
    /\ UNCHANGED <<dag, batch, indeg, queue, out, seeded>>

\* check_boundaries of one path.
Bounded(path, allowed) == Hits(allowed, path) /\ ~ Hits(Forbidden, path)

Exceeds(globs) == \E p \in globs :
    LET path == PeerProbe(p) IN Bounded(path, globs) /\ ~ Bounded(path, Allowed)

ContractCheck ==
    /\ pc = "contract"
    /\ pc' = IF \E i \in DOMAIN batch : Exceeds(batch[i]) THEN "schema" ELSE "started"
    /\ UNCHANGED <<dag, batch, indeg, queue, out, seeded, pair>>

Next ==
    \/ RefuseDag \/ StartSort \/ SortNext \/ SortEnd \/ Seed \/ SeedEnd
    \/ RefusePeers \/ TakePeers \/ ComparePeers \/ ContractCheck

Spec == Init /\ [][Next]_vars

----------------------------------------------------------------------------
(* The deep properties of the checks. *)

\* Every unit on record depends on units recorded before it, just those the
\* commander named, so that next_ready_dag and dag_wave find a way through; a
\* sorted plan has every unit once (topo_sort, seed_dag_units).
OrderRight ==
    /\ \A n \in DOMAIN seeded :
          /\ seeded[n].depends_on \subseteq 1 .. n - 1
          /\ {seeded[i].key : i \in seeded[n].depends_on} = Deps(seeded[n].key)
    /\ pc = "seeded" => {seeded[n].key : n \in DOMAIN seeded} = Listed

\* A plan refused as a cycle has two units of one id, or units each of which
\* waits for another of them: no plan that could be done is refused (topo_sort).
CycleRight ==
    pc = "dag_cycle" =>
        \/ ~ IsInjective(dag.ids)
        \/ \E S \in SUBSET Listed : S # {} /\ \A k \in S : Deps(k) \cap S # {}

Met == \E i, j \in DOMAIN batch : i < j /\ Meet(batch[i], batch[j])

Plain == \A i \in DOMAIN batch : \A p \in batch[i] : Tree(p)

\* Of peers that name files and whole trees, those refused do meet in a path
\* and those let through meet in none (find_peer_overlap).
OverlapExact ==
    Plain => /\ pc = "peer_overlap" => Met
             /\ pc = "started" => ~ Met

\* A contract of files and whole trees, in which no file has the name that stands
\* for what is below a directory.
PlainContract ==
    \A g \in Allowed \cup Forbidden :
        Tree(g) /\ \A p \in Patterns : HasStar(p) /\ Tree(p) => PeerProbe(p) # g

\* "peer allowed_globs exceed contract" (run_peer_batch): every path that a peer
\* let through may write is one the contract allows, not just the probed one.
PeersInContract ==
    Plain /\ PlainContract /\ pc = "started" =>
        \A i \in DOMAIN batch : \A path \in Paths :
            Bounded(path, batch[i]) => Bounded(path, Allowed)

\* The comment at glob_overlap.rs:15, of every pattern: peers let through have
\* no path in common.  The probes are made from the patterns and miss the
\* paths that two patterns with a star in front of a name share.
OverlapFound == pc = "started" => ~ Met
============================================================================
