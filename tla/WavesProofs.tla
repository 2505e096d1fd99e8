---------------------------- MODULE WavesProofs ----------------------------
(***************************************************************************)
(* Proofs about Waves, for any plan, any overlap of globs and any bounds.  *)
(*                                                                         *)
(* Every action is first restated as what it does, field by field, to the  *)
(* engine, the envelope and the branch (the lemmas that end in Does).      *)
(* What holds always: the type, where the run stands at each step of the   *)
(* engine (Typed), and that a batch's peers have its master's work (Crew). *)
(* That an accept is shipped needs, in addition, that the branch has what  *)
(* was reviewed (Credit).  What holds until the first crash: the engine    *)
(* goes through the plan in order (Course), with the envelope (Agrees);    *)
(* the attempts at a wave are counted (Counting), and what the branch has  *)
(* is the work that is accepted and that of the turn (Clean).              *)
(* Across crashes, memory and envelope agree less: an accepted run has an  *)
(* accept on record for every unit of its plan by Backed, the last part.   *)
(***************************************************************************)
EXTENDS Waves, FiniteSetTheorems, SequenceTheorems, WellFoundedInduction, TLAPS

-----------------------------------------------------------------------------
(* The least and the greatest of some numbers *)

Below == {ss \in Nat \X Nat : ss[1] < ss[2]}

LEMMA BelowIsWellFounded == IsWellFoundedOn(Below, Nat)
  BY NatLessThanWellFounded DEF OpToRel, Below

LEMMA LeastExists ==
    ASSUME NEW S \in SUBSET Nat, S # {}
    PROVE  \E x \in S : \A y \in S : x <= y
<1>1. PICK x \in S : \A y \in S : ~ (<<y, x>> \in Below)
  BY BelowIsWellFounded, WFMin
<1>2. \A y \in S : x \in Nat /\ y \in Nat /\ ~ (y < x)
  BY <1>1 DEF Below
<1> QED
  BY <1>2

LEMMA MinIsLeast ==
    ASSUME NEW S \in SUBSET Nat, S # {}
    PROVE  Min(S) \in S /\ \A y \in S : Min(S) <= y
  BY LeastExists DEF Min

LEMMA MaxIsGreatest ==
    ASSUME NEW n \in Nat, NEW S \in SUBSET (0 .. n), S # {}
    PROVE  Max(S) \in S /\ \A y \in S : y <= Max(S)
<1> DEFINE Co == {n - x : x \in S}
<1>1. Co \subseteq Nat /\ Co # {}
  <2>1. PICK x \in S : TRUE
    OBVIOUS
  <2> QED
    BY <2>1
<1>2. PICK c \in Co : \A y \in Co : c <= y
  BY <1>1, LeastExists
<1>3. PICK x \in S : c = n - x
  OBVIOUS
<1>4. \A y \in S : x >= y
  <2> SUFFICES ASSUME NEW y \in S PROVE x >= y
    OBVIOUS
  <2>1. c <= n - y
    BY <1>2
  <2> QED
    BY <2>1, <1>3
<1>5. Max(S) \in S /\ \A y \in S : Max(S) >= y
  BY <1>4 DEF Max
<1> QED
  BY <1>5

Two(S) == \E x, y \in S : x # y

LEMMA TwoIsTwo ==
    ASSUME NEW S, IsFiniteSet(S)
    PROVE  Cardinality(S) >= 2 <=> Two(S)
<1>0. Cardinality(S) \in Nat
  BY FS_CardinalityType
<1>1. ASSUME Two(S) PROVE Cardinality(S) >= 2
  <2>1. PICK x \in S, y \in S : x # y
    BY <1>1 DEF Two
  <2>2. Cardinality({x}) = 1 /\ IsFiniteSet({x})
    BY FS_Singleton
  <2>5. y \notin {x}
    BY <2>1
  <2>6. Cardinality({x} \cup {y}) = Cardinality({x}) + 1
    BY <2>2, <2>5, FS_AddElement
  <2>4. Cardinality({x} \cup {y}) = 2
    BY <2>2, <2>6
  <2>3. Cardinality({x} \cup {y}) <= Cardinality(S)
    BY <2>1, FS_Subset
  <2> QED
    BY <1>0, <2>4, <2>3
<1>2. ASSUME ~Two(S) PROVE Cardinality(S) < 2
  <2>1. CASE S = {}
    BY <2>1, FS_EmptySet
  <2>2. CASE S # {}
    <3>1. PICK x \in S : S = {x}
      BY <1>2, <2>2 DEF Two
    <3>2. Cardinality({x}) = 1
      BY FS_Singleton
    <3> QED
      BY <3>1, <3>2
  <2> QED
    BY <2>1, <2>2
<1> QED
  BY <1>0, <1>1, <1>2

-----------------------------------------------------------------------------
(* The wave that dag_wave forms *)

\* Two sets taken greedily agree below any unit they agree up to.
LEMMA GreedyAgree ==
    ASSUME NEW e, NEW f, NEW S \in SUBSET Nat, NEW R \in SUBSET Nat, S \subseteq R,
           \A i \in R \ S, j \in S : j < i,
           \A i \in S : f[i].globs = e[i].globs /\ f[i].part = e[i].part,
           NEW v \in SUBSET S, Greedy(e, S, v),
           NEW w \in SUBSET R, Greedy(f, R, w)
    PROVE  \A i \in S : i \in v <=> i \in w
<1> DEFINE Odd == {i \in S : ~(i \in v <=> i \in w)}
<1> SUFFICES ASSUME Odd # {} PROVE FALSE
  OBVIOUS
<1>1. PICK i \in Odd : \A j \in Odd : i <= j
  BY LeastExists
<1>2. \A j \in S : j < i => (j \in v <=> j \in w)
  BY <1>1
<1>3. \A j \in w : j < i => j \in S
  BY <1>1
<1>4. \A j \in S : Overlap(f, i, j) <=> Overlap(e, i, j)
  BY <1>1 DEF Overlap
<1>5. (i \in v) <=> (e[i].globs /\ \A j \in v : j < i => ~Overlap(e, i, j))
  BY <1>1 DEF Greedy
<1>6. (i \in w) <=> (f[i].globs /\ \A j \in w : j < i => ~Overlap(f, i, j))
  BY <1>1 DEF Greedy
<1>7. (\A j \in v : j < i => ~Overlap(e, i, j)) <=> (\A j \in w : j < i => ~Overlap(f, i, j))
  BY <1>2, <1>3, <1>4
<1> QED
  BY <1>1, <1>5, <1>6, <1>7

LEMMA UptoNext ==
    ASSUME NEW R \in SUBSET Nat, NEW k \in Nat, k # 0
    PROVE  /\ k - 1 \in Nat
           /\ {i \in R : i <= k} = {i \in R : i <= k - 1} \cup (R \cap {k})
<1>1. k - 1 \in Nat
  OBVIOUS
<1>2. \A i \in R : i \in Nat
  OBVIOUS
<1>3. \A i \in Nat : i <= k <=> i <= k - 1 \/ i = k
  OBVIOUS
<1>4. \A i \in R : i <= k <=> i <= k - 1 \/ i = k
  BY <1>2, <1>3
<1> QED
  BY <1>1, <1>4, Zenon

\* The choice of Wave is never empty-handed.
LEMMA WaveExists ==
    ASSUME NEW e, NEW n \in Nat, NEW R \in SUBSET (1 .. n)
    PROVE  Wave(e, R) \in SUBSET R /\ Greedy(e, R, Wave(e, R))
<1> DEFINE Upto(k) == {i \in R : i <= k}
           Fails == {k \in Nat : ~\E w \in SUBSET Upto(k) : Greedy(e, Upto(k), w)}
<1>0. R \in SUBSET Nat /\ \A i \in R : 1 <= i /\ i <= n
  OBVIOUS
<1>1. Fails = {}
  <2> SUFFICES ASSUME Fails # {} PROVE FALSE
    OBVIOUS
  <2>1. PICK k \in Fails : \A l \in Fails : k <= l
    BY LeastExists
  <2>2. k # 0
    <3>1. Upto(0) = {}
      <4>1. \A i \in R : i \in Nat /\ 1 <= i
        BY <1>0
      <4>2. \A i \in Nat : 1 <= i => ~(i <= 0)
        OBVIOUS
      <4>3. \A i \in R : ~(i <= 0)
        BY <4>1, <4>2
      <4> QED
        BY <4>3, Zenon
    <3>2. Greedy(e, Upto(0), {})
      BY <3>1 DEF Greedy
    <3> QED
      BY <2>1, <3>1, <3>2
  <2>7. k \in Nat
    BY <2>1
  <2>8. k - 1 \in Nat /\ Upto(k) = Upto(k - 1) \cup (R \cap {k})
    BY <1>0, <2>2, <2>7, UptoNext
  <2> HIDE DEF Upto
  <2>3. k - 1 \in Nat /\ k - 1 \notin Fails
    BY <2>1, <2>2, <2>7, <2>8
  <2>4. PICK w \in SUBSET Upto(k - 1) : Greedy(e, Upto(k - 1), w)
    BY <2>3
  <2>5. CASE k \notin R
    <3>1. Upto(k) = Upto(k - 1)
      BY <2>8, <2>5
    <3> QED
      BY <2>1, <2>4, <3>1
  <2>6. CASE k \in R
    <3> DEFINE x == IF e[k].globs /\ \A j \in w : ~Overlap(e, k, j) THEN w \cup {k} ELSE w
    <3>1. Upto(k) = Upto(k - 1) \cup {k}
      BY <2>8, <2>6
    <3>2. x \in SUBSET Upto(k)
      BY <2>4, <3>1
    <3>3. \A i \in Upto(k - 1) : i \in Nat /\ i < k
      BY <1>0, <2>7, <2>8 DEF Upto
    <3>4. ASSUME NEW i \in Upto(k - 1)
          PROVE  i \in x <=> e[i].globs /\ \A j \in x : j < i => ~Overlap(e, i, j)
      <4>1. i \in x <=> i \in w
        BY <3>3
      <4>2. \A j \in x : j < i => j \in w
        BY <2>7, <3>3, <3>4
      <4>3. w \subseteq x
        OBVIOUS
      <4>4. i \in w <=> e[i].globs /\ \A j \in w : j < i => ~Overlap(e, i, j)
        BY <2>4 DEF Greedy
      <4> QED
        BY <4>1, <4>2, <4>3, <4>4
    <3>5. k \in x <=> e[k].globs /\ \A j \in x : j < k => ~Overlap(e, k, j)
      <4>1. k \notin w /\ \A j \in w : j < k
        BY <2>4, <3>3
      <4>2. \A j \in x : j < k <=> j \in w
        BY <2>1, <4>1
      <4> QED
        BY <4>1, <4>2
    <3>6. Greedy(e, Upto(k), x)
      BY <3>1, <3>4, <3>5 DEF Greedy
    <3> QED
      BY <2>1, <3>2, <3>6
  <2> QED
    BY <2>5, <2>6
<1>2. Upto(n) = R
  BY <1>0
<1>3. \E w \in SUBSET Upto(n) : Greedy(e, Upto(n), w)
  BY <1>1
<1>4. PICK w \in SUBSET R : Greedy(e, R, w)
  BY <1>2, <1>3
<1> QED
  BY <1>4 DEF Wave

\* Units that come later do not change it, and nothing but globs and parts does.
LEMMA WaveGrows ==
    ASSUME NEW e, NEW f, NEW S \in SUBSET Nat, NEW R \in SUBSET Nat, S \subseteq R,
           \A i \in R \ S, j \in S : j < i,
           \A i \in S : f[i].globs = e[i].globs /\ f[i].part = e[i].part,
           Wave(e, S) \in SUBSET S, Greedy(e, S, Wave(e, S)),
           Wave(f, R) \in SUBSET R, Greedy(f, R, Wave(f, R))
    PROVE  Wave(e, S) = Wave(f, R) \cap S
<1>1. \A i \in S : i \in Wave(e, S) <=> i \in Wave(f, R)
  BY GreedyAgree
<1> QED
  BY <1>1

LEMMA WaveSame ==
    ASSUME NEW e, NEW f, NEW R \in SUBSET Nat,
           \A i \in R : f[i].globs = e[i].globs /\ f[i].part = e[i].part,
           Wave(e, R) \in SUBSET R, Greedy(e, R, Wave(e, R)),
           Wave(f, R) \in SUBSET R, Greedy(f, R, Wave(f, R))
    PROVE  Wave(f, R) = Wave(e, R)
<1>1. R \subseteq R /\ \A i \in R \ R, j \in R : j < i
  BY Zenon
<1>2. Wave(e, R) = Wave(f, R) \cap R
  BY <1>1, WaveGrows
<1> QED
  BY <1>2

\* A unit with globs that meets none of the others is taken.
LEMMA WaveTakes ==
    ASSUME NEW e, NEW n \in Nat, NEW R \in SUBSET (1 .. n), NEW i \in R, e[i].globs,
           \A j \in R : j < i /\ e[j].globs => ~Overlap(e, i, j)
    PROVE  i \in Wave(e, R)
  BY WaveExists DEF Greedy

-----------------------------------------------------------------------------
(* What becomes of the envelope *)

Envelope == env \in Seq(Entry)

\* The entry stays what it is but for its progress.
Kept(i) ==
    /\ env'[i] \in Entry
    /\ env'[i].kind = env[i].kind /\ env'[i].part = env[i].part /\ env'[i].globs = env[i].globs
    /\ env'[i].deps = env[i].deps /\ env'[i].covers = env[i].covers

StateKept(i) == env'[i].state = env[i].state
CommitKept(i) == env'[i].commit = env[i].commit

\* One entry makes progress.
Touched(k, state, commit) ==
    /\ env' \in Seq(Entry) /\ Len(env') = Len(env) /\ DOMAIN env' = DOMAIN env
    /\ \A i \in DOMAIN env : Kept(i)
    /\ \A i \in DOMAIN env \ {k} : StateKept(i) /\ CommitKept(i)
    /\ env'[k].state = state /\ env'[k].commit = commit

\* An entry is added.
Added(entry) ==
    /\ env' \in Seq(Entry) /\ Len(env') = Len(env) + 1 /\ DOMAIN env' = DOMAIN env \cup {Len(env) + 1}
    /\ Len(env) + 1 \notin DOMAIN env
    /\ \A i \in DOMAIN env : env'[i] = env[i] /\ env'[i] \in Entry
    /\ env'[Len(env) + 1] = entry

LEMMA EnvelopeIs ==
    ASSUME Envelope
    PROVE  /\ Len(env) \in Nat /\ DOMAIN env = 1 .. Len(env)
           /\ \A i \in DOMAIN env : env[i] \in Entry /\ i \in Nat
           /\ env \in [DOMAIN env -> Entry]
           /\ env = <<>> <=> DOMAIN env = {}
  BY DEF Envelope

LEMMA EnvelopeMade ==
    ASSUME NEW n \in Nat, NEW f \in [1 .. n -> Entry]
    PROVE  f \in Seq(Entry) /\ Len(f) = n /\ DOMAIN f = 1 .. n
  OBVIOUS

LEMMA EntryIs ==
    ASSUME NEW e \in Entry, NEW state, NEW commit
    PROVE  /\ [e EXCEPT !.state = state].state = state
           /\ [e EXCEPT !.state = state].commit = e.commit
           /\ LET f == [[e EXCEPT !.state = state] EXCEPT !.commit = commit]
              IN  f.state = state /\ f.commit = commit
  BY DEF Entry

States == {"queued", "implementing", "receipt_ready", "accepted", "rejected"}

LEMMA TouchOne ==
    ASSUME Envelope, NEW k \in DOMAIN env, NEW x \in Entry,
           env' = [env EXCEPT ![k] = x],
           x.kind = env[k].kind, x.part = env[k].part, x.globs = env[k].globs,
           x.deps = env[k].deps, x.covers = env[k].covers
    PROVE  Touched(k, x.state, x.commit)
<1>1. /\ env' \in [DOMAIN env -> Entry] /\ env'[k] = x
      /\ \A i \in DOMAIN env \ {k} : env'[i] = env[i]
  BY EnvelopeIs
<1>2. env' \in Seq(Entry) /\ Len(env') = Len(env) /\ DOMAIN env' = DOMAIN env
  BY <1>1, EnvelopeIs, EnvelopeMade
<1>3. \A i \in DOMAIN env : Kept(i)
  BY <1>1, EnvelopeIs DEF Kept
<1> QED
  BY <1>1, <1>2, <1>3 DEF Touched, StateKept, CommitKept

LEMMA TouchState ==
    ASSUME Envelope, NEW k \in DOMAIN env, NEW state \in States,
           env' = [env EXCEPT ![k].state = state]
    PROVE  Touched(k, state, env[k].commit)
<1> DEFINE x == [env[k] EXCEPT !.state = state]
<1>1. env[k] \in Entry
  BY EnvelopeIs
<1>2. /\ x \in Entry /\ x.kind = env[k].kind /\ x.part = env[k].part /\ x.globs = env[k].globs
      /\ x.deps = env[k].deps /\ x.covers = env[k].covers /\ x.state = state /\ x.commit = env[k].commit
  BY <1>1 DEF Entry, States
<1>3. env' = [env EXCEPT ![k] = x]
  OBVIOUS
<1> HIDE DEF x
<1> QED
  BY <1>2, <1>3, TouchOne

LEMMA TouchReceipt ==
    ASSUME Envelope, NEW k \in DOMAIN env, NEW commit \in Work,
           env' = [env EXCEPT ![k].state = "receipt_ready", ![k].commit = commit]
    PROVE  Touched(k, "receipt_ready", commit)
<1> DEFINE y == [env[k] EXCEPT !.state = "receipt_ready"]
           x == [y EXCEPT !.commit = commit]
           f == [env EXCEPT ![k] = y]
<1>1. env[k] \in Entry /\ env \in [DOMAIN env -> Entry]
  BY EnvelopeIs
<1>2. /\ y \in Entry /\ y.kind = env[k].kind /\ y.part = env[k].part /\ y.globs = env[k].globs
      /\ y.deps = env[k].deps /\ y.covers = env[k].covers /\ y.state = "receipt_ready"
  BY <1>1 DEF Entry
<1>5. f[k] = y /\ DOMAIN f = DOMAIN env /\ f \in [DOMAIN env -> Entry] /\ \A i \in DOMAIN env \ {k} : f[i] = env[i]
  <2> HIDE DEF y
  <2> QED
    BY <1>1, <1>2
<1>6. env' = [f EXCEPT ![k].commit = commit]
  OBVIOUS
<1> HIDE DEF y
<1>3. /\ x \in Entry /\ x.kind = env[k].kind /\ x.part = env[k].part /\ x.globs = env[k].globs
      /\ x.deps = env[k].deps /\ x.covers = env[k].covers /\ x.state = "receipt_ready"
      /\ x.commit = commit
  BY <1>2 DEF Entry
<1> HIDE DEF f
<1>7. env' = [f EXCEPT ![k] = x]
  BY <1>5, <1>6
<1> HIDE DEF x
<1>8. env' = [env EXCEPT ![k] = x]
  <2>1. DOMAIN env' = DOMAIN env /\ env'[k] = x /\ \A i \in DOMAIN env \ {k} : env'[i] = env[i]
    BY <1>3, <1>5, <1>7
  <2>2. env' = [i \in DOMAIN env |-> env'[i]]
    BY <1>5, <1>7
  <2>3. [env EXCEPT ![k] = x] = [i \in DOMAIN env |-> env'[i]]
    BY <1>1, <2>1
  <2> QED
    BY <2>2, <2>3
<1>9. Touched(k, x.state, x.commit)
  BY <1>3, <1>8, TouchOne
<1>10. x.state = "receipt_ready" /\ x.commit = commit
  BY <1>3
<1> QED
  BY <1>9, <1>10

LEMMA NewUnitIs ==
    ASSUME NEW kind \in {"dag", "master", "peer"}, NEW part \in Work, NEW globs \in BOOLEAN,
           NEW deps \in SUBSET Nat, NEW covers \in SUBSET Nat, NEW state \in States
    PROVE  /\ NewUnit(kind, part, globs, deps, covers, state) \in Entry
           /\ LET e == NewUnit(kind, part, globs, deps, covers, state)
              IN  /\ e.kind = kind /\ e.part = part /\ e.globs = globs /\ e.deps = deps
                  /\ e.covers = covers /\ e.state = state /\ e.commit = NoCommit
  BY DEF NewUnit, Entry, States

LEMMA AddOne ==
    ASSUME Envelope, NEW x \in Entry, env' = Append(env, x)
    PROVE  Added(x)
<1>1. env' \in Seq(Entry) /\ Len(env') = Len(env) + 1
  BY DEF Envelope
<1>2. env'[Len(env) + 1] = x /\ \A i \in 1 .. Len(env) : env'[i] = env[i]
  BY DEF Envelope
<1>3. DOMAIN env' = 1 .. Len(env) + 1 /\ DOMAIN env = 1 .. Len(env) /\ Len(env) \in Nat
  BY <1>1, EnvelopeIs
<1>4. 1 .. Len(env) + 1 = 1 .. Len(env) \cup {Len(env) + 1} /\ Len(env) + 1 \notin 1 .. Len(env)
  BY <1>3
<1> QED
  BY <1>1, <1>2, <1>3, <1>4, EnvelopeIs DEF Added

\* A DAG is seeded: its units follow what was there.
Seeded(plan) ==
    LET n == Cardinality(Units)
    IN  /\ n \in Nat /\ Units = 1 .. n
        /\ env' \in Seq(Entry) /\ Len(env') = Len(env) + n
        /\ DOMAIN env' = DOMAIN env \cup (Len(env) + 1 .. Len(env) + n)
        /\ \A i \in DOMAIN env : env'[i] = env[i] /\ env'[i] \in Entry
        /\ \A u \in Units : env'[Len(env) + u] =
                NewUnit("dag", {u}, u \in Declares, {Len(env) + d : d \in plan[u]}, {}, "queued")

LEMMA SeedAll ==
    ASSUME Envelope, NEW plan \in DagPlans,
           env' = env \o [u \in Units |-> NewUnit("dag", {u}, u \in Declares,
                                                  {Len(env) + d : d \in plan[u]}, {}, "queued")]
    PROVE  Seeded(plan)
<1> DEFINE n == Cardinality(Units)
           unit(u) == NewUnit("dag", {u}, u \in Declares, {Len(env) + d : d \in plan[u]}, {}, "queued")
           s == [u \in Units |-> unit(u)]
<1>1. n \in Nat /\ Units = 1 .. n
  BY PlanType, FS_CardinalityType
<1>2. \A u \in Units : unit(u) \in Entry
  <2> SUFFICES ASSUME NEW u \in Units PROVE unit(u) \in Entry
    OBVIOUS
  <2>1. plan[u] \in SUBSET Units
    BY PlanType
  <2>2. {Len(env) + d : d \in plan[u]} \in SUBSET Nat
    BY <1>1, <2>1, EnvelopeIs
  <2>3. {u} \in Work
    BY DEF Work
  <2>4. (u \in Declares) \in BOOLEAN /\ {} \in SUBSET Nat /\ "dag" \in {"dag", "master", "peer"} /\ "queued" \in States
    BY DEF States
  <2> DEFINE g == u \in Declares
             after == {Len(env) + d : d \in plan[u]}
  <2>5. g \in BOOLEAN /\ after \in SUBSET Nat
    BY <2>2
  <2>6. unit(u) = NewUnit("dag", {u}, g, after, {}, "queued")
    OBVIOUS
  <2> HIDE DEF g, after, unit
  <2>7. NewUnit("dag", {u}, g, after, {}, "queued") \in Entry
    BY <2>3, <2>4, <2>5, NewUnitIs
  <2> QED
    BY <2>6, <2>7
<1> HIDE DEF unit, n
<1>3. s \in Seq(Entry) /\ Len(s) = n /\ \A u \in Units : s[u] = unit(u)
  BY <1>1, <1>2, EnvelopeMade
<1>6. env' = env \o s
  BY DEF unit
<1> HIDE DEF s
<1>4. /\ env' \in Seq(Entry) /\ Len(env') = Len(env) + n
      /\ \A i \in 1 .. Len(env) : env'[i] = env[i]
      /\ \A u \in Units : env'[Len(env) + u] = unit(u)
  <2>6. env \in Seq(Entry) /\ s \in Seq(Entry)
    BY <1>3 DEF Envelope
  <2>7. /\ Len(env \o s) = Len(env) + Len(s) /\ env \o s \in Seq(Entry)
        /\ \A i \in 1 .. Len(env) + Len(s) :
               (env \o s)[i] = IF i <= Len(env) THEN env[i] ELSE s[i - Len(env)]
    BY <2>6, ConcatProperties
  <2>1. env' \in Seq(Entry) /\ Len(env') = Len(env) + Len(s)
    BY <1>6, <2>7
  <2>2. \A i \in 1 .. Len(env) + Len(s) :
            env'[i] = IF i <= Len(env) THEN env[i] ELSE s[i - Len(env)]
    BY <1>6, <2>7
  <2>3. Len(env) \in Nat
    BY EnvelopeIs
  <2>4. \A i \in 1 .. Len(env) : env'[i] = env[i]
    BY <1>1, <1>3, <2>2, <2>3
  <2>5. ASSUME NEW u \in Units PROVE env'[Len(env) + u] = unit(u)
    <3>1. Len(env) + u \in 1 .. Len(env) + Len(s) /\ ~(Len(env) + u <= Len(env)) /\ (Len(env) + u) - Len(env) = u
      BY <1>1, <1>3, <2>3
    <3> QED
      BY <1>3, <2>2, <3>1
  <2> QED
    BY <1>3, <2>1, <2>4, <2>5
<1>5. DOMAIN env' = DOMAIN env \cup (Len(env) + 1 .. Len(env) + n)
  <2>1. Len(env) \in Nat /\ DOMAIN env = 1 .. Len(env) /\ DOMAIN env' = 1 .. Len(env) + n
    BY <1>4, EnvelopeIs
  <2> QED
    BY <1>1, <2>1
<1>7. \A i \in DOMAIN env : env'[i] = env[i] /\ env'[i] \in Entry
  BY <1>4, EnvelopeIs
<1> QED
  BY <1>1, <1>4, <1>5, <1>7 DEF Seeded, unit, n

\* The verdict reaches the entries it covers.
Marked(decision) ==
    /\ env' \in Seq(Entry) /\ Len(env') = Len(env) /\ DOMAIN env' = DOMAIN env
    /\ \A i \in DOMAIN env : Kept(i) /\ CommitKept(i)
    /\ \A i \in DOMAIN env \ Covered : StateKept(i)
    /\ \A i \in DOMAIN env \cap Covered :
          /\ decision = "accept" => env'[i].state = "accepted"
          /\ decision = "reject" => env'[i].state = "rejected"
          /\ decision = "rework" => env'[i].state = "queued"
          /\ decision = "escalate" => StateKept(i)

LEMMA ReplayedIs ==
    ASSUME NEW e \in Entry, NEW decision \in Decisions
    PROVE  LET f == Replayed(e, decision)
           IN  /\ f \in Entry
               /\ f.kind = e.kind /\ f.part = e.part /\ f.globs = e.globs /\ f.deps = e.deps
               /\ f.covers = e.covers /\ f.commit = e.commit
               /\ decision = "accept" => f.state = "accepted"
               /\ decision = "reject" => f.state = "rejected"
               /\ decision = "rework" => f.state = "queued"
               /\ decision = "escalate" => f.state = e.state
<1>1. CASE decision = "accept"
  BY <1>1 DEF Replayed, Entry
<1>2. CASE decision = "reject"
  BY <1>2 DEF Replayed, Entry
<1>3. CASE decision = "rework"
  <2> DEFINE g == [e EXCEPT !.state = "queued"]
  <2>1. /\ g \in Entry /\ g.kind = e.kind /\ g.part = e.part /\ g.globs = e.globs /\ g.deps = e.deps
        /\ g.covers = e.covers /\ g.commit = e.commit /\ g.state = "queued" /\ g.rework = e.rework
    BY DEF Entry
  <2>2. Replayed(e, decision) = [g EXCEPT !.rework = @ + 1]
    BY <1>3 DEF Replayed
  <2> HIDE DEF g
  <2> QED
    BY <1>3, <2>1, <2>2 DEF Entry
<1>4. CASE decision = "escalate"
  BY <1>4 DEF Replayed
<1> QED
  BY <1>1, <1>2, <1>3, <1>4 DEF Decisions

LEMMA MarkAll ==
    ASSUME Envelope, NEW decision \in Decisions,
           env' = [i \in DOMAIN env |-> IF i \in Covered THEN Replayed(env[i], decision) ELSE env[i]]
    PROVE  Marked(decision)
<1>1. /\ DOMAIN env' = DOMAIN env
      /\ \A i \in DOMAIN env : env'[i] = IF i \in Covered THEN Replayed(env[i], decision) ELSE env[i]
  OBVIOUS
<1>2. \A i \in DOMAIN env : env[i] \in Entry
  BY EnvelopeIs
<1>3. \A i \in DOMAIN env : env'[i] \in Entry /\ Kept(i) /\ CommitKept(i)
  BY <1>1, <1>2, ReplayedIs DEF Kept, CommitKept
<1>4. \A i \in DOMAIN env \ Covered : StateKept(i)
  BY <1>1 DEF StateKept
<1>5. \A i \in DOMAIN env \cap Covered :
          /\ decision = "accept" => env'[i].state = "accepted"
          /\ decision = "reject" => env'[i].state = "rejected"
          /\ decision = "rework" => env'[i].state = "queued"
          /\ decision = "escalate" => StateKept(i)
  BY <1>1, <1>2, ReplayedIs DEF StateKept
<1>6. env' \in [DOMAIN env -> Entry]
  <2>1. env' = [i \in DOMAIN env |-> env'[i]]
    BY <1>1
  <2> QED
    BY <1>3, <2>1
<1>7. env' \in Seq(Entry) /\ Len(env') = Len(env)
  BY <1>6, EnvelopeIs, EnvelopeMade
<1> QED
  BY <1>1, <1>3, <1>4, <1>5, <1>7 DEF Marked

-----------------------------------------------------------------------------
(* What the steps do, field by field *)

HandKept  == m'.unit = m.unit /\ m'.rework = m.rework
PlanKept  == m'.dags = m.dags /\ m'.wave_key = m.wave_key
WaveKept  == m'.wave = m.wave /\ m'.pre = m.pre /\ m'.wave_rework = m.wave_rework
PeersKept == m'.drafts = m.drafts /\ m'.next = m.next
FlagsKept == m'.pending = m.pending /\ m'.reuse = m.reuse
TrialKept == m'.outer = m.outer /\ m'.decision = m.decision

\* Nothing that is on disk changes but the row.
DiskKept == UNCHANGED <<env, tree, outers, credited, latest>>
TurnsKept == row'.turns = row.turns

\* The engine is gone, after an end or a crash.
Gone ==
    /\ m' = Off
    /\ TurnsKept /\ DiskKept
    /\ row'.state \in {row.state} \cup (Terminal \ {"accepted"})
    /\ row.state = "accepted" => row'.state = "accepted"
    /\ result' = result
    /\ crashes' = crashes \/ (crashes' = crashes + 1 /\ crashes < MaxCrash)

\* set_state and on to the next step.
Move(from, to, state) ==
    /\ m.pc = from /\ m'.pc = to
    /\ row'.state = state /\ CanTransition(row.state, state)
    /\ HandKept /\ PlanKept /\ WaveKept /\ PeersKept /\ FlagsKept /\ TrialKept
    /\ TurnsKept /\ DiskKept /\ UNCHANGED <<result, crashes>>

LEMMA RowIs ==
    ASSUME TypeOK, NEW to, row' = [row EXCEPT !.state = to]
    PROVE  row'.state = to /\ row'.turns = row.turns
  BY DEF TypeOK

LEMMA EndGone ==
    ASSUME TypeOK, NEW to \in Terminal \ {"accepted"}, NEW next, SetState(to, next), OnlyRun
    PROVE  Gone
<1>1. CASE CanTransition(row.state, to)
  <2>1. row' = [row EXCEPT !.state = to] /\ m' = Off
    BY <1>1 DEF SetState
  <2>2. row'.state = to /\ row'.turns = row.turns
    BY <2>1, RowIs
  <2>3. row.state # "accepted"
    BY <1>1 DEF CanTransition, Terminal
  <2> QED
    BY <2>1, <2>2, <2>3 DEF Gone, OnlyRun, TurnsKept, DiskKept
<1>2. CASE ~CanTransition(row.state, to)
  <2>1. row' = row /\ m' = Off
    BY <1>2 DEF SetState
  <2> QED
    BY <2>1 DEF Gone, OnlyRun, TurnsKept, DiskKept
<1> QED
  BY <1>1, <1>2

LEMMA FailGone == ASSUME TypeOK, FailRun, OnlyRun PROVE Gone
  BY EndGone DEF FailRun, Terminal

LEMMA StopsAreGone ==
    ASSUME TypeOK, BudgetCheck \/ WaveRefused \/ AskFails \/ InnerFails \/ JudgeFails \/ Close
    PROVE  Gone
<1>1. CASE BudgetCheck
  BY <1>1, EndGone DEF BudgetCheck, Terminal
<1>2. CASE WaveRefused \/ AskFails \/ InnerFails \/ JudgeFails
  BY <1>2, FailGone DEF WaveRefused, AskFails, InnerFails, JudgeFails
<1>3. CASE Close
  BY <1>3, EndGone DEF Close, Terminal
<1> QED
  BY <1>1, <1>2, <1>3

LEMMA CrashGone == ASSUME TypeOK, Crash PROVE Gone
  BY DEF Crash, Gone, TurnsKept, DiskKept

\* CloseDag ends the run, or finds that it may not.
LEMMA CloseGone ==
    ASSUME TypeOK, CloseDag
    PROVE  \/ Gone
           \/ /\ row.state = "outer_reviewing" /\ row'.state = "accepted" /\ m' = Off
              /\ Dag /\ Accepted(m.dags) = DOMAIN m.dags /\ OnlyRun /\ TurnsKept
<1>1. CASE Accepted(m.dags) = DOMAIN m.dags
  <2>1. CASE CanTransition(row.state, "accepted")
    <3>1. row' = [row EXCEPT !.state = "accepted"] /\ m' = Off /\ OnlyRun /\ Dag
      BY <1>1, <2>1 DEF CloseDag, SetState, Terminal
    <3>2. row'.state = "accepted" /\ row'.turns = row.turns
      BY <3>1, RowIs
    <3>3. row.state = "accepted" \/ row.state = "outer_reviewing"
      BY <2>1 DEF CanTransition, Arcs, Exits
    <3> QED
      BY <1>1, <3>1, <3>2, <3>3 DEF Gone, OnlyRun, TurnsKept, DiskKept
  <2>2. CASE ~CanTransition(row.state, "accepted")
    BY <1>1, <2>2 DEF CloseDag, SetState, Gone, OnlyRun, TurnsKept, DiskKept
  <2> QED
    BY <2>1, <2>2
<1>2. CASE Accepted(m.dags) # DOMAIN m.dags
  BY <1>2, FailGone DEF CloseDag
<1> QED
  BY <1>1, <1>2

\* A refused transition ends the engine.
LEMMA MovesOrGone ==
    ASSUME TypeOK, OnlyRun, NEW to \in RunStates \ Terminal, NEW p, m.pc # "off",
           SetState(to, [m EXCEPT !.pc = p])
    PROVE  Gone \/ Move(m.pc, p, to)
<1>1. CASE CanTransition(row.state, to)
  <2>1. row' = [row EXCEPT !.state = to] /\ m' = [m EXCEPT !.pc = p]
    BY <1>1 DEF SetState
  <2>2. row'.state = to /\ row'.turns = row.turns
    BY <2>1, RowIs
  <2>3. /\ m'.pc = p
        /\ HandKept /\ PlanKept /\ WaveKept /\ PeersKept /\ FlagsKept /\ TrialKept
    BY <2>1 DEF TypeOK, IsEngine, HandKept, PlanKept, WaveKept, PeersKept, FlagsKept, TrialKept
  <2> QED
    BY <1>1, <2>1, <2>2, <2>3 DEF Move, TurnsKept, OnlyRun, DiskKept
<1>2. CASE ~CanTransition(row.state, to)
  BY <1>2 DEF SetState, Gone, OnlyRun, TurnsKept, DiskKept
<1> QED
  BY <1>1, <1>2

\* The steps that are such moves.
MoveStep ==
    \/ Move("batch", "seed", "inner_working")
    \/ Move("single", "work", "inner_working")
    \/ Move("receipt_set", "turns", "receipt_ready")
    \/ Move("turns", "outer", "outer_reviewing")
    \/ Move("rework_set", "redispatch", "rework")
    \/ Move("redispatch", "loop", "dispatched")

LEMMA MoveSteps ==
    ASSUME TypeOK,
           BatchWorking \/ SingleWorking \/ SetReceiptReady \/ BeginReview \/ SetRework \/ Redispatch
    PROVE  Gone \/ MoveStep
<1> USE DEF MoveStep
<1>0. {"inner_working", "receipt_ready", "outer_reviewing", "rework", "dispatched"}
          \subseteq RunStates \ Terminal
  BY DEF RunStates, Terminal
<1>1. CASE BatchWorking
  <2>1. CASE CanTransition(row.state, "inner_working")
    BY <1>0, <1>1, <2>1, MovesOrGone DEF BatchWorking, Working
  <2>2. CASE ~CanTransition(row.state, "inner_working")
    BY <1>1, <2>2, FailGone DEF BatchWorking, Working
  <2> QED
    BY <2>1, <2>2
<1>2. CASE SingleWorking
  <2>1. CASE CanTransition(row.state, "inner_working")
    BY <1>0, <1>2, <2>1, MovesOrGone DEF SingleWorking, Working
  <2>2. CASE ~CanTransition(row.state, "inner_working")
    BY <1>2, <2>2, FailGone DEF SingleWorking, Working
  <2> QED
    BY <2>1, <2>2
<1>3. CASE SetReceiptReady
  BY <1>0, <1>3, MovesOrGone DEF SetReceiptReady
<1>4. CASE BeginReview
  <2>1. CASE Exhausted /\ Receipt = {}
    BY <1>4, <2>1, EndGone DEF BeginReview, Terminal
  <2>2. CASE ~(Exhausted /\ Receipt = {})
    BY <1>0, <1>4, <2>2, MovesOrGone DEF BeginReview
  <2> QED
    BY <2>1, <2>2
<1>5. CASE SetRework
  BY <1>0, <1>5, MovesOrGone DEF SetRework
<1>6. CASE Redispatch
  BY <1>0, <1>6, MovesOrGone DEF Redispatch
<1> QED
  BY <1>1, <1>2, <1>3, <1>4, <1>5, <1>6

-----------------------------------------------------------------------------
(* The type, with what it says of units and of the engine's place *)

Turns == {"batch", "seed", "adapters", "receipts", "merge", "single", "work", "receipt",
          "receipt_set", "turns", "outer", "judge", "apply"}
Batch == {"batch", "seed", "adapters", "receipts", "merge"}
Inner == {"seed", "adapters", "receipts", "merge", "work", "receipt", "receipt_set"}
Done  == {"receipt_set", "turns", "outer", "judge", "apply"}

Shape == \A i \in DOMAIN env :
    /\ env[i].kind = "master" => ~env[i].globs /\ env[i].deps = {}
    /\ env[i].kind # "master" => env[i].covers = {} /\ \E u \in Units : env[i].part = {u}
    /\ env[i].kind = "peer" => env[i].deps = {}

Placed ==
    /\ m.pc \in Turns \/ m.pending \/ m.reuse => m.unit \in DOMAIN env
    /\ m.pc \in Batch => env[m.unit].kind = "master"
    /\ m.pc = "receipts" => m.next \in m.unit + 1 .. Len(env)
    /\ m.pc = "merge" => m.next \in m.unit + 1 .. Len(env) + 1
    /\ m.pc \in {"receipts", "merge"} =>
          \A k \in m.unit + 1 .. Len(env) :
              m.pc = "merge" \/ k < m.next => env[k].commit \in {{}, env[k].part}
    /\ m.pc = "adapters" => m.unit < Len(env)
    /\ m.pc = "seed" => m.drafts # {}
    /\ m.pc = "batch" => m.drafts # {}
    /\ m.pc \in Done \/ m.pending => env[m.unit].commit # NoCommit
    /\ m.pending => m.pc = "loop" /\ ~m.reuse

\* Where the run stands when the engine is at a step.
Standing ==
    /\ m.pc \in Inner => row.state = "inner_working"
    /\ m.pc = "turns" \/ m.pending => row.state \in {"receipt_ready", "outer_reviewing"}
    /\ m.pc \in {"outer", "judge", "apply", "rework_set"} => row.state = "outer_reviewing"
    /\ m.pc = "redispatch" => row.state = "rework"
    /\ row.state \in Terminal => m.pc = "off"
    /\ m.wave # {} => m.pc \in Turns
    /\ m.decision # "none" => m.pc = "apply"

Typed == TypeOK /\ Shape /\ Placed /\ Standing

RestKept == UNCHANGED <<result, crashes>>

PendingTaken ==
    /\ m.pc = "loop" /\ m.pending /\ m'.pc = "turns" /\ m'.pending = FALSE /\ m'.reuse = m.reuse
    /\ HandKept /\ PlanKept /\ WaveKept /\ PeersKept /\ TrialKept
    /\ row' = row /\ DiskKept /\ RestKept

LEMMA TakePendingDoes == ASSUME TypeOK, TakePending PROVE PendingTaken
  BY DEF TypeOK, IsEngine, TakePending, AtLoop, OnlyRun, HandKept, PlanKept, WaveKept, PeersKept,
         TrialKept, DiskKept, RestKept, PendingTaken

PeersRun ==
    /\ m.pc = "adapters" /\ m'.pc = "receipts" /\ m'.next = m.unit + 1 /\ m'.drafts = m.drafts
    /\ HandKept /\ PlanKept /\ WaveKept /\ FlagsKept /\ TrialKept
    /\ row' = row /\ DiskKept /\ RestKept

LEMMA RunPeersDoes == ASSUME TypeOK, RunPeers PROVE PeersRun
  BY DEF TypeOK, IsEngine, RunPeers, OnlyRun, HandKept, PlanKept, WaveKept, FlagsKept,
         TrialKept, DiskKept, RestKept, PeersRun

AllMerged ==
    /\ m.pc = "merge" /\ m.next \notin DOMAIN env /\ m'.pc = "receipt"
    /\ m'.next = 0 /\ m'.drafts = m.drafts
    /\ HandKept /\ PlanKept /\ WaveKept /\ FlagsKept /\ TrialKept
    /\ row' = row /\ DiskKept /\ RestKept

LEMMA MergedDoes == ASSUME TypeOK, Merged PROVE AllMerged
  BY DEF TypeOK, IsEngine, Merged, OnlyRun, HandKept, PlanKept, WaveKept, FlagsKept,
         TrialKept, DiskKept, RestKept, AllMerged

PeerMerged ==
    /\ m.pc = "merge" /\ m.next \in DOMAIN env /\ env[m.next].commit # {} /\ m'.pc = "merge"
    /\ tree' = tree \cup env[m.next].commit
    /\ m'.next = m.next + 1 /\ m'.drafts = m.drafts
    /\ HandKept /\ PlanKept /\ WaveKept /\ FlagsKept /\ TrialKept
    /\ UNCHANGED <<row, env, outers, credited, latest>> /\ RestKept

LEMMA MergePeerDoes == ASSUME TypeOK, MergePeer PROVE PeerMerged
  BY DEF TypeOK, IsEngine, MergePeer, HandKept, PlanKept, WaveKept, FlagsKept, TrialKept, RestKept,
         PeerMerged

SingleWorked(done) ==
    /\ m.pc = "work" /\ done \in {{}, env[m.unit].part} /\ m'.pc = "receipt"
    /\ tree' = tree \cup done /\ row'.state = row.state /\ row'.turns = Spent(row.turns)
    /\ row' = [row EXCEPT !.turns = Spent(@)]
    /\ HandKept /\ PlanKept /\ WaveKept /\ PeersKept /\ FlagsKept /\ TrialKept
    /\ UNCHANGED <<env, outers, credited, latest>> /\ RestKept

LEMMA SingleWorkDoes ==
    ASSUME TypeOK, NEW done \in Work, SingleWork(done)
    PROVE  SingleWorked(done)
  BY DEF TypeOK, IsEngine, SingleWork, HandKept, PlanKept, WaveKept, PeersKept, FlagsKept, TrialKept,
         RestKept, SingleWorked

\* An entry is added.
NewEntry(kind, part, globs, deps, covers, state) ==
    LET n == Len(env) + 1
        e == env'[n]
    IN  /\ env' \in Seq(Entry) /\ Len(env') = n /\ DOMAIN env' = DOMAIN env \cup {n} /\ n \notin DOMAIN env
        /\ \A i \in DOMAIN env : env'[i] = env[i]
        /\ e.kind = kind /\ e.part = part /\ e.globs = globs /\ e.deps = deps
        /\ e.covers = covers /\ e.state = state /\ e.commit = NoCommit

LEMMA NewEntryIs ==
    ASSUME Envelope,
           NEW kind \in {"dag", "master", "peer"}, NEW part \in Work, NEW globs \in BOOLEAN,
           NEW deps \in SUBSET Nat, NEW covers \in SUBSET Nat, NEW state \in States,
           env' = Append(env, NewUnit(kind, part, globs, deps, covers, state))
    PROVE  NewEntry(kind, part, globs, deps, covers, state)
<1> DEFINE x == NewUnit(kind, part, globs, deps, covers, state)
<1>1. /\ x \in Entry
      /\ x.kind = kind /\ x.part = part /\ x.globs = globs /\ x.deps = deps
      /\ x.covers = covers /\ x.state = state /\ x.commit = NoCommit
  BY NewUnitIs
<1>2. env' = Append(env, x)
  OBVIOUS
<1> HIDE DEF x
<1>3. Added(x)
  BY <1>1, <1>2, AddOne
<1> QED
  BY <1>1, <1>3 DEF Added, NewEntry

\* A batch begins.
BatchBegins(parts, covers) ==
    /\ m.pc = "loop" /\ ~m.pending /\ m'.pc = "batch" /\ m'.unit = Len(env) + 1 /\ m'.rework = 0
    /\ m'.drafts = parts /\ m'.next = m.next /\ m'.dags = m.dags
    /\ FlagsKept /\ TrialKept
    /\ NewEntry("master", parts, FALSE, {}, covers, "implementing")
    /\ UNCHANGED <<row, tree, outers, credited, latest>> /\ RestKept

WaveBegins ==
    /\ BatchBegins(UNION {env[i].part : i \in NextWave}, NextWave)
    /\ m.dags # NoDag /\ Two(NextWave)
    /\ m'.wave = NextWave /\ m'.wave_key = NextWave /\ m'.pre = tree
    /\ m'.wave_rework = WaveRework(NextWave)

LEMMA TypeParts ==
    ASSUME TypeOK
    PROVE  /\ Envelope
           /\ DOMAIN m.dags \subseteq DOMAIN env
           /\ m.dags \in [DOMAIN m.dags -> Progress]
           /\ \A i \in DOMAIN env : env[i].part \in Work /\ env[i].deps \subseteq 1 .. i - 1
                                    /\ env[i].covers \subseteq 1 .. i - 1
<1>1. Envelope
  BY DEF TypeOK, Envelope
<1>2. \A i \in DOMAIN env : env[i] \in Entry
  BY <1>1, EnvelopeIs
<1> QED
  BY <1>1, <1>2 DEF TypeOK, IsEngine, Entry

LEMMA ReadyAre ==
    ASSUME TypeOK
    PROVE  /\ ReadyUnits \in SUBSET (1 .. Len(env)) /\ Len(env) \in Nat
           /\ ReadyUnits \subseteq DOMAIN m.dags /\ ReadyUnits \subseteq Nat
           /\ NextWave \in SUBSET ReadyUnits /\ Greedy(env, ReadyUnits, NextWave)
           /\ IsFiniteSet(NextWave)
<1>1. Envelope /\ DOMAIN m.dags \subseteq DOMAIN env
  BY TypeParts
<1>2. ReadyUnits \subseteq DOMAIN m.dags
  BY DEF ReadyUnits, Ready
<1>3. DOMAIN env = 1 .. Len(env) /\ Len(env) \in Nat
  BY <1>1, EnvelopeIs
<1>4. NextWave \in SUBSET ReadyUnits /\ Greedy(env, ReadyUnits, NextWave)
  BY <1>1, <1>2, <1>3, WaveExists DEF NextWave
<1>5. IsFiniteSet(1 .. Len(env))
  BY <1>3, FS_Interval
<1>6. IsFiniteSet(NextWave)
  BY <1>1, <1>2, <1>3, <1>4, <1>5, FS_Subset
<1> QED
  BY <1>1, <1>2, <1>3, <1>4, <1>6

LEMMA StartWaveDoes == ASSUME TypeOK, StartWave PROVE WaveBegins
<1> DEFINE w == NextWave
           next == [m EXCEPT !.wave = w, !.pre = PreSha, !.wave_key = w, !.wave_rework = WaveRework(w)]
           parts == UNION {env[i].part : i \in w}
<1>5. w \subseteq DOMAIN env /\ IsFiniteSet(w) /\ w \in SUBSET Nat
  BY ReadyAre, TypeParts
<1>6. parts \in Work
  BY <1>5, TypeParts DEF Work
<1> HIDE DEF w
<1>1. Dag /\ Cardinality(w) >= 2 /\ StartBatch(parts, w, next)
  BY DEF StartWave, w
<1>2. m' = [next EXCEPT !.pc = "batch", !.unit = Len(env) + 1, !.rework = 0, !.drafts = parts]
  BY <1>1 DEF StartBatch
<1>7. env' = Append(env, NewUnit("master", parts, FALSE, {}, w, "implementing"))
  BY <1>1 DEF StartBatch
<1> HIDE DEF parts
<1>3. /\ m'.pc = "batch" /\ m'.unit = Len(env) + 1 /\ m'.rework = 0
      /\ m'.drafts = parts /\ m'.next = m.next /\ m'.dags = m.dags
      /\ FlagsKept /\ TrialKept
      /\ m'.wave = w /\ m'.wave_key = w /\ m'.pre = tree
      /\ m'.wave_rework = WaveRework(w)
  BY <1>2 DEF TypeOK, IsEngine, PreSha, FlagsKept, TrialKept
<1>8. NewEntry("master", parts, FALSE, {}, w, "implementing")
  BY <1>5, <1>6, <1>7, TypeParts, NewEntryIs DEF States
<1>4. BatchBegins(parts, w)
  BY <1>1, <1>3, <1>8 DEF BatchBegins, StartBatch, Dag, AtLoop, OnlyEnv, RestKept
<1>9. Two(w)
  BY <1>1, <1>5, TwoIsTwo
<1> QED
  BY <1>1, <1>3, <1>4, <1>9 DEF w, parts, Dag, WaveBegins

Foreign(parts) == \A u, v \in parts : u # v => <<u, v>> \notin Meet

BatchAsked(parts) ==
    /\ BatchBegins(parts, {}) /\ m.dags = NoDag /\ m.unit = 0 /\ ~m.reuse
    /\ Two(parts) /\ Foreign(parts)
    /\ PlanKept /\ WaveKept

LEMMA AskPeersDoes ==
    ASSUME TypeOK, NEW parts \in SUBSET Units, AskPeers(parts)
    PROVE  BatchAsked(parts)
<1>1. Asking /\ m.unit = 0 /\ Admissible(parts) /\ StartBatch(parts, {}, m)
  BY DEF AskPeers
<1>2. /\ m' = [m EXCEPT !.pc = "batch", !.unit = Len(env) + 1, !.rework = 0, !.drafts = parts]
      /\ env' = Append(env, NewUnit("master", parts, FALSE, {}, {}, "implementing"))
  BY <1>1 DEF StartBatch
<1>3. /\ m'.pc = "batch" /\ m'.unit = Len(env) + 1 /\ m'.rework = 0
      /\ m'.drafts = parts /\ m'.next = m.next /\ m'.dags = m.dags
      /\ FlagsKept /\ TrialKept /\ PlanKept /\ WaveKept
  BY <1>2 DEF TypeOK, IsEngine, FlagsKept, TrialKept, PlanKept, WaveKept
<1>4. NewEntry("master", parts, FALSE, {}, {}, "implementing")
  BY <1>2, TypeParts, NewEntryIs DEF States, Work
<1>5. IsFiniteSet(parts)
  BY PlanType, FS_Subset
<1>6. Two(parts) /\ Foreign(parts)
  BY <1>1, <1>5, TwoIsTwo DEF Admissible, Foreign
<1> QED
  BY <1>1, <1>3, <1>4, <1>6 DEF BatchBegins, StartBatch, Asking, AtLoop, OnlyEnv, RestKept, BatchAsked

\* Work on a single unit begins.
SingleBegins(i, times) ==
    /\ m.pc = "loop" /\ m'.pc = "single" /\ m'.unit = i /\ m'.rework = times
    /\ m'.pending = m.pending /\ m'.reuse = FALSE
    /\ PlanKept /\ WaveKept /\ PeersKept /\ TrialKept
    /\ i \in DOMAIN env /\ times \in Nat /\ Touched(i, "implementing", env[i].commit)
    /\ UNCHANGED <<row, tree, outers, credited, latest>> /\ RestKept

LEMMA StartSingleDoes ==
    ASSUME TypeOK, NEW i \in DOMAIN env, NEW times \in Nat, m.pc = "loop", StartSingle(i, times)
    PROVE  SingleBegins(i, times)
<1>1. env' = [env EXCEPT ![i].state = "implementing"]
  BY DEF StartSingle
<1>2. Touched(i, "implementing", env[i].commit)
  BY <1>1, TypeParts, TouchState DEF States
<1> QED
  BY <1>2 DEF TypeOK, IsEngine, StartSingle, SingleBegins, OnlyEnv, PlanKept, WaveKept, PeersKept,
         TrialKept, RestKept

\* The ways a single unit is begun.
DagUnitBegins ==
    /\ ~m.pending /\ m.dags # NoDag /\ ReadyUnits # {} /\ ~Two(NextWave)
    /\ SingleBegins(Min(ReadyUnits), m.dags[Min(ReadyUnits)].rework)
UnitReused == m.reuse /\ SingleBegins(m.unit, m.rework)
UnitAsked  == ~m.pending /\ ~m.reuse /\ m.dags = NoDag /\ m.unit # 0 /\ SingleBegins(m.unit, m.rework)

LEMMA SinglesDo ==
    ASSUME Typed, NextSingle \/ ReuseUnit \/ AskSingle
    PROVE  DagUnitBegins \/ UnitReused \/ UnitAsked
<1>0. TypeOK /\ Envelope /\ DOMAIN env = 1 .. Len(env) /\ Len(env) \in Nat
  BY TypeParts, EnvelopeIs DEF Typed
<1>1. CASE NextSingle
  <2> DEFINE i == Min(ReadyUnits)
  <2>1. /\ AtLoop /\ ~m.pending /\ m.dags # NoDag /\ ReadyUnits # {} /\ Cardinality(NextWave) < 2
        /\ StartSingle(i, m.dags[i].rework)
    BY <1>1 DEF NextSingle, Dag
  <2>2. i \in ReadyUnits
    BY <1>0, <2>1, ReadyAre, MinIsLeast
  <2>3. i \in DOMAIN env /\ m.dags[i].rework \in Nat
    BY <1>0, <2>2, ReadyAre, TypeParts DEF Progress
  <2>4. ~Two(NextWave)
    <3>1. IsFiniteSet(NextWave)
      BY <1>0, ReadyAre
    <3>2. Cardinality(NextWave) \in Nat
      BY <3>1, FS_CardinalityType
    <3> QED
      BY <2>1, <3>1, <3>2, TwoIsTwo
  <2> HIDE DEF i
  <2>5. SingleBegins(i, m.dags[i].rework)
    BY <1>0, <2>1, <2>3, StartSingleDoes DEF AtLoop
  <2> QED
    BY <2>1, <2>4, <2>5 DEF DagUnitBegins, i
<1>2. CASE ReuseUnit
  <2>1. m.unit \in DOMAIN env /\ m.rework \in Nat
    BY <1>2 DEF ReuseUnit, Typed, Placed, TypeOK, IsEngine
  <2> QED
    BY <1>0, <1>2, <2>1, StartSingleDoes DEF ReuseUnit, AtLoop, UnitReused
<1>3. CASE AskSingle
  <2>1. m.unit \in DOMAIN env /\ m.rework \in Nat
    BY <1>0, <1>3 DEF AskSingle, TypeOK, IsEngine
  <2> QED
    BY <1>0, <1>3, <2>1, StartSingleDoes DEF AskSingle, AtLoop, Asking, UnitAsked
<1> QED
  BY <1>1, <1>2, <1>3

DagAsked(plan) ==
    /\ m.pc = "loop" /\ m'.pc = "loop" /\ ~m.pending /\ ~m.reuse /\ m.dags = NoDag
    /\ Seeded(plan)
    /\ m'.dags = [i \in Len(env) + 1 .. Len(env) + Cardinality(Units) |-> [state |-> "queued", rework |-> 0]]
    /\ m'.wave_key = m.wave_key
    /\ HandKept /\ WaveKept /\ PeersKept /\ FlagsKept /\ TrialKept
    /\ UNCHANGED <<row, tree, outers, credited, latest>> /\ RestKept

LEMMA AskDagDoes ==
    ASSUME TypeOK, NEW plan \in DagPlans, AskDag(plan)
    PROVE  DagAsked(plan)
<1>1. Seeded(plan)
  BY TypeParts, SeedAll DEF AskDag
<1> QED
  BY <1>1 DEF TypeOK, IsEngine, AskDag, Asking, AtLoop, OnlyEnv, HandKept, WaveKept, PeersKept, FlagsKept,
         TrialKept, RestKept, DagAsked

PeerSeeded(u) ==
    /\ m.pc = "seed" /\ m'.pc = (IF m.drafts = {u} THEN "adapters" ELSE "seed")
    /\ u \in m.drafts /\ u \in Units /\ NewEntry("peer", {u}, TRUE, {}, {}, "queued")
    /\ m'.drafts = m.drafts \ {u} /\ m'.next = m.next
    /\ HandKept /\ PlanKept /\ WaveKept /\ FlagsKept /\ TrialKept
    /\ UNCHANGED <<row, tree, outers, credited, latest>> /\ RestKept

LEMMA SeedPeerDoes == ASSUME Typed, SeedPeer PROVE \E u \in Units : PeerSeeded(u)
<1> DEFINE u == Min(m.drafts)
<1>0. TypeOK
  BY DEF Typed
<1>1. m.drafts # {} /\ m.drafts \in SUBSET Units
  BY DEF Typed, Placed, SeedPeer, TypeOK, IsEngine, Work
<1>2. Units \subseteq Nat
  BY PlanType, FS_CardinalityType
<1>3. u \in m.drafts
  BY <1>1, <1>2, MinIsLeast
<1>4. NewEntry("peer", {u}, TRUE, {}, {}, "queued")
  BY <1>0, <1>1, <1>3, TypeParts, NewEntryIs DEF States, Work, SeedPeer
<1>5. PeerSeeded(u)
  BY <1>0, <1>1, <1>3, <1>4 DEF TypeOK, IsEngine, SeedPeer, OnlyEnv, HandKept, PlanKept, WaveKept, FlagsKept,
         TrialKept, RestKept, PeerSeeded
<1> QED
  BY <1>1, <1>3, <1>5

PeerHandsIn(commit) ==
    /\ m.pc = "receipts" /\ commit \in {{}, env[m.next].part}
    /\ m'.pc = (IF m.next = Len(env) THEN "merge" ELSE "receipts")
    /\ m'.next = (IF m.next = Len(env) THEN m.unit + 1 ELSE m.next + 1)
    /\ m'.drafts = m.drafts /\ latest' = m.next
    /\ row'.state = row.state /\ row' = [row EXCEPT !.turns = Spent(@)]
    /\ m.next \in DOMAIN env /\ Touched(m.next, "receipt_ready", commit)
    /\ HandKept /\ PlanKept /\ WaveKept /\ FlagsKept /\ TrialKept
    /\ UNCHANGED <<tree, outers, credited>> /\ RestKept

LEMMA PeerReceiptDoes == ASSUME Typed, NEW commit \in Work, PeerReceipt(commit) PROVE PeerHandsIn(commit)
<1>0. TypeOK /\ Envelope /\ DOMAIN env = 1 .. Len(env) /\ Len(env) \in Nat
  BY TypeParts, EnvelopeIs DEF Typed
<1>1. m.next \in m.unit + 1 .. Len(env) /\ m.unit \in Nat
  BY <1>0 DEF Typed, Placed, PeerReceipt, TypeOK, IsEngine
<1>2. m.next \in DOMAIN env
  BY <1>0, <1>1
<1>3. Touched(m.next, "receipt_ready", commit)
  BY <1>0, <1>2, TouchReceipt DEF PeerReceipt
<1> QED
  BY <1>0, <1>2, <1>3 DEF TypeOK, IsEngine, PeerReceipt, HandKept, PlanKept, WaveKept, FlagsKept, TrialKept,
     RestKept, PeerHandsIn

ReceiptMade ==
    /\ m.pc = "receipt" /\ m'.pc = "receipt_set" /\ latest' = m.unit
    /\ m.unit \in DOMAIN env /\ Touched(m.unit, "receipt_ready", tree)
    /\ HandKept /\ PlanKept /\ WaveKept /\ PeersKept /\ FlagsKept /\ TrialKept
    /\ UNCHANGED <<row, tree, outers, credited>> /\ RestKept

LEMMA ReceiptEventDoes == ASSUME Typed, ReceiptEvent PROVE ReceiptMade
<1>0. TypeOK /\ Envelope
  BY TypeParts DEF Typed
<1>2. m.unit \in DOMAIN env /\ tree \in Work
  BY <1>0 DEF Typed, Placed, Turns, ReceiptEvent, TypeOK
<1>3. Touched(m.unit, "receipt_ready", tree)
  BY <1>0, <1>2, TouchReceipt DEF ReceiptEvent
<1> QED
  BY <1>0, <1>2, <1>3 DEF TypeOK, IsEngine, ReceiptEvent, HandKept, PlanKept, WaveKept, PeersKept, FlagsKept,
     TrialKept, RestKept, ReceiptMade

\* The review begins, or is blocked by the worktree of an earlier one.
ReviewOpens ==
    /\ m.pc = "outer" /\ m'.pc = "judge" /\ m.outer + 1 > outers
    /\ outers' = m.outer + 1 /\ m'.outer = m.outer + 1 /\ m'.decision = m.decision
    /\ HandKept /\ PlanKept /\ WaveKept /\ PeersKept /\ FlagsKept
    /\ UNCHANGED <<row, env, tree, credited, latest>> /\ RestKept

LEMMA OuterWorktreeDoes == ASSUME TypeOK, OuterWorktree PROVE Gone \/ ReviewOpens
<1>1. CASE m.outer + 1 > outers
  BY <1>1 DEF TypeOK, IsEngine, OuterWorktree, HandKept, PlanKept, WaveKept, PeersKept, FlagsKept, RestKept,
     ReviewOpens
<1>2. CASE ~(m.outer + 1 > outers)
  BY <1>2 DEF OuterWorktree, Gone, TurnsKept, DiskKept
<1> QED
  BY <1>1, <1>2

-----------------------------------------------------------------------------
(* Verdicts, resumes, and the list of all steps *)

VerdictGiven(decision) ==
    /\ m.pc = "judge" /\ m'.pc = "apply" /\ m'.decision = decision /\ m'.outer = m.outer
    /\ decision \in Decisions /\ m.unit \in DOMAIN env /\ Marked(decision)
    /\ credited' = (IF decision = "accept" THEN credited \cup Receipt ELSE credited)
    /\ HandKept /\ PlanKept /\ WaveKept /\ PeersKept /\ FlagsKept
    /\ UNCHANGED <<row, tree, outers, latest>> /\ RestKept

LEMMA RulingIsDecision ==
    ASSUME NEW d \in Decisions, NEW g
    PROVE  EnforceDecision(d, g)[1] \in Decisions
  BY DEF EnforceDecision, Limited, Refusal, Decisions

LEMMA JudgeDoes ==
    ASSUME Typed, NEW green \in BOOLEAN, NEW answer \in Decisions, Judge(green, answer)
    PROVE  Gone \/ \E decision \in Decisions : VerdictGiven(decision)
<1> DEFINE verdict == EnforceDecision(answer, GatesOf(green))
           stop == verdict[2] = "budget" \/ (verdict[1] = "accept" /\ Exhausted)
<1>0. verdict[1] \in Decisions /\ TypeOK /\ Envelope
  BY RulingIsDecision, TypeParts DEF Typed
<1>1. /\ m.pc = "judge"
      /\ IF stop THEN SetState("budget_exhausted", Off) /\ OnlyRun
         ELSE /\ env' = [i \in DOMAIN env |-> IF i \in Covered THEN Replayed(env[i], verdict[1])
                                              ELSE env[i]]
              /\ credited' = IF verdict[1] = "accept" THEN credited \cup Receipt ELSE credited
              /\ m' = [m EXCEPT !.pc = "apply", !.decision = verdict[1]]
              /\ UNCHANGED <<row, tree, outers, result, crashes, latest>>
  BY Zenon DEF Judge
<1> HIDE DEF verdict
<1>2. CASE stop
  BY <1>0, <1>1, <1>2, EndGone DEF Terminal
<1>3. CASE ~stop
  <2>2. m' = [m EXCEPT !.pc = "apply", !.decision = verdict[1]]
    BY <1>1, <1>3
  <2>1. /\ m'.pc = "apply" /\ m'.decision = verdict[1] /\ m'.outer = m.outer
        /\ HandKept /\ PlanKept /\ WaveKept /\ PeersKept /\ FlagsKept
    BY <1>0, <2>2 DEF TypeOK, IsEngine, HandKept, PlanKept, WaveKept, PeersKept, FlagsKept
  <2>3. Marked(verdict[1])
    BY <1>0, <1>1, <1>3, MarkAll
  <2>4. m.unit \in DOMAIN env
    BY <1>1 DEF Typed, Placed, Turns
  <2>5. VerdictGiven(verdict[1])
    BY <1>0, <1>1, <1>3, <2>1, <2>3, <2>4 DEF VerdictGiven, RestKept
  <2> QED
    BY <1>0, <2>5
<1> QED
  BY <1>2, <1>3

\* The tables in memory after an accept.
DagsAccepted == [i \in DOMAIN m.dags |->
                    IF i \in m.wave \cup {m.unit} THEN [m.dags[i] EXCEPT !.state = "accepted"]
                    ELSE m.dags[i]]

\* The turn is over and the loop goes on.
TurnOver(pc) ==
    /\ m.pc = "apply" /\ m'.pc = pc /\ m'.unit = m.unit /\ m'.wave = {} /\ m'.pre = {}
    /\ m'.wave_key = m.wave_key /\ m'.outer = m.outer /\ m'.decision = "none"
    /\ PeersKept /\ FlagsKept
    /\ UNCHANGED <<env, outers, credited, latest>>

LEMMA TurnIs ==
    ASSUME TypeOK, m.pc = "apply", NEW pc, NEW dags, NEW count, NEW times,
           m' = [Turn(pc) EXCEPT !.dags = dags, !.wave_rework = count, !.rework = times],
           UNCHANGED <<env, outers, credited, latest>>
    PROVE  /\ TurnOver(pc) /\ m'.dags = dags /\ m'.wave_rework = count /\ m'.rework = times
<1> DEFINE t == [m EXCEPT !.pc = pc, !.wave = {}, !.pre = {}, !.decision = "none"]
<1>1. /\ t.pc = pc /\ t.wave = {} /\ t.pre = {} /\ t.decision = "none"
      /\ t.unit = m.unit /\ t.rework = m.rework /\ t.wave_key = m.wave_key /\ t.outer = m.outer
      /\ t.drafts = m.drafts /\ t.next = m.next /\ t.pending = m.pending /\ t.reuse = m.reuse
      /\ t \in [pc : {pc}, unit : Nat, rework : Nat, dags : {m.dags}, pending : BOOLEAN, reuse : BOOLEAN,
                outer : Nat, decision : {"none"},
                wave : {{}}, pre : {{}}, wave_rework : 0 .. MaxRework, wave_key : SUBSET Nat,
                drafts : Work, next : Nat]
  BY DEF TypeOK, IsEngine
<1>2. m' = [t EXCEPT !.dags = dags, !.wave_rework = count, !.rework = times]
  BY DEF Turn
<1> HIDE DEF t
<1>4. DOMAIN t = DOMAIN [pc |-> 0, unit |-> 0, rework |-> 0, dags |-> 0, pending |-> 0, reuse |-> 0, outer |-> 0,
                         decision |-> 0, wave |-> 0, pre |-> 0, wave_rework |-> 0, wave_key |-> 0,
                         drafts |-> 0, next |-> 0]
  BY <1>1
<1>3. /\ m'.pc = pc /\ m'.wave = {} /\ m'.pre = {} /\ m'.decision = "none"
      /\ m'.unit = m.unit /\ m'.wave_key = m.wave_key /\ m'.outer = m.outer
      /\ m'.drafts = m.drafts /\ m'.next = m.next /\ m'.pending = m.pending /\ m'.reuse = m.reuse
      /\ m'.dags = dags /\ m'.wave_rework = count /\ m'.rework = times
  BY <1>1, <1>2, <1>4
<1> QED
  BY <1>3 DEF TurnOver, PeersKept, FlagsKept

RunAccepted ==
    /\ m.pc = "apply" /\ m.decision = "accept" /\ m' = Off
    /\ row.state = "outer_reviewing" /\ row'.state = "accepted" /\ TurnsKept
    /\ Accepted(DagsAccepted) = DOMAIN DagsAccepted
    /\ result' = Receipt
    /\ UNCHANGED <<env, tree, outers, crashes, credited, latest>>

UnitAccepted ==
    /\ m.decision = "accept" /\ TurnOver("loop")
    /\ row.state = "outer_reviewing" /\ row'.state = "dispatched" /\ TurnsKept
    /\ Accepted(DagsAccepted) # DOMAIN DagsAccepted
    /\ m'.dags = DagsAccepted /\ m'.rework = m.rework
    /\ m'.wave_rework = (IF m.wave = {} THEN m.wave_rework ELSE 0)
    /\ tree' = tree /\ RestKept

LEMMA AcceptDoes == ASSUME Typed, Accept PROVE RunAccepted \/ UnitAccepted
<1> DEFINE dags == DagsAccepted
           count == IF m.wave = {} THEN m.wave_rework ELSE 0
<1>0. /\ m.pc = "apply" /\ m.decision = "accept"
      /\ UNCHANGED <<env, tree, outers, crashes, credited, latest>>
      /\ IF Accepted(dags) # DOMAIN dags
         THEN SetState("dispatched", [Turn("loop") EXCEPT !.dags = dags,
                                         !.wave_rework = IF m.wave = {} THEN @ ELSE 0])
              /\ UNCHANGED result
         ELSE SetState("accepted", Off) /\ result' = Receipt
  BY DEF Accept, DagsAccepted
<1>7. TypeOK /\ row.state = "outer_reviewing"
  BY <1>0 DEF Typed, Standing
<1>8. CanTransition(row.state, "dispatched") /\ CanTransition(row.state, "accepted")
  BY <1>7 DEF CanTransition, Arcs, Terminal
<1>5. Turn("loop").wave_rework = m.wave_rework
  BY <1>7 DEF Turn, TypeOK, IsEngine
<1>6. [Turn("loop") EXCEPT !.dags = dags, !.wave_rework = IF m.wave = {} THEN @ ELSE 0]
        = [Turn("loop") EXCEPT !.dags = dags, !.wave_rework = count, !.rework = m.rework]
  BY <1>5, <1>7 DEF Turn, TypeOK, IsEngine
<1> HIDE DEF dags, count
<1>1. CASE Accepted(dags) # DOMAIN dags
  <2>1. row' = [row EXCEPT !.state = "dispatched"] /\ result' = result
        /\ m' = [Turn("loop") EXCEPT !.dags = dags, !.wave_rework = count, !.rework = m.rework]
    BY <1>0, <1>1, <1>6, <1>8 DEF SetState, Terminal
  <2>2. row'.state = "dispatched" /\ TurnsKept
    BY <1>7, <2>1, RowIs DEF TurnsKept
  <2>3. TurnOver("loop") /\ m'.dags = dags /\ m'.wave_rework = count /\ m'.rework = m.rework
    BY <1>0, <1>7, <2>1, TurnIs
  <2> QED
    BY <1>0, <1>1, <1>7, <2>1, <2>2, <2>3 DEF dags, count, UnitAccepted, RestKept
<1>2. CASE ~(Accepted(dags) # DOMAIN dags)
  <2>1. row' = [row EXCEPT !.state = "accepted"] /\ m' = Off /\ result' = Receipt
    BY <1>0, <1>2, <1>8 DEF SetState, Terminal
  <2>2. row'.state = "accepted" /\ TurnsKept
    BY <1>7, <2>1, RowIs DEF TurnsKept
  <2>3. Accepted(DagsAccepted) = DOMAIN DagsAccepted
    BY <1>2 DEF dags
  <2> QED
    BY <1>0, <1>7, <2>1, <2>2, <2>3 DEF RunAccepted
<1> QED
  BY <1>1, <1>2

\* The tables in memory after a rework.
DagsReworked == [i \in DOMAIN m.dags |-> IF i \in m.wave THEN [m.dags[i] EXCEPT !.rework = @ + 1]
                                         ELSE m.dags[i]]

Counted == IF m.wave = {} THEN m.wave_rework ELSE m.wave_rework + 1

ReworkEnds ==
    /\ m.pc = "apply" /\ m.decision = "rework" /\ m' = Off
    /\ row.state = "outer_reviewing" /\ row'.state = "escalate" /\ TurnsKept
    /\ tree' = RolledBack
    /\ UNCHANGED <<env, outers, credited, latest>> /\ RestKept

ReworkBegins ==
    /\ m.decision = "rework" /\ TurnOver("rework_set")
    /\ row.state = "outer_reviewing" /\ row' = row
    /\ tree' = RolledBack /\ RestKept
    /\ m'.dags = DagsReworked /\ m'.wave_rework = Counted /\ m'.rework = m.rework + 1
    /\ Counted <= MaxRework

LEMMA ReworkDoes == ASSUME Typed, Rework PROVE ReworkEnds \/ ReworkBegins
<1> DEFINE dags == DagsReworked
           count == Counted
           over == (m.wave # {} /\ count > MaxRework) \/ m.rework + 1 > MaxRework
<1>0. /\ m.pc = "apply" /\ m.decision = "rework" /\ tree' = RolledBack
      /\ UNCHANGED <<env, outers, result, crashes, credited, latest>>
      /\ IF over THEN SetState("escalate", Off)
         ELSE m' = [Turn("rework_set") EXCEPT !.wave_rework = count, !.dags = dags, !.rework = @ + 1]
              /\ UNCHANGED row
  BY DEF Rework, DagsReworked, Counted
<1>7. TypeOK /\ row.state = "outer_reviewing"
  BY <1>0 DEF Typed, Standing
<1>8. CanTransition(row.state, "escalate")
  BY <1>7 DEF CanTransition, Exits, Terminal
<1>5. Turn("rework_set").rework = m.rework /\ count \in Nat /\ (m.wave = {} => count <= MaxRework)
  BY <1>7, MaxReworkType DEF Turn, TypeOK, IsEngine, Counted
<1>6. [Turn("rework_set") EXCEPT !.wave_rework = count, !.dags = dags, !.rework = @ + 1]
        = [Turn("rework_set") EXCEPT !.dags = dags, !.wave_rework = count, !.rework = m.rework + 1]
  BY <1>5, <1>7 DEF Turn, TypeOK, IsEngine
<1> HIDE DEF dags, count
<1>1. CASE over
  <2>1. row' = [row EXCEPT !.state = "escalate"] /\ m' = Off
    BY <1>0, <1>1, <1>8 DEF SetState, Terminal
  <2>2. row'.state = "escalate" /\ TurnsKept
    BY <1>7, <2>1, RowIs DEF TurnsKept
  <2> QED
    BY <1>0, <1>7, <2>1, <2>2 DEF RestKept, ReworkEnds
<1>2. CASE ~over
  <2>1. m' = [Turn("rework_set") EXCEPT !.dags = dags, !.wave_rework = count, !.rework = m.rework + 1]
        /\ row' = row
    BY <1>0, <1>2, <1>6
  <2>2. /\ TurnOver("rework_set") /\ m'.dags = dags /\ m'.wave_rework = count /\ m'.rework = m.rework + 1
    BY <1>0, <1>7, <2>1, TurnIs
  <2>3. count <= MaxRework
    BY <1>2, <1>5, MaxReworkType
  <2> QED
    BY <1>0, <1>7, <2>1, <2>2, <2>3 DEF RestKept, TurnsKept, dags, count, ReworkBegins
<1> QED
  BY <1>1, <1>2

\* What a resume finds in the envelope.
Found == IF Pending # {} THEN Max(Pending) ELSE Len(env)
Grown == \E j \in DOMAIN env : env[j].kind # "master"
DagsFound == [j \in DOMAIN env |-> [state |-> env[j].state, rework |-> env[j].rework]]

Resumed ==
    /\ m.pc = "off" /\ row.state \notin Terminal
    /\ m'.pc = "loop" /\ m'.unit = Found
    /\ m'.rework = (IF Found = 0 THEN 0 ELSE env[Found].rework)
    /\ m'.dags = (IF Grown THEN DagsFound ELSE NoDag)
    /\ m'.pending = (Pending # {})
    /\ m'.reuse = (Found # 0 /\ Pending = {} /\ ~Grown)
    /\ m'.outer = 0 /\ m'.decision = "none" /\ m'.wave = {} /\ m'.pre = {}
    /\ m'.wave_rework = 0 /\ m'.wave_key = {} /\ m'.drafts = {} /\ m'.next = 0
    /\ row' = row /\ DiskKept /\ RestKept

LEMMA ResumeDoes == ASSUME Resume PROVE Resumed
<1> DEFINE i == Found
           dags == IF Grown THEN DagsFound ELSE NoDag
           times == IF i = 0 THEN 0 ELSE env[i].rework
           pending == Pending # {}
           reuse == i # 0 /\ Pending = {} /\ ~Grown
<1>1. /\ m.pc = "off" /\ row.state \notin Terminal
      /\ m' = [Off EXCEPT !.pc = "loop", !.unit = i, !.rework = times, !.dags = dags,
                          !.pending = pending, !.reuse = reuse]
      /\ UNCHANGED row /\ OnlyRun
  BY DEF Resume, Found, Grown, DagsFound
<1> HIDE DEF i, dags, times, pending, reuse
<1>2. /\ m'.pc = "loop" /\ m'.unit = i /\ m'.rework = times /\ m'.dags = dags
      /\ m'.pending = pending /\ m'.reuse = reuse
      /\ m'.outer = 0 /\ m'.decision = "none" /\ m'.wave = {} /\ m'.pre = {}
      /\ m'.wave_rework = 0 /\ m'.wave_key = {} /\ m'.drafts = {} /\ m'.next = 0
  BY <1>1 DEF Off
<1> QED
  BY <1>1, <1>2 DEF Resumed, OnlyRun, DiskKept, RestKept, i, dags, times, pending, reuse

DagClosed ==
    /\ m.pc = "loop" /\ ~m.pending /\ m.dags # NoDag /\ Accepted(m.dags) = DOMAIN m.dags
    /\ row.state = "outer_reviewing" /\ row'.state = "accepted" /\ m' = Off
    /\ TurnsKept /\ DiskKept /\ RestKept

\* Every step is one of these.
Does ==
    \/ Gone \/ MoveStep
    \/ PendingTaken \/ PeersRun \/ AllMerged \/ PeerMerged
    \/ \E done \in Work : SingleWorked(done)
    \/ WaveBegins
    \/ \E parts \in SUBSET Units : BatchAsked(parts)
    \/ DagUnitBegins \/ UnitReused \/ UnitAsked
    \/ \E plan \in DagPlans : DagAsked(plan)
    \/ \E u \in Units : PeerSeeded(u)
    \/ \E commit \in Work : PeerHandsIn(commit)
    \/ ReceiptMade \/ ReviewOpens
    \/ \E decision \in Decisions : VerdictGiven(decision)
    \/ RunAccepted \/ UnitAccepted \/ ReworkEnds \/ ReworkBegins
    \/ Resumed \/ DagClosed

LEMMA NextDoes == ASSUME Typed, Next PROVE Does
<1> USE DEF Does
<1>0. TypeOK
  BY DEF Typed
<1>1. CASE BudgetCheck \/ WaveRefused \/ AskFails \/ InnerFails \/ JudgeFails \/ Close
  BY <1>0, <1>1, StopsAreGone
<1>2. CASE Crash
  BY <1>0, <1>2, CrashGone
<1>3. CASE CloseDag
  BY <1>0, <1>3, CloseGone DEF DagClosed, Dag, AtLoop, OnlyRun, DiskKept, RestKept
<1>4. CASE BatchWorking \/ SingleWorking \/ SetReceiptReady \/ BeginReview \/ SetRework \/ Redispatch
  BY <1>0, <1>4, MoveSteps
<1>5. CASE TakePending \/ RunPeers \/ Merged \/ MergePeer \/ StartWave
  BY <1>0, <1>5, TakePendingDoes, RunPeersDoes, MergedDoes, MergePeerDoes, StartWaveDoes
<1>6. CASE NextSingle \/ ReuseUnit \/ AskSingle
  BY <1>6, SinglesDo
<1>7. CASE \E parts \in SUBSET Units : AskPeers(parts)
  BY <1>0, <1>7, AskPeersDoes
<1>8. CASE \E plan \in DagPlans : AskDag(plan)
  BY <1>0, <1>8, AskDagDoes
<1>9. CASE SeedPeer \/ ReceiptEvent \/ Accept \/ Rework
  BY <1>9, SeedPeerDoes, ReceiptEventDoes, AcceptDoes, ReworkDoes
<1>10. CASE \E commit \in Work : PeerReceipt(commit)
  BY <1>10, PeerReceiptDoes
<1>11. CASE \E done \in Work : SingleWork(done)
  BY <1>0, <1>11, SingleWorkDoes
<1>12. CASE OuterWorktree
  BY <1>0, <1>12, OuterWorktreeDoes
<1>13. CASE \E green \in BOOLEAN, d \in Decisions : Judge(green, d)
  BY <1>13, JudgeDoes
<1>14. CASE Resume
  BY <1>14, ResumeDoes
<1> QED
  BY <1>1, <1>2, <1>3, <1>4, <1>5, <1>6, <1>7, <1>8, <1>9, <1>10, <1>11, <1>12, <1>13, <1>14 DEF Next, Engine

-----------------------------------------------------------------------------
(* The type is kept *)

Fields == {"pc", "unit", "rework", "dags", "pending", "reuse", "outer", "decision", "wave", "pre",
           "wave_rework", "wave_key", "drafts", "next"}

Rec(e) == DOMAIN e = Fields /\ e = [x \in DOMAIN e |-> e[x]]

LEMMA EngineRec == ASSUME NEW e, IsEngine(e) PROVE Rec(e)
  BY DEF IsEngine, Rec, Fields

LEMMA EngineIs ==
    ASSUME NEW e, Rec(e), e.dags \in [DOMAIN e.dags -> Progress], e.pc \in PC, e.unit \in Nat,
           e.rework \in Nat, e.pending \in BOOLEAN, e.reuse \in BOOLEAN, e.outer \in Nat,
           e.decision \in Decisions \cup {"none"}, e.wave \in SUBSET Nat, e.pre \in Work,
           e.wave_rework \in 0 .. MaxRework, e.wave_key \in SUBSET Nat, e.drafts \in Work, e.next \in Nat
    PROVE  IsEngine(e)
  BY DEF IsEngine, Rec, Fields

LEMMA OffRec == Rec(Off)
  BY DEF Off, Rec, Fields

LEMMA StateRec == ASSUME NEW to, NEW next, Rec(next), SetState(to, next) PROVE Rec(m')
  BY OffRec DEF SetState

LEMMA FailRec == ASSUME FailRun PROVE Rec(m')
  BY OffRec, StateRec DEF FailRun

LEMMA PcRec == ASSUME Rec(m), NEW p PROVE Rec([m EXCEPT !.pc = p])
  BY DEF Rec

LEMMA WorkingRec == ASSUME Rec(m), NEW p, Working([m EXCEPT !.pc = p]) PROVE Rec(m')
  BY PcRec, StateRec, FailRec DEF Working

LEMMA SingleRec == ASSUME Rec(m), NEW i, NEW times, StartSingle(i, times) PROVE Rec(m')
  BY DEF Rec, StartSingle

LEMMA BatchRec ==
    ASSUME NEW next, Rec(next), NEW parts, NEW covers, StartBatch(parts, covers, next)
    PROVE  Rec(m')
  BY DEF Rec, StartBatch

LEMMA TurnRec == ASSUME Rec(m), NEW pc PROVE Rec(Turn(pc))
  BY DEF Rec, Turn

LEMMA NextRec == ASSUME TypeOK, Next PROVE Rec(m')
<1>0. Rec(m)
  BY EngineRec DEF TypeOK
<1>1. CASE BudgetCheck \/ Close
  BY <1>1, OffRec, StateRec DEF BudgetCheck, Close
<1>2. CASE WaveRefused \/ AskFails \/ InnerFails \/ JudgeFails
  BY <1>2, FailRec DEF WaveRefused, AskFails, InnerFails, JudgeFails
<1>3. CASE TakePending
  BY <1>0, <1>3 DEF TakePending, Rec
<1>4. CASE StartWave
  <2> DEFINE w == NextWave
             next == [m EXCEPT !.wave = w, !.pre = PreSha, !.wave_key = w, !.wave_rework = WaveRework(w)]
  <2>1. Rec(next)
    BY <1>0 DEF Rec
  <2> QED
    BY <1>4, <2>1, BatchRec DEF StartWave
<1>5. CASE NextSingle \/ ReuseUnit \/ AskSingle
  BY <1>0, <1>5, SingleRec DEF NextSingle, ReuseUnit, AskSingle
<1>6. CASE CloseDag
  BY <1>6, OffRec, StateRec, FailRec DEF CloseDag
<1>7. CASE \E parts \in SUBSET Units : AskPeers(parts)
  BY <1>0, <1>7, BatchRec DEF AskPeers
<1>8. CASE \E plan \in DagPlans : AskDag(plan)
  <2>1. \E d : m' = [m EXCEPT !.dags = d]
    BY <1>8 DEF AskDag
  <2> QED
    BY <1>0, <2>1 DEF Rec
<1>9. CASE BatchWorking \/ SingleWorking
  BY <1>0, <1>9, WorkingRec DEF BatchWorking, SingleWorking
<1>10. CASE SeedPeer
  BY <1>0, <1>10 DEF SeedPeer, Rec
<1>11. CASE RunPeers \/ MergePeer \/ Merged \/ ReceiptEvent
  BY <1>0, <1>11 DEF RunPeers, MergePeer, Merged, ReceiptEvent, Rec
<1>12. CASE \E commit \in Work : PeerReceipt(commit)
  BY <1>0, <1>12 DEF PeerReceipt, Rec
<1>13. CASE \E done \in Work : SingleWork(done)
  BY <1>0, <1>13 DEF SingleWork, Rec
<1>14. CASE SetReceiptReady \/ BeginReview \/ SetRework \/ Redispatch
  BY <1>0, <1>14, OffRec, PcRec, StateRec DEF SetReceiptReady, BeginReview, SetRework, Redispatch
<1>15. CASE OuterWorktree
  BY <1>0, <1>15, OffRec DEF OuterWorktree, Rec
<1>16. CASE \E green \in BOOLEAN, d \in Decisions : Judge(green, d)
  <2>1. SetState("budget_exhausted", Off) \/ \E d : m' = [m EXCEPT !.pc = "apply", !.decision = d]
    BY <1>16 DEF Judge
  <2> QED
    BY <1>0, <2>1, OffRec, StateRec DEF Rec
<1>17. CASE Accept
  <2>1. SetState("accepted", Off) \/
        \E d, n : SetState("dispatched", [Turn("loop") EXCEPT !.dags = d, !.wave_rework = n])
    BY <1>17 DEF Accept
  <2>2. \A d, n : Rec([Turn("loop") EXCEPT !.dags = d, !.wave_rework = n])
    BY <1>0, TurnRec DEF Rec
  <2> QED
    BY <2>1, <2>2, OffRec, StateRec
<1>18. CASE Rework
  <2> DEFINE t == Turn("rework_set")
  <2>1. SetState("escalate", Off) \/
        \E d, n : m' = [t EXCEPT !.wave_rework = n, !.dags = d, !.rework = @ + 1]
    BY <1>18 DEF Rework
  <2>2. Rec(t)
    BY <1>0, TurnRec
  <2> HIDE DEF t
  <2>3. ASSUME NEW d, NEW n, m' = [t EXCEPT !.wave_rework = n, !.dags = d, !.rework = @ + 1] PROVE Rec(m')
    BY <2>2, <2>3 DEF Rec
  <2> QED
    BY <2>1, <2>3, OffRec, StateRec
<1>19. CASE Resume
  <2> DEFINE i == IF Pending # {} THEN Max(Pending) ELSE Len(env)
             dag == \E j \in DOMAIN env : env[j].kind # "master"
             a == IF i = 0 THEN 0 ELSE env[i].rework
             d == IF dag THEN [j \in DOMAIN env |-> [state |-> env[j].state, rework |-> env[j].rework]] ELSE NoDag
             p == Pending # {}
             b == i # 0 /\ Pending = {} /\ ~dag
  <2>1. m' = [Off EXCEPT !.pc = "loop", !.unit = i, !.rework = a, !.dags = d, !.pending = p, !.reuse = b]
    BY <1>19, Zenon DEF Resume
  <2> HIDE DEF i, a, d, p, b
  <2> QED
    BY <2>1, OffRec DEF Rec
<1>20. CASE Crash
  BY <1>20, OffRec DEF Crash
<1> QED
  BY <1>1, <1>2, <1>3, <1>4, <1>5, <1>6, <1>7, <1>8, <1>9, <1>10, <1>11, <1>12, <1>13, <1>14,
     <1>15, <1>16, <1>17, <1>18, <1>19, <1>20 DEF Next, Engine

RowOK == row \in [state : RunStates, turns : 0 .. MaxTurns]

LEMMA RowSet ==
    ASSUME RowOK, NEW to \in RunStates, NEW next, SetState(to, next)
    PROVE  RowOK'
  BY DEF RowOK, SetState

LEMMA RowFails == ASSUME RowOK, FailRun PROVE RowOK'
  BY RowSet DEF FailRun, RunStates, Terminal

LEMMA RowSpent ==
    ASSUME RowOK, row' = [row EXCEPT !.turns = Spent(@)]
    PROVE  RowOK'
  BY BoundsType DEF RowOK, Spent

LEMMA NextRow == ASSUME RowOK, Next PROVE RowOK'
<1> USE DEF RunStates, Terminal
<1>1. CASE BudgetCheck \/ Close
  BY <1>1, RowSet DEF BudgetCheck, Close
<1>2. CASE WaveRefused \/ AskFails \/ InnerFails \/ JudgeFails
  BY <1>2, RowFails DEF WaveRefused, AskFails, InnerFails, JudgeFails
<1>3. CASE TakePending \/ RunPeers \/ Merged \/ MergePeer \/ ReceiptEvent \/ OuterWorktree \/ Resume \/ Crash
  BY <1>3 DEF TakePending, RunPeers, Merged, MergePeer, ReceiptEvent, OuterWorktree, Resume, Crash, RowOK
<1>4. CASE StartWave \/ \E parts \in SUBSET Units : AskPeers(parts)
  BY <1>4 DEF StartWave, AskPeers, StartBatch, OnlyEnv, RowOK
<1>5. CASE NextSingle \/ ReuseUnit \/ AskSingle
  BY <1>5 DEF NextSingle, ReuseUnit, AskSingle, StartSingle, OnlyEnv, RowOK
<1>6. CASE CloseDag
  BY <1>6, RowSet, RowFails DEF CloseDag
<1>8. CASE SeedPeer \/ \E plan \in DagPlans : AskDag(plan)
  BY <1>8 DEF SeedPeer, AskDag, OnlyEnv, RowOK
<1>9. CASE BatchWorking \/ SingleWorking
  BY <1>9, RowSet, RowFails DEF BatchWorking, SingleWorking, Working
<1>12. CASE \E commit \in Work : PeerReceipt(commit)
  BY <1>12, RowSpent DEF PeerReceipt
<1>13. CASE \E done \in Work : SingleWork(done)
  BY <1>13, RowSpent DEF SingleWork
<1>14. CASE SetReceiptReady \/ BeginReview \/ SetRework \/ Redispatch
  BY <1>14, RowSet DEF SetReceiptReady, BeginReview, SetRework, Redispatch
<1>16. CASE \E green \in BOOLEAN, d \in Decisions : Judge(green, d)
  BY <1>16, RowSet DEF Judge, RowOK
<1>17. CASE Accept
  BY <1>17, RowSet DEF Accept
<1>18. CASE Rework
  BY <1>18, RowSet DEF Rework, RowOK
<1> QED
  BY <1>1, <1>2, <1>3, <1>4, <1>5, <1>6, <1>8, <1>9, <1>12, <1>13, <1>14,
     <1>16, <1>17, <1>18 DEF Next, Engine

\* The envelope only grows, and what a unit is does not change.
EnvGrows ==
    /\ env' \in Seq(Entry) /\ Len(env') \in Nat /\ Len(env) <= Len(env')
    /\ DOMAIN env' = 1 .. Len(env') /\ DOMAIN env \subseteq DOMAIN env'
    /\ \A i \in DOMAIN env : Kept(i)

UnitOK(i) ==
    /\ env[i].deps \cup env[i].covers \subseteq 1 .. i - 1
    /\ env[i].kind = "master" => ~env[i].globs /\ env[i].deps = {}
    /\ env[i].kind # "master" => env[i].covers = {} /\ \E u \in Units : env[i].part = {u}
    /\ env[i].kind = "peer" => env[i].deps = {}

UnitsOK == Envelope /\ \A i \in DOMAIN env : UnitOK(i)

LEMMA TypedUnits == ASSUME Typed PROVE UnitsOK
  BY DEF Typed, TypeOK, Shape, UnitsOK, UnitOK, Envelope

LEMMA KeptOK == ASSUME NEW i \in DOMAIN env, UnitOK(i), Kept(i) PROVE UnitOK(i)'
  BY DEF UnitOK, Kept

LEMMA SameGrows == ASSUME UnitsOK, env' = env PROVE EnvGrows /\ UnitsOK'
  BY EnvelopeIs DEF UnitsOK, UnitOK, EnvGrows, Kept, Envelope

LEMMA TouchedGrows ==
    ASSUME UnitsOK, NEW k, NEW state, NEW commit, Touched(k, state, commit)
    PROVE  EnvGrows /\ UnitsOK'
<1>1. /\ env' \in Seq(Entry) /\ Len(env') = Len(env) /\ DOMAIN env' = DOMAIN env
      /\ \A i \in DOMAIN env : Kept(i)
  BY DEF Touched
<1>2. EnvGrows
  BY <1>1, EnvelopeIs DEF UnitsOK, EnvGrows
<1>3. \A i \in DOMAIN env : UnitOK(i)'
  BY <1>1, KeptOK DEF UnitsOK
<1> QED
  BY <1>1, <1>2, <1>3 DEF UnitsOK, Envelope

LEMMA MarkedGrows ==
    ASSUME UnitsOK, NEW decision, Marked(decision)
    PROVE  EnvGrows /\ UnitsOK'
<1>1. /\ env' \in Seq(Entry) /\ Len(env') = Len(env) /\ DOMAIN env' = DOMAIN env
      /\ \A i \in DOMAIN env : Kept(i)
  BY DEF Marked
<1>2. EnvGrows
  BY <1>1, EnvelopeIs DEF UnitsOK, EnvGrows
<1>3. \A i \in DOMAIN env : UnitOK(i)'
  BY <1>1, KeptOK DEF UnitsOK
<1> QED
  BY <1>1, <1>2, <1>3 DEF UnitsOK, Envelope

LEMMA NewEntryGrows ==
    ASSUME UnitsOK, NEW kind, NEW part, NEW globs, NEW deps, NEW covers, NEW state,
           NewEntry(kind, part, globs, deps, covers, state),
           deps \cup covers \subseteq 1 .. Len(env),
           kind = "master" => ~globs /\ deps = {},
           kind # "master" => covers = {} /\ \E u \in Units : part = {u},
           kind = "peer" => deps = {}
    PROVE  EnvGrows /\ UnitsOK'
<1> DEFINE n == Len(env) + 1
<1>0. Len(env) \in Nat /\ DOMAIN env = 1 .. Len(env) /\ n - 1 = Len(env)
  BY EnvelopeIs DEF UnitsOK
<1>1. /\ env' \in Seq(Entry) /\ Len(env') = n /\ DOMAIN env' = DOMAIN env \cup {n}
      /\ \A i \in DOMAIN env : env'[i] = env[i]
      /\ env'[n].kind = kind /\ env'[n].part = part /\ env'[n].globs = globs /\ env'[n].deps = deps
      /\ env'[n].covers = covers
  BY DEF NewEntry
<1>2. \A i \in DOMAIN env : Kept(i)
  BY <1>1, EnvelopeIs DEF Kept, UnitsOK
<1>3. EnvGrows
  BY <1>0, <1>1, <1>2 DEF EnvGrows
<1>4. \A i \in DOMAIN env : UnitOK(i)'
  BY <1>2, KeptOK DEF UnitsOK
<1>5. ASSUME NEW i, i = n PROVE UnitOK(i)'
  BY <1>0, <1>1, <1>5 DEF UnitOK
<1>6. \A i \in DOMAIN env' : UnitOK(i)'
  BY <1>1, <1>4, <1>5
<1> QED
  BY <1>1, <1>3, <1>6 DEF UnitsOK, Envelope

LEMMA SeqElements == ASSUME NEW S, NEW s \in Seq(S) PROVE \A i \in DOMAIN s : s[i] \in S
  OBVIOUS

\* A seeded unit, field by field.
SeededIs(plan, u) ==
    LET e == env'[Len(env) + u]
    IN  /\ Len(env) + u \in DOMAIN env' /\ Len(env) + u \notin DOMAIN env /\ u \in Nat /\ e \in Entry
        /\ e.kind = "dag" /\ e.part = {u} /\ e.globs = (u \in Declares)
        /\ e.deps = {Len(env) + d : d \in plan[u]} /\ plan[u] \subseteq Units
        /\ e.deps \subseteq Len(env) + 1 .. Len(env) + u - 1
        /\ e.covers = {} /\ e.state = "queued" /\ e.commit = NoCommit

LEMMA SeededAre ==
    ASSUME Envelope, NEW plan \in DagPlans, Seeded(plan)
    PROVE  /\ \A u \in Units : SeededIs(plan, u)
           /\ \A i \in DOMAIN env' \ DOMAIN env : \E u \in Units : i = Len(env) + u
<1> DEFINE n == Cardinality(Units)
<1>1. /\ n \in Nat /\ Units = 1 .. n /\ env' \in Seq(Entry)
      /\ DOMAIN env' = DOMAIN env \cup (Len(env) + 1 .. Len(env) + n)
  BY DEF Seeded
<1>2. Len(env) \in Nat /\ DOMAIN env = 1 .. Len(env)
  BY EnvelopeIs
<1>3. ASSUME NEW u \in Units PROVE SeededIs(plan, u)
  <2> DEFINE g == u \in Declares
             after == {Len(env) + d : d \in plan[u]}
  <2>1. env'[Len(env) + u] = NewUnit("dag", {u}, g, after, {}, "queued")
    BY DEF Seeded
  <2>2. plan[u] \subseteq Units /\ \A d \in plan[u] : d < u /\ d \in Nat /\ d >= 1
    BY <1>1, PlanType
  <2>3. after \subseteq Len(env) + 1 .. Len(env) + u - 1
    BY <1>1, <1>2, <2>2
  <2>4. Len(env) + u \in DOMAIN env' /\ Len(env) + u \notin DOMAIN env /\ u \in Nat
    BY <1>1, <1>2
  <2>5. env'[Len(env) + u] \in Entry
    BY <1>1, <2>4, SeqElements
  <2> HIDE DEF g, after
  <2>6. LET e == env'[Len(env) + u]
        IN  /\ e.kind = "dag" /\ e.part = {u} /\ e.globs = g /\ e.deps = after /\ e.covers = {}
            /\ e.state = "queued" /\ e.commit = NoCommit
    BY <2>1 DEF NewUnit
  <2> QED
    BY <2>2, <2>3, <2>4, <2>5, <2>6 DEF SeededIs, g, after
<1>4. ASSUME NEW i \in DOMAIN env' \ DOMAIN env PROVE \E u \in Units : i = Len(env) + u
  <2>1. i \in Len(env) + 1 .. Len(env) + n
    BY <1>1
  <2>2. i - Len(env) \in Units /\ i = Len(env) + (i - Len(env))
    BY <1>1, <1>2, <2>1
  <2> QED
    BY <2>2
<1> QED
  BY <1>3, <1>4

LEMMA SeededGrows ==
    ASSUME UnitsOK, NEW plan \in DagPlans, Seeded(plan)
    PROVE  EnvGrows /\ UnitsOK'
<1>0. Len(env) \in Nat /\ DOMAIN env = 1 .. Len(env) /\ Envelope
  BY EnvelopeIs DEF UnitsOK
<1>1. /\ env' \in Seq(Entry) /\ Len(env') = Len(env) + Cardinality(Units) /\ Cardinality(Units) \in Nat
      /\ DOMAIN env' = DOMAIN env \cup (Len(env) + 1 .. Len(env) + Cardinality(Units))
      /\ \A i \in DOMAIN env : env'[i] = env[i] /\ env'[i] \in Entry
  BY DEF Seeded
<1>2. \A i \in DOMAIN env : Kept(i)
  BY <1>1 DEF Kept
<1>3. EnvGrows
  BY <1>0, <1>1, <1>2 DEF EnvGrows
<1>4. \A i \in DOMAIN env : UnitOK(i)'
  BY <1>2, KeptOK DEF UnitsOK
<1>5. ASSUME NEW i \in DOMAIN env' \ DOMAIN env PROVE UnitOK(i)'
  <2>1. PICK u \in Units : i = Len(env) + u
    BY <1>0, <1>5, SeededAre
  <2>2. SeededIs(plan, u)
    BY <1>0, SeededAre
  <2>3. env'[i].deps \subseteq 1 .. i - 1
    BY <1>0, <2>1, <2>2 DEF SeededIs
  <2> QED
    BY <2>1, <2>2, <2>3 DEF SeededIs, UnitOK
<1> QED
  BY <1>1, <1>3, <1>4, <1>5 DEF UnitsOK, Envelope

LEMMA AllGrows == ASSUME Typed, Does PROVE EnvGrows /\ UnitsOK'
<1>0. UnitsOK /\ TypeOK
  BY TypedUnits DEF Typed
<1>1. ASSUME env' = env PROVE EnvGrows /\ UnitsOK'
  BY <1>0, <1>1, SameGrows
<1>2. CASE Gone \/ MoveStep \/ PendingTaken \/ PeersRun \/ AllMerged \/ PeerMerged
           \/ (\E done \in Work : SingleWorked(done)) \/ ReviewOpens \/ Resumed \/ DagClosed
  BY <1>1, <1>2 DEF Gone, MoveStep, Move, PendingTaken, PeersRun, AllMerged, PeerMerged, SingleWorked,
     ReviewOpens, Resumed, DagClosed, DiskKept
<1>3. CASE RunAccepted \/ UnitAccepted \/ ReworkEnds \/ ReworkBegins
  BY <1>1, <1>3 DEF RunAccepted, UnitAccepted, ReworkEnds, ReworkBegins, TurnOver
<1>4. CASE WaveBegins
  <2> DEFINE parts == UNION {env[i].part : i \in NextWave}
             w == NextWave
  <2>1. NextWave \subseteq 1 .. Len(env)
    BY <1>0, ReadyAre
  <2>2. NewEntry("master", parts, FALSE, {}, w, "implementing")
    BY <1>4 DEF WaveBegins, BatchBegins
  <2> HIDE DEF parts, w
  <2> QED
    BY <1>0, <2>1, <2>2, NewEntryGrows DEF w
<1>5. CASE \E parts \in SUBSET Units : BatchAsked(parts)
  <2>1. PICK parts \in SUBSET Units : NewEntry("master", parts, FALSE, {}, {}, "implementing")
    BY <1>5 DEF BatchAsked, BatchBegins
  <2> QED
    BY <1>0, <2>1, NewEntryGrows
<1>6. CASE DagUnitBegins \/ UnitReused \/ UnitAsked
  <2>1. \E i, state, commit : Touched(i, state, commit)
    BY <1>6 DEF DagUnitBegins, UnitReused, UnitAsked, SingleBegins
  <2> QED
    BY <1>0, <2>1, TouchedGrows
<1>7. CASE \E plan \in DagPlans : DagAsked(plan)
  BY <1>0, <1>7, SeededGrows DEF DagAsked
<1>8. CASE \E u \in Units : PeerSeeded(u)
  <2>1. PICK u \in Units : NewEntry("peer", {u}, TRUE, {}, {}, "queued")
    BY <1>8 DEF PeerSeeded
  <2> DEFINE part == {u}
  <2>2. NewEntry("peer", part, TRUE, {}, {}, "queued") /\ \E v \in Units : part = {v}
    BY <2>1
  <2> HIDE DEF part
  <2> QED
    BY <1>0, <2>2, NewEntryGrows
<1>9. CASE ReceiptMade \/ \E commit \in Work : PeerHandsIn(commit)
  <2>1. \E i, state, commit : Touched(i, state, commit)
    BY <1>9 DEF ReceiptMade, PeerHandsIn
  <2> QED
    BY <1>0, <2>1, TouchedGrows
<1>10. CASE \E decision \in Decisions : VerdictGiven(decision)
  BY <1>0, <1>10, MarkedGrows DEF VerdictGiven
<1> QED
  BY <1>2, <1>3, <1>4, <1>5, <1>6, <1>7, <1>8, <1>9, <1>10 DEF Does

EngineOK ==
    /\ m.pc \in PC /\ m.rework \in Nat /\ m.dags \in [DOMAIN m.dags -> Progress]
    /\ m.pending \in BOOLEAN /\ m.reuse \in BOOLEAN
    /\ m.outer \in Nat /\ m.decision \in Decisions \cup {"none"}
    /\ m.pre \in Work /\ m.wave_rework \in 0 .. MaxRework /\ m.wave_key \in SUBSET Nat
    /\ m.drafts \in Work /\ m.next \in Nat
    /\ m.unit \in 0 .. Len(env) /\ DOMAIN m.dags \subseteq DOMAIN env /\ m.wave \subseteq DOMAIN m.dags

DiskOK ==
    /\ tree \in Work /\ outers \in Nat /\ result \in Work \cup {NoCommit}
    /\ crashes \in 0 .. MaxCrash /\ credited \in Work /\ latest \in 0 .. Len(env)

PartsOK == EngineOK /\ DiskOK /\ Placed /\ Standing

LEMMA TypedParts ==
    ASSUME Typed
    PROVE  /\ EngineOK /\ DiskOK /\ Placed /\ Standing /\ RowOK /\ TypeOK
           /\ Len(env) \in Nat /\ DOMAIN env = 1 .. Len(env)
           /\ \A i \in DOMAIN env : env[i] \in Entry
  BY TypeParts, EnvelopeIs DEF Typed, TypeOK, IsEngine, EngineOK, DiskOK, RowOK

LEMMA PartsTyped == Rec(m) /\ UnitsOK /\ RowOK /\ PartsOK => Typed
<1> SUFFICES ASSUME Rec(m), UnitsOK, RowOK, PartsOK PROVE Typed
  OBVIOUS
<1>1. m.unit \in Nat /\ m.wave \in SUBSET Nat
  BY EnvelopeIs DEF PartsOK, EngineOK, UnitsOK
<1>2. IsEngine(m)
  BY <1>1, EngineIs DEF PartsOK, EngineOK
<1> QED
  BY <1>2 DEF Typed, TypeOK, Shape, UnitsOK, UnitOK, Envelope, RowOK, PartsOK, EngineOK, DiskOK

\* A unit of before is one of now.
LEMMA UnitStays ==
    ASSUME EnvGrows
    PROVE  /\ \A n \in 0 .. Len(env) : n \in 0 .. Len(env')
           /\ \A i \in DOMAIN env : i \in DOMAIN env' /\ env'[i].kind = env[i].kind /\ env'[i] \in Entry
  BY DEF EnvGrows, Kept

LEMMA GoneParts == ASSUME Typed, Gone PROVE PartsOK'
<1> USE TypedParts
<1>1. m' = Off /\ TurnsKept /\ DiskKept /\ result' = result /\ crashes' \in 0 .. MaxCrash
  BY BoundsType DEF Gone, DiskOK
<1>2. EngineOK'
  BY <1>1, MaxReworkType DEF EngineOK, Off, NoDag, PC, Work
<1>3. DiskOK'
  BY <1>1 DEF DiskOK, DiskKept
<1>4. Placed' /\ Standing'
  BY <1>1 DEF Placed, Standing, Off, Turns, Batch, Done, Inner
<1> QED
  BY <1>2, <1>3, <1>4 DEF PartsOK

LEMMA MoveParts == ASSUME Typed, MoveStep PROVE PartsOK'
<1> USE TypedParts
<1>1. PICK from, to, state : Move(from, to, state) /\ MoveStep
  BY DEF MoveStep
<1>2. EngineOK'
  BY DEF EngineOK, MoveStep, Move, HandKept, PlanKept, WaveKept, FlagsKept, PeersKept, TrialKept, DiskKept, PC
<1>3. DiskOK'
  BY DEF MoveStep, Move, DiskOK, DiskKept
<1>4. Placed'
  BY DEF Placed, Standing, MoveStep, Move, HandKept, FlagsKept, PeersKept, DiskKept, Turns, Batch, Done
<1>5. Standing'
  BY DEF Placed, Standing, MoveStep, Move, WaveKept, FlagsKept, TrialKept, Turns, Inner, Terminal
<1> QED
  BY <1>2, <1>3, <1>4, <1>5 DEF PartsOK

LEMMA PendingParts == ASSUME Typed, PendingTaken PROVE PartsOK'
<1> USE TypedParts DEF PendingTaken, HandKept, PlanKept, WaveKept, PeersKept, TrialKept, DiskKept, RestKept
<1>2. EngineOK'
  BY DEF EngineOK, PC
<1>3. DiskOK'
  BY DEF DiskOK
<1>4. Placed'
  BY DEF Placed, Turns, Batch, Done
<1>5. Standing'
  BY DEF Standing, Turns, Inner, Terminal
<1> QED
  BY <1>2, <1>3, <1>4, <1>5 DEF PartsOK

LEMMA PeersRunParts == ASSUME Typed, PeersRun PROVE PartsOK'
<1> USE TypedParts DEF PeersRun, HandKept, PlanKept, WaveKept, FlagsKept, TrialKept, DiskKept, RestKept
<1>2. EngineOK'
  BY DEF EngineOK, PC
<1>3. DiskOK'
  BY DEF DiskOK
<1>4. Placed'
  BY DEF Placed, Turns, Batch, Done, EngineOK
<1>5. Standing'
  BY DEF Standing, Turns, Inner, Terminal
<1> QED
  BY <1>2, <1>3, <1>4, <1>5 DEF PartsOK

LEMMA AllMergedParts == ASSUME Typed, AllMerged PROVE PartsOK'
<1> USE TypedParts DEF AllMerged, HandKept, PlanKept, WaveKept, FlagsKept, TrialKept, DiskKept, RestKept
<1>2. EngineOK'
  BY DEF EngineOK, PC
<1>3. DiskOK'
  BY DEF DiskOK
<1>4. Placed'
  BY DEF Placed, Turns, Batch, Done
<1>5. Standing'
  BY DEF Standing, Turns, Inner, Terminal
<1> QED
  BY <1>2, <1>3, <1>4, <1>5 DEF PartsOK

LEMMA PeerMergedParts == ASSUME Typed, PeerMerged PROVE PartsOK'
<1> USE TypedParts DEF PeerMerged, HandKept, PlanKept, WaveKept, FlagsKept, TrialKept, RestKept
<1>1. m.next \in m.unit + 1 .. Len(env) /\ m.unit \in Nat /\ m.next \in Nat
  BY DEF EngineOK, Placed
<1>6. env[m.next].commit \in Work
  <2>1. env[m.next].part \in Work
    BY TypeParts
  <2>2. env[m.next].commit \in {{}, env[m.next].part}
    BY <1>1 DEF Placed
  <2> QED
    BY <2>1, <2>2 DEF Work
<1>2. EngineOK'
  BY <1>1 DEF EngineOK, PC
<1>3. DiskOK'
  BY <1>6 DEF DiskOK, Work
<1>7. /\ m.unit \in DOMAIN env /\ env[m.unit].kind = "master" /\ ~m.pending
      /\ \A k \in m.unit + 1 .. Len(env) : env[k].commit \in {{}, env[k].part}
  BY DEF Placed, Turns, Batch
<1>8. m.next + 1 \in m.unit + 1 .. Len(env) + 1
  BY <1>1
<1>4. Placed'
  BY <1>7, <1>8 DEF Placed, Turns, Batch, Done
<1>5. Standing'
  BY DEF Standing, Turns, Inner, Terminal
<1> QED
  BY <1>2, <1>3, <1>4, <1>5 DEF PartsOK

LEMMA SingleWorkedParts == ASSUME Typed, NEW done \in Work, SingleWorked(done) PROVE PartsOK'
<1> USE TypedParts DEF SingleWorked, HandKept, PlanKept, WaveKept, PeersKept, FlagsKept, TrialKept, RestKept
<1>2. EngineOK'
  BY DEF EngineOK, PC
<1>3. DiskOK'
  BY DEF DiskOK, Work
<1>4. Placed'
  BY DEF Placed, Turns, Batch, Done
<1>5. Standing'
  BY DEF Standing, Turns, Inner, Terminal
<1> QED
  BY <1>2, <1>3, <1>4, <1>5 DEF PartsOK

LEMMA BatchParts ==
    ASSUME Typed, EnvGrows, NEW parts \in Work, parts # {}, NEW covers, BatchBegins(parts, covers),
           m'.wave_key \in SUBSET Nat, m'.pre \in Work, m'.wave_rework \in 0 .. MaxRework,
           m'.wave \subseteq DOMAIN m.dags
    PROVE  PartsOK'
<1> DEFINE n == Len(env) + 1
<1> USE TypedParts
<1>1. /\ m.pc = "loop" /\ ~m.pending /\ m'.pc = "batch" /\ m'.unit = n /\ m'.rework = 0
      /\ m'.drafts = parts /\ m'.next = m.next /\ m'.dags = m.dags
      /\ FlagsKept /\ TrialKept /\ RestKept
      /\ Len(env') = n /\ DOMAIN env' = DOMAIN env \cup {n} /\ env'[n].kind = "master"
      /\ UNCHANGED <<row, tree, outers, credited, latest>>
  BY DEF BatchBegins, NewEntry
<1>2. EngineOK'
  BY <1>1 DEF EngineOK, FlagsKept, TrialKept, PC
<1>3. DiskOK'
  BY <1>1 DEF DiskOK, RestKept
<1>4. Placed'
  BY <1>1 DEF Placed, Turns, Batch, Done, FlagsKept
<1>5. Standing'
  BY <1>1 DEF Standing, Turns, Inner, Terminal, FlagsKept, TrialKept
<1> QED
  BY <1>2, <1>3, <1>4, <1>5 DEF PartsOK

LEMMA WaveParts == ASSUME Typed, EnvGrows, WaveBegins PROVE PartsOK'
<1> DEFINE parts == UNION {env[i].part : i \in NextWave}
           w == NextWave
<1> USE TypedParts
<1>1. w \subseteq DOMAIN m.dags /\ w \subseteq DOMAIN env /\ w \subseteq Nat /\ Two(w)
  BY ReadyAre DEF EngineOK, WaveBegins
<1>2. parts \in Work
  BY <1>1, TypeParts DEF Work
<1>3. parts # {}
  <2>1. PICK i \in w : TRUE
    BY <1>1 DEF Two
  <2>2. i \in DOMAIN m.dags
    BY <1>1
  <2>3. env[i].part # {}
    <3>1. env[i].globs
      BY <2>1, ReadyAre DEF Greedy
    <3>2. env[i].kind # "master"
      BY <1>1, <3>1 DEF Typed, Shape
    <3> QED
      BY <1>1, <3>2 DEF Typed, Shape
  <2> QED
    BY <2>1, <2>3
<1>4. BatchBegins(parts, w) /\ m'.wave = w /\ m'.wave_key = w /\ m'.pre = tree /\ m'.wave_rework = WaveRework(w)
  BY DEF WaveBegins
<1>5. WaveRework(w) \in 0 .. MaxRework /\ tree \in Work
  BY MaxReworkType DEF WaveRework, EngineOK, DiskOK
<1> HIDE DEF parts, w
<1> QED
  BY <1>1, <1>2, <1>3, <1>4, <1>5, BatchParts

LEMMA AskedParts == ASSUME Typed, EnvGrows, NEW parts \in SUBSET Units, BatchAsked(parts) PROVE PartsOK'
<1>1. /\ parts \in Work /\ parts # {} /\ BatchBegins(parts, {})
      /\ m'.wave_key = m.wave_key /\ m'.pre = m.pre /\ m'.wave_rework = m.wave_rework
      /\ m'.wave = m.wave
  BY DEF BatchAsked, Two, PlanKept, WaveKept, Work
<1> QED
  BY <1>1, TypedParts, BatchParts DEF EngineOK

LEMMA SingleParts == ASSUME Typed, EnvGrows, NEW i, NEW times, ~m.pending, SingleBegins(i, times) PROVE PartsOK'
<1> USE TypedParts
<1>1. /\ m.pc = "loop" /\ m'.pc = "single" /\ m'.unit = i /\ m'.rework = times
      /\ ~m'.pending /\ ~m'.reuse
      /\ PlanKept /\ WaveKept /\ PeersKept /\ TrialKept
      /\ i \in DOMAIN env /\ times \in Nat /\ Len(env') = Len(env) /\ DOMAIN env' = DOMAIN env
      /\ UNCHANGED <<row, tree, outers, credited, latest>> /\ RestKept
      /\ m'.pending \in BOOLEAN /\ m'.reuse \in BOOLEAN
  BY DEF SingleBegins, EngineOK, Touched
<1>2. EngineOK'
  BY <1>1 DEF EngineOK, PlanKept, WaveKept, PeersKept, TrialKept, PC
<1>3. DiskOK'
  BY <1>1 DEF DiskOK, RestKept
<1>4. Placed'
  BY <1>1 DEF Placed, Turns, Batch, Done
<1>5. Standing'
  BY <1>1 DEF Standing, Turns, Inner, Terminal, WaveKept, TrialKept
<1> QED
  BY <1>2, <1>3, <1>4, <1>5 DEF PartsOK

LEMMA SeededParts == ASSUME Typed, EnvGrows, NEW u \in Units, PeerSeeded(u) PROVE PartsOK'
<1> DEFINE n == Len(env) + 1
<1> USE TypedParts
<1>1. /\ m.pc = "seed" /\ m'.pc = (IF m.drafts = {u} THEN "adapters" ELSE "seed")
      /\ u \in m.drafts /\ m'.drafts = m.drafts \ {u} /\ m'.next = m.next
      /\ HandKept /\ PlanKept /\ WaveKept /\ FlagsKept /\ TrialKept /\ RestKept
      /\ Len(env') = n /\ DOMAIN env' = DOMAIN env \cup {n}
      /\ \A i \in DOMAIN env : env'[i] = env[i]
      /\ UNCHANGED <<row, tree, outers, credited, latest>>
  BY DEF PeerSeeded, NewEntry
<1>2. EngineOK'
  BY <1>1 DEF EngineOK, HandKept, PlanKept, WaveKept, FlagsKept, TrialKept, PC, Work
<1>3. DiskOK'
  BY <1>1 DEF DiskOK, RestKept
<1>6. m'.pc = "seed" => m'.drafts # {}
  BY <1>1
<1>7. m.unit \in DOMAIN env /\ env[m.unit].kind = "master" /\ ~m.pending
  BY <1>1 DEF Placed, Turns, Batch
<1>8. m'.unit \in DOMAIN env' /\ env'[m'.unit].kind = "master" /\ m'.unit < Len(env') /\ ~m'.pending
  BY <1>1, <1>7 DEF HandKept, FlagsKept
<1>4. Placed'
  BY <1>1, <1>6, <1>8 DEF Placed, Turns, Batch, Done
<1>5. Standing'
  BY <1>1 DEF Standing, Turns, Inner, Terminal, FlagsKept, WaveKept, TrialKept
<1> QED
  BY <1>2, <1>3, <1>4, <1>5 DEF PartsOK

LEMMA HandsInParts == ASSUME Typed, EnvGrows, NEW commit \in Work, PeerHandsIn(commit) PROVE PartsOK'
<1> USE TypedParts
<1>1. /\ m.pc = "receipts" /\ commit \in {{}, env[m.next].part}
      /\ m'.pc = (IF m.next = Len(env) THEN "merge" ELSE "receipts")
      /\ m'.next = (IF m.next = Len(env) THEN m.unit + 1 ELSE m.next + 1)
      /\ m'.drafts = m.drafts /\ latest' = m.next
      /\ row'.state = row.state /\ m.next \in DOMAIN env
      /\ HandKept /\ PlanKept /\ WaveKept /\ FlagsKept /\ TrialKept /\ RestKept
      /\ UNCHANGED <<tree, outers, credited>>
  BY DEF PeerHandsIn
<1>2. /\ Len(env') = Len(env) /\ DOMAIN env' = DOMAIN env
      /\ \A i \in DOMAIN env : env'[i].kind = env[i].kind /\ env'[i].part = env[i].part
      /\ \A i \in DOMAIN env \ {m.next} : env'[i].commit = env[i].commit
      /\ env'[m.next].commit = commit
  BY <1>1 DEF PeerHandsIn, Touched, Kept, CommitKept
<1>3. m.next \in m.unit + 1 .. Len(env) /\ m.unit \in Nat /\ m.next \in Nat /\ m.unit \in DOMAIN env
  BY <1>1 DEF EngineOK, Placed, Turns
<1>4. EngineOK'
  BY <1>1, <1>2, <1>3 DEF EngineOK, HandKept, PlanKept, WaveKept, FlagsKept, TrialKept, PC
<1>5. DiskOK'
  BY <1>1, <1>2 DEF DiskOK, RestKept
<1>7. \A k \in m.unit + 1 .. Len(env) : k < m.next => env[k].commit \in {{}, env[k].part}
  BY <1>1 DEF Placed
<1>8. ASSUME NEW k \in m'.unit + 1 .. Len(env'), m'.pc = "merge" \/ k < m'.next
      PROVE  env'[k].commit \in {{}, env'[k].part}
  <2>1. k \in m.unit + 1 .. Len(env) /\ k \in DOMAIN env
    BY <1>1, <1>2, <1>3, <1>8 DEF HandKept
  <2>2. CASE k = m.next
    BY <1>1, <1>2, <2>1, <2>2
  <2>3. CASE k # m.next
    <3>1. k < m.next
      BY <1>1, <1>3, <1>8, <2>1, <2>3
    <3> QED
      BY <1>2, <1>7, <2>1, <2>3, <3>1
  <2> QED
    BY <2>2, <2>3
<1>9. /\ m'.unit \in DOMAIN env' /\ env'[m'.unit].kind = "master" /\ ~m'.pending
      /\ m'.next \in m'.unit + 1 .. Len(env')
  BY <1>1, <1>2, <1>3 DEF Placed, Batch, HandKept, FlagsKept
<1>6. Placed'
  BY <1>1, <1>2, <1>3, <1>8, <1>9 DEF Placed, Turns, Batch, Done
<1>10. Standing'
  BY <1>1 DEF Standing, Turns, Inner, Terminal, FlagsKept, WaveKept, TrialKept
<1> QED
  BY <1>4, <1>5, <1>6, <1>10 DEF PartsOK

LEMMA ReceiptParts == ASSUME Typed, EnvGrows, ReceiptMade PROVE PartsOK'
<1> USE TypedParts
<1>1. /\ m.pc = "receipt" /\ m'.pc = "receipt_set" /\ latest' = m.unit
      /\ m.unit \in DOMAIN env /\ Len(env') = Len(env) /\ DOMAIN env' = DOMAIN env
      /\ env'[m.unit].commit = tree
      /\ HandKept /\ PlanKept /\ WaveKept /\ PeersKept /\ FlagsKept /\ TrialKept /\ RestKept
      /\ UNCHANGED <<row, tree, outers, credited>>
  BY DEF ReceiptMade, Touched
<1>2. EngineOK'
  BY <1>1 DEF EngineOK, HandKept, PlanKept, WaveKept, PeersKept, FlagsKept, TrialKept, PC
<1>3. DiskOK'
  BY <1>1 DEF DiskOK, RestKept
<1>6. tree # NoCommit
  BY NoCommitIsNone DEF DiskOK, Work
<1>4. Placed'
  BY <1>1, <1>6 DEF Placed, Turns, Batch, Done, HandKept, FlagsKept
<1>5. Standing'
  BY <1>1 DEF Standing, Turns, Inner, Terminal, FlagsKept, WaveKept, TrialKept
<1> QED
  BY <1>2, <1>3, <1>4, <1>5 DEF PartsOK

LEMMA OpensParts == ASSUME Typed, EnvGrows, ReviewOpens PROVE PartsOK'
<1> USE TypedParts DEF ReviewOpens, HandKept, PlanKept, WaveKept, PeersKept, FlagsKept, RestKept
<1>2. EngineOK'
  BY DEF EngineOK, PC
<1>3. DiskOK'
  BY DEF DiskOK, EngineOK
<1>4. Placed'
  BY DEF Placed, Turns, Batch, Done
<1>5. Standing'
  BY DEF Standing, Turns, Inner, Terminal
<1> QED
  BY <1>2, <1>3, <1>4, <1>5 DEF PartsOK

LEMMA VerdictParts == ASSUME Typed, EnvGrows, NEW decision \in Decisions, VerdictGiven(decision) PROVE PartsOK'
<1> USE TypedParts
<1>1. /\ m.pc = "judge" /\ m'.pc = "apply" /\ m'.decision = decision /\ m'.outer = m.outer
      /\ m.unit \in DOMAIN env
      /\ Len(env') = Len(env) /\ DOMAIN env' = DOMAIN env
      /\ \A i \in DOMAIN env : env'[i].commit = env[i].commit
      /\ credited' = (IF decision = "accept" THEN credited \cup Receipt ELSE credited)
      /\ HandKept /\ PlanKept /\ WaveKept /\ PeersKept /\ FlagsKept /\ RestKept
      /\ UNCHANGED <<row, tree, outers, latest>>
  BY DEF VerdictGiven, Marked, CommitKept
<1>2. EngineOK'
  BY <1>1 DEF EngineOK, HandKept, PlanKept, WaveKept, PeersKept, FlagsKept, PC
<1>6. Receipt \in Work /\ Receipt # NoCommit
  BY <1>1 DEF Receipt, Placed, Done, Entry
<1>3. DiskOK'
  BY <1>1, <1>6 DEF DiskOK, RestKept, Work
<1>4. Placed'
  BY <1>1, <1>6 DEF Placed, Turns, Batch, Done, HandKept, FlagsKept, Receipt
<1>5. Standing'
  BY <1>1 DEF Standing, Turns, Inner, Terminal, FlagsKept, WaveKept
<1> QED
  BY <1>2, <1>3, <1>4, <1>5 DEF PartsOK

LEMMA RunAcceptedParts == ASSUME Typed, RunAccepted PROVE PartsOK'
<1> USE TypedParts
<1>1. /\ m.pc = "apply" /\ m' = Off /\ row'.state = "accepted" /\ result' = Receipt
      /\ UNCHANGED <<env, tree, outers, crashes, credited, latest>>
  BY DEF RunAccepted
<1>6. Receipt \in Work
  BY <1>1 DEF Receipt, Placed, Turns, Done, Entry
<1>2. EngineOK'
  BY <1>1, MaxReworkType DEF EngineOK, Off, NoDag, PC, Work
<1>3. DiskOK'
  BY <1>1, <1>6 DEF DiskOK
<1>4. Placed' /\ Standing'
  BY <1>1 DEF Placed, Standing, Off, Turns, Batch, Done, Inner
<1> QED
  BY <1>2, <1>3, <1>4 DEF PartsOK

LEMMA OverParts ==
    ASSUME Typed, NEW pc, TurnOver(pc), pc \in {"loop", "rework_set"},
           m'.dags \in [DOMAIN m.dags -> Progress], m'.rework \in Nat,
           m'.wave_rework \in 0 .. MaxRework, tree' \in Work, RestKept,
           row'.state = (IF pc = "loop" THEN "dispatched" ELSE "outer_reviewing")
    PROVE  PartsOK'
<1> USE TypedParts DEF TurnOver, PeersKept, FlagsKept, RestKept
<1>1. DOMAIN m'.dags = DOMAIN m.dags /\ ~m.pending /\ {} \in Work
  BY DEF Placed, Work
<1>2. EngineOK'
  BY <1>1 DEF EngineOK, PC
<1>3. DiskOK'
  BY DEF DiskOK
<1>4. Placed'
  BY <1>1 DEF Placed, Turns, Batch, Done
<1>5. Standing'
  BY <1>1 DEF Standing, Turns, Inner, Terminal
<1> QED
  BY <1>2, <1>3, <1>4, <1>5 DEF PartsOK

LEMMA DagsTyped ==
    ASSUME Typed
    PROVE  /\ DagsAccepted \in [DOMAIN m.dags -> Progress]
           /\ DagsReworked \in [DOMAIN m.dags -> Progress]
<1>1. \A i \in DOMAIN m.dags : m.dags[i] \in Progress
  BY TypedParts DEF EngineOK
<1>2. \A p \in Progress : [p EXCEPT !.state = "accepted"] \in Progress
  BY DEF Progress
<1>3. \A p \in Progress : [p EXCEPT !.rework = @ + 1] \in Progress
  BY DEF Progress
<1> QED
  BY <1>1, <1>2, <1>3 DEF DagsAccepted, DagsReworked

LEMMA UnitAcceptedParts == ASSUME Typed, UnitAccepted PROVE PartsOK'
<1>1. /\ TurnOver("loop") /\ row'.state = "dispatched" /\ m'.dags = DagsAccepted /\ m'.rework = m.rework
      /\ m'.wave_rework = (IF m.wave = {} THEN m.wave_rework ELSE 0)
      /\ tree' = tree /\ RestKept
  BY DEF UnitAccepted
<1>2. m'.wave_rework \in 0 .. MaxRework /\ tree' \in Work /\ m'.rework \in Nat
  BY <1>1, TypedParts, MaxReworkType DEF EngineOK, DiskOK
<1> QED
  BY <1>1, <1>2, DagsTyped, OverParts

LEMMA RolledTyped == ASSUME Typed PROVE RolledBack \in Work
  BY TypedParts DEF RolledBack, EngineOK, DiskOK

LEMMA ReworkBeginsParts == ASSUME Typed, ReworkBegins PROVE PartsOK'
<1>1. /\ TurnOver("rework_set") /\ row'.state = "outer_reviewing" /\ m'.dags = DagsReworked
      /\ m'.rework = m.rework + 1 /\ m'.wave_rework = Counted /\ Counted <= MaxRework
      /\ tree' = RolledBack /\ RestKept
  BY DEF ReworkBegins
<1>2. m'.wave_rework \in 0 .. MaxRework /\ tree' \in Work /\ m'.rework \in Nat
  BY <1>1, TypedParts, RolledTyped, MaxReworkType DEF EngineOK, Counted
<1> QED
  BY <1>1, <1>2, DagsTyped, OverParts

LEMMA ReworkEndsParts == ASSUME Typed, ReworkEnds PROVE PartsOK'
<1> USE TypedParts
<1>1. /\ m' = Off /\ row'.state = "escalate" /\ tree' \in Work
      /\ UNCHANGED <<env, outers, credited, latest>> /\ RestKept
  BY RolledTyped DEF ReworkEnds
<1>2. EngineOK'
  BY <1>1, MaxReworkType DEF EngineOK, Off, NoDag, PC, Work
<1>3. DiskOK'
  BY <1>1 DEF DiskOK, RestKept
<1>4. Placed' /\ Standing'
  BY <1>1 DEF Placed, Standing, Off, Turns, Batch, Done, Inner
<1> QED
  BY <1>2, <1>3, <1>4 DEF PartsOK

LEMMA ClosedParts == ASSUME Typed, DagClosed PROVE PartsOK'
<1> USE TypedParts
<1>1. /\ m' = Off /\ row'.state = "accepted" /\ DiskKept /\ RestKept
  BY DEF DagClosed
<1>2. EngineOK'
  BY <1>1, MaxReworkType DEF EngineOK, Off, NoDag, PC, Work, DiskKept
<1>3. DiskOK'
  BY <1>1 DEF DiskOK, RestKept, DiskKept
<1>4. Placed' /\ Standing'
  BY <1>1 DEF Placed, Standing, Off, Turns, Batch, Done, Inner
<1> QED
  BY <1>2, <1>3, <1>4 DEF PartsOK

LEMMA DagAskedParts == ASSUME Typed, EnvGrows, NEW plan \in DagPlans, DagAsked(plan) PROVE PartsOK'
<1> DEFINE n == Cardinality(Units)
           fresh == Len(env) + 1 .. Len(env) + n
           p == [state |-> "queued", rework |-> 0]
<1> USE TypedParts
<1>1. /\ m.pc = "loop" /\ m'.pc = "loop" /\ ~m.pending /\ ~m.reuse /\ m.dags = NoDag
      /\ m'.wave_key = m.wave_key
      /\ HandKept /\ WaveKept /\ PeersKept /\ FlagsKept /\ TrialKept /\ RestKept
      /\ UNCHANGED <<row, tree, outers, credited, latest>>
  BY DEF DagAsked
<1>2. m'.dags = [i \in fresh |-> p] /\ fresh \subseteq DOMAIN env' /\ p \in Progress
  BY DEF DagAsked, Seeded, Progress
<1>3. Len(env') \in Nat /\ Len(env) <= Len(env')
  BY DEF EnvGrows
<1>4. m.wave = {}
  BY <1>1 DEF Standing, Turns
<1> HIDE DEF fresh, p
<1>5. m'.dags \in [DOMAIN m'.dags -> Progress] /\ DOMAIN m'.dags \subseteq DOMAIN env'
  BY <1>2
<1>6. EngineOK'
  BY <1>1, <1>3, <1>4, <1>5 DEF EngineOK, HandKept, WaveKept, PeersKept, FlagsKept, TrialKept, PC
<1>7. DiskOK'
  BY <1>1, <1>3 DEF DiskOK, RestKept
<1>8. Placed'
  BY <1>1 DEF Placed, Turns, Batch, Done, FlagsKept
<1>9. Standing'
  BY <1>1 DEF Standing, Turns, Inner, Terminal, FlagsKept, WaveKept, TrialKept
<1> QED
  BY <1>6, <1>7, <1>8, <1>9 DEF PartsOK

\* A resume goes on with a unit that has a receipt, or with the last.
LEMMA PendingIs ==
    ASSUME Envelope
    PROVE  /\ Found \in 0 .. Len(env) /\ (Found = 0 => Len(env) = 0)
           /\ Pending # {} => /\ Found \in DOMAIN env /\ env[Found].commit # NoCommit
                              /\ row.state \in {"receipt_ready", "outer_reviewing"}
                              /\ env[Found].state = "receipt_ready" \/ Found = Len(env)
           /\ row.state \in {"receipt_ready", "outer_reviewing"} /\ env # <<>> /\ env[Len(env)].commit # NoCommit
                => Pending # {}
<1> DEFINE waiting == {i \in DOMAIN env : env[i].state = "receipt_ready" /\ env[i].commit # NoCommit}
           last == {i \in DOMAIN env : i = Len(env) /\ env[i].commit # NoCommit}
<1>1. Len(env) \in Nat /\ DOMAIN env = 1 .. Len(env) /\ (env = <<>> <=> DOMAIN env = {})
  BY EnvelopeIs
<1>2. Pending = IF row.state \notin {"receipt_ready", "outer_reviewing"} THEN {}
                ELSE IF waiting # {} THEN {Max(waiting)} ELSE last
  BY DEF Pending
<1>9. DOMAIN env \subseteq 0 .. Len(env) /\ waiting \subseteq DOMAIN env /\ last \subseteq DOMAIN env
  BY <1>1
<1>10. waiting \in SUBSET (0 .. Len(env))
  BY <1>9
<1> HIDE DEF waiting, last
<1>3. waiting # {} => Max(waiting) \in waiting
  BY <1>1, <1>10, MaxIsGreatest
<1>5. Pending \subseteq DOMAIN env /\ Pending \subseteq waiting \cup last /\ Pending \subseteq 0 .. Len(env)
  BY <1>2, <1>3, <1>9
<1>11. Pending \in SUBSET (0 .. Len(env))
  BY <1>5
<1>6. Pending # {} => Found \in Pending
  BY <1>1, <1>11, MaxIsGreatest DEF Found
<1>7. Found \in 0 .. Len(env) /\ (Found = 0 => Len(env) = 0)
  BY <1>1, <1>5, <1>6 DEF Found
<1>8. row.state \in {"receipt_ready", "outer_reviewing"} /\ env # <<>> /\ env[Len(env)].commit # NoCommit
                => Pending # {}
  <2> SUFFICES ASSUME row.state \in {"receipt_ready", "outer_reviewing"}, env # <<>>,
                      env[Len(env)].commit # NoCommit
               PROVE  Pending # {}
    OBVIOUS
  <2>1. Len(env) \in last
    BY <1>1 DEF last
  <2> QED
    BY <1>2, <2>1
<1>12. Pending # {} => /\ Found \in DOMAIN env /\ env[Found].commit # NoCommit
                       /\ row.state \in {"receipt_ready", "outer_reviewing"}
                       /\ env[Found].state = "receipt_ready" \/ Found = Len(env)
  BY <1>2, <1>5, <1>6 DEF waiting, last
<1> QED
  BY <1>7, <1>8, <1>12

LEMMA ResumedParts == ASSUME Typed, Resumed PROVE PartsOK'
<1> USE TypedParts
<1>0. Envelope
  BY TypeParts
<1>1. /\ m'.pc = "loop" /\ m'.unit = Found /\ row.state \notin Terminal
      /\ m'.rework = (IF Found = 0 THEN 0 ELSE env[Found].rework)
      /\ m'.dags = (IF Grown THEN DagsFound ELSE NoDag)
      /\ m'.pending = (Pending # {})
      /\ m'.reuse = (Found # 0 /\ Pending = {} /\ ~Grown)
      /\ m'.outer = 0 /\ m'.decision = "none" /\ m'.wave = {} /\ m'.pre = {}
      /\ m'.wave_rework = 0 /\ m'.wave_key = {} /\ m'.drafts = {} /\ m'.next = 0
      /\ row' = row /\ UNCHANGED <<env, tree, outers, credited, latest>> /\ UNCHANGED <<result, crashes>>
  BY DEF Resumed, DiskKept, RestKept
<1>2. Found \in 0 .. Len(env)
  BY <1>0, PendingIs
<1>3. DagsFound \in [DOMAIN env -> Progress]
  BY DEF DagsFound, Progress, Entry
<1>4. NoDag \in [DOMAIN NoDag -> Progress] /\ DOMAIN NoDag = {}
  BY DEF NoDag
<1>5. m'.dags \in [DOMAIN m'.dags -> Progress] /\ DOMAIN m'.dags \subseteq DOMAIN env
  BY <1>1, <1>3, <1>4
<1>6. m'.rework \in Nat
  BY <1>1, <1>2 DEF Entry
<1>7. m'.pending \in BOOLEAN /\ m'.reuse \in BOOLEAN
  BY <1>1
<1>8. EngineOK'
  BY <1>1, <1>2, <1>5, <1>6, <1>7, MaxReworkType DEF EngineOK, PC, Work
<1>9. DiskOK'
  BY <1>1 DEF DiskOK
<1>12. m'.pending => m'.unit \in DOMAIN env /\ env[m'.unit].commit # NoCommit /\ ~m'.reuse
  BY <1>0, <1>1, PendingIs
<1>14. Found # 0 => Found \in DOMAIN env
  BY <1>2
<1>13. m'.reuse => m'.unit \in DOMAIN env
  <2>1. m'.reuse = TRUE => Found # 0
    BY <1>1
  <2> QED
    BY <1>1, <1>7, <1>14, <2>1
<1>10. Placed'
  BY <1>1, <1>12, <1>13 DEF Placed, Turns, Batch, Done
<1>11. Standing'
  BY <1>0, <1>1, PendingIs DEF Standing, Turns, Inner, Terminal
<1> QED
  BY <1>8, <1>9, <1>10, <1>11 DEF PartsOK

LEMMA DoesParts == ASSUME Typed, EnvGrows, Does PROVE PartsOK'
<1>1. CASE Gone \/ MoveStep \/ PendingTaken \/ PeersRun \/ AllMerged \/ PeerMerged
           \/ (\E done \in Work : SingleWorked(done))
  BY <1>1, GoneParts, MoveParts, PendingParts, PeersRunParts, AllMergedParts, PeerMergedParts,
     SingleWorkedParts
<1>2. CASE WaveBegins \/ \E parts \in SUBSET Units : BatchAsked(parts)
  BY <1>2, WaveParts, AskedParts
<1>3. CASE DagUnitBegins \/ UnitReused \/ UnitAsked
  <2>1. ~m.pending
    BY <1>3 DEF DagUnitBegins, UnitReused, UnitAsked, Typed, Placed
  <2>2. \E i, times : SingleBegins(i, times)
    BY <1>3 DEF DagUnitBegins, UnitReused, UnitAsked
  <2> QED
    BY <2>1, <2>2, SingleParts
<1>4. CASE (\E plan \in DagPlans : DagAsked(plan)) \/ (\E u \in Units : PeerSeeded(u))
           \/ (\E commit \in Work : PeerHandsIn(commit)) \/ (\E decision \in Decisions : VerdictGiven(decision))
  BY <1>4, DagAskedParts, SeededParts, HandsInParts, VerdictParts
<1>5. CASE ReceiptMade \/ ReviewOpens
  BY <1>5, ReceiptParts, OpensParts
<1>6. CASE RunAccepted \/ UnitAccepted \/ ReworkEnds \/ ReworkBegins \/ Resumed \/ DagClosed
  BY <1>6, RunAcceptedParts, UnitAcceptedParts, ReworkEndsParts, ReworkBeginsParts, ResumedParts, ClosedParts
<1> QED
  BY <1>1, <1>2, <1>3, <1>4, <1>5, <1>6 DEF Does

LEMMA InitTyped == ASSUME Init PROVE Typed
<1>1. /\ row = [state |-> "dispatched", turns |-> 0] /\ env = <<>> /\ tree = {} /\ outers = 0
      /\ result = NoCommit /\ crashes = 0 /\ credited = {} /\ latest = 0
      /\ m = [Off EXCEPT !.pc = "loop"]
  BY DEF Init
<1>2. Rec(m)
  BY <1>1, OffRec DEF Rec
<1>3. /\ m.pc = "loop" /\ m.unit = 0 /\ m.rework = 0 /\ m.dags = NoDag /\ m.pending = FALSE
      /\ m.reuse = FALSE /\ m.outer = 0 /\ m.decision = "none" /\ m.wave = {} /\ m.pre = {}
      /\ m.wave_rework = 0 /\ m.wave_key = {} /\ m.drafts = {} /\ m.next = 0
  BY <1>1 DEF Off
<1>4. Envelope /\ DOMAIN env = {} /\ Len(env) = 0
  BY <1>1 DEF Envelope
<1>5. UnitsOK
  BY <1>4 DEF UnitsOK
<1>6. RowOK
  BY <1>1, BoundsType DEF RowOK, RunStates
<1>10. NoDag \in [DOMAIN NoDag -> Progress] /\ DOMAIN NoDag = {}
  BY DEF NoDag
<1>11. m.dags \in [DOMAIN m.dags -> Progress] /\ DOMAIN m.dags = {}
  BY <1>3, <1>10
<1>12. m.unit \in 0 .. Len(env) /\ m.rework \in Nat /\ m.wave_rework \in 0 .. MaxRework /\ m.next \in Nat
  BY <1>3, <1>4, MaxReworkType
<1>7. EngineOK
  BY <1>3, <1>4, <1>11, <1>12 DEF EngineOK, PC, Work
<1>8. DiskOK
  BY <1>1, <1>4, BoundsType DEF DiskOK, Work
<1>9. Placed /\ Standing
  BY <1>1, <1>3 DEF Placed, Standing, Turns, Batch, Done, Inner, Terminal
<1> QED
  BY <1>2, <1>5, <1>6, <1>7, <1>8, <1>9, PartsTyped DEF PartsOK

LEMMA NextTyped == ASSUME Typed, Next PROVE Typed' /\ Does /\ EnvGrows
<1>1. Does /\ EnvGrows /\ UnitsOK'
  BY NextDoes, AllGrows
<1>2. PartsOK' /\ RowOK' /\ Rec(m')
  BY <1>1, DoesParts, TypedParts, NextRow, NextRec
<1>3. Rec(m)'
  BY <1>2 DEF Rec
<1>4. (Rec(m) /\ UnitsOK /\ RowOK /\ PartsOK)' => Typed'
  BY PartsTyped, PTL
<1> QED
  BY <1>1, <1>2, <1>3, <1>4

LEMMA StutterTyped == ASSUME Typed, UNCHANGED vars PROVE Typed'
<1>1. /\ row' = row /\ env' = env /\ tree' = tree /\ outers' = outers /\ result' = result /\ m' = m
      /\ crashes' = crashes /\ credited' = credited /\ latest' = latest
  BY DEF vars
<1>2. TypeOK'
  BY <1>1 DEF Typed, TypeOK, IsEngine
<1>3. Shape'
  BY <1>1 DEF Typed, Shape
<1>4. Placed'
  BY <1>1 DEF Typed, Placed
<1>5. Standing'
  BY <1>1 DEF Typed, Standing
<1> QED
  BY <1>2, <1>3, <1>4, <1>5 DEF Typed

\* The state of the batches and of the DAG has its type.
THEOREM TypeCorrect == Spec => []TypeOK
<1>1. Typed /\ [Next]_vars => Typed'
  BY NextTyped, StutterTyped
<1>2. Typed => TypeOK
  BY DEF Typed
<1> QED
  BY <1>1, <1>2, InitTyped, PTL DEF Spec

-----------------------------------------------------------------------------
(* The peers of a batch have the work of its master *)

Current == m.unit + 1 .. Len(env)

CrewOK ==
    /\ m.drafts # {} => m.pc \in {"batch", "seed"}
    /\ \A k \in Current : env[k].kind = "peer"
    /\ env[m.unit].part = m.drafts \cup UNION {env[k].part : k \in Current}
    /\ m.wave = {} => Two(env[m.unit].part)
    /\ m.pc = "merge" => \A k \in Current : k < m.next => env[k].part \subseteq tree

Crew == m.pc \in Batch => CrewOK

LEMMA CurrentIs ==
    ASSUME Typed
    PROVE  Current \subseteq DOMAIN env /\ m.unit \in Nat /\ \A k \in Current : k # m.unit /\ k \in Nat
<1>1. Len(env) \in Nat /\ DOMAIN env = 1 .. Len(env) /\ m.unit \in Nat
  BY TypedParts DEF EngineOK
<1> QED
  BY <1>1 DEF Current

LEMMA CrewBegins ==
    ASSUME Typed, NEW parts, NEW covers, BatchBegins(parts, covers), m'.wave = {} => Two(parts)
    PROVE  Crew'
<1> DEFINE n == Len(env) + 1
<1>1. /\ m'.pc = "batch" /\ m'.unit = n /\ m'.drafts = parts /\ Len(env') = n /\ env'[n].part = parts
      /\ n \in Nat
  BY TypedParts DEF BatchBegins, NewEntry
<1>2. Current' = {}
  BY <1>1 DEF Current
<1> QED
  BY <1>1, <1>2 DEF Crew, CrewOK

LEMMA CrewMoves ==
    ASSUME Typed, Crew, m.pc \in Batch, env' = env, tree' = tree, m'.unit = m.unit, m'.wave = m.wave,
           m'.drafts = m.drafts, m'.pc \in {"seed", "receipts"}, m'.pc = "seed" \/ m.pc = "adapters"
    PROVE  Crew'
<1>1. CrewOK /\ Current' = Current
  BY DEF Crew, Current
<1> QED
  BY <1>1 DEF Crew, CrewOK

LEMMA UnionAdds == ASSUME NEW S, NEW x PROVE UNION (S \cup {x}) = (UNION S) \cup x
<1>1. \A y : y \in UNION (S \cup {x}) <=> y \in UNION S \/ y \in x
  OBVIOUS
<1> QED
  BY <1>1

LEMMA MoveOver == ASSUME NEW S, NEW T, NEW x \in S PROVE (S \ {x}) \cup (T \cup {x}) = S \cup T
  OBVIOUS

LEMMA CrewSeeds == ASSUME Typed, Crew, NEW u \in Units, PeerSeeded(u) PROVE Crew'
<1> DEFINE n == Len(env) + 1
<1>1. /\ m.pc = "seed" /\ m'.pc = (IF m.drafts = {u} THEN "adapters" ELSE "seed") /\ u \in m.drafts
      /\ m'.drafts = m.drafts \ {u} /\ m'.unit = m.unit /\ m'.wave = m.wave
      /\ Len(env') = n /\ n \notin DOMAIN env /\ env'[n].part = {u} /\ env'[n].kind = "peer"
      /\ \A i \in DOMAIN env : env'[i] = env[i]
  BY DEF PeerSeeded, NewEntry, HandKept, WaveKept
<1>2. m.unit \in DOMAIN env /\ m.unit \in 1 .. Len(env) /\ Len(env) \in Nat
  BY <1>1, TypedParts DEF Placed, Turns
<1>3. Current' = Current \cup {n} /\ Current \subseteq DOMAIN env
  BY <1>1, <1>2, CurrentIs DEF Current
<1>4. CrewOK
  BY <1>1 DEF Crew, Batch
<1> DEFINE before == {env[k].part : k \in Current}
           after == {env'[k].part : k \in Current'}
<1>5. after = before \cup {{u}}
  <2>1. \A k \in Current : env'[k].part = env[k].part
    BY <1>1, <1>3
  <2>2. before \subseteq after /\ {u} \in after
    BY <1>1, <1>3, <2>1
  <2>3. after \subseteq before \cup {{u}}
    BY <1>1, <1>3, <2>1
  <2> QED
    BY <2>2, <2>3
<1>6. env'[m'.unit].part = m'.drafts \cup UNION after
  <2>1. env[m.unit].part = m.drafts \cup UNION before
    BY <1>4 DEF CrewOK
  <2>2. env'[m'.unit].part = env[m.unit].part
    BY <1>1, <1>2
  <2> HIDE DEF before, after
  <2>3. UNION after = (UNION before) \cup {u}
    BY <1>5, UnionAdds
  <2>4. (m.drafts \ {u}) \cup ((UNION before) \cup {u}) = m.drafts \cup UNION before
    BY <1>1, MoveOver
  <2> QED
    BY <1>1, <2>1, <2>2, <2>3, <2>4
<1>7. m'.drafts # {} => m'.pc = "seed"
  BY <1>1
<1>8. \A k \in Current' : env'[k].kind = "peer"
  BY <1>1, <1>3, <1>4 DEF CrewOK
<1>9. m'.wave = {} => Two(env'[m'.unit].part)
  BY <1>1, <1>2, <1>4 DEF CrewOK
<1> QED
  BY <1>1, <1>6, <1>7, <1>8, <1>9 DEF Crew, CrewOK

LEMMA CrewHandsIn == ASSUME Typed, Crew, NEW commit \in Work, PeerHandsIn(commit) PROVE Crew'
<1>1. /\ m.pc = "receipts" /\ m'.pc \in {"merge", "receipts"} /\ m'.unit = m.unit /\ m'.wave = m.wave
      /\ m'.drafts = m.drafts /\ (m'.pc = "merge" => m'.next = m.unit + 1)
      /\ Len(env') = Len(env)
      /\ \A i \in DOMAIN env : env'[i].kind = env[i].kind /\ env'[i].part = env[i].part
  BY DEF PeerHandsIn, HandKept, WaveKept, Touched, Kept
<1>2. Current' = Current /\ Current \subseteq DOMAIN env /\ m.unit \in DOMAIN env /\ m.unit \in Nat
      /\ \A k \in Current : ~ (k < m.unit + 1)
  BY <1>1, TypedParts, CurrentIs DEF Current, Placed, Turns
<1>3. CrewOK
  BY <1>1 DEF Crew, Batch
<1>4. {env'[k].part : k \in Current'} = {env[k].part : k \in Current}
  BY <1>1, <1>2
<1>5. env'[m'.unit].part = m'.drafts \cup UNION {env'[k].part : k \in Current'}
  BY <1>1, <1>2, <1>3, <1>4 DEF CrewOK
<1> QED
  BY <1>1, <1>2, <1>3, <1>5 DEF Crew, CrewOK

LEMMA CrewMerges == ASSUME Typed, Crew, PeerMerged PROVE Crew'
<1>1. /\ m.pc = "merge" /\ m'.pc = "merge" /\ m'.unit = m.unit /\ m'.wave = m.wave /\ m'.drafts = m.drafts
      /\ m'.next = m.next + 1 /\ env' = env /\ tree' = tree \cup env[m.next].commit
      /\ env[m.next].commit # {} /\ m.next \in DOMAIN env
  BY DEF PeerMerged, HandKept, WaveKept
<1>2. Current' = Current /\ m.next \in Current /\ m.next \in Nat
  BY <1>1, TypedParts, CurrentIs DEF Current, Placed, EngineOK
<1>3. CrewOK
  BY <1>1 DEF Crew, Batch
<1>4. env[m.next].commit = env[m.next].part
  BY <1>1, <1>2, TypedParts DEF Placed, Current
<1>5. \A k \in Current : k < m.next + 1 => k < m.next \/ k = m.next
  BY <1>2, CurrentIs
<1> QED
  BY <1>1, <1>2, <1>3, <1>4, <1>5 DEF Crew, CrewOK

LEMMA NextCrew == ASSUME Typed, Does, Crew PROVE Crew'
<1>1. CASE WaveBegins
  <2>1. Two(NextWave) /\ m'.wave = NextWave
    BY <1>1 DEF WaveBegins
  <2>2. m'.wave # {}
    BY <2>1 DEF Two
  <2> QED
    BY <1>1, <2>2, CrewBegins DEF WaveBegins
<1>2. CASE \E parts \in SUBSET Units : BatchAsked(parts)
  BY <1>2, CrewBegins DEF BatchAsked
<1>3. CASE MoveStep
  <2>1. CASE Move("batch", "seed", "inner_working")
    BY <2>1, CrewMoves DEF Move, DiskKept, HandKept, WaveKept, PeersKept, Batch
  <2>2. CASE m'.pc \notin Batch
    BY <2>2 DEF Crew
  <2> QED
    BY <1>3, <2>1, <2>2 DEF MoveStep, Move, Batch
<1>4. CASE PeersRun
  BY <1>4, CrewMoves DEF PeersRun, DiskKept, HandKept, WaveKept, Batch
<1>5. CASE (\E u \in Units : PeerSeeded(u)) \/ (\E commit \in Work : PeerHandsIn(commit)) \/ PeerMerged
  BY <1>5, CrewSeeds, CrewHandsIn, CrewMerges
<1>6. CASE m'.pc \notin Batch
  BY <1>6 DEF Crew
<1>7. CASE Gone \/ RunAccepted \/ ReworkEnds \/ DagClosed
  <2>1. m'.pc = "off"
    BY <1>7 DEF Gone, RunAccepted, ReworkEnds, DagClosed, Off
  <2> QED
    BY <1>6, <2>1 DEF Batch
<1>8. CASE PendingTaken \/ AllMerged \/ (\E done \in Work : SingleWorked(done)) \/ DagUnitBegins \/ UnitReused
           \/ UnitAsked \/ (\E plan \in DagPlans : DagAsked(plan)) \/ ReceiptMade \/ ReviewOpens
           \/ (\E decision \in Decisions : VerdictGiven(decision)) \/ UnitAccepted \/ ReworkBegins \/ Resumed
  <2>1. m'.pc \in {"turns", "receipt", "single", "loop", "receipt_set", "judge", "apply", "rework_set"}
    BY <1>8 DEF PendingTaken, AllMerged, SingleWorked, DagUnitBegins, UnitReused, UnitAsked, SingleBegins,
       DagAsked, ReceiptMade, ReviewOpens, VerdictGiven, UnitAccepted, ReworkBegins, TurnOver, Resumed
  <2> QED
    BY <1>6, <2>1 DEF Batch
<1> QED
  BY <1>1, <1>2, <1>3, <1>4, <1>5, <1>7, <1>8 DEF Does

-----------------------------------------------------------------------------
(* Until the first review, every receipt is of work that the branch still has *)

Roots == {i \in DOMAIN env : env[i].deps = {}}

\* The wave that the units form of which none has a verdict.
FirstWave == Wave(env, Roots)

InTree(i) == env[i].commit = NoCommit \/ env[i].commit \subseteq tree
AllLanded == \A i \in DOMAIN env : InTree(i)

NoVerdict == credited = {} /\ \A i \in DOMAIN env : env[i].state \notin {"accepted", "rejected"}

AtHead ==
    m.pc = "loop" =>
        /\ m.dags # NoDag => /\ DOMAIN m.dags = DOMAIN env
                             /\ \A i \in DOMAIN env : m.dags[i].state \notin {"accepted", "rejected"}
        /\ m.dags = NoDag /\ ~m.pending /\ ~m.reuse => env = <<>> /\ m.unit = 0
        /\ m.reuse => m.dags = NoDag /\ \A i \in DOMAIN env : env[i].kind = "master"

\* Only peers that a new wave will repeat may lack their work.
Held ==
    \A i \in DOMAIN env :
        InTree(i) \/ (env[i].kind = "peer" /\ env[i].commit \subseteq env[i].part /\ Two(FirstWave))

Doubled(part) == \E j \in FirstWave : env[j].part = part

Doubles == \A p \in DOMAIN env : env[p].kind = "peer" => Doubled(env[p].part)

Apart(u, S) == \A v \in S : <<u, v>> \notin Meet

Drafted ==
    m.pc \in {"batch", "seed"} =>
        \A u \in m.drafts :
            \/ Doubled({u})
            \/ /\ Apart(u, m.drafts \ {u})
               /\ \A j \in DOMAIN env : env[j].globs => Apart(u, env[j].part)

Spanned ==
    m.pc \in Batch =>
        /\ \A p \in DOMAIN env : env[p].kind = "peer" => env[p].part \subseteq env[m.unit].part
        /\ m.wave # {} => Two(FirstWave)

Landed ==
    row.state \in {"receipt_ready", "outer_reviewing"} \/ m.pc \in {"single", "work", "receipt", "receipt_set"}
        => AllLanded

Unseen == NoVerdict /\ AtHead /\ Held /\ Doubles /\ Drafted /\ Spanned /\ Landed

Unreviewed == outers = 0 => Unseen

LEMMA FirstWaveIs ==
    ASSUME Typed
    PROVE  /\ FirstWave \subseteq Roots /\ Roots \subseteq DOMAIN env
           /\ Greedy(env, Roots, FirstWave)
           /\ \A j \in FirstWave : env[j].globs /\ \E u \in Units : env[j].part = {u}
<1>1. Len(env) \in Nat /\ DOMAIN env = 1 .. Len(env) /\ Roots \in SUBSET (1 .. Len(env))
  BY TypedParts DEF Roots
<1>2. FirstWave \in SUBSET Roots /\ Greedy(env, Roots, FirstWave)
  BY <1>1, WaveExists DEF FirstWave
<1>3. \A j \in FirstWave : env[j].globs /\ j \in DOMAIN env
  BY <1>1, <1>2 DEF Greedy
<1>4. \A j \in FirstWave : \E u \in Units : env[j].part = {u}
  BY <1>3 DEF Typed, Shape
<1> QED
  BY <1>1, <1>2, <1>3, <1>4

LEMMA FirstWaveGrows ==
    ASSUME Typed, EnvGrows
    PROVE  /\ FirstWave = FirstWave' \cap Roots
           /\ Roots \subseteq Roots' /\ Roots' \subseteq DOMAIN env'
           /\ \A i \in Roots' \ Roots : i \notin DOMAIN env
           /\ Greedy(env', Roots', FirstWave') /\ FirstWave' \subseteq Roots'
<1> DEFINE n == Len(env')
           R == Roots'
<1>1. n \in Nat /\ DOMAIN env' = 1 .. n /\ Len(env) <= n /\ DOMAIN env \subseteq DOMAIN env'
      /\ \A i \in DOMAIN env : Kept(i)
  BY DEF EnvGrows
<1>2. Len(env) \in Nat /\ DOMAIN env = 1 .. Len(env)
  BY TypedParts
<1>3. /\ R = {i \in DOMAIN env' : env'[i].deps = {}}
      /\ Roots = {i \in DOMAIN env : env[i].deps = {}}
      /\ FirstWave = Wave(env, Roots) /\ FirstWave' = Wave(env', R)
  BY DEF Roots, FirstWave
<1> HIDE DEF R
<1>4. Roots \in SUBSET (1 .. n) /\ R \in SUBSET (1 .. n) /\ Roots \subseteq R
  BY <1>1, <1>2, <1>3 DEF Kept
<1>5. \A i \in R \ Roots : i \notin DOMAIN env
  BY <1>1, <1>3 DEF Kept
<1>6. \A i \in R \ Roots, j \in Roots : j < i
  BY <1>1, <1>2, <1>3, <1>4, <1>5
<1>7. \A i \in Roots : env'[i].globs = env[i].globs /\ env'[i].part = env[i].part
  BY <1>1, <1>3 DEF Kept
<1>9. Wave(env', R) \in SUBSET R /\ Greedy(env', R, Wave(env', R))
  BY <1>1, <1>4, WaveExists
<1>10. Wave(env, Roots) \in SUBSET Roots /\ Greedy(env, Roots, Wave(env, Roots))
  BY <1>1, <1>4, WaveExists
<1>11. Roots \in SUBSET Nat /\ R \in SUBSET Nat
  BY <1>1, <1>4
<1>8. Wave(env, Roots) = Wave(env', R) \cap Roots
  BY <1>4, <1>6, <1>7, <1>9, <1>10, <1>11, WaveGrows
<1> QED
  BY <1>1, <1>3, <1>4, <1>5, <1>8, <1>9 DEF R

\* What repeats a unit still repeats it, and two are still two.
LEMMA DoubledStays ==
    ASSUME Typed, EnvGrows
    PROVE  /\ FirstWave \subseteq FirstWave'
           /\ Two(FirstWave) => Two(FirstWave')
           /\ \A part : Doubled(part) => \E j \in FirstWave' : env'[j].part = part
<1>1. FirstWave \subseteq FirstWave' /\ \A j \in FirstWave : j \in DOMAIN env
  BY FirstWaveGrows, FirstWaveIs
<1>2. \A i \in DOMAIN env : env'[i].part = env[i].part
  BY DEF EnvGrows, Kept
<1> QED
  BY <1>1, <1>2 DEF Two, Doubled

\* Two units that are both repeated make a wave of two.
LEMMA TwoDoubled ==
    ASSUME Typed, NEW S, Two(S), \A u \in S : Doubled({u})
    PROVE  Two(FirstWave)
<1>1. PICK u \in S, v \in S : u # v
  BY DEF Two
<1>2. PICK i \in FirstWave : env[i].part = {u}
  BY DEF Doubled
<1>3. PICK j \in FirstWave : env[j].part = {v}
  BY DEF Doubled
<1>4. i # j
  BY <1>1, <1>2, <1>3
<1> QED
  BY <1>2, <1>3, <1>4 DEF Two

\* The steps that leave the envelope as it is.
LEMMA SameUnits ==
    ASSUME Typed, EnvGrows, NoVerdict, Held, Doubles, env' = env, credited' = credited, tree \subseteq tree'
    PROVE  /\ NoVerdict' /\ Held' /\ Doubles' /\ FirstWave' = FirstWave
           /\ AllLanded => AllLanded'
<1>1. FirstWave' = FirstWave
  BY DEF FirstWave, Roots
<1>2. NoVerdict'
  BY DEF NoVerdict
<1>3. Doubles'
  BY <1>1 DEF Doubles, Doubled
<1>4. Held'
  BY <1>1 DEF Held, InTree
<1>5. AllLanded => AllLanded'
  BY DEF AllLanded, InTree
<1> QED
  BY <1>1, <1>2, <1>3, <1>4, <1>5

LEMMA GoneUnseen == ASSUME Typed, EnvGrows, Unseen, Gone PROVE Unseen'
<1>1. /\ env' = env /\ credited' = credited /\ tree' = tree /\ m'.pc = "off"
      /\ row'.state \in {row.state} \cup Terminal
  BY DEF Gone, DiskKept, Off
<1>2. NoVerdict' /\ Held' /\ Doubles' /\ (AllLanded => AllLanded')
  BY <1>1, SameUnits DEF Unseen
<1>3. AtHead' /\ Drafted' /\ Spanned'
  BY <1>1 DEF AtHead, Drafted, Spanned, Batch
<1>4. Landed'
  BY <1>1, <1>2 DEF Unseen, Landed, Terminal
<1> QED
  BY <1>2, <1>3, <1>4 DEF Unseen

LEMMA ClosedUnseen == ASSUME Typed, EnvGrows, Unseen, DagClosed PROVE Unseen'
<1>1. /\ env' = env /\ credited' = credited /\ tree' = tree /\ m'.pc = "off" /\ row'.state = "accepted"
  BY DEF DagClosed, DiskKept, Off
<1>2. NoVerdict' /\ Held' /\ Doubles'
  BY <1>1, SameUnits DEF Unseen
<1>3. AtHead' /\ Drafted' /\ Spanned' /\ Landed'
  BY <1>1 DEF AtHead, Drafted, Spanned, Landed, Batch
<1> QED
  BY <1>2, <1>3 DEF Unseen

LEMMA MoveUnseen == ASSUME Typed, EnvGrows, Unseen, MoveStep, m.pc \notin {"rework_set", "redispatch"} PROVE Unseen'
<1>1. /\ env' = env /\ credited' = credited /\ tree' = tree /\ m'.unit = m.unit /\ m'.drafts = m.drafts
      /\ m'.wave = m.wave /\ m'.pc # "loop"
  BY DEF MoveStep, Move, DiskKept, HandKept, PeersKept, WaveKept
<1>2. NoVerdict' /\ Held' /\ Doubles' /\ (AllLanded => AllLanded') /\ FirstWave' = FirstWave
  BY <1>1, SameUnits DEF Unseen
<1>3. AtHead'
  BY <1>1 DEF AtHead
<1>4. m'.pc \in Batch => m.pc = "batch"
  BY DEF MoveStep, Move, Batch
<1>5. Drafted'
  BY <1>1, <1>2, <1>4 DEF Unseen, Drafted, Doubled, Apart, Batch
<1>6. Spanned'
  BY <1>1, <1>2, <1>4 DEF Unseen, Spanned, Batch
<1>7. Landed'
  <2>1. CASE Move("batch", "seed", "inner_working")
    BY <2>1 DEF Move, Landed
  <2>2. CASE Move("single", "work", "inner_working") \/ Move("receipt_set", "turns", "receipt_ready")
    BY <1>2, <2>2 DEF Move, Unseen, Landed
  <2>3. CASE Move("turns", "outer", "outer_reviewing")
    <3>1. row.state \in {"receipt_ready", "outer_reviewing"}
      BY <2>3 DEF Move, Typed, Standing
    <3> QED
      BY <1>2, <3>1 DEF Unseen, Landed
  <2> QED
    BY <2>1, <2>2, <2>3 DEF MoveStep, Move
<1> QED
  BY <1>2, <1>3, <1>5, <1>6, <1>7 DEF Unseen

LEMMA PendingUnseen == ASSUME Typed, EnvGrows, Unseen, PendingTaken PROVE Unseen'
<1>1. /\ env' = env /\ credited' = credited /\ tree' = tree /\ m'.pc = "turns" /\ row' = row
  BY DEF PendingTaken, DiskKept
<1>2. NoVerdict' /\ Held' /\ Doubles' /\ (AllLanded => AllLanded')
  BY <1>1, SameUnits DEF Unseen
<1>3. AtHead' /\ Drafted' /\ Spanned'
  BY <1>1 DEF AtHead, Drafted, Spanned, Batch
<1>4. Landed'
  BY <1>1, <1>2 DEF Unseen, Landed
<1> QED
  BY <1>2, <1>3, <1>4 DEF Unseen

LEMMA PeersRunUnseen == ASSUME Typed, EnvGrows, Unseen, PeersRun \/ PeerMerged PROVE Unseen'
<1>1. /\ env' = env /\ credited' = credited /\ tree \subseteq tree' /\ row' = row
      /\ m.pc \in {"adapters", "merge"} /\ m'.pc \in {"receipts", "merge"} /\ m'.unit = m.unit /\ m'.wave = m.wave
  BY DEF PeersRun, PeerMerged, DiskKept, HandKept, WaveKept
<1>2. NoVerdict' /\ Held' /\ Doubles' /\ FirstWave' = FirstWave
  BY <1>1, SameUnits DEF Unseen
<1>3. AtHead' /\ Drafted'
  BY <1>1 DEF AtHead, Drafted
<1>4. Spanned'
  BY <1>1, <1>2 DEF Unseen, Spanned, Batch
<1>5. row.state = "inner_working"
  BY <1>1 DEF Typed, Standing, Inner
<1>6. Landed'
  BY <1>1, <1>5 DEF Landed
<1> QED
  BY <1>2, <1>3, <1>4, <1>6 DEF Unseen

LEMMA WorkedUnseen == ASSUME Typed, EnvGrows, Unseen, NEW done \in Work, SingleWorked(done) PROVE Unseen'
<1>1. /\ env' = env /\ credited' = credited /\ tree \subseteq tree' /\ m.pc = "work" /\ m'.pc = "receipt"
  BY DEF SingleWorked
<1>2. NoVerdict' /\ Held' /\ Doubles' /\ (AllLanded => AllLanded')
  BY <1>1, SameUnits DEF Unseen
<1>3. AtHead' /\ Drafted' /\ Spanned'
  BY <1>1 DEF AtHead, Drafted, Spanned, Batch
<1>4. Landed'
  BY <1>1, <1>2 DEF Unseen, Landed
<1> QED
  BY <1>2, <1>3, <1>4 DEF Unseen

\* When all peers are merged the branch has the work of every peer there is.
LEMMA MergedUnseen == ASSUME Typed, EnvGrows, Crew, Unseen, AllMerged PROVE Unseen'
<1>1. /\ env' = env /\ credited' = credited /\ tree' = tree /\ m.pc = "merge" /\ m'.pc = "receipt"
      /\ m.next \notin DOMAIN env
  BY DEF AllMerged, DiskKept
<1>2. NoVerdict' /\ Held' /\ Doubles' /\ (AllLanded => AllLanded')
  BY <1>1, SameUnits DEF Unseen
<1>3. AtHead' /\ Drafted' /\ Spanned'
  BY <1>1 DEF AtHead, Drafted, Spanned, Batch
<1>4. CrewOK /\ m.drafts = {}
  BY <1>1 DEF Crew, CrewOK, Batch
<1>5. \A k \in Current : k < m.next
  <2>1. m.next \in m.unit + 1 .. Len(env) + 1 /\ m.unit \in Nat /\ Len(env) \in Nat /\ DOMAIN env = 1 .. Len(env)
    BY <1>1, TypedParts DEF Placed, EngineOK
  <2>2. m.next = Len(env) + 1
    BY <1>1, <2>1
  <2> QED
    BY <2>1, <2>2 DEF Current
<1>6. env[m.unit].part \subseteq tree
  BY <1>1, <1>4, <1>5 DEF CrewOK
<1>7. AllLanded
  <2> SUFFICES ASSUME NEW i \in DOMAIN env PROVE InTree(i)
    BY DEF AllLanded
  <2>1. CASE env[i].kind = "peer"
    <3>1. env[i].part \subseteq tree
      BY <1>1, <1>6, <2>1 DEF Unseen, Spanned, Batch
    <3> QED
      BY <3>1 DEF Unseen, Held, InTree
  <2>2. CASE env[i].kind # "peer"
    BY <2>2 DEF Unseen, Held
  <2> QED
    BY <2>1, <2>2
<1>8. Landed'
  BY <1>2, <1>7 DEF Landed
<1> QED
  BY <1>2, <1>3, <1>8 DEF Unseen

LEMMA GrownUnits ==
    ASSUME Typed, EnvGrows, NoVerdict, Held, Doubles, credited' = credited, tree' = tree,
           \A i \in DOMAIN env : env'[i].commit = env[i].commit,
           \A i \in DOMAIN env' : env'[i].state \notin {"accepted", "rejected"},
           \A i \in DOMAIN env' : i \in DOMAIN env \/ env'[i].commit = NoCommit,
           \A i \in DOMAIN env' : i \in DOMAIN env \/ (env'[i].kind = "peer" => \E j \in FirstWave' : env'[j].part = env'[i].part)
    PROVE  NoVerdict' /\ Held' /\ Doubles' /\ (AllLanded => AllLanded')
<1>1. \A i \in DOMAIN env : env'[i].kind = env[i].kind /\ env'[i].part = env[i].part
  BY DEF EnvGrows, Kept
<1>2. NoVerdict'
  BY DEF NoVerdict
<1>3. \A i \in DOMAIN env' : i \notin DOMAIN env => InTree(i)'
  BY DEF InTree
<1>4. \A i \in DOMAIN env : InTree(i) => InTree(i)'
  BY DEF InTree
<1>5. Held'
  BY <1>1, <1>3, <1>4, DoubledStays DEF Held
<1>6. \A i \in DOMAIN env : env[i].kind = "peer" => \E j \in FirstWave' : env'[j].part = env'[i].part
  <2> SUFFICES ASSUME NEW i \in DOMAIN env, env[i].kind = "peer"
               PROVE  \E j \in FirstWave' : env'[j].part = env'[i].part
    OBVIOUS
  <2>1. Doubled(env[i].part)
    BY DEF Doubles
  <2> QED
    BY <1>1, <2>1, DoubledStays
<1>7. Doubles'
  BY <1>1, <1>6 DEF Doubles, Doubled
<1>8. AllLanded => AllLanded'
  BY <1>3, <1>4 DEF AllLanded
<1> QED
  BY <1>2, <1>5, <1>7, <1>8

LEMMA ReadyAreRoots ==
    ASSUME Typed, AtHead, m.pc = "loop", m.dags # NoDag
    PROVE  NextWave = FirstWave
<1>1. /\ DOMAIN m.dags = DOMAIN env
      /\ \A i \in DOMAIN env : m.dags[i].state \notin {"accepted", "rejected"}
  BY DEF AtHead
<1>2. Accepted(m.dags) = {}
  BY <1>1 DEF Accepted
<1>3. ReadyUnits = {i \in DOMAIN env : env[i].deps \subseteq {}}
  BY <1>1, <1>2 DEF ReadyUnits, Ready
<1>4. ReadyUnits = Roots
  BY <1>3 DEF Roots
<1> QED
  BY <1>4 DEF NextWave, FirstWave

LEMMA WaveUnseen == ASSUME Typed, EnvGrows, Unseen, WaveBegins PROVE Unseen'
<1> DEFINE n == Len(env) + 1
           parts == UNION {env[i].part : i \in NextWave}
<1>1. /\ m.pc = "loop" /\ m.dags # NoDag /\ m'.pc = "batch" /\ m'.unit = n /\ m'.drafts = parts
      /\ Two(NextWave) /\ DOMAIN env' = DOMAIN env \cup {n} /\ n \notin DOMAIN env
      /\ \A i \in DOMAIN env : env'[i] = env[i]
      /\ env'[n].kind = "master" /\ env'[n].part = parts /\ env'[n].state = "implementing"
      /\ env'[n].commit = NoCommit
      /\ UNCHANGED <<row, tree, credited>>
  BY DEF WaveBegins, BatchBegins, NewEntry
<1>2. NextWave = FirstWave
  BY <1>1, ReadyAreRoots DEF Unseen
<1>3. NoVerdict' /\ Held' /\ Doubles' /\ (AllLanded => AllLanded')
  BY <1>1, GrownUnits DEF Unseen, NoVerdict
<1>4. AtHead'
  BY <1>1 DEF AtHead
<1>5. ASSUME NEW u \in m'.drafts PROVE Doubled({u})'
  <2>1. PICK i \in FirstWave : u \in env[i].part
    BY <1>1, <1>2, <1>5
  <2>2. env[i].part = {u}
    BY <2>1, FirstWaveIs
  <2>3. Doubled({u})
    BY <2>1, <2>2 DEF Doubled
  <2> QED
    BY <2>3, DoubledStays DEF Doubled
<1>6. Drafted'
  BY <1>5 DEF Drafted
<1>7. ASSUME NEW p \in DOMAIN env', env'[p].kind = "peer" PROVE env'[p].part \subseteq env'[m'.unit].part
  <2>1. p \in DOMAIN env /\ env[p].kind = "peer" /\ env'[p] = env[p]
    BY <1>1, <1>7
  <2>2. PICK j \in FirstWave : env[j].part = env[p].part
    BY <2>1 DEF Unseen, Doubles, Doubled
  <2> QED
    BY <1>1, <1>2, <2>1, <2>2
<1>8. Spanned'
  BY <1>1, <1>2, <1>7, DoubledStays DEF Spanned
<1>9. Landed'
  BY <1>1, <1>3 DEF Unseen, Landed
<1> QED
  BY <1>3, <1>4, <1>6, <1>8, <1>9 DEF Unseen

LEMMA AskedUnseen == ASSUME Typed, EnvGrows, Unseen, NEW parts \in SUBSET Units, BatchAsked(parts) PROVE Unseen'
<1> DEFINE n == Len(env) + 1
<1>1. /\ m.pc = "loop" /\ m.dags = NoDag /\ ~m.pending /\ ~m.reuse
      /\ m'.pc = "batch" /\ m'.unit = n /\ m'.drafts = parts /\ m'.wave = m.wave
      /\ Foreign(parts) /\ DOMAIN env' = DOMAIN env \cup {n} /\ n \notin DOMAIN env
      /\ \A i \in DOMAIN env : env'[i] = env[i]
      /\ env'[n].kind = "master" /\ env'[n].globs = FALSE /\ env'[n].state = "implementing"
      /\ env'[n].commit = NoCommit
      /\ UNCHANGED <<row, tree, credited>>
  BY DEF BatchAsked, BatchBegins, NewEntry, WaveKept
<1>2. env = <<>> /\ DOMAIN env = {} /\ DOMAIN env' = {n}
  BY <1>1 DEF Unseen, AtHead
<1>3. NoVerdict' /\ Held' /\ Doubles' /\ (AllLanded => AllLanded')
  BY <1>1, GrownUnits DEF Unseen, NoVerdict
<1>4. AtHead'
  BY <1>1 DEF AtHead
<1>5. \A u \in parts : Apart(u, parts \ {u})
  BY <1>1 DEF Foreign, Apart
<1>6. Drafted'
  BY <1>1, <1>2, <1>5 DEF Drafted, Apart
<1>7. m'.wave = {}
  BY <1>1 DEF Typed, Standing, Turns
<1>8. Spanned'
  BY <1>1, <1>2, <1>7 DEF Spanned
<1>9. Landed'
  BY <1>1, <1>3 DEF Unseen, Landed
<1> QED
  BY <1>3, <1>4, <1>6, <1>8, <1>9 DEF Unseen

LEMMA SingleUnseen ==
    ASSUME Typed, EnvGrows, Unseen, NEW i, NEW times, SingleBegins(i, times), AllLanded
    PROVE  Unseen'
<1>1. /\ m'.pc = "single" /\ DOMAIN env' = DOMAIN env
      /\ \A k \in DOMAIN env : env'[k].commit = env[k].commit
      /\ \A k \in DOMAIN env \ {i} : env'[k].state = env[k].state
      /\ env'[i].state = "implementing"
      /\ UNCHANGED <<row, tree, credited>>
  BY DEF SingleBegins, Touched, StateKept, CommitKept
<1>2. NoVerdict' /\ Held' /\ Doubles' /\ AllLanded'
  BY <1>1, GrownUnits DEF Unseen, NoVerdict
<1>3. AtHead' /\ Drafted' /\ Spanned'
  BY <1>1 DEF AtHead, Drafted, Spanned, Batch
<1>4. Landed'
  BY <1>2 DEF Landed
<1> QED
  BY <1>2, <1>3, <1>4 DEF Unseen

LEMMA SinglesUnseen == ASSUME Typed, EnvGrows, Unseen, DagUnitBegins \/ UnitReused \/ UnitAsked PROVE Unseen'
<1>1. CASE DagUnitBegins
  <2>1. ~Two(FirstWave)
    BY <1>1, ReadyAreRoots DEF DagUnitBegins, SingleBegins, Unseen
  <2>2. AllLanded
    BY <2>1 DEF Unseen, Held, AllLanded
  <2> QED
    BY <1>1, <2>2, SingleUnseen DEF DagUnitBegins
<1>2. CASE UnitReused
  <2>1. AllLanded
    BY <1>2 DEF UnitReused, SingleBegins, Unseen, AtHead, Held, AllLanded
  <2> QED
    BY <1>2, <2>1, SingleUnseen DEF UnitReused
<1>3. CASE UnitAsked
  BY <1>3 DEF UnitAsked, SingleBegins, Unseen, AtHead
<1> QED
  BY <1>1, <1>2, <1>3

LEMMA DagUnseen == ASSUME Typed, EnvGrows, Unseen, NEW plan \in DagPlans, DagAsked(plan) PROVE Unseen'
<1> DEFINE c == Cardinality(Units)
<1>1. /\ m.pc = "loop" /\ m'.pc = "loop" /\ ~m.pending /\ ~m.reuse /\ m.dags = NoDag
      /\ m'.dags = [i \in Len(env) + 1 .. Len(env) + c |-> [state |-> "queued", rework |-> 0]]
      /\ m'.unit = m.unit /\ m'.reuse = m.reuse /\ Seeded(plan)
      /\ UNCHANGED <<row, tree, credited>>
  BY DEF DagAsked, HandKept, FlagsKept
<1>2. env = <<>> /\ m.unit = 0 /\ DOMAIN env = {} /\ Len(env) = 0
  BY <1>1 DEF Unseen, AtHead
<1>3. Envelope
  BY TypeParts DEF Typed
<1>4. c \in Nat /\ DOMAIN env' = 1 .. c /\ Len(env') = c /\ env' \in Seq(Entry)
  BY <1>1, <1>2 DEF Seeded
<1>5. \A i \in DOMAIN env' : env'[i].kind = "dag" /\ env'[i].state = "queued" /\ env'[i].commit = NoCommit
  <2> SUFFICES ASSUME NEW i \in DOMAIN env'
               PROVE  env'[i].kind = "dag" /\ env'[i].state = "queued" /\ env'[i].commit = NoCommit
    OBVIOUS
  <2>1. PICK u \in Units : i = Len(env) + u
    BY <1>1, <1>2, <1>3, SeededAre
  <2> QED
    BY <1>1, <1>3, <2>1, SeededAre DEF SeededIs
<1>6. NoVerdict' /\ Held' /\ Doubles' /\ AllLanded'
  <2>1. NoVerdict' /\ Held' /\ Doubles' /\ (AllLanded => AllLanded')
    BY <1>1, <1>2, <1>5, GrownUnits DEF Unseen
  <2> QED
    BY <1>2, <2>1 DEF AllLanded
<1>7. DOMAIN m'.dags = DOMAIN env' /\ \A i \in DOMAIN env' : m'.dags[i].state = "queued"
  <2>1. Len(env) + 1 .. Len(env) + c = DOMAIN env'
    BY <1>2, <1>4
  <2>2. m'.dags = [i \in DOMAIN env' |-> [state |-> "queued", rework |-> 0]]
    BY <1>1, <2>1
  <2> QED
    BY <2>2
<1>8. m'.dags = NoDag => env' = <<>>
  <2> SUFFICES ASSUME m'.dags = NoDag PROVE env' = <<>>
    OBVIOUS
  <2>1. DOMAIN env' = {}
    BY <1>7 DEF NoDag
  <2> QED
    BY <1>4, <2>1
<1>9. AtHead'
  BY <1>1, <1>2, <1>7, <1>8 DEF AtHead
<1>10. Drafted' /\ Spanned'
  BY <1>1 DEF Drafted, Spanned, Batch
<1>11. Landed'
  BY <1>6 DEF Landed
<1> QED
  BY <1>6, <1>9, <1>10, <1>11 DEF Unseen

\* A peer that repeats no unit meets none, so it is one that a wave would take.
LEMMA SeedUnseen == ASSUME Typed, EnvGrows, Crew, Unseen, NEW u \in Units, PeerSeeded(u) PROVE Unseen'
<1> DEFINE n == Len(env) + 1
<1>1. /\ m.pc = "seed" /\ m'.pc \in {"adapters", "seed"} /\ u \in m.drafts
      /\ m'.drafts = m.drafts \ {u} /\ m'.unit = m.unit /\ m'.wave = m.wave
      /\ DOMAIN env' = DOMAIN env \cup {n} /\ n \notin DOMAIN env
      /\ \A i \in DOMAIN env : env'[i] = env[i]
      /\ env'[n].kind = "peer" /\ env'[n].part = {u} /\ env'[n].state = "queued" /\ env'[n].globs = TRUE
      /\ env'[n].commit = NoCommit /\ env'[n].deps = {}
      /\ UNCHANGED <<row, tree, credited>>
  BY DEF PeerSeeded, NewEntry, HandKept, WaveKept
<1>2. Len(env) \in Nat /\ DOMAIN env = 1 .. Len(env) /\ m.unit \in DOMAIN env
  BY <1>1, TypedParts DEF Placed, Turns
<1>3. Doubled({u})'
  <2>1. CASE Doubled({u})
    BY <2>1, DoubledStays DEF Doubled
  <2>2. CASE ~Doubled({u})
    <3>1. \A j \in DOMAIN env : env[j].globs => Apart(u, env[j].part)
      BY <1>1, <2>2 DEF Unseen, Drafted
    <3>2. n \in Roots'
      BY <1>1 DEF Roots
    <3>3. Greedy(env', Roots', FirstWave') /\ FirstWave' \subseteq Roots' /\ Roots' \subseteq DOMAIN env'
      BY FirstWaveGrows
    <3>4. ASSUME NEW j \in FirstWave', j < n PROVE ~Overlap(env', n, j)
      <4>1. j \in DOMAIN env /\ env'[j] = env[j]
        BY <1>1, <1>2, <3>3, <3>4
      <4>2. env'[j].globs
        BY <3>3 DEF Greedy
      <4>3. \A v \in env'[j].part : <<u, v>> \notin Meet
        BY <3>1, <4>1, <4>2 DEF Apart
      <4> QED
        BY <1>1, <4>3 DEF Overlap
    <3>5. n \in FirstWave'
      BY <1>1, <3>2, <3>3, <3>4 DEF Greedy
    <3> QED
      BY <1>1, <3>5 DEF Doubled
  <2> QED
    BY <2>1, <2>2
<1>4. NoVerdict' /\ Held' /\ Doubles'
  <2>1. \A i \in DOMAIN env' : i \in DOMAIN env \/ (env'[i].kind = "peer" => \E j \in FirstWave' : env'[j].part = env'[i].part)
    BY <1>1, <1>3 DEF Doubled
  <2> QED
    BY <1>1, <2>1, GrownUnits DEF Unseen, NoVerdict
<1>5. AtHead'
  BY <1>1 DEF AtHead
<1>6. ASSUME NEW v \in m'.drafts
      PROVE  \/ Doubled({v})'
             \/ /\ Apart(v, m'.drafts \ {v})
                /\ \A j \in DOMAIN env' : env'[j].globs => Apart(v, env'[j].part)
  <2>1. v \in m.drafts /\ v # u
    BY <1>1, <1>6
  <2>2. CASE Doubled({v})
    BY <2>2, DoubledStays DEF Doubled
  <2>3. CASE ~Doubled({v})
    <3>1. Apart(v, m.drafts \ {v}) /\ \A j \in DOMAIN env : env[j].globs => Apart(v, env[j].part)
      BY <1>1, <2>1, <2>3 DEF Unseen, Drafted
    <3>2. Apart(v, {u}) /\ Apart(v, m'.drafts \ {v})
      BY <1>1, <2>1, <3>1 DEF Apart
    <3> QED
      BY <1>1, <3>1, <3>2
  <2> QED
    BY <2>2, <2>3
<1>7. Drafted'
  BY <1>6 DEF Drafted, Apart
<1>8. u \in env[m.unit].part
  BY <1>1 DEF Crew, CrewOK, Batch
<1>9. Spanned'
  BY <1>1, <1>2, <1>8, DoubledStays DEF Unseen, Spanned, Batch
<1>10. Landed'
  BY <1>1 DEF Landed, Typed, Standing, Inner
<1> QED
  BY <1>4, <1>5, <1>7, <1>9, <1>10 DEF Unseen

\* A peer hands in when its batch is complete, so that a wave will repeat it.
LEMMA HandsInUnseen ==
    ASSUME Typed, EnvGrows, Crew, Unseen, NEW commit \in Work, PeerHandsIn(commit)
    PROVE  Unseen'
<1> DEFINE n == m.next
<1>1. /\ m.pc = "receipts" /\ m'.pc \in {"merge", "receipts"} /\ m'.unit = m.unit /\ m'.wave = m.wave
      /\ commit \in {{}, env[n].part} /\ n \in DOMAIN env /\ Touched(n, "receipt_ready", commit)
      /\ row'.state = row.state /\ UNCHANGED <<tree, credited>>
  BY DEF PeerHandsIn, HandKept, WaveKept
<1>2. /\ DOMAIN env' = DOMAIN env /\ \A i \in DOMAIN env : Kept(i)
      /\ \A i \in DOMAIN env \ {n} : env'[i].state = env[i].state /\ env'[i].commit = env[i].commit
      /\ env'[n].state = "receipt_ready" /\ env'[n].commit = commit
  BY <1>1 DEF Touched, StateKept, CommitKept
<1>3. /\ CrewOK /\ m.drafts = {} /\ n \in Current /\ m.unit \in DOMAIN env /\ row.state = "inner_working"
      /\ Current \subseteq DOMAIN env
  BY <1>1, TypedParts, CurrentIs DEF Crew, CrewOK, Batch, Placed, Standing, Turns, Inner, Current
<1>4. Two(FirstWave)
  <2>1. CASE m.wave # {}
    BY <1>1, <2>1 DEF Unseen, Spanned, Batch
  <2>2. CASE m.wave = {}
    <3>1. Two(env[m.unit].part)
      BY <1>3, <2>2 DEF CrewOK
    <3>2. ASSUME NEW u \in env[m.unit].part PROVE Doubled({u})
      <4>1. PICK k \in Current : u \in env[k].part
        BY <1>3, <3>2 DEF CrewOK
      <4>2. env[k].kind = "peer" /\ k \in DOMAIN env
        BY <1>3, <4>1 DEF CrewOK
      <4>3. env[k].part = {u}
        BY <4>1, <4>2 DEF Typed, Shape
      <4>4. Doubled(env[k].part)
        BY <4>2 DEF Unseen, Doubles
      <4> QED
        BY <4>3, <4>4
    <3> QED
      BY <3>1, <3>2, TwoDoubled
  <2> QED
    BY <2>1, <2>2
<1>5. NoVerdict'
  BY <1>1, <1>2 DEF Unseen, NoVerdict
<1>6. Doubles'
  <2> SUFFICES ASSUME NEW p \in DOMAIN env, env[p].kind = "peer"
               PROVE  \E j \in FirstWave' : env'[j].part = env[p].part
    BY <1>2 DEF Doubles, Doubled, Kept
  <2>1. Doubled(env[p].part)
    BY DEF Unseen, Doubles
  <2> QED
    BY <2>1, DoubledStays
<1>7. Held'
  <2>1. Two(FirstWave')
    BY <1>4, DoubledStays
  <2>2. env'[n].kind = "peer" /\ env'[n].commit \subseteq env'[n].part
    BY <1>1, <1>2, <1>3 DEF CrewOK, Kept
  <2>3. ASSUME NEW i \in DOMAIN env \ {n}
        PROVE  \/ env'[i].commit = NoCommit \/ env'[i].commit \subseteq tree'
               \/ env'[i].kind = "peer" /\ env'[i].commit \subseteq env'[i].part
    BY <1>1, <1>2, <2>3 DEF Unseen, Held, InTree, Kept
  <2> QED
    BY <1>2, <2>1, <2>2, <2>3 DEF Held, InTree
<1>8. AtHead' /\ Drafted'
  BY <1>1 DEF AtHead, Drafted
<1>9. Spanned'
  BY <1>1, <1>2, <1>3, <1>4, DoubledStays DEF Unseen, Spanned, Batch, Kept
<1>10. Landed'
  BY <1>1, <1>3 DEF Landed
<1> QED
  BY <1>5, <1>6, <1>7, <1>8, <1>9, <1>10 DEF Unseen

LEMMA ReceiptUnseen == ASSUME Typed, EnvGrows, Unseen, ReceiptMade PROVE Unseen'
<1> DEFINE n == m.unit
<1>1. /\ m.pc = "receipt" /\ m'.pc = "receipt_set" /\ Touched(n, "receipt_ready", tree)
      /\ UNCHANGED <<tree, credited>>
  BY DEF ReceiptMade
<1>2. /\ DOMAIN env' = DOMAIN env /\ \A i \in DOMAIN env : Kept(i)
      /\ \A i \in DOMAIN env \ {n} : env'[i].state = env[i].state /\ env'[i].commit = env[i].commit
      /\ env'[n].state = "receipt_ready" /\ env'[n].commit = tree
  BY <1>1 DEF Touched, StateKept, CommitKept
<1>3. AllLanded
  BY <1>1 DEF Unseen, Landed
<1>4. AllLanded'
  BY <1>1, <1>2, <1>3 DEF AllLanded, InTree
<1>5. NoVerdict'
  BY <1>1, <1>2 DEF Unseen, NoVerdict
<1>6. Doubles'
  <2> SUFFICES ASSUME NEW p \in DOMAIN env, env[p].kind = "peer"
               PROVE  \E j \in FirstWave' : env'[j].part = env[p].part
    BY <1>2 DEF Doubles, Doubled, Kept
  <2>1. Doubled(env[p].part)
    BY DEF Unseen, Doubles
  <2> QED
    BY <2>1, DoubledStays
<1>7. Held'
  BY <1>4 DEF Held, AllLanded
<1>8. AtHead' /\ Drafted' /\ Spanned' /\ Landed'
  BY <1>1, <1>4 DEF AtHead, Drafted, Spanned, Landed, Batch
<1> QED
  BY <1>5, <1>6, <1>7, <1>8 DEF Unseen

LEMMA ResumedUnseen == ASSUME Typed, EnvGrows, Unseen, Resumed PROVE Unseen'
<1>1. /\ env' = env /\ credited' = credited /\ tree' = tree /\ row' = row /\ m'.pc = "loop"
      /\ m'.unit = Found /\ m'.dags = (IF Grown THEN DagsFound ELSE NoDag)
      /\ (m'.pending = TRUE <=> Pending # {})
      /\ (m'.reuse = TRUE <=> Found # 0 /\ Pending = {} /\ ~Grown)
  BY DEF Resumed, DiskKept
<1>2. NoVerdict' /\ Held' /\ Doubles' /\ (AllLanded => AllLanded')
  BY <1>1, SameUnits DEF Unseen
<1>3. Envelope /\ (env = <<>> <=> DOMAIN env = {}) /\ DOMAIN env = 1 .. Len(env)
  BY TypeParts, EnvelopeIs DEF Typed
<1>4. Grown => DagsFound # NoDag
  BY DEF Grown, DagsFound, NoDag
<1>5. m'.dags # NoDag => /\ DOMAIN m'.dags = DOMAIN env
                         /\ \A i \in DOMAIN env : m'.dags[i].state \notin {"accepted", "rejected"}
  <2> SUFFICES ASSUME m'.dags # NoDag
               PROVE  /\ DOMAIN m'.dags = DOMAIN env
                      /\ \A i \in DOMAIN env : m'.dags[i].state \notin {"accepted", "rejected"}
    OBVIOUS
  <2>1. m'.dags = DagsFound
    BY <1>1
  <2> QED
    BY <2>1 DEF DagsFound, Unseen, NoVerdict
<1>6. m'.dags = NoDag /\ ~m'.pending /\ ~m'.reuse => env = <<>> /\ m'.unit = 0
  <2> SUFFICES ASSUME m'.dags = NoDag, ~m'.pending, ~m'.reuse PROVE env = <<>> /\ m'.unit = 0
    OBVIOUS
  <2>1. ~Grown /\ Pending = {}
    BY <1>1, <1>4
  <2>2. Found = 0
    BY <1>1, <2>1
  <2>3. Len(env) = 0
    BY <1>3, <2>2, PendingIs
  <2> QED
    BY <1>1, <1>3, <2>2, <2>3
<1>7. m'.reuse => m'.dags = NoDag /\ \A i \in DOMAIN env : env[i].kind = "master"
  BY <1>1 DEF Grown
<1>8. AtHead'
  BY <1>1, <1>5, <1>6, <1>7 DEF AtHead
<1>9. Drafted' /\ Spanned' /\ Landed'
  BY <1>1, <1>2 DEF Unseen, Drafted, Spanned, Landed, Batch
<1> QED
  BY <1>2, <1>8, <1>9 DEF Unseen

\* The engine has seen no outer worktree, or all there are.
Seen == {"judge", "apply", "rework_set", "redispatch"}

Trial ==
    /\ m.outer \in {0, outers}
    /\ m.pc \in Seen => m.outer > 0
    /\ m.pending => m.outer = 0

LEMMA NextTrial == ASSUME Typed, Does, Trial PROVE Trial'
<1> USE DEF Trial
<1>0. m.outer \in Nat /\ outers \in Nat
  BY DEF Typed, TypeOK, IsEngine
<1>1. CASE Gone \/ RunAccepted \/ ReworkEnds \/ DagClosed
  <2>1. m'.pc = "off" /\ m'.outer = 0 /\ m'.pending = FALSE
    BY <1>1 DEF Gone, RunAccepted, ReworkEnds, DagClosed, Off
  <2> QED
    BY <2>1 DEF Seen
<1>2. CASE Resumed
  BY <1>2 DEF Resumed, Seen
<1>3. CASE ReviewOpens
  <2>1. ~m.pending
    BY <1>3 DEF ReviewOpens, Typed, Placed
  <2> QED
    BY <1>0, <1>3, <2>1 DEF ReviewOpens, FlagsKept
<1>4. CASE m'.outer = m.outer /\ outers' = outers /\ (m'.pc \in Seen => m.pc \in Seen) /\ (m'.pending => m.pending)
  BY <1>4
<1>5. CASE MoveStep
  BY <1>4, <1>5 DEF MoveStep, Move, TrialKept, FlagsKept, DiskKept, Seen
<1>6. CASE PendingTaken \/ PeersRun \/ AllMerged \/ PeerMerged \/ (\E done \in Work : SingleWorked(done)) \/ WaveBegins
           \/ (\E parts \in SUBSET Units : BatchAsked(parts)) \/ (\E plan \in DagPlans : DagAsked(plan))
           \/ (\E u \in Units : PeerSeeded(u)) \/ (\E commit \in Work : PeerHandsIn(commit)) \/ ReceiptMade
  <2>1. /\ m'.outer = m.outer /\ outers' = outers /\ (m'.pending => m.pending)
        /\ m'.pc \in {"turns", "receipts", "receipt", "merge", "batch", "loop", "adapters", "seed", "receipt_set"}
    BY <1>6 DEF PendingTaken, PeersRun, AllMerged, PeerMerged, SingleWorked, WaveBegins, BatchAsked, BatchBegins,
       DagAsked, PeerSeeded, PeerHandsIn, ReceiptMade, TrialKept, FlagsKept, DiskKept
  <2> QED
    BY <1>4, <2>1 DEF Seen
<1>7. CASE DagUnitBegins \/ UnitReused \/ UnitAsked
  BY <1>4, <1>7 DEF DagUnitBegins, UnitReused, UnitAsked, SingleBegins, TrialKept, Seen
<1>8. CASE (\E decision \in Decisions : VerdictGiven(decision)) \/ UnitAccepted \/ ReworkBegins
  BY <1>4, <1>8 DEF VerdictGiven, UnitAccepted, ReworkBegins, TurnOver, FlagsKept, Seen
<1> QED
  BY <1>1, <1>2, <1>3, <1>5, <1>6, <1>7, <1>8 DEF Does

LEMMA NextUnreviewed ==
    ASSUME Typed, EnvGrows, Does, Crew, Trial, Unreviewed
    PROVE  Unreviewed'
<1> SUFFICES ASSUME outers' = 0 PROVE Unseen'
  BY DEF Unreviewed
<1>0. m.outer \in Nat /\ outers \in Nat
  BY DEF Typed, TypeOK, IsEngine
<1>1. ~ReviewOpens
  BY <1>0 DEF ReviewOpens
<1>2. outers = 0
  BY <1>1 DEF Does, Gone, MoveStep, Move, PendingTaken, PeersRun, AllMerged, PeerMerged, SingleWorked, WaveBegins,
     BatchAsked, BatchBegins, DagAsked, PeerSeeded, PeerHandsIn, ReceiptMade, DagUnitBegins, UnitReused,
     UnitAsked, SingleBegins, VerdictGiven, RunAccepted, UnitAccepted, ReworkEnds, ReworkBegins, TurnOver,
     Resumed, DagClosed, DiskKept
<1>3. m.pc \notin Seen /\ Unseen
  BY <1>0, <1>2 DEF Trial, Unreviewed
<1>4. /\ ~ReworkBegins /\ ~ReworkEnds /\ ~RunAccepted /\ ~UnitAccepted
      /\ \A decision \in Decisions : ~VerdictGiven(decision)
  BY <1>3 DEF Seen, ReworkBegins, ReworkEnds, RunAccepted, UnitAccepted, VerdictGiven, TurnOver
<1>5. CASE MoveStep
  BY <1>3, <1>5, MoveUnseen DEF Seen
<1> QED
  BY <1>1, <1>3, <1>4, <1>5, GoneUnseen, ClosedUnseen, PendingUnseen, PeersRunUnseen, WorkedUnseen, MergedUnseen,
     WaveUnseen, AskedUnseen, SinglesUnseen, DagUnseen, SeedUnseen, HandsInUnseen, ReceiptUnseen, ResumedUnseen
     DEF Does

-----------------------------------------------------------------------------
(* What an accept has reviewed stays on the branch, and is what is shipped *)

Last == Len(env)

LastOK == env # <<>> /\ env[Last].state = "accepted" => env[Last].commit # NoCommit

\* A run that comes back from its review without a receipt is not at its end.
HeadOK ==
    m.pc = "loop" /\ row.state = "outer_reviewing" /\ ~m.pending /\ env # <<>> =>
        /\ env[Last].commit = NoCommit
        /\ m.dags # NoDag => Last \in DOMAIN m.dags /\ m.dags[Last].state # "accepted"

Reviewed == credited \subseteq Receipt /\ Receipt \subseteq tree

Carried ==
    /\ credited \subseteq tree
    /\ m.wave # {} /\ m.decision # "accept" => credited \subseteq m.pre
    /\ m.pc = "receipt_set" => Receipt = tree
    /\ m.outer = outers /\ m.pc \in {"turns", "outer", "judge"} => Reviewed
    /\ m.pc = "apply" /\ m.decision = "accept" => Reviewed

Shipped == row.state = "accepted" => result # NoCommit /\ credited \subseteq result

Credit == Crew /\ Trial /\ Unreviewed /\ LastOK /\ HeadOK /\ Carried /\ Shipped

LEMMA LastIs ==
    ASSUME Typed
    PROVE  /\ Envelope /\ Last \in Nat /\ DOMAIN env = 1 .. Last
           /\ env # <<>> <=> DOMAIN env # {}
           /\ DOMAIN env # {} => Last \in DOMAIN env
<1>1. Envelope
  BY TypeParts DEF Typed
<1>2. Last \in Nat /\ DOMAIN env = 1 .. Last /\ (env = <<>> <=> DOMAIN env = {})
  BY <1>1, EnvelopeIs DEF Last
<1> QED
  BY <1>1, <1>2

LEMMA NextLast == ASSUME Typed, Does, EnvGrows, LastOK PROVE LastOK'
<1> DEFINE n == Len(env')
<1>0. /\ Last \in Nat /\ DOMAIN env = 1 .. Last /\ (env # <<>> <=> DOMAIN env # {})
      /\ (DOMAIN env # {} => Last \in DOMAIN env) /\ Last = Len(env)
  BY LastIs DEF Last
<1>1. n \in Nat /\ DOMAIN env' = 1 .. n /\ (env' # <<>> => n \in DOMAIN env')
  <2>1. n \in Nat /\ DOMAIN env' = 1 .. n /\ env' \in Seq(Entry)
    BY DEF EnvGrows
  <2> QED
    BY <2>1
<1>2. SUFFICES ASSUME env' # <<>>, env'[n].state = "accepted" PROVE env'[n].commit # NoCommit
  BY DEF LastOK, Last
<1>3. CASE env' = env
  BY <1>2, <1>3 DEF LastOK, Last
<1>4. ASSUME n = Last, env'[n].state = env[n].state, env'[n].commit = env[n].commit
      PROVE  env'[n].commit # NoCommit
  <2>1. env # <<>>
    BY <1>0, <1>1, <1>2, <1>4
  <2> QED
    BY <1>2, <1>4, <2>1 DEF LastOK
<1>5. ASSUME NEW kind, NEW part, NEW globs, NEW deps, NEW covers, NEW state, state # "accepted",
             NewEntry(kind, part, globs, deps, covers, state)
      PROVE  FALSE
  <2>1. n = Len(env) + 1 /\ env'[Len(env) + 1].state = state
    BY <1>5 DEF NewEntry
  <2> QED
    BY <1>2, <1>5, <2>1
<1>6. ASSUME NEW k, NEW state, NEW commit, state # "accepted", Touched(k, state, commit)
      PROVE  env'[n].commit # NoCommit
  <2>1. /\ n = Last /\ DOMAIN env' = DOMAIN env /\ env'[k].state = state
        /\ \A i \in DOMAIN env \ {k} : env'[i].state = env[i].state /\ env'[i].commit = env[i].commit
    BY <1>6 DEF Touched, StateKept, CommitKept, Last
  <2>2. n # k
    BY <1>2, <1>6, <2>1
  <2> QED
    BY <1>1, <1>2, <1>4, <2>1, <2>2
<1>7. CASE \E plan \in DagPlans : DagAsked(plan)
  <2>1. PICK plan \in DagPlans : DagAsked(plan)
    BY <1>7
  <2>2. Seeded(plan) /\ Envelope
    BY <2>1, LastIs DEF DagAsked
  <2>3. CASE n \notin DOMAIN env
    <3>1. PICK u \in Units : n = Len(env) + u
      BY <1>1, <1>2, <2>2, <2>3, SeededAre
    <3>2. env'[Len(env) + u].state = "queued"
      BY <2>2, SeededAre DEF SeededIs
    <3> QED
      BY <1>2, <3>1, <3>2
  <2>4. CASE n \in DOMAIN env
    <3>1. Len(env) <= n
      BY DEF EnvGrows
    <3>2. n = Last /\ env'[n] = env[n]
      BY <1>0, <1>1, <2>2, <2>4, <3>1 DEF Seeded
    <3> QED
      BY <1>4, <3>2
  <2> QED
    BY <2>3, <2>4
<1>8. CASE \E decision \in Decisions : VerdictGiven(decision)
  <2>1. PICK decision \in Decisions : VerdictGiven(decision)
    BY <1>8
  <2>2. /\ n = Last /\ DOMAIN env' = DOMAIN env /\ m.pc = "judge" /\ m.unit \in DOMAIN env
        /\ \A i \in DOMAIN env : env'[i].commit = env[i].commit
        /\ \A i \in DOMAIN env \ Covered : env'[i].state = env[i].state
    BY <2>1 DEF VerdictGiven, Marked, StateKept, CommitKept, Last
  <2>3. CASE n \notin Covered
    BY <1>1, <1>2, <1>4, <2>2, <2>3
  <2>4. CASE n = m.unit
    BY <1>1, <1>2, <2>2, <2>4 DEF Typed, Placed, Done
  <2>5. CASE n \in env[m.unit].covers
    <3>1. env[m.unit].covers \subseteq 1 .. m.unit - 1
      BY <2>2, TypeParts DEF Typed
    <3> QED
      BY <1>0, <2>2, <2>5, <3>1
  <2> QED
    BY <2>3, <2>4, <2>5 DEF Covered
<1>9. CASE WaveBegins \/ (\E parts \in SUBSET Units : BatchAsked(parts)) \/ (\E u \in Units : PeerSeeded(u))
  BY <1>5, <1>9 DEF WaveBegins, BatchAsked, BatchBegins, PeerSeeded
<1>10. CASE DagUnitBegins \/ UnitReused \/ UnitAsked \/ (\E commit \in Work : PeerHandsIn(commit)) \/ ReceiptMade
  BY <1>6, <1>10 DEF DagUnitBegins, UnitReused, UnitAsked, SingleBegins, PeerHandsIn, ReceiptMade
<1> QED
  BY <1>3, <1>7, <1>8, <1>9, <1>10 DEF Does, Gone, MoveStep, Move, PendingTaken, PeersRun, AllMerged, PeerMerged,
     SingleWorked, ReviewOpens, RunAccepted, UnitAccepted, ReworkEnds, ReworkBegins, TurnOver, Resumed, DagClosed,
     DiskKept

LEMMA NextHead == ASSUME Typed, Does, EnvGrows, LastOK, HeadOK PROVE HeadOK'
<1> DEFINE n == Len(env')
<1>0. /\ Envelope /\ Last \in Nat /\ DOMAIN env = 1 .. Last /\ (env # <<>> <=> DOMAIN env # {})
      /\ (DOMAIN env # {} => Last \in DOMAIN env) /\ Last = Len(env)
  BY LastIs DEF Last
<1>1. CASE m'.pc # "loop"
  BY <1>1 DEF HeadOK
<1>2. CASE row'.state # "outer_reviewing"
  BY <1>2 DEF HeadOK
<1>3. CASE Resumed
  <2> SUFFICES ASSUME row.state = "outer_reviewing", ~m'.pending, env # <<>>
               PROVE  /\ env[Last].commit = NoCommit
                      /\ m'.dags # NoDag => Last \in DOMAIN m'.dags /\ m'.dags[Last].state # "accepted"
    BY <1>3 DEF HeadOK, Resumed, DiskKept, Last
  <2>1. Pending = {}
    BY <1>3 DEF Resumed
  <2>2. env[Last].commit = NoCommit
    BY <1>0, <2>1, PendingIs
  <2>3. env[Last].state # "accepted"
    BY <2>2 DEF LastOK
  <2>4. m'.dags # NoDag => m'.dags = DagsFound
    BY <1>3 DEF Resumed
  <2> QED
    BY <1>0, <2>2, <2>3, <2>4 DEF DagsFound
<1>4. CASE \E plan \in DagPlans : DagAsked(plan)
  <2>1. PICK plan \in DagPlans : DagAsked(plan)
    BY <1>4
  <2> DEFINE c == Cardinality(Units)
  <2>2. /\ m.pc = "loop" /\ ~m.pending /\ row' = row /\ Seeded(plan)
        /\ m'.dags = [i \in Len(env) + 1 .. Len(env) + c |-> [state |-> "queued", rework |-> 0]]
    BY <2>1 DEF DagAsked
  <2>3. /\ c \in Nat /\ n = Len(env) + c /\ DOMAIN env' = DOMAIN env \cup (Len(env) + 1 .. Len(env) + c)
        /\ \A i \in DOMAIN env : env'[i] = env[i]
    BY <2>2 DEF Seeded
  <2>4. SUFFICES ASSUME row.state = "outer_reviewing", env' # <<>>
                 PROVE  /\ env'[n].commit = NoCommit
                        /\ m'.dags # NoDag => n \in DOMAIN m'.dags /\ m'.dags[n].state # "accepted"
    BY <2>2 DEF HeadOK, Last
  <2>5. n \in DOMAIN env'
    <3>1. env' \in Seq(Entry)
      BY DEF EnvGrows
    <3> QED
      BY <2>4, <3>1
  <2>6. CASE c = 0
    <3>1. n = Last /\ n \in DOMAIN env
      BY <1>0, <2>3, <2>5, <2>6
    <3>2. env'[n].commit = NoCommit
      BY <1>0, <2>2, <2>3, <2>4, <3>1 DEF HeadOK
    <3>3. Len(env) + 1 .. Len(env) + c = {}
      BY <1>0, <2>6
    <3>4. m'.dags = NoDag
      BY <2>2, <3>3 DEF NoDag
    <3> QED
      BY <3>2, <3>4
  <2>7. CASE c # 0
    <3>1. n \in Len(env) + 1 .. Len(env) + c /\ n \notin DOMAIN env
      BY <1>0, <2>3, <2>7
    <3>2. PICK u \in Units : n = Len(env) + u
      BY <1>0, <2>2, <2>5, <3>1, SeededAre
    <3>3. env'[Len(env) + u].commit = NoCommit
      BY <1>0, <2>2, SeededAre DEF SeededIs
    <3>4. n \in DOMAIN m'.dags /\ m'.dags[n] = [state |-> "queued", rework |-> 0]
      BY <2>2, <3>1
    <3> QED
      BY <3>2, <3>3, <3>4
  <2> QED
    BY <2>6, <2>7
<1>5. CASE Gone \/ MoveStep \/ RunAccepted \/ ReworkEnds \/ ReworkBegins \/ DagClosed \/ UnitAccepted
  <2>1. m'.pc # "loop" \/ row'.state = "dispatched"
    BY <1>5 DEF Gone, MoveStep, Move, RunAccepted, ReworkEnds, ReworkBegins, TurnOver, DagClosed, UnitAccepted, Off
  <2> QED
    BY <1>1, <1>2, <2>1
<1>6. CASE ~Gone /\ ~MoveStep /\ ~RunAccepted /\ ~ReworkEnds /\ ~ReworkBegins /\ ~DagClosed /\ ~UnitAccepted
           /\ ~Resumed /\ ~ \E plan \in DagPlans : DagAsked(plan)
  <2>1. m'.pc # "loop"
    BY <1>6 DEF Does, PendingTaken, PeersRun, AllMerged, PeerMerged, SingleWorked, WaveBegins, BatchAsked, BatchBegins,
       DagUnitBegins, UnitReused, UnitAsked, SingleBegins, PeerSeeded, PeerHandsIn, ReceiptMade, ReviewOpens, VerdictGiven
  <2> QED
    BY <1>1, <2>1
<1> QED
  BY <1>3, <1>4, <1>5, <1>6

LEMMA NextCarried ==
    ASSUME Typed, Does, EnvGrows, Trial, Unreviewed, Carried
    PROVE  Carried'
<1>0. m.outer \in Nat /\ outers \in Nat
  BY DEF Typed, TypeOK, IsEngine
<1>1. CASE Gone \/ RunAccepted \/ ReworkEnds \/ DagClosed
  <2>1. m'.pc = "off" /\ m'.wave = {}
    BY <1>1 DEF Gone, RunAccepted, ReworkEnds, DagClosed, Off
  <2>2. credited' \subseteq tree'
    BY <1>1 DEF Carried, Gone, RunAccepted, ReworkEnds, DagClosed, DiskKept, RolledBack
  <2> QED
    BY <2>1, <2>2 DEF Carried
<1>2. CASE UnitAccepted \/ ReworkBegins \/ Resumed
  <2>1. m'.pc \in {"loop", "rework_set"} /\ m'.wave = {}
    BY <1>2 DEF UnitAccepted, ReworkBegins, TurnOver, Resumed
  <2>2. credited' \subseteq tree'
    BY <1>2 DEF Carried, UnitAccepted, ReworkBegins, TurnOver, Resumed, DiskKept, RolledBack
  <2> QED
    BY <2>1, <2>2 DEF Carried
\* The steps that neither end a review nor bring a receipt.
<1>3. ASSUME credited' = credited, tree \subseteq tree', m'.wave = m.wave, m'.pre = m.pre,
             m'.decision = m.decision, m'.pc \notin {"receipt_set", "turns", "outer", "judge", "apply"}
      PROVE  Carried'
  BY <1>3 DEF Carried
<1>4. CASE MoveStep
  <2>1. /\ credited' = credited /\ tree' = tree /\ m'.wave = m.wave /\ m'.pre = m.pre /\ m'.outer = m.outer
        /\ m'.decision = m.decision /\ outers' = outers /\ Receipt' = Receipt
    BY <1>4 DEF MoveStep, Move, DiskKept, WaveKept, TrialKept, HandKept, Receipt
  <2>2. \/ m.pc = "receipt_set" /\ m'.pc = "turns"
        \/ m.pc = "turns" /\ m'.pc = "outer"
        \/ m'.pc \notin {"receipt_set", "turns", "outer", "judge", "apply"}
    BY <1>4 DEF MoveStep, Move
  <2>3. CASE m.pc = "receipt_set" /\ m'.pc = "turns"
    BY <2>1, <2>3 DEF Carried, Reviewed
  <2>4. CASE m.pc = "turns" /\ m'.pc = "outer"
    BY <2>1, <2>4 DEF Carried, Reviewed
  <2> QED
    BY <1>3, <2>1, <2>2, <2>3, <2>4
<1>5. CASE PendingTaken
  <2>1. /\ credited' = credited /\ tree' = tree /\ m'.wave = m.wave /\ m'.pre = m.pre /\ m'.outer = m.outer
        /\ m'.decision = m.decision /\ outers' = outers /\ Receipt' = Receipt /\ m'.pc = "turns" /\ m.pending
    BY <1>5 DEF PendingTaken, DiskKept, WaveKept, TrialKept, HandKept, Receipt
  <2>2. /\ m.unit \in DOMAIN env /\ env[m.unit].commit # NoCommit
        /\ row.state \in {"receipt_ready", "outer_reviewing"} /\ m.outer = 0
    BY <2>1 DEF Typed, Placed, Standing, Trial
  <2>3. outers = 0 => Reviewed
    BY <2>2 DEF Unreviewed, Unseen, NoVerdict, Landed, AllLanded, InTree, Reviewed, Receipt
  <2> QED
    BY <2>1, <2>2, <2>3 DEF Carried, Reviewed
<1>6. CASE PeersRun \/ AllMerged \/ PeerMerged \/ (\E u \in Units : PeerSeeded(u))
           \/ (\E commit \in Work : PeerHandsIn(commit)) \/ (\E done \in Work : SingleWorked(done))
           \/ DagUnitBegins \/ UnitReused \/ UnitAsked \/ (\E plan \in DagPlans : DagAsked(plan))
  BY <1>3, <1>6 DEF PeersRun, AllMerged, PeerMerged, PeerSeeded, PeerHandsIn, SingleWorked, DagUnitBegins, UnitReused,
     UnitAsked, SingleBegins, DagAsked, DiskKept, WaveKept, TrialKept
<1>7. CASE \E parts \in SUBSET Units : BatchAsked(parts)
  BY <1>3, <1>7 DEF BatchAsked, BatchBegins, WaveKept, TrialKept
<1>8. CASE WaveBegins
  BY <1>8 DEF WaveBegins, BatchBegins, Carried
<1>9. CASE ReceiptMade
  <2>1. /\ credited' = credited /\ tree' = tree /\ m'.wave = m.wave /\ m'.pre = m.pre
        /\ m'.decision = m.decision /\ m'.pc = "receipt_set" /\ m'.unit = m.unit
        /\ env'[m.unit].commit = tree
    BY <1>9 DEF ReceiptMade, WaveKept, TrialKept, HandKept, Touched
  <2> QED
    BY <2>1 DEF Carried, Receipt
<1>10. CASE ReviewOpens
  <2>1. /\ credited' = credited /\ tree' = tree /\ m'.wave = m.wave /\ m'.pre = m.pre
        /\ m'.decision = m.decision /\ Receipt' = Receipt /\ m.pc = "outer" /\ m'.pc = "judge"
        /\ m.outer + 1 > outers
    BY <1>10 DEF ReviewOpens, WaveKept, HandKept, Receipt
  <2>2. m.outer = outers
    BY <1>0, <2>1 DEF Trial
  <2> QED
    BY <2>1, <2>2 DEF Carried, Reviewed
<1>11. CASE \E decision \in Decisions : VerdictGiven(decision)
  <2>1. PICK decision \in Decisions : VerdictGiven(decision)
    BY <1>11
  <2>2. /\ m.pc = "judge" /\ m'.pc = "apply" /\ m'.decision = decision /\ tree' = tree /\ m'.wave = m.wave
        /\ m'.pre = m.pre /\ m'.unit = m.unit /\ env'[m.unit].commit = env[m.unit].commit
        /\ credited' = (IF decision = "accept" THEN credited \cup Receipt ELSE credited)
    BY <2>1 DEF VerdictGiven, HandKept, WaveKept, Marked, CommitKept
  <2>3. Receipt' = Receipt
    BY <2>2 DEF Receipt
  <2>4. m.decision = "none"
    BY <2>2 DEF Typed, Standing
  <2>5. m.outer = outers
    BY <1>0, <2>2 DEF Trial, Seen
  <2>6. Reviewed
    BY <2>2, <2>5 DEF Carried
  <2> QED
    BY <2>2, <2>3, <2>4, <2>6 DEF Carried, Reviewed
<1> QED
  BY <1>1, <1>2, <1>4, <1>5, <1>6, <1>7, <1>8, <1>9, <1>10, <1>11 DEF Does

LEMMA NextShipped == ASSUME Typed, Does, EnvGrows, HeadOK, Carried, Shipped PROVE Shipped'
<1>1. CASE row.state = "accepted"
  <2>1. m.pc = "off"
    BY <1>1 DEF Typed, Standing, Terminal
  <2>2. Gone
    BY <1>1, <2>1 DEF Does, MoveStep, Move, PendingTaken, PeersRun, AllMerged, PeerMerged, SingleWorked, WaveBegins,
       BatchAsked, BatchBegins, DagUnitBegins, UnitReused, UnitAsked, SingleBegins, DagAsked, PeerSeeded, PeerHandsIn,
       ReceiptMade, ReviewOpens, VerdictGiven, RunAccepted, UnitAccepted, ReworkEnds, ReworkBegins, TurnOver,
       Resumed, DagClosed, Terminal
  <2> QED
    BY <1>1, <2>2 DEF Shipped, Gone, DiskKept
<1>2. CASE row.state # "accepted"
  <2>1. CASE RunAccepted
    <3>1. Reviewed /\ result' = Receipt /\ credited' = credited
      BY <2>1 DEF RunAccepted, Carried
    <3>2. Receipt # NoCommit
      BY <2>1 DEF RunAccepted, Typed, Placed, Done, Receipt
    <3> QED
      BY <3>1, <3>2 DEF Shipped, Reviewed
  <2>2. ~DagClosed
    <3> SUFFICES ASSUME DagClosed PROVE FALSE
      OBVIOUS
    <3>1. /\ m.pc = "loop" /\ ~m.pending /\ m.dags # NoDag /\ Accepted(m.dags) = DOMAIN m.dags
          /\ row.state = "outer_reviewing"
      BY DEF DagClosed
    <3>2. m.dags \in [DOMAIN m.dags -> Progress] /\ DOMAIN m.dags \subseteq DOMAIN env
      BY TypeParts DEF Typed
    <3>3. DOMAIN m.dags # {}
      BY <3>1, <3>2 DEF NoDag
    <3>4. env # <<>>
      BY <3>2, <3>3, LastIs
    <3> QED
      BY <3>1, <3>4 DEF HeadOK, Accepted
  <2>3. CASE ~RunAccepted
    <3>1. row'.state # "accepted"
      BY <1>2, <2>2, <2>3 DEF Does, Gone, MoveStep, Move, PendingTaken, PeersRun, AllMerged, PeerMerged, SingleWorked,
         WaveBegins, BatchAsked, BatchBegins, DagUnitBegins, UnitReused, UnitAsked, SingleBegins, DagAsked,
         PeerSeeded, PeerHandsIn, ReceiptMade, ReviewOpens, VerdictGiven, UnitAccepted, ReworkEnds,
         ReworkBegins, TurnOver, Resumed
    <3> QED
      BY <3>1 DEF Shipped
  <2> QED
    BY <2>1, <2>3
<1> QED
  BY <1>1, <1>2

LEMMA InitCredit == Init => Credit
<1> SUFFICES ASSUME Init PROVE Credit
  OBVIOUS
<1>1. /\ env = <<>> /\ tree = {} /\ outers = 0 /\ credited = {} /\ row = [state |-> "dispatched", turns |-> 0]
      /\ m = [Off EXCEPT !.pc = "loop"]
  BY DEF Init
<1>2. /\ m.pc = "loop" /\ m.unit = 0 /\ m.dags = NoDag /\ m.pending = FALSE /\ m.reuse = FALSE
      /\ m.outer = 0 /\ m.decision = "none" /\ m.wave = {} /\ row.state = "dispatched"
  BY <1>1 DEF Off
<1>3. DOMAIN env = {}
  BY <1>1
<1>4. Crew /\ Trial
  BY <1>1, <1>2 DEF Crew, Trial, Batch, Seen
<1>5. NoVerdict /\ AtHead
  BY <1>1, <1>2, <1>3 DEF NoVerdict, AtHead
<1>6. Held /\ Doubles /\ AllLanded
  BY <1>3 DEF Held, Doubles, AllLanded
<1>7. Drafted /\ Spanned /\ Landed
  BY <1>2, <1>6 DEF Drafted, Spanned, Landed, Batch
<1>8. LastOK /\ HeadOK /\ Carried /\ Shipped
  BY <1>1, <1>2 DEF LastOK, HeadOK, Carried, Shipped
<1> QED
  BY <1>4, <1>5, <1>6, <1>7, <1>8 DEF Credit, Unreviewed, Unseen

LEMMA StutterCredit == ASSUME Credit, UNCHANGED vars PROVE Credit'
<1>1. UNCHANGED <<row, env, tree, outers, result, m, credited>>
  BY DEF vars
<1>2. Current' = Current /\ Roots' = Roots /\ FirstWave' = FirstWave /\ Receipt' = Receipt /\ Last' = Last
  BY <1>1 DEF Current, Roots, FirstWave, Receipt, Last
<1>3. Crew' /\ Trial'
  BY <1>1, <1>2 DEF Credit, Crew, CrewOK, Trial
<1>4. NoVerdict' = NoVerdict /\ AtHead' = AtHead /\ Held' = Held /\ AllLanded' = AllLanded
  BY <1>1, <1>2 DEF NoVerdict, AtHead, Held, InTree, AllLanded
<1>5. Doubles' = Doubles
  BY <1>1, <1>2 DEF Doubles, Doubled
<1>6. Drafted' = Drafted /\ Spanned' = Spanned /\ Landed' = Landed
  BY <1>1, <1>2, <1>4 DEF Drafted, Doubled, Spanned, Landed
<1>7. Unreviewed'
  BY <1>1, <1>4, <1>5, <1>6 DEF Credit, Unreviewed, Unseen
<1>8. LastOK' /\ HeadOK' /\ Carried' /\ Shipped'
  BY <1>1, <1>2 DEF Credit, LastOK, HeadOK, Carried, Reviewed, Shipped
<1> QED
  BY <1>3, <1>7, <1>8 DEF Credit

LEMMA NextCredit == ASSUME Typed, Credit, Next PROVE Credit'
<1>1. Does /\ EnvGrows
  BY NextTyped
<1> QED
  BY <1>1, NextCrew, NextTrial, NextUnreviewed, NextLast, NextHead, NextCarried, NextShipped DEF Credit

\* What is shipped has the work of every accept on the way to it: no rollback of a
\* wave, no crash and no resume has taken away what was accepted before.
THEOREM AcceptsAreShipped == Spec => []AcceptedShips
<1>1. Typed /\ Credit /\ [Next]_vars => Typed' /\ Credit'
  BY NextTyped, StutterTyped, NextCredit, StutterCredit
<1>2. Typed /\ Credit => AcceptedShips
  BY DEF Credit, Shipped, AcceptedShips
<1> QED
  BY <1>1, <1>2, InitTyped, InitCredit, PTL DEF Spec

-----------------------------------------------------------------------------
(* While the engine lives, it goes from turn to turn as the plan has it *)

Alive ==
    /\ m.pc = "off" => row.state \in Terminal
    /\ m.pending = FALSE /\ m.reuse = FALSE /\ (m.pc # "off" => m.outer = outers)
    /\ m.dags # NoDag => Accepted(m.dags) # DOMAIN m.dags

OfPlan == \A i \in DOMAIN m.dags : env[i].kind = "dag"

PartOf(w) == UNION {env[i].part : i \in w}

TheWave ==
    m.wave # {} =>
        /\ m.wave = NextWave /\ Two(m.wave) /\ m.wave_key = m.wave
        /\ env[m.unit].kind = "master" /\ env[m.unit].covers = m.wave
        /\ env[m.unit].part = PartOf(m.wave)

TheUnit ==
    m.pc \in Turns /\ m.wave = {} /\ m.dags # NoDag =>
        ReadyUnits # {} /\ m.unit = Min(ReadyUnits) /\ ~Two(NextWave)

Course == Alive /\ OfPlan /\ TheWave /\ TheUnit

\* An end that no crash has brought is one that the row knows of.
LEMMA EndKnown ==
    ASSUME TypeOK, row.state \notin Terminal, NEW to \in Exits \cap Terminal, NEW next, SetState(to, next)
    PROVE  row'.state \in Terminal
<1>1. row' = [row EXCEPT !.state = to]
  BY DEF SetState, CanTransition
<1> QED
  BY <1>1, RowIs

LEMMA FailKnown == ASSUME TypeOK, row.state \notin Terminal, FailRun PROVE row'.state \in Terminal
  BY EndKnown DEF FailRun, Exits, Terminal

LEMMA NextEnds ==
    ASSUME Typed, Alive, Next, m.pc # "off", m'.pc = "off", crashes' = 0, crashes = 0
    PROVE  row'.state \in Terminal
<1>0. TypeOK /\ row.state \notin Terminal
  BY DEF Typed, Standing
<1>1. CASE BudgetCheck
  BY <1>0, <1>1, EndKnown DEF BudgetCheck, Exits, Terminal
<1>2. CASE WaveRefused \/ AskFails \/ InnerFails \/ JudgeFails
  BY <1>0, <1>2, FailKnown DEF WaveRefused, AskFails, InnerFails, JudgeFails
<1>3. CASE Close
  <2>1. row.state = "outer_reviewing"
    BY <1>3 DEF Close, Typed, Standing
  <2> DEFINE to == IF m.decision = "reject" THEN "rejected" ELSE "escalate"
  <2>2. CanTransition(row.state, to)
    BY <2>1 DEF CanTransition, Arcs, Exits, Terminal
  <2>3. row' = [row EXCEPT !.state = to]
    BY <1>3, <2>2 DEF Close, SetState
  <2> QED
    BY <1>0, <2>3, RowIs DEF Terminal
<1>4. CASE CloseDag
  <2>1. FailRun
    BY <1>4 DEF CloseDag, Dag, Alive
  <2> QED
    BY <1>0, <2>1, FailKnown
<1>5. CASE BatchWorking \/ SingleWorking
  <2>1. CASE FailRun
    BY <1>0, <2>1, FailKnown
  <2>2. CASE ~FailRun
    <3>1. PICK p \in {"seed", "work"} : Working([m EXCEPT !.pc = p])
      BY <1>5 DEF BatchWorking, SingleWorking
    <3>2. m' = [m EXCEPT !.pc = p]
      BY <2>2, <3>1 DEF Working, SetState, Terminal
    <3> QED
      BY <1>0, <3>2 DEF TypeOK, IsEngine
  <2> QED
    BY <2>1, <2>2
<1>6. CASE SetReceiptReady \/ SetRework \/ Redispatch
  <2>1. PICK p \in PC \ {"off"}, to \in RunStates \ Terminal :
            SetState(to, [m EXCEPT !.pc = p]) /\ CanTransition(row.state, to)
    BY <1>6 DEF SetReceiptReady, SetRework, Redispatch, Typed, Standing, Inner, CanTransition, Arcs, Terminal, RunStates, PC
  <2>2. m' = [m EXCEPT !.pc = p]
    BY <2>1 DEF SetState
  <2> QED
    BY <1>0, <2>1, <2>2 DEF TypeOK, IsEngine
<1>7. CASE BeginReview
  <2>1. CASE Exhausted /\ Receipt = {}
    BY <1>0, <1>7, <2>1, EndKnown DEF BeginReview, Exits, Terminal
  <2>2. CASE ~(Exhausted /\ Receipt = {})
    <3>1. CanTransition(row.state, "outer_reviewing")
      BY <1>7 DEF BeginReview, Typed, Standing, CanTransition, Arcs, Terminal
    <3>2. m' = [m EXCEPT !.pc = "outer"]
      BY <1>7, <2>2, <3>1 DEF BeginReview, SetState, Terminal
    <3> QED
      BY <1>0, <3>2 DEF TypeOK, IsEngine
  <2> QED
    BY <2>1, <2>2
<1>8. CASE OuterWorktree
  <2>1. m.outer + 1 > outers
    BY <1>0, <1>8 DEF Alive, OuterWorktree, TypeOK, IsEngine
  <2> QED
    BY <1>0, <1>8, <2>1 DEF OuterWorktree, TypeOK, IsEngine
<1>9. CASE \E green \in BOOLEAN, d \in Decisions : Judge(green, d)
  <2>1. PICK green \in BOOLEAN, d \in Decisions : Judge(green, d)
    BY <1>9
  <2>2. CASE SetState("budget_exhausted", Off)
    BY <1>0, <2>2, EndKnown DEF Exits, Terminal
  <2>3. CASE ~SetState("budget_exhausted", Off)
    <3> DEFINE d2 == EnforceDecision(d, GatesOf(green))[1]
    <3>1. m' = [m EXCEPT !.pc = "apply", !.decision = d2]
      BY <2>1, <2>3 DEF Judge
    <3> HIDE DEF d2
    <3> QED
      BY <1>0, <3>1 DEF TypeOK, IsEngine
  <2> QED
    BY <2>2, <2>3
<1>10. CASE Accept \/ Rework
  BY <1>10, AcceptDoes, ReworkDoes DEF RunAccepted, UnitAccepted, ReworkEnds, ReworkBegins, TurnOver, Terminal
<1>11. CASE TakePending \/ RunPeers \/ Merged \/ MergePeer \/ StartWave
  BY <1>0, <1>11, TakePendingDoes, RunPeersDoes, MergedDoes, MergePeerDoes, StartWaveDoes
     DEF PendingTaken, PeersRun, AllMerged, PeerMerged, WaveBegins, BatchBegins
<1>12. CASE NextSingle \/ ReuseUnit \/ AskSingle
  BY <1>12, SinglesDo DEF DagUnitBegins, UnitReused, UnitAsked, SingleBegins
<1>13. CASE (\E parts \in SUBSET Units : AskPeers(parts)) \/ (\E plan \in DagPlans : AskDag(plan))
  BY <1>0, <1>13, AskPeersDoes, AskDagDoes DEF BatchAsked, BatchBegins, DagAsked
<1>14. CASE SeedPeer \/ ReceiptEvent \/ \E commit \in Work : PeerReceipt(commit)
  BY <1>14, SeedPeerDoes, ReceiptEventDoes, PeerReceiptDoes DEF PeerSeeded, ReceiptMade, PeerHandsIn
<1>15. CASE \E done \in Work : SingleWork(done)
  BY <1>0, <1>15, SingleWorkDoes DEF SingleWorked
<1>16. CASE Resume \/ Crash
  <2>1. Crash
    BY <1>16 DEF Resume
  <2> QED
    BY <2>1 DEF Crash
<1> QED
  BY <1>1, <1>2, <1>3, <1>4, <1>5, <1>6, <1>7, <1>8, <1>9, <1>10, <1>11, <1>12, <1>13, <1>14, <1>15, <1>16 DEF Next, Engine

LEMMA CrashesGrow == ASSUME Typed, Does, crashes' = 0 PROVE crashes = 0
<1>1. crashes \in Nat
  BY BoundsType DEF Typed, TypeOK
<1>2. crashes' = crashes \/ crashes' = crashes + 1
  BY DEF Does, Gone, MoveStep, Move, PendingTaken, PeersRun, AllMerged, PeerMerged, SingleWorked, WaveBegins,
     BatchAsked, BatchBegins, DagUnitBegins, UnitReused, UnitAsked, SingleBegins, DagAsked, PeerSeeded, PeerHandsIn,
     ReceiptMade, ReviewOpens, VerdictGiven, RunAccepted, UnitAccepted, ReworkEnds, ReworkBegins, TurnOver,
     Resumed, DagClosed, RestKept
<1> QED
  BY <1>1, <1>2

\* What a step may do to an engine that lives on.
NoMaster == \A i \in DOMAIN env' \ DOMAIN env : env'[i].covers = {}
TurnGoesOn ==
    /\ m.pc \in Turns /\ m'.pc \in Turns /\ m'.unit = m.unit /\ m'.dags = m.dags
    /\ m'.wave_key = m.wave_key /\ WaveKept /\ NoMaster
LoopGoesOn ==
    /\ m.pc \in {"rework_set", "redispatch"} /\ m'.pc \in {"redispatch", "loop"} /\ m'.dags = m.dags
    /\ m'.wave_key = m.wave_key /\ WaveKept /\ env' = env /\ tree' = tree
Begins ==
    \/ WaveBegins \/ DagUnitBegins \/ UnitAsked
    \/ \E parts \in SUBSET Units : BatchAsked(parts)
Lives ==
    \/ TurnGoesOn \/ LoopGoesOn \/ Begins
    \/ \E plan \in DagPlans : DagAsked(plan)
    \/ UnitAccepted \/ ReworkBegins

\* An engine that has lived until now has nothing to resume.
LEMMA LivesOrEnds ==
    ASSUME Typed, Alive, Does
    PROVE  \/ m'.pc = "off" /\ m' = Off
           \/ m.pc # "off" /\ m'.pc # "off" /\ Lives
<1>1. CASE Gone \/ RunAccepted \/ ReworkEnds \/ DagClosed
  <2>1. m' = Off
    BY <1>1 DEF Gone, RunAccepted, ReworkEnds, DagClosed
  <2>2. m'.pc = "off"
    BY <2>1 DEF Off
  <2> QED
    BY <2>1, <2>2
<1>2. ~Resumed /\ ~PendingTaken /\ ~UnitReused
  BY DEF Alive, Resumed, PendingTaken, UnitReused
<1>3. CASE MoveStep
  <2>1. HandKept /\ PlanKept /\ WaveKept /\ env' = env /\ tree' = tree
    BY <1>3 DEF MoveStep, Move, DiskKept
  <2>2. \/ m.pc \in Turns /\ m'.pc \in Turns
        \/ m.pc \in {"rework_set", "redispatch"} /\ m'.pc \in {"redispatch", "loop"}
    BY <1>3 DEF MoveStep, Move, Turns
  <2>3. TurnGoesOn \/ LoopGoesOn
    BY <2>1, <2>2 DEF TurnGoesOn, LoopGoesOn, HandKept, PlanKept, NoMaster
  <2> QED
    BY <2>2, <2>3 DEF Lives, Turns
<1>4. CASE PeersRun \/ AllMerged \/ PeerMerged \/ (\E done \in Work : SingleWorked(done)) \/ ReceiptMade
  <2>1. TurnGoesOn
    BY <1>4 DEF PeersRun, AllMerged, PeerMerged, SingleWorked, ReceiptMade, HandKept, PlanKept, TurnGoesOn, Turns,
       NoMaster, DiskKept, Touched
  <2> QED
    BY <2>1 DEF Lives, TurnGoesOn, Turns
<1>5. CASE (\E u \in Units : PeerSeeded(u)) \/ (\E commit \in Work : PeerHandsIn(commit)) \/ ReviewOpens
           \/ (\E decision \in Decisions : VerdictGiven(decision))
  <2>1. TurnGoesOn
    BY <1>5 DEF PeerSeeded, PeerHandsIn, ReviewOpens, VerdictGiven, HandKept, PlanKept, TurnGoesOn, Turns,
       NoMaster, NewEntry, Touched, Marked
  <2> QED
    BY <2>1 DEF Lives, TurnGoesOn, Turns
<1>6. CASE Begins \/ (\E plan \in DagPlans : DagAsked(plan)) \/ UnitAccepted \/ ReworkBegins
  <2>1. m.pc \in {"loop", "apply"} /\ m'.pc \in {"batch", "single", "loop", "rework_set"}
    BY <1>6 DEF Begins, WaveBegins, DagUnitBegins, UnitAsked, BatchAsked, BatchBegins, SingleBegins, DagAsked,
       UnitAccepted, ReworkBegins, TurnOver
  <2> QED
    BY <1>6, <2>1 DEF Lives
<1> QED
  BY <1>1, <1>2, <1>3, <1>4, <1>5, <1>6 DEF Does, Begins

LEMMA AcceptedIs ==
    ASSUME NEW d, NEW e, DOMAIN e = DOMAIN d, \A i \in DOMAIN d : e[i].state = d[i].state
    PROVE  Accepted(e) = Accepted(d)
  BY DEF Accepted

LEMMA ReworkedIs ==
    ASSUME Typed
    PROVE  DOMAIN DagsReworked = DOMAIN m.dags /\ \A i \in DOMAIN m.dags : DagsReworked[i].state = m.dags[i].state
<1>1. \A i \in DOMAIN m.dags : m.dags[i] \in Progress
  BY TypeParts DEF Typed
<1>2. ASSUME NEW i \in DOMAIN m.dags PROVE DagsReworked[i].state = m.dags[i].state
  BY <1>1 DEF DagsReworked, Progress
<1> QED
  BY <1>2 DEF DagsReworked

LEMMA AcceptedNow ==
    ASSUME Typed
    PROVE  /\ DOMAIN DagsAccepted = DOMAIN m.dags
           /\ \A i \in DOMAIN m.dags : DagsAccepted[i].state = IF i \in m.wave \cup {m.unit} THEN "accepted"
                                                               ELSE m.dags[i].state
<1>1. \A i \in DOMAIN m.dags : m.dags[i] \in Progress
  BY TypeParts DEF Typed
<1>2. ASSUME NEW i \in DOMAIN m.dags
      PROVE  DagsAccepted[i].state = IF i \in m.wave \cup {m.unit} THEN "accepted" ELSE m.dags[i].state
  BY <1>1 DEF DagsAccepted, Progress
<1> QED
  BY <1>2 DEF DagsAccepted

LEMMA NextAlive ==
    ASSUME Typed, Alive, Next, crashes' = 0
    PROVE  Alive'
<1>0. Does /\ crashes = 0
  BY NextTyped, CrashesGrow
<1>1. m'.pc = "off" => row'.state \in Terminal
  <2>1. CASE m.pc = "off"
    <3>1. row.state \in Terminal
      BY <2>1 DEF Alive
    <3>2. Next => Crash \/ Resume \/ m.pc # "off"
      BY DEF Next, Engine, BudgetCheck, TakePending, StartWave, WaveRefused, NextSingle, CloseDag, ReuseUnit, AskPeers,
         AskDag, AskFails, AskSingle, BatchWorking, SeedPeer, RunPeers, PeerReceipt, MergePeer, Merged, SingleWorking,
         SingleWork, InnerFails, ReceiptEvent, SetReceiptReady, BeginReview, OuterWorktree, Judge, JudgeFails, Accept,
         Close, Rework, SetRework, Redispatch, AtLoop, Dag, Asking
    <3> QED
      BY <2>1, <3>1, <3>2 DEF Crash, Resume
  <2>2. CASE m.pc # "off"
    BY <1>0, <2>2, NextEnds
  <2> QED
    BY <2>1, <2>2
<1>2. CASE m' = Off
  BY <1>1, <1>2 DEF Alive, Off
<1>3. CASE m.pc # "off" /\ m'.pc # "off" /\ Lives
  <2>0. ~Gone /\ ~Resumed /\ ~PendingTaken /\ ~UnitReused /\ ~RunAccepted /\ ~ReworkEnds /\ ~DagClosed
    BY <1>3 DEF Gone, Off, Resumed, Alive, PendingTaken, UnitReused, RunAccepted, ReworkEnds, DagClosed
  <2>1. m'.pending = FALSE /\ m'.reuse = FALSE
    BY <1>0, <2>0 DEF Alive, Does, MoveStep, Move, PeersRun, AllMerged, PeerMerged, SingleWorked, WaveBegins,
       BatchAsked, BatchBegins, DagUnitBegins, UnitAsked, SingleBegins, DagAsked, PeerSeeded,
       PeerHandsIn, ReceiptMade, ReviewOpens, VerdictGiven, UnitAccepted, ReworkBegins, TurnOver, FlagsKept
  <2>2. m'.outer = outers'
    BY <1>0, <1>3, <2>0 DEF Alive, Does, MoveStep, Move, PeersRun, AllMerged, PeerMerged, SingleWorked, WaveBegins,
       BatchAsked, BatchBegins, DagUnitBegins, UnitAsked, SingleBegins, DagAsked, PeerSeeded,
       PeerHandsIn, ReceiptMade, ReviewOpens, VerdictGiven, UnitAccepted, ReworkBegins, TurnOver, TrialKept, DiskKept
  <2>3. m'.dags # NoDag => Accepted(m'.dags) # DOMAIN m'.dags
    <3>1. CASE m'.dags = m.dags
      BY <3>1 DEF Alive
    <3>2. CASE \E plan \in DagPlans : DagAsked(plan)
      <4> DEFINE new == Len(env) + 1 .. Len(env) + Cardinality(Units)
      <4>1. m'.dags = [i \in new |-> [state |-> "queued", rework |-> 0]]
        BY <3>2 DEF DagAsked
      <4> HIDE DEF new
      <4>2. Accepted(m'.dags) = {}
        BY <4>1 DEF Accepted
      <4>3. new = {} => m'.dags = NoDag
        BY <4>1 DEF NoDag
      <4> QED
        BY <4>1, <4>2, <4>3
    <3>3. CASE UnitAccepted
      BY <3>3 DEF UnitAccepted
    <3>4. CASE ReworkBegins
      <4>2. DOMAIN m'.dags = DOMAIN m.dags /\ Accepted(m'.dags) = Accepted(m.dags)
        BY <3>4, ReworkedIs, AcceptedIs DEF ReworkBegins
      <4>3. m.dags = NoDag => m'.dags = NoDag
        BY <3>4 DEF ReworkBegins, DagsReworked, NoDag
      <4> QED
        BY <4>2, <4>3 DEF Alive
    <3> QED
      BY <1>3, <3>1, <3>2, <3>3, <3>4 DEF Lives, TurnGoesOn, LoopGoesOn, Begins, WaveBegins, DagUnitBegins, UnitAsked,
         BatchAsked, BatchBegins, SingleBegins, PlanKept
  <2> QED
    BY <1>3, <2>1, <2>2, <2>3 DEF Alive
<1> QED
  BY <1>0, <1>2, <1>3, LivesOrEnds

LEMMA NextOfPlan == ASSUME Typed, Alive, OfPlan, Does, EnvGrows PROVE OfPlan'
<1>0. DOMAIN m.dags \subseteq DOMAIN env /\ \A i \in DOMAIN env : env'[i].kind = env[i].kind
  BY TypeParts DEF Typed, EnvGrows, Kept
<1>1. CASE DOMAIN m'.dags \subseteq DOMAIN m.dags
  BY <1>0, <1>1 DEF OfPlan
<1>2. CASE m' = Off
  BY <1>2 DEF OfPlan, Off, NoDag
<1>3. CASE \E plan \in DagPlans : DagAsked(plan)
  <2>1. PICK plan \in DagPlans : DagAsked(plan)
    BY <1>3
  <2> DEFINE c == Cardinality(Units)
             new == Len(env) + 1 .. Len(env) + c
  <2>2. m'.dags = [i \in new |-> [state |-> "queued", rework |-> 0]] /\ Seeded(plan) /\ Envelope
    BY <2>1, LastIs DEF DagAsked
  <2>3. ASSUME NEW i \in new PROVE env'[i].kind = "dag"
    <3>1. i \in DOMAIN env' \ DOMAIN env
      BY <2>2, EnvelopeIs DEF Seeded
    <3>2. PICK u \in Units : i = Len(env) + u
      BY <2>2, <3>1, SeededAre
    <3> QED
      BY <2>2, <3>2, SeededAre DEF SeededIs
  <2> HIDE DEF new
  <2> QED
    BY <2>2, <2>3 DEF OfPlan
<1>4. CASE Lives /\ ~ \E plan \in DagPlans : DagAsked(plan)
  <2>1. m'.dags = m.dags \/ m'.dags = DagsAccepted \/ m'.dags = DagsReworked
    BY <1>4 DEF Lives, TurnGoesOn, LoopGoesOn, Begins, WaveBegins, DagUnitBegins, UnitAsked,
       BatchAsked, BatchBegins, SingleBegins, PlanKept, UnitAccepted, ReworkBegins
  <2> QED
    BY <1>1, <2>1, AcceptedNow, ReworkedIs
<1> QED
  BY <1>2, <1>3, <1>4, LivesOrEnds

\* While no unit is accepted or rejected, what is ready stays what it is.
LEMMA SameReady ==
    ASSUME Typed, EnvGrows, DOMAIN m'.dags = DOMAIN m.dags,
           \A i \in DOMAIN m.dags : m'.dags[i].state = m.dags[i].state
    PROVE  /\ Accepted(m'.dags) = Accepted(m.dags) /\ ReadyUnits' = ReadyUnits /\ NextWave' = NextWave
<1>1. Accepted(m'.dags) = Accepted(m.dags)
  BY AcceptedIs
<1>2. DOMAIN m.dags \subseteq DOMAIN env /\ DOMAIN env \subseteq DOMAIN env' /\ \A i \in DOMAIN env : Kept(i)
  BY TypeParts DEF Typed, EnvGrows
<1>3. /\ ReadyUnits = {i \in DOMAIN m.dags : /\ m.dags[i].state \notin {"accepted", "rejected"}
                                            /\ env[i].deps \subseteq Accepted(m.dags)}
      /\ ReadyUnits' = {i \in DOMAIN m'.dags : /\ m'.dags[i].state \notin {"accepted", "rejected"}
                                               /\ env'[i].deps \subseteq Accepted(m'.dags)}
  BY DEF ReadyUnits, Ready
<1>4. ReadyUnits' = ReadyUnits
  BY <1>1, <1>2, <1>3 DEF Kept
<1> DEFINE R == ReadyUnits
<1>5. R \in SUBSET (1 .. Len(env)) /\ R \in SUBSET (1 .. Len(env')) /\ Len(env) \in Nat /\ Len(env') \in Nat
      /\ R \in SUBSET Nat /\ R \subseteq DOMAIN env
  BY <1>2, ReadyAre DEF Typed, EnvGrows
<1>6. NextWave = Wave(env, R) /\ NextWave' = Wave(env', R)
  BY <1>4 DEF NextWave
<1> HIDE DEF R
<1>7. \A i \in R : env'[i].globs = env[i].globs /\ env'[i].part = env[i].part
  BY <1>2, <1>5 DEF Kept
<1>8. Wave(env, R) \in SUBSET R /\ Greedy(env, R, Wave(env, R))
  BY <1>5, WaveExists
<1>9. Wave(env', R) \in SUBSET R /\ Greedy(env', R, Wave(env', R))
  BY <1>5, WaveExists
<1>10. Wave(env', R) = Wave(env, R)
  BY <1>5, <1>7, <1>8, <1>9, WaveSame
<1> QED
  BY <1>1, <1>4, <1>6, <1>10

LEMMA NextTheWave == ASSUME Typed, Alive, TheWave, Does, EnvGrows PROVE TheWave'
<1>1. CASE m'.wave = {}
  BY <1>1 DEF TheWave
<1>2. CASE TurnGoesOn /\ m.wave # {}
  <2>1. /\ m'.unit = m.unit /\ m'.dags = m.dags /\ m'.wave = m.wave /\ m'.wave_key = m.wave_key
        /\ m.unit \in DOMAIN env
    BY <1>2 DEF TurnGoesOn, WaveKept, Typed, Placed
  <2>2. NextWave' = NextWave
    BY <2>1, SameReady
  <2>3. Kept(m.unit) /\ m.wave \subseteq DOMAIN env
    BY <2>1, TypedParts DEF EnvGrows, EngineOK
  <2>4. UNION {env'[i].part : i \in m.wave} = UNION {env[i].part : i \in m.wave}
    <3>1. \A i \in m.wave : env'[i].part = env[i].part
      BY <2>3 DEF EnvGrows, Kept
    <3> QED
      BY <3>1
  <2> QED
    BY <1>2, <2>1, <2>2, <2>3, <2>4 DEF TheWave, Kept, PartOf
<1>3. CASE WaveBegins
  <2> DEFINE n == Len(env) + 1
             w == NextWave
  <2>1. /\ m'.unit = n /\ m'.dags = m.dags /\ m'.wave = w /\ m'.wave_key = w /\ Two(w)
        /\ env'[n].kind = "master" /\ env'[n].covers = w
        /\ env'[n].part = UNION {env[i].part : i \in w}
        /\ \A i \in DOMAIN env : env'[i] = env[i]
    BY <1>3 DEF WaveBegins, BatchBegins, NewEntry
  <2>2. NextWave' = w
    BY <2>1, SameReady
  <2>3. w \subseteq DOMAIN env
    BY ReadyAre, TypeParts DEF Typed
  <2> HIDE DEF w
  <2>4. UNION {env'[i].part : i \in w} = UNION {env[i].part : i \in w}
    BY <2>1, <2>3
  <2> QED
    BY <2>1, <2>2, <2>4 DEF TheWave, PartOf
<1>4. CASE m' = Off
  BY <1>1, <1>4 DEF Off
<1>5. CASE Lives /\ ~TurnGoesOn /\ ~WaveBegins
  <2>1. m'.wave = {} \/ (m'.wave = m.wave /\ m.pc \notin Turns)
    BY <1>5 DEF Lives, LoopGoesOn, Begins, DagUnitBegins, UnitAsked, BatchAsked, BatchBegins, SingleBegins, DagAsked,
       WaveKept, UnitAccepted, ReworkBegins, TurnOver, Turns
  <2>2. m.pc \notin Turns => m.wave = {}
    BY DEF Typed, Standing
  <2> QED
    BY <1>1, <2>1, <2>2
<1> QED
  BY <1>1, <1>2, <1>3, <1>4, <1>5, LivesOrEnds DEF TurnGoesOn, WaveKept

LEMMA NextTheUnit == ASSUME Typed, Alive, TheUnit, Does, EnvGrows PROVE TheUnit'
<1>1. CASE m'.pc \notin Turns
  BY <1>1 DEF TheUnit
<1>2. CASE TurnGoesOn
  <2>1. /\ m'.unit = m.unit /\ m'.dags = m.dags /\ m'.wave = m.wave /\ m.pc \in Turns
    BY <1>2 DEF TurnGoesOn, WaveKept
  <2>2. NextWave' = NextWave /\ ReadyUnits' = ReadyUnits
    BY <2>1, SameReady
  <2> QED
    BY <2>1, <2>2 DEF TheUnit
<1>3. CASE DagUnitBegins
  <2>1. m'.dags = m.dags /\ m'.unit = Min(ReadyUnits) /\ ReadyUnits # {} /\ ~Two(NextWave)
    BY <1>3 DEF DagUnitBegins, SingleBegins, PlanKept
  <2>2. NextWave' = NextWave /\ ReadyUnits' = ReadyUnits
    BY <2>1, SameReady
  <2> QED
    BY <2>1, <2>2 DEF TheUnit
<1>4. CASE UnitAsked \/ \E parts \in SUBSET Units : BatchAsked(parts)
  <2>1. m'.dags = NoDag
    BY <1>4 DEF UnitAsked, SingleBegins, PlanKept, BatchAsked, BatchBegins
  <2> QED
    BY <2>1 DEF TheUnit
<1>5. CASE WaveBegins
  <2>1. m'.wave # {}
    BY <1>5 DEF WaveBegins, Two
  <2> QED
    BY <2>1 DEF TheUnit
<1>6. CASE LoopGoesOn \/ (\E plan \in DagPlans : DagAsked(plan)) \/ UnitAccepted \/ ReworkBegins
  <2>1. m'.pc \in {"redispatch", "loop", "rework_set"}
    BY <1>6 DEF LoopGoesOn, DagAsked, UnitAccepted, ReworkBegins, TurnOver
  <2> QED
    BY <1>1, <2>1 DEF Turns
<1>7. CASE m'.pc = "off"
  BY <1>1, <1>7 DEF Turns
<1> QED
  BY <1>2, <1>3, <1>4, <1>5, <1>6, <1>7, LivesOrEnds DEF Lives, Begins

-----------------------------------------------------------------------------
(* Memory and envelope have the same units accepted *)

Agrees ==
    \A i \in DOMAIN m.dags :
        env[i].state = "accepted" <=>
            \/ m.dags[i].state = "accepted"
            \/ m.decision = "accept" /\ i \in m.wave \cup {m.unit}

\* A verdict is given on the units of the turn, none of which has been accepted.
LEMMA TurnUnits ==
    ASSUME Typed, OfPlan, TheWave, TheUnit, m.pc \in Turns, NEW i \in DOMAIN m.dags
    PROVE  /\ i \in Covered <=> i \in m.wave \cup {m.unit}
           /\ i \in Covered => m.dags[i].state # "accepted"
<1>0. /\ m.unit \in DOMAIN env /\ DOMAIN m.dags \subseteq DOMAIN env /\ env[i].kind = "dag"
      /\ \A k \in ReadyUnits : m.dags[k].state # "accepted"
  BY TypeParts DEF Typed, Placed, OfPlan, ReadyUnits, Ready
<1>1. CASE m.wave = {}
  <2>1. m.dags # NoDag
    BY DEF NoDag
  <2>2. ReadyUnits # {} /\ m.unit = Min(ReadyUnits)
    BY <1>1, <2>1 DEF TheUnit
  <2>3. m.unit \in ReadyUnits
    BY <2>2, ReadyAre, MinIsLeast DEF Typed
  <2>4. env[m.unit].kind = "dag"
    BY <2>3 DEF OfPlan, ReadyUnits, Ready
  <2>5. env[m.unit].covers = {}
    BY <1>0, <2>4 DEF Typed, Shape
  <2> QED
    BY <1>0, <1>1, <2>3, <2>5 DEF Covered
<1>2. CASE m.wave # {}
  <2>1. m.wave = NextWave /\ env[m.unit].kind = "master" /\ env[m.unit].covers = m.wave
    BY <1>2 DEF TheWave
  <2>2. m.wave \subseteq ReadyUnits
    BY <2>1, ReadyAre DEF Typed
  <2>3. i # m.unit
    BY <1>0, <2>1
  <2> QED
    BY <1>0, <2>1, <2>2, <2>3 DEF Covered
<1> QED
  BY <1>1, <1>2

LEMMA NextAgrees ==
    ASSUME Typed, Crew, Alive, OfPlan, TheWave, TheUnit, Agrees, Does, EnvGrows
    PROVE  Agrees'
<1>0. DOMAIN m.dags \subseteq DOMAIN env /\ (m.pc # "apply" => m.decision = "none")
  BY TypeParts DEF Typed, Standing
<1>1. CASE m' = Off
  BY <1>1 DEF Agrees, Off, NoDag
\* No unit of the plan is touched, and no verdict is about.
<1>2. ASSUME m'.dags = m.dags, m.pc # "apply", m'.decision = m.decision,
             \A i \in DOMAIN m.dags : env'[i].state = env[i].state
      PROVE  Agrees'
  BY <1>0, <1>2 DEF Agrees
<1>3. ASSUME m'.dags = m.dags, m.pc # "apply", m'.decision = m.decision,
             NEW k, NEW state, NEW commit, state # "accepted", Touched(k, state, commit),
             k \in DOMAIN m.dags => m.dags[k].state # "accepted"
      PROVE  Agrees'
  <2>1. env'[k].state = state /\ \A i \in DOMAIN env \ {k} : env'[i].state = env[i].state
    BY <1>3 DEF Touched, StateKept
  <2>2. \A i \in DOMAIN m.dags : i = k \/ env'[i].state = env[i].state
    BY <1>0, <2>1
  <2> QED
    BY <1>0, <1>3, <2>1, <2>2 DEF Agrees
<1>4. CASE MoveStep \/ PeersRun \/ AllMerged \/ PeerMerged \/ (\E done \in Work : SingleWorked(done))
  <2>1. m'.dags = m.dags /\ m'.decision = m.decision /\ env' = env /\ m.pc # "apply"
    BY <1>4 DEF MoveStep, Move, PeersRun, AllMerged, PeerMerged, SingleWorked, PlanKept, TrialKept, DiskKept
  <2> QED
    BY <1>2, <2>1
<1>5. CASE ReviewOpens
  BY <1>2, <1>5 DEF ReviewOpens, PlanKept
<1>6. CASE WaveBegins \/ (\E parts \in SUBSET Units : BatchAsked(parts)) \/ (\E u \in Units : PeerSeeded(u))
  <2>1. m'.dags = m.dags /\ m'.decision = m.decision /\ m.pc # "apply" /\ \A i \in DOMAIN env : env'[i] = env[i]
    BY <1>6 DEF WaveBegins, BatchAsked, BatchBegins, PeerSeeded, NewEntry, PlanKept, TrialKept
  <2> QED
    BY <1>0, <1>2, <2>1
<1>7. CASE \E commit \in Work : PeerHandsIn(commit)
  <2>1. PICK commit \in Work : PeerHandsIn(commit)
    BY <1>7
  <2>2. /\ m'.dags = m.dags /\ m'.decision = m.decision /\ m.pc = "receipts"
        /\ Touched(m.next, "receipt_ready", commit)
    BY <2>1 DEF PeerHandsIn, PlanKept, TrialKept
  <2>3. env[m.next].kind = "peer"
    BY <2>2 DEF Crew, CrewOK, Batch, Typed, Placed, Current
  <2>4. m.next \notin DOMAIN m.dags
    BY <2>3 DEF OfPlan
  <2> QED
    BY <1>3, <2>2, <2>4
<1>8. CASE ReceiptMade
  <2>1. /\ m'.dags = m.dags /\ m'.decision = m.decision /\ m.pc = "receipt"
        /\ Touched(m.unit, "receipt_ready", tree)
    BY <1>8 DEF ReceiptMade, PlanKept, TrialKept
  <2>2. m.unit \in DOMAIN m.dags => m.dags[m.unit].state # "accepted"
    BY <2>1, TurnUnits DEF Turns, Covered
  <2> QED
    BY <1>3, <2>1, <2>2
<1>9. CASE DagUnitBegins
  <2> DEFINE k == Min(ReadyUnits)
  <2>1. /\ m'.dags = m.dags /\ m'.decision = m.decision /\ m.pc = "loop" /\ ReadyUnits # {}
        /\ Touched(k, "implementing", env[k].commit)
    BY <1>9 DEF DagUnitBegins, SingleBegins, PlanKept, TrialKept
  <2>2. k \in ReadyUnits
    BY <2>1, ReadyAre, MinIsLeast DEF Typed
  <2>3. m.dags[k].state # "accepted"
    BY <2>2 DEF ReadyUnits, Ready
  <2> HIDE DEF k
  <2> QED
    BY <1>3, <2>1, <2>3
<1>10. CASE UnitAsked
  <2>1. m'.dags = NoDag
    BY <1>10 DEF UnitAsked, SingleBegins, PlanKept
  <2> QED
    BY <2>1 DEF Agrees, NoDag
<1>11. CASE \E plan \in DagPlans : DagAsked(plan)
  <2>1. PICK plan \in DagPlans : DagAsked(plan)
    BY <1>11
  <2> DEFINE c == Cardinality(Units)
             new == Len(env) + 1 .. Len(env) + c
  <2>2. /\ m'.dags = [i \in new |-> [state |-> "queued", rework |-> 0]] /\ Seeded(plan) /\ Envelope
        /\ m.pc = "loop" /\ m'.decision = m.decision
    BY <2>1, LastIs DEF DagAsked, TrialKept
  <2>3. ASSUME NEW i \in new PROVE env'[i].state = "queued"
    <3>1. i \in DOMAIN env' \ DOMAIN env
      BY <2>2, EnvelopeIs DEF Seeded
    <3>2. PICK u \in Units : i = Len(env) + u
      BY <2>2, <3>1, SeededAre
    <3> QED
      BY <2>2, <3>2, SeededAre DEF SeededIs
  <2> HIDE DEF new
  <2> QED
    BY <1>0, <2>2, <2>3 DEF Agrees
<1>12. CASE \E decision \in Decisions : VerdictGiven(decision)
  <2>1. PICK decision \in Decisions : VerdictGiven(decision)
    BY <1>12
  <2>2. /\ m.pc = "judge" /\ m'.dags = m.dags /\ m'.decision = decision /\ m'.wave = m.wave /\ m'.unit = m.unit
        /\ \A i \in DOMAIN env \ Covered : env'[i].state = env[i].state
        /\ \A i \in DOMAIN env \cap Covered :
              /\ decision = "accept" => env'[i].state = "accepted"
              /\ decision = "reject" => env'[i].state = "rejected"
              /\ decision = "rework" => env'[i].state = "queued"
              /\ decision = "escalate" => env'[i].state = env[i].state
        /\ decision \in {"accept", "reject", "rework", "escalate"}
    BY <2>1 DEF VerdictGiven, HandKept, PlanKept, WaveKept, Marked, StateKept, Decisions
  <2>3. SUFFICES ASSUME NEW i \in DOMAIN m.dags
                 PROVE  env'[i].state = "accepted" <=>
                            \/ m.dags[i].state = "accepted"
                            \/ decision = "accept" /\ i \in m.wave \cup {m.unit}
    BY <2>2 DEF Agrees
  <2>4. /\ i \in Covered <=> i \in m.wave \cup {m.unit}
        /\ i \in Covered => m.dags[i].state # "accepted"
    BY <2>2, TurnUnits DEF Turns
  <2>5. env[i].state = "accepted" <=> m.dags[i].state = "accepted"
    BY <1>0, <2>2 DEF Agrees
  <2>6. CASE i \in Covered
    BY <1>0, <2>2, <2>4, <2>5, <2>6
  <2>7. CASE i \notin Covered
    BY <1>0, <2>2, <2>4, <2>5, <2>7
  <2> QED
    BY <2>6, <2>7
<1>13. CASE UnitAccepted
  <2>1. m.decision = "accept" /\ m'.decision = "none" /\ m'.dags = DagsAccepted /\ env' = env
    BY <1>13 DEF UnitAccepted, TurnOver
  <2> QED
    BY <2>1, AcceptedNow DEF Agrees
<1>14. CASE ReworkBegins
  <2>1. m.decision = "rework" /\ m'.decision = "none" /\ m'.dags = DagsReworked /\ env' = env
    BY <1>14 DEF ReworkBegins, TurnOver
  <2> QED
    BY <2>1, ReworkedIs DEF Agrees
<1>15. CASE Gone \/ RunAccepted \/ ReworkEnds \/ DagClosed
  BY <1>1, <1>15 DEF Gone, RunAccepted, ReworkEnds, DagClosed
<1>16. ~PendingTaken /\ ~UnitReused
  BY DEF Alive, PendingTaken, UnitReused
<1>17. CASE Resumed
  BY <1>17 DEF Alive, Resumed
<1> QED
  BY <1>4, <1>5, <1>6, <1>7, <1>8, <1>9, <1>10, <1>11, <1>12, <1>13, <1>14, <1>15, <1>16, <1>17 DEF Does

\* What holds of an engine that no crash has stopped.
Lived == crashes = 0 => Course /\ Agrees

LEMMA InitLived == Init => Lived
<1> SUFFICES ASSUME Init PROVE Course /\ Agrees
  BY DEF Lived
<1>1. /\ m = [Off EXCEPT !.pc = "loop"] /\ outers = 0
  BY DEF Init
<1>2. /\ m.pc = "loop" /\ m.dags = NoDag /\ m.pending = FALSE /\ m.reuse = FALSE
      /\ m.outer = 0 /\ m.wave = {}
  BY <1>1 DEF Off
<1>3. DOMAIN m.dags = {}
  BY <1>2 DEF NoDag
<1> QED
  BY <1>1, <1>2, <1>3 DEF Course, Alive, OfPlan, TheWave, TheUnit, Agrees, Turns

LEMMA NextLived == ASSUME Typed, Crew, Lived, Next PROVE Lived'
<1>1. Does /\ EnvGrows
  BY NextTyped
<1>2. SUFFICES ASSUME crashes' = 0 PROVE Course' /\ Agrees'
  BY DEF Lived
<1>3. Course /\ Agrees
  BY <1>1, <1>2, CrashesGrow DEF Lived
<1> QED
  BY <1>1, <1>2, <1>3, NextAlive, NextOfPlan, NextTheWave, NextTheUnit, NextAgrees DEF Course

LEMMA StutterLived == ASSUME Lived, UNCHANGED vars PROVE Lived'
<1>1. UNCHANGED <<row, env, outers, m, crashes>>
  BY DEF vars
<1>2. NextWave' = NextWave /\ ReadyUnits' = ReadyUnits /\ PartOf(m.wave)' = PartOf(m.wave)
  BY <1>1 DEF NextWave, ReadyUnits, PartOf
<1> QED
  BY <1>1, <1>2 DEF Lived, Course, Alive, OfPlan, TheWave, TheUnit, Agrees

\* Members share the verdict of their wave: at the head of the loop memory and
\* envelope have the same units accepted.
THEOREM VerdictsAreShared == Spec => []SharedVerdict
<1> DEFINE IInv == Typed /\ Credit /\ Lived
<1>1. Init => IInv
  BY InitTyped, InitCredit, InitLived
<1>2. IInv /\ [Next]_vars => IInv'
  <2>1. CASE Next
    BY <2>1, NextTyped, NextCredit, NextLived DEF Credit
  <2>2. CASE UNCHANGED vars
    BY <2>2, StutterTyped, StutterCredit, StutterLived
  <2> QED
    BY <2>1, <2>2
<1>3. IInv => SharedVerdict
  BY DEF Typed, Standing, Lived, Agrees, SharedVerdict, OnlyWaves
<1> HIDE DEF IInv
<1> QED
  BY <1>1, <1>2, <1>3, PTL DEF Spec

-----------------------------------------------------------------------------
(* The attempts at a wave *)

Attempts(w) == {i \in DOMAIN env : env[i].covers = w}
Over(w) == w \cap Accepted(m.dags) # {}
Some == (SUBSET Nat) \ {{}}

Bounded == \A w \in Some : Cardinality(Attempts(w)) <= MaxRework + 1

\* A wave that was attempted has a unit accepted, or is the one that is counted.
Count(w) ==
    /\ Attempts(w) # {} => Over(w) \/ w = m.wave_key
    /\ m.pc \notin Turns /\ w = m.wave_key =>
          \/ Over(w)
          \/ w = NextWave /\ Two(w) /\ Cardinality(Attempts(w)) <= m.wave_rework
    /\ m.pc \in Turns /\ m.wave = {} /\ w = m.wave_key => Over(w)
    /\ m.pc \in Turns /\ w = m.wave => Cardinality(Attempts(w)) <= m.wave_rework + 1

Counting == m.pc # "off" => \A w \in Some : Count(w)

LEMMA AttemptsStay ==
    ASSUME EnvGrows, NEW w \in Some, \A i \in DOMAIN env' \ DOMAIN env : env'[i].covers # w
    PROVE  Attempts(w)' = Attempts(w)
<1>1. \A i \in DOMAIN env : i \in DOMAIN env' /\ env'[i].covers = env[i].covers
  BY DEF EnvGrows, Kept
<1> QED
  BY <1>1 DEF Attempts

LEMMA NoMasterStays == ASSUME EnvGrows, NoMaster, NEW w \in Some PROVE Attempts(w)' = Attempts(w)
  BY AttemptsStay DEF NoMaster, Some

LEMMA AttemptsFinite ==
    ASSUME Typed, NEW w
    PROVE  IsFiniteSet(Attempts(w)) /\ Cardinality(Attempts(w)) \in Nat
<1>1. Len(env) \in Nat /\ DOMAIN env = 1 .. Len(env)
  BY TypedParts
<1>2. IsFiniteSet(1 .. Len(env))
  BY <1>1, FS_Interval
<1>3. Attempts(w) \subseteq 1 .. Len(env)
  BY <1>1 DEF Attempts
<1>4. IsFiniteSet(Attempts(w))
  BY <1>2, <1>3, FS_Subset
<1> QED
  BY <1>4, FS_CardinalityType

\* Without a plan there is nothing that counts.
LEMMA NothingCounts ==
    ASSUME Typed, Counting, m.dags = NoDag, m.pc = "loop", NEW w \in Some
    PROVE  w # m.wave_key /\ Attempts(w) = {}
<1>1. ReadyUnits = {}
  BY DEF ReadyUnits, Ready, NoDag
<1>2. NextWave = {}
  BY <1>1, ReadyAre DEF Typed
<1>3. ~Over(w)
  BY DEF Over, Accepted, NoDag
<1> QED
  BY <1>2, <1>3 DEF Counting, Count, Turns, Two

LEMMA WaveCounts ==
    ASSUME Typed, Counting, Bounded, WaveBegins, EnvGrows
    PROVE  Counting' /\ Bounded'
<1>0. PICK v \in SUBSET Nat : v = NextWave
  BY ReadyAre DEF Typed
<1> DEFINE n == Len(env) + 1
<1>1. /\ m.pc = "loop" /\ m'.pc = "batch" /\ m'.wave = v /\ m'.wave_key = v /\ m'.dags = m.dags
      /\ m'.wave_rework = (IF v = m.wave_key THEN m.wave_rework ELSE 0)
      /\ DOMAIN env' = DOMAIN env \cup {n} /\ n \notin DOMAIN env /\ env'[n].covers = v /\ Two(v)
      /\ \A i \in DOMAIN env : env'[i] = env[i]
  BY <1>0 DEF WaveBegins, BatchBegins, NewEntry, WaveRework
<1>2. v \in Some /\ ~Over(v)
  BY <1>0, <1>1, ReadyAre DEF Typed, Some, Two, Over, Accepted, ReadyUnits, Ready
<1>3. m.wave_rework \in Nat /\ m.wave_rework <= MaxRework /\ MaxRework \in Nat
  BY MaxReworkType, TypedParts DEF EngineOK
<1>11. NextWave' = v
  BY <1>0, <1>1, SameReady
<1>4. Attempts(v)' = Attempts(v) \cup {n} /\ n \notin Attempts(v)
  BY <1>1 DEF Attempts
<1>5. Cardinality(Attempts(v)') = Cardinality(Attempts(v)) + 1
  BY <1>4, AttemptsFinite, FS_AddElement
<1>6. Cardinality(Attempts(v)) <= m'.wave_rework
  <2>1. CASE v = m.wave_key
    BY <1>1, <1>2, <2>1 DEF Counting, Count, Turns
  <2>2. CASE v # m.wave_key
    <3>1. Attempts(v) = {}
      BY <1>1, <1>2, <2>2 DEF Counting, Count
    <3> QED
      BY <1>1, <2>2, <3>1, FS_EmptySet
  <2> QED
    BY <2>1, <2>2
<1>7. Cardinality(Attempts(v)') <= m'.wave_rework + 1 /\ Cardinality(Attempts(v)') <= MaxRework + 1
  BY <1>1, <1>3, <1>5, <1>6, AttemptsFinite
<1>8. ASSUME NEW w \in Some, w # v
      PROVE  Attempts(w)' = Attempts(w) /\ (Attempts(w) # {} => Over(w)) /\ (Over(w)' <=> Over(w))
  <2>1. Attempts(w)' = Attempts(w)
    BY <1>1, <1>8, AttemptsStay
  <2>2. Attempts(w) # {} => Over(w)
    BY <1>0, <1>1, <1>2, <1>8 DEF Counting, Count, Turns
  <2> QED
    BY <1>1, <2>1, <2>2 DEF Over
<1>9. Bounded'
  <2> SUFFICES ASSUME NEW w \in Some PROVE Cardinality(Attempts(w)') <= MaxRework + 1
    BY DEF Bounded
  <2> QED
    BY <1>7, <1>8 DEF Bounded
<1>10. Counting'
  <2> SUFFICES ASSUME NEW w \in Some PROVE Count(w)'
    BY DEF Counting
  <2>1. CASE w = v
    BY <1>1, <1>2, <1>7, <2>1 DEF Count, Turns, Some
  <2>2. CASE w # v
    BY <1>1, <1>2, <1>8, <2>2 DEF Count, Turns, Some
  <2> QED
    BY <2>1, <2>2
<1> QED
  BY <1>9, <1>10

LEMMA NextCounting ==
    ASSUME Typed, Alive, TheWave, TheUnit, Counting, Bounded, Does, EnvGrows
    PROVE  Counting' /\ Bounded'
<1>1. ASSUME \A w \in Some : Attempts(w)' = Attempts(w) PROVE Bounded'
  BY <1>1 DEF Bounded
<1>2. CASE m'.pc = "off" /\ m' = Off
  <2>1. env' = env
    <3>1. m'.pc \notin Turns /\ m'.pc \notin {"loop", "rework_set", "redispatch"}
      BY <1>2 DEF Turns
    <3> QED
      BY <3>1 DEF Does, Gone, MoveStep, Move, PendingTaken, PeersRun, AllMerged, PeerMerged, SingleWorked, WaveBegins,
         BatchAsked, BatchBegins, DagUnitBegins, UnitReused, UnitAsked, SingleBegins, DagAsked, PeerSeeded, PeerHandsIn,
         ReceiptMade, ReviewOpens, VerdictGiven, RunAccepted, UnitAccepted, ReworkEnds, ReworkBegins, TurnOver,
         Resumed, DagClosed, DiskKept, Turns
  <2> QED
    BY <1>1, <1>2, <2>1 DEF Counting, Attempts
<1>3. CASE WaveBegins
  BY <1>3, WaveCounts
<1>4. CASE TurnGoesOn
  <2>1. /\ m.pc \in Turns /\ m'.pc \in Turns /\ m'.dags = m.dags /\ m'.wave = m.wave /\ m'.wave_key = m.wave_key
        /\ m'.wave_rework = m.wave_rework /\ NoMaster
    BY <1>4 DEF TurnGoesOn, WaveKept
  <2>2. \A w \in Some : Attempts(w)' = Attempts(w)
    BY <2>1, NoMasterStays
  <2>3. m.pc # "off"
    BY <2>1 DEF Turns
  <2> QED
    BY <1>1, <2>1, <2>2, <2>3 DEF Counting, Count, Over
<1>5. CASE LoopGoesOn
  <2>1. /\ m.pc \notin Turns /\ m.pc # "off" /\ m'.pc \notin Turns /\ m'.dags = m.dags /\ m'.wave_key = m.wave_key
        /\ m'.wave_rework = m.wave_rework /\ env' = env
    BY <1>5 DEF LoopGoesOn, WaveKept, Turns
  <2>2. NextWave' = NextWave /\ \A w \in Some : Attempts(w)' = Attempts(w)
    BY <2>1, SameReady DEF Attempts
  <2> QED
    BY <1>1, <2>1, <2>2 DEF Counting, Count, Over
<1>6. CASE DagUnitBegins
  <2>1. /\ m.pc = "loop" /\ m'.pc = "single" /\ m'.dags = m.dags /\ m'.wave_key = m.wave_key /\ ~Two(NextWave)
        /\ m'.wave = m.wave /\ DOMAIN env' = DOMAIN env
    BY <1>6 DEF DagUnitBegins, SingleBegins, PlanKept, WaveKept, Touched
  <2>2. NoMaster /\ m.wave = {}
    BY <2>1 DEF NoMaster, Typed, Standing, Turns
  <2>3. \A w \in Some : Attempts(w)' = Attempts(w)
    BY <2>2, NoMasterStays
  <2>4. \A w \in Some : w # {}
    BY DEF Some
  <2> QED
    BY <1>1, <2>1, <2>2, <2>3, <2>4 DEF Counting, Count, Over, Turns
<1>7. CASE UnitAsked \/ (\E parts \in SUBSET Units : BatchAsked(parts)) \/ (\E plan \in DagPlans : DagAsked(plan))
  <2>1. /\ m.dags = NoDag /\ m.pc = "loop" /\ m'.wave_key = m.wave_key /\ m'.wave = m.wave
    BY <1>7 DEF UnitAsked, BatchAsked, BatchBegins, DagAsked, SingleBegins, PlanKept, WaveKept
  <2>2. m'.wave = {}
    BY <2>1 DEF Typed, Standing, Turns
  <2>3. NoMaster
    <3>1. CASE UnitAsked \/ (\E parts \in SUBSET Units : BatchAsked(parts))
      BY <3>1 DEF UnitAsked, BatchAsked, BatchBegins, SingleBegins, Touched, NewEntry, NoMaster
    <3>2. CASE \E plan \in DagPlans : DagAsked(plan)
      <4>1. PICK plan \in DagPlans : DagAsked(plan)
        BY <3>2
      <4>2. Seeded(plan) /\ Envelope
        BY <4>1, LastIs DEF DagAsked
      <4> SUFFICES ASSUME NEW i \in DOMAIN env' \ DOMAIN env PROVE env'[i].covers = {}
        BY DEF NoMaster
      <4>3. PICK u \in Units : i = Len(env) + u
        BY <4>2, SeededAre
      <4> QED
        BY <4>2, <4>3, SeededAre DEF SeededIs
    <3> QED
      BY <1>7, <3>1, <3>2
  <2>4. \A w \in Some : Attempts(w)' = Attempts(w) /\ Attempts(w) = {} /\ w # m.wave_key /\ w # {}
    BY <2>1, <2>3, NoMasterStays, NothingCounts DEF Some
  <2> QED
    BY <1>1, <2>1, <2>2, <2>4 DEF Counting, Count
<1>8. CASE UnitAccepted \/ ReworkBegins
  <2>1. /\ m.pc = "apply" /\ m'.pc \in {"loop", "rework_set"} /\ env' = env /\ m'.wave_key = m.wave_key
        /\ m'.dags = DagsAccepted \/ (m'.dags = DagsReworked /\ m'.wave_rework = Counted)
    BY <1>8 DEF UnitAccepted, ReworkBegins, TurnOver
  <2>2. \A w \in Some : Attempts(w)' = Attempts(w) /\ w # {}
    BY <2>1 DEF Attempts, Some
  <2>3. SUFFICES ASSUME NEW w \in Some PROVE Count(w)'
    BY <1>1, <2>2 DEF Counting
  <2>4. Count(w)
    BY <2>1 DEF Counting
  <2>5. Over(w) => Over(w)'
    <3>1. Accepted(m.dags) \subseteq Accepted(m'.dags)
      BY <2>1, AcceptedNow, ReworkedIs DEF Accepted
    <3> QED
      BY <3>1 DEF Over
  <2>6. CASE m.wave = {}
    BY <2>1, <2>2, <2>4, <2>5, <2>6 DEF Count, Turns
  <2>7. CASE m.wave # {} /\ m'.dags = DagsAccepted
    <3>1. m.wave_key = m.wave /\ m.wave \subseteq DOMAIN m.dags
      BY <2>7, TypedParts DEF TheWave, EngineOK
    <3>2. w = m.wave_key => Over(w)'
      BY <2>2, <2>7, <3>1, AcceptedNow DEF Over, Accepted
    <3> QED
      BY <2>1, <2>2, <2>4, <2>5, <3>2 DEF Count, Turns
  <2>8. CASE m.wave # {} /\ m'.dags = DagsReworked /\ m'.wave_rework = Counted
    <3>1. m.wave_key = m.wave /\ m.wave = NextWave /\ Two(m.wave)
      BY <2>8 DEF TheWave
    <3>2. NextWave' = NextWave
      BY <2>8, ReworkedIs, SameReady
    <3>3. Counted = m.wave_rework + 1
      BY <2>8 DEF Counted
    <3> QED
      BY <2>1, <2>2, <2>4, <2>5, <2>8, <3>1, <3>2, <3>3 DEF Count, Turns
  <2> QED
    BY <2>1, <2>6, <2>7, <2>8
<1> QED
  BY <1>2, <1>3, <1>4, <1>5, <1>6, <1>7, <1>8, LivesOrEnds DEF Lives, Begins

LEMMA InitBounded == Init => Bounded /\ Counting
<1> SUFFICES ASSUME Init PROVE Bounded /\ Counting
  OBVIOUS
<1>1. /\ env = <<>> /\ m = [Off EXCEPT !.pc = "loop"]
  BY DEF Init
<1>2. m.pc = "loop" /\ m.wave_key = {} /\ m.wave = {}
  BY <1>1 DEF Off
<1>3. \A w \in Some : Attempts(w) = {} /\ w # {}
  BY <1>1 DEF Attempts, Some
<1>4. Cardinality({}) = 0 /\ MaxRework \in Nat
  BY FS_EmptySet, MaxReworkType
<1> QED
  BY <1>2, <1>3, <1>4 DEF Bounded, Counting, Count, Turns

LEMMA StutterBounded == ASSUME Bounded, Counting, UNCHANGED vars PROVE Bounded' /\ Counting'
<1>1. env' = env /\ m' = m
  BY DEF vars
<1>2. \A w \in Some : Attempts(w)' = Attempts(w)
  BY <1>1 DEF Attempts
<1>3. NextWave' = NextWave
  BY <1>1 DEF NextWave, ReadyUnits
<1>4. \A w \in Some : Count(w) => Count(w)'
  BY <1>1, <1>2, <1>3 DEF Count, Over
<1> QED
  BY <1>1, <1>2, <1>4 DEF Bounded, Counting

Measured == crashes = 0 => Bounded /\ Counting

\* MAX_REWORK bounds the attempts at a wave, although each has a new master.
THEOREM WavesAreLimited == Spec => []WaveLimit
<1> DEFINE IInv == Typed /\ Crew /\ Lived /\ Measured
<1>1. Init => IInv
  BY InitTyped, InitCredit, InitLived, InitBounded DEF Credit, Measured
<1>2. IInv /\ [Next]_vars => IInv'
  <2>1. CASE Next
    <3> SUFFICES ASSUME IInv PROVE IInv'
      BY <2>1
    <3>1. Does /\ EnvGrows /\ Typed' /\ Crew' /\ Lived'
      BY <2>1, NextTyped, NextCrew, NextLived
    <3>2. ASSUME crashes' = 0 PROVE Bounded' /\ Counting'
      <4>1. crashes = 0
        BY <3>1, <3>2, CrashesGrow
      <4> QED
        BY <3>1, <4>1, NextCounting DEF Lived, Course, Measured
    <3> QED
      BY <3>1, <3>2 DEF Measured
  <2>2. CASE UNCHANGED vars
    <3>1. Crew => Crew'
      BY <2>2 DEF vars, Crew, CrewOK, Current
    <3>2. crashes' = crashes
      BY <2>2 DEF vars
    <3> QED
      BY <2>2, <3>1, <3>2, StutterTyped, StutterLived, StutterBounded DEF Measured
  <2> QED
    BY <2>1, <2>2
<1>3. IInv => WaveLimit
  <2> SUFFICES ASSUME IInv, crashes = 0, NEW w \in {env[i].covers : i \in DOMAIN env} \ {{}}
               PROVE  Cardinality({i \in DOMAIN env : env[i].covers = w}) <= MaxRework + 1
    BY DEF WaveLimit
  <2>1. w \in Some
    <3>1. PICK i \in DOMAIN env : env[i].covers = w
      OBVIOUS
    <3>2. env[i].covers \subseteq 1 .. i - 1
      BY TypeParts DEF Typed
    <3>3. w \subseteq Nat
      BY <3>1, <3>2
    <3> QED
      BY <3>3 DEF Some
  <2> QED
    BY <2>1 DEF Measured, Bounded, Attempts
<1> HIDE DEF IInv
<1> QED
  BY <1>1, <1>2, <1>3, PTL DEF Spec

-----------------------------------------------------------------------------
(* What is about to be picked is not on the branch *)

DoneWork == PartOf(Accepted(m.dags))

Distinct == \A i, j \in DOMAIN m.dags : i # j => env[i].part \cap env[j].part = {}

\* The peers of a batch have no work in common.
Strangers ==
    m.pc \in Batch =>
        /\ \A k, l \in Current : k # l => env[k].part \cap env[l].part = {}
        /\ \A k \in Current : env[k].part \cap m.drafts = {}

Planless == m.dags = NoDag => env = <<>> /\ tree = {}

\* A single unit that is to be reworked leaves its work; a wave leaves none.
Leftover ==
    m.pc \notin Turns =>
        \/ tree \subseteq DoneWork
        \/ ReadyUnits # {} /\ ~Two(NextWave) /\ tree \subseteq DoneWork \cup env[Min(ReadyUnits)].part

\* The peers whose commits are picked already.
Picked == {k \in Current : k < m.next}

Underway ==
    m.pc \in Turns =>
        /\ m.dags # NoDag /\ tree \subseteq DoneWork \cup env[m.unit].part
        /\ m.wave # {} =>
              /\ m.pre \subseteq DoneWork
              /\ m.pc \in Batch \ {"merge"} => tree \subseteq DoneWork
              /\ m.pc = "merge" => tree \subseteq DoneWork \cup PartOf(Picked)

Clean == Distinct /\ Strangers /\ Planless /\ Leftover /\ Underway

LEMMA DoneStays ==
    ASSUME Typed, EnvGrows, DOMAIN m'.dags = DOMAIN m.dags,
           \A i \in DOMAIN m.dags : m'.dags[i].state = m.dags[i].state
    PROVE  DoneWork' = DoneWork /\ (Distinct => Distinct')
<1>1. DOMAIN m.dags \subseteq DOMAIN env /\ \A i \in DOMAIN env : env'[i].part = env[i].part
  BY TypeParts DEF Typed, EnvGrows, Kept
<1>2. Accepted(m'.dags) = Accepted(m.dags) /\ Accepted(m.dags) \subseteq DOMAIN m.dags
  BY AcceptedIs DEF Accepted
<1>3. UNION {env'[i].part : i \in Accepted(m'.dags)} = UNION {env[i].part : i \in Accepted(m.dags)}
  BY <1>1, <1>2
<1> QED
  BY <1>1, <1>3 DEF DoneWork, PartOf, Distinct

LEMMA TurnsGrow ==
    ASSUME Typed, Crew, TurnGoesOn, Does
    PROVE  /\ tree \subseteq tree' /\ tree' \subseteq tree \cup env[m.unit].part
           /\ m'.pc \in Batch \ {"merge"} => m.pc \in Batch \ {"merge"} /\ tree' = tree
           /\ m'.pc = "merge" => \/ m.pc = "receipts" /\ tree' = tree /\ m'.next = m.unit + 1
                                 \/ m.pc = "merge" /\ m'.next = m.next + 1
                                    /\ tree' \subseteq tree \cup env[m.next].part /\ m.next \in Current
<1>0. m.pc \in Turns /\ m'.pc \in Turns
  BY DEF TurnGoesOn
<1>1. CASE tree' = tree /\ m'.pc \notin Batch
  BY <1>1 DEF Batch
<1>2. CASE MoveStep
  <2>1. tree' = tree /\ (m'.pc \in Batch => m.pc = "batch" /\ m'.pc = "seed")
    BY <1>2 DEF MoveStep, Move, DiskKept, Batch
  <2> QED
    BY <2>1 DEF Batch
<1>3. CASE PeersRun \/ AllMerged \/ (\E u \in Units : PeerSeeded(u))
  BY <1>3 DEF PeersRun, AllMerged, PeerSeeded, DiskKept, Batch
<1>4. CASE \E commit \in Work : PeerHandsIn(commit)
  BY <1>4 DEF PeerHandsIn, Batch
<1>5. CASE PeerMerged
  <2>1. /\ m.pc = "merge" /\ m'.pc = "merge" /\ m'.next = m.next + 1 /\ m.next \in DOMAIN env
        /\ env[m.next].commit # {} /\ tree' = tree \cup env[m.next].commit
    BY <1>5 DEF PeerMerged
  <2>2. m.next \in Current
    BY <2>1, TypedParts DEF Placed, Current, EngineOK
  <2>3. env[m.next].commit = env[m.next].part
    BY <2>1, <2>2 DEF Typed, Placed, Current
  <2>4. env[m.next].part \subseteq env[m.unit].part
    BY <2>1, <2>2 DEF Crew, CrewOK, Batch
  <2> QED
    BY <2>1, <2>2, <2>3, <2>4 DEF Batch
<1>6. CASE \E done \in Work : SingleWorked(done)
  <2>1. PICK done \in Work : SingleWorked(done)
    BY <1>6
  <2> QED
    BY <2>1 DEF SingleWorked, Batch
<1>7. CASE ReceiptMade \/ ReviewOpens \/ (\E decision \in Decisions : VerdictGiven(decision))
  BY <1>7 DEF ReceiptMade, ReviewOpens, VerdictGiven, Batch
<1>8. m.pc # "loop" /\ m'.pc # "loop" /\ m'.pc # "off" /\ m'.pc # "rework_set"
  BY <1>0 DEF Turns
<1>9. ~Gone /\ ~RunAccepted /\ ~ReworkEnds /\ ~DagClosed
  <2>1. Off.pc = "off"
    BY DEF Off
  <2> QED
    BY <1>8, <2>1 DEF Gone, RunAccepted, ReworkEnds, DagClosed
<1> QED
  BY <1>2, <1>3, <1>4, <1>5, <1>6, <1>7, <1>8, <1>9 DEF Does, PendingTaken, WaveBegins, BatchAsked, BatchBegins,
     DagUnitBegins, UnitReused, UnitAsked, SingleBegins, DagAsked, UnitAccepted, ReworkBegins, TurnOver, Resumed

LEMMA NextStrangers == ASSUME Typed, Crew, Strangers, Does, EnvGrows PROVE Strangers'
<1>0. \A k \in Current : k \in DOMAIN env /\ k \in Nat
  BY CurrentIs
<1>1. CASE m'.pc \notin Batch
  BY <1>1 DEF Strangers
<1>2. CASE WaveBegins \/ \E parts \in SUBSET Units : BatchAsked(parts)
  <2>1. m'.unit = Len(env) + 1 /\ Len(env') = Len(env) + 1 /\ Len(env) \in Nat
    BY <1>2, TypedParts DEF WaveBegins, BatchAsked, BatchBegins, NewEntry
  <2>2. Current' = {}
    BY <2>1 DEF Current
  <2> QED
    BY <2>2 DEF Strangers
<1>3. CASE \E u \in Units : PeerSeeded(u)
  <2>1. PICK u \in Units : PeerSeeded(u)
    BY <1>3
  <2> DEFINE n == Len(env) + 1
  <2>2. /\ m.pc = "seed" /\ u \in m.drafts /\ m'.drafts = m.drafts \ {u} /\ m'.unit = m.unit
        /\ Len(env') = n /\ n \notin DOMAIN env /\ env'[n].part = {u}
        /\ \A i \in DOMAIN env : env'[i] = env[i]
    BY <2>1 DEF PeerSeeded, NewEntry, HandKept
  <2>3. m.unit \in DOMAIN env /\ m.unit \in 1 .. Len(env) /\ Len(env) \in Nat
    BY <2>2, TypedParts DEF Placed, Turns
  <2>4. Current' = Current \cup {n}
    BY <2>2, <2>3 DEF Current
  <2>5. \A k \in Current : env'[k].part = env[k].part /\ env[k].part \cap m.drafts = {}
    BY <1>0, <2>2 DEF Strangers, Batch
  <2>6. \A k, l \in Current : k # l => env[k].part \cap env[l].part = {}
    BY <2>2 DEF Strangers, Batch
  <2>7. ASSUME NEW k \in Current', NEW l \in Current', k # l PROVE env'[k].part \cap env'[l].part = {}
    BY <2>2, <2>4, <2>5, <2>6, <2>7
  <2>8. ASSUME NEW k \in Current' PROVE env'[k].part \cap m'.drafts = {}
    BY <2>2, <2>4, <2>5, <2>8
  <2> QED
    BY <2>7, <2>8 DEF Strangers
<1>4. ASSUME m.pc \in Batch, m'.unit = m.unit, m'.drafts = m.drafts, Len(env') = Len(env)
      PROVE  Strangers'
  <2>1. Current' = Current
    BY <1>4 DEF Current
  <2>2. \A k \in Current : env'[k].part = env[k].part
    BY <1>0 DEF EnvGrows, Kept
  <2> QED
    BY <1>4, <2>1, <2>2 DEF Strangers
<1>5. CASE Move("batch", "seed", "inner_working") \/ PeersRun \/ PeerMerged
  BY <1>4, <1>5 DEF Move, PeersRun, PeerMerged, HandKept, PeersKept, DiskKept, Batch
<1>6. CASE \E commit \in Work : PeerHandsIn(commit)
  BY <1>4, <1>6 DEF PeerHandsIn, HandKept, Touched, Batch
<1>7. CASE MoveStep /\ ~Move("batch", "seed", "inner_working")
  BY <1>1, <1>7 DEF MoveStep, Move, Batch
<1>8. CASE Gone \/ RunAccepted \/ ReworkEnds \/ DagClosed
  <2>1. m'.pc = "off"
    BY <1>8 DEF Gone, RunAccepted, ReworkEnds, DagClosed, Off
  <2> QED
    BY <1>1, <2>1 DEF Batch
<1>9. CASE PendingTaken \/ AllMerged \/ (\E done \in Work : SingleWorked(done)) \/ DagUnitBegins \/ UnitReused
           \/ UnitAsked \/ (\E plan \in DagPlans : DagAsked(plan)) \/ ReceiptMade \/ ReviewOpens
           \/ (\E decision \in Decisions : VerdictGiven(decision)) \/ UnitAccepted \/ ReworkBegins \/ Resumed
  <2>1. m'.pc \in {"turns", "receipt", "single", "loop", "receipt_set", "judge", "apply", "rework_set"}
    BY <1>9 DEF PendingTaken, AllMerged, SingleWorked, DagUnitBegins, UnitReused, UnitAsked, SingleBegins,
       DagAsked, ReceiptMade, ReviewOpens, VerdictGiven, UnitAccepted, ReworkBegins, TurnOver, Resumed
  <2> QED
    BY <1>1, <2>1 DEF Batch
<1> QED
  BY <1>2, <1>3, <1>5, <1>6, <1>7, <1>8, <1>9 DEF Does

\* What the accept of a turn adds to the work that is done.
LEMMA AcceptAdds ==
    ASSUME Typed, OfPlan, TheWave, TheUnit, m.dags # NoDag, m.pc \in Turns
    PROVE  /\ m.wave \cup ({m.unit} \cap DOMAIN m.dags) \subseteq DOMAIN m.dags
           /\ m.wave = {} => m.unit \in DOMAIN m.dags
           /\ m.wave # {} => env[m.unit].part = PartOf(m.wave) /\ m.wave \cap Accepted(m.dags) = {}
           /\ DOMAIN m.dags # {}
<1>1. m.wave \subseteq DOMAIN m.dags
  BY TypedParts DEF EngineOK
<1>2. CASE m.wave = {}
  <2>1. ReadyUnits # {} /\ m.unit = Min(ReadyUnits)
    BY <1>2 DEF TheUnit
  <2>2. m.unit \in DOMAIN m.dags
    BY <2>1, ReadyAre, MinIsLeast DEF Typed
  <2> QED
    BY <1>1, <1>2, <2>2
<1>3. CASE m.wave # {}
  <2>1. m.wave = NextWave /\ env[m.unit].part = PartOf(m.wave)
    BY <1>3 DEF TheWave
  <2>2. m.wave \subseteq ReadyUnits
    BY <2>1, ReadyAre DEF Typed
  <2>3. m.wave \cap Accepted(m.dags) = {}
    BY <2>2 DEF ReadyUnits, Ready, Accepted
  <2> QED
    BY <1>1, <1>3, <2>1, <2>3
<1> QED
  BY <1>2, <1>3

\* What the steps of a turn keep.
LEMMA TurnClean ==
    ASSUME Typed, Crew, OfPlan, TheWave, TheUnit, Clean, TurnGoesOn, Does, EnvGrows
    PROVE  Distinct' /\ Planless' /\ Leftover' /\ Underway'
<1>1. /\ m.pc \in Turns /\ m'.pc \in Turns /\ m'.unit = m.unit /\ m'.dags = m.dags /\ m'.wave = m.wave
      /\ m'.pre = m.pre /\ m.unit \in DOMAIN env
  BY DEF TurnGoesOn, WaveKept, Typed, Placed
<1>2. DoneWork' = DoneWork /\ Distinct'
  BY <1>1, DoneStays DEF Clean
<1>3. env'[m.unit].part = env[m.unit].part
  BY <1>1 DEF EnvGrows, Kept
<1>4. m.dags # NoDag /\ tree \subseteq DoneWork \cup env[m.unit].part
  BY <1>1 DEF Clean, Underway
<1>5. tree' \subseteq DoneWork \cup env[m.unit].part
  BY <1>4, TurnsGrow
<1>6. ASSUME m.wave # {}, m'.pc \in Batch \ {"merge"} PROVE tree' \subseteq DoneWork
  BY <1>1, <1>6, TurnsGrow DEF Clean, Underway
<1>7. ASSUME m.wave # {}, m'.pc = "merge" PROVE tree' \subseteq (DoneWork \cup PartOf(Picked))'
  <2>0. /\ m.unit \in Nat /\ m.next \in Nat /\ Len(env) \in Nat /\ m'.unit \in Nat
        /\ Current \subseteq DOMAIN env /\ \A k \in Current : k \in Nat
    BY <1>1, TypedParts, CurrentIs DEF EngineOK
  <2>1. CASE m.pc = "receipts" /\ tree' = tree
    BY <1>1, <1>2, <1>7, <2>1 DEF Clean, Underway, Batch
  <2>2. CASE /\ m.pc = "merge" /\ m'.next = m.next + 1
             /\ tree' \subseteq tree \cup env[m.next].part /\ m.next \in Current
    <3>1. tree \subseteq DoneWork \cup PartOf(Picked)
      BY <1>1, <1>7, <2>2 DEF Clean, Underway
    <3>2. Current \subseteq Current' /\ \A k \in Current : env'[k].part = env[k].part
      BY <1>1, <2>0 DEF Current, EnvGrows, Kept
    <3>3. Picked \subseteq Picked' /\ m.next \in Picked'
      BY <2>0, <2>2, <3>2 DEF Picked
    <3>4. PartOf(Picked) \cup env[m.next].part \subseteq PartOf(Picked)'
      <4>1. \A k \in Picked \cup {m.next} : k \in Current
        BY <2>2 DEF Picked
      <4>2. \A k \in Picked \cup {m.next} : k \in Picked' /\ env'[k].part = env[k].part
        BY <3>2, <3>3, <4>1
      <4> QED
        BY <4>2 DEF PartOf
    <3> QED
      BY <1>2, <2>2, <3>1, <3>4
  <2>3. \/ m.pc = "receipts" /\ tree' = tree /\ m'.next = m.unit + 1
        \/ m.pc = "merge" /\ m'.next = m.next + 1
             /\ tree' \subseteq tree \cup env[m.next].part /\ m.next \in Current
    BY <1>7, TurnsGrow
  <2> QED
    BY <2>1, <2>2, <2>3
<1>8. Leftover' /\ Planless'
  BY <1>1, <1>4 DEF Leftover, Planless
<1>9. Underway'
  <2>1. m.wave # {} => m'.pre \subseteq DoneWork'
    BY <1>1, <1>2 DEF Clean, Underway
  <2>2. tree' \subseteq DoneWork' \cup env'[m'.unit].part /\ m'.dags # NoDag
    BY <1>1, <1>2, <1>3, <1>4, <1>5
  <2> QED
    BY <1>1, <1>2, <1>6, <1>7, <2>1, <2>2 DEF Underway
<1> QED
  BY <1>2, <1>8, <1>9

LEMMA WaveBeginsClean ==
    ASSUME Typed, Clean, WaveBegins, EnvGrows
    PROVE  Distinct' /\ Planless' /\ Leftover' /\ Underway'
<1>1. /\ m.pc = "loop" /\ m'.pc = "batch" /\ m'.dags = m.dags /\ m.dags # NoDag /\ tree' = tree /\ m'.pre = tree
      /\ Two(NextWave)
  BY DEF WaveBegins, BatchBegins
<1>2. DoneWork' = DoneWork /\ Distinct'
  BY <1>1, DoneStays DEF Clean
<1>3. tree \subseteq DoneWork
  BY <1>1 DEF Clean, Leftover, Turns
<1>4. tree' \subseteq DoneWork' /\ m'.pre \subseteq DoneWork'
  BY <1>1, <1>2, <1>3
<1> QED
  BY <1>1, <1>2, <1>4 DEF Planless, Leftover, Underway, Turns

LEMMA UnitBeginsClean ==
    ASSUME Typed, Clean, DagUnitBegins, EnvGrows
    PROVE  Distinct' /\ Planless' /\ Leftover' /\ Underway'
<1> DEFINE u == Min(ReadyUnits)
<1>1. /\ m.pc = "loop" /\ m'.pc = "single" /\ m'.dags = m.dags /\ m.dags # NoDag /\ tree' = tree
      /\ m'.wave = m.wave /\ m'.unit = u /\ u \in DOMAIN env
  BY DEF DagUnitBegins, SingleBegins, PlanKept, WaveKept
<1> HIDE DEF u
<1>2. DoneWork' = DoneWork /\ Distinct'
  BY <1>1, DoneStays DEF Clean
<1>3. tree \subseteq DoneWork \cup env[u].part
  BY <1>1 DEF Clean, Leftover, Turns, u
<1>4. env'[u].part = env[u].part
  BY <1>1 DEF EnvGrows, Kept
<1>5. m'.wave = {}
  BY <1>1 DEF Typed, Standing, Turns
<1> QED
  BY <1>1, <1>2, <1>3, <1>4, <1>5 DEF Planless, Leftover, Underway, Turns

LEMMA DagAskedClean ==
    ASSUME Typed, Clean, NEW plan \in DagPlans, DagAsked(plan)
    PROVE  Distinct' /\ Planless' /\ Leftover' /\ Underway'
<1> DEFINE c == Cardinality(Units)
           new == Len(env) + 1 .. Len(env) + c
<1>1. /\ m.dags = NoDag /\ m'.dags = [i \in new |-> [state |-> "queued", rework |-> 0]]
      /\ Seeded(plan) /\ tree' = tree /\ m'.pc = "loop" /\ c \in Nat
  BY DEF DagAsked, Seeded
<1>2. env = <<>> /\ tree = {} /\ Envelope /\ Len(env) = 0
  BY <1>1, TypeParts DEF Clean, Planless, Typed
<1>3. new = 1 .. c /\ DOMAIN m'.dags = 1 .. c
  BY <1>1, <1>2
<1>4. ASSUME NEW i \in 1 .. c PROVE env'[i].part = {i}
  <2>1. Units = 1 .. c
    BY <1>1 DEF Seeded
  <2>2. SeededIs(plan, i) /\ Len(env) + i = i
    BY <1>1, <1>2, <1>4, <2>1, SeededAre
  <2> QED
    BY <2>2 DEF SeededIs
<1>5. Distinct'
  BY <1>3, <1>4 DEF Distinct
<1>6. Planless'
  <2> SUFFICES ASSUME m'.dags = NoDag PROVE env' = <<>> /\ tree' = {}
    BY DEF Planless
  <2>1. 1 .. c = {}
    BY <1>3 DEF NoDag
  <2>2. c = 0
    BY <1>1, <2>1
  <2>3. env' \in Seq(Entry) /\ Len(env') = 0
    BY <1>1, <1>2, <2>2 DEF Seeded
  <2> QED
    BY <1>1, <1>2, <2>3
<1>7. tree' = {}
  BY <1>1, <1>2
<1> QED
  BY <1>1, <1>5, <1>6, <1>7 DEF Leftover, Underway, Turns

LEMMA AcceptClean ==
    ASSUME Typed, OfPlan, TheWave, TheUnit, Clean, UnitAccepted
    PROVE  Distinct' /\ Planless' /\ Leftover' /\ Underway'
<1>1. /\ m.pc = "apply" /\ m'.pc = "loop" /\ m'.dags = DagsAccepted /\ env' = env /\ tree' = tree
  BY DEF UnitAccepted, TurnOver
<1>2. m.dags # NoDag /\ tree \subseteq DoneWork \cup env[m.unit].part
  BY <1>1 DEF Clean, Underway, Turns
<1>3. /\ m.wave \cup ({m.unit} \cap DOMAIN m.dags) \subseteq DOMAIN m.dags
      /\ m.wave = {} => m.unit \in DOMAIN m.dags
      /\ m.wave # {} => env[m.unit].part = PartOf(m.wave)
      /\ DOMAIN m.dags # {}
  BY <1>1, <1>2, AcceptAdds DEF Turns
<1>4. /\ DOMAIN m'.dags = DOMAIN m.dags
      /\ \A i \in DOMAIN m.dags : m'.dags[i].state = IF i \in m.wave \cup {m.unit} THEN "accepted" ELSE m.dags[i].state
  BY <1>1, AcceptedNow
<1>5. Accepted(m.dags) \cup m.wave \subseteq Accepted(m'.dags) /\ (m.wave = {} => m.unit \in Accepted(m'.dags))
  BY <1>3, <1>4 DEF Accepted
<1>6. DoneWork' = UNION {env[i].part : i \in Accepted(m'.dags)}
  BY <1>1 DEF DoneWork, PartOf
<1>7. DoneWork \subseteq DoneWork' /\ PartOf(m.wave) \subseteq DoneWork'
  BY <1>5, <1>6 DEF DoneWork, PartOf
<1>8. env[m.unit].part \subseteq DoneWork'
  <2>1. CASE m.wave = {}
    BY <1>5, <1>6, <2>1
  <2>2. CASE m.wave # {}
    BY <1>3, <1>7, <2>2
  <2> QED
    BY <2>1, <2>2
<1>9. tree' \subseteq DoneWork'
  BY <1>1, <1>2, <1>7, <1>8
<1>10. Distinct'
  BY <1>1, <1>4 DEF Clean, Distinct
<1>11. m'.dags # NoDag
  BY <1>3, <1>4 DEF NoDag
<1> QED
  BY <1>1, <1>9, <1>10, <1>11 DEF Planless, Leftover, Underway, Turns

LEMMA ReworkClean ==
    ASSUME Typed, TheUnit, Clean, ReworkBegins, EnvGrows
    PROVE  Distinct' /\ Planless' /\ Leftover' /\ Underway'
<1>1. /\ m.pc = "apply" /\ m'.pc = "rework_set" /\ m'.dags = DagsReworked /\ env' = env /\ tree' = RolledBack
  BY DEF ReworkBegins, TurnOver
<1>2. DOMAIN m'.dags = DOMAIN m.dags /\ \A i \in DOMAIN m.dags : m'.dags[i].state = m.dags[i].state
  BY <1>1, ReworkedIs
<1>3. DoneWork' = DoneWork /\ Distinct' /\ ReadyUnits' = ReadyUnits /\ NextWave' = NextWave
  BY <1>2, DoneStays, SameReady DEF Clean
<1>4. m.dags # NoDag /\ tree \subseteq DoneWork \cup env[m.unit].part /\ (m.wave # {} => m.pre \subseteq DoneWork)
  BY <1>1 DEF Clean, Underway, Turns
<1>5. Leftover'
  <2>1. CASE m.wave = {}
    <3>1. ReadyUnits # {} /\ m.unit = Min(ReadyUnits) /\ ~Two(NextWave)
      BY <1>1, <1>4, <2>1 DEF TheUnit, Turns
    <3>2. tree' = tree
      BY <1>1, <2>1 DEF RolledBack
    <3> QED
      BY <1>1, <1>3, <1>4, <3>1, <3>2 DEF Leftover
  <2>2. CASE m.wave # {}
    BY <1>1, <1>3, <1>4, <2>2 DEF Leftover, RolledBack
  <2> QED
    BY <2>1, <2>2
<1>6. m'.dags # NoDag
  <2>1. m.dags = NoDag <=> DOMAIN m.dags = {}
    BY TypeParts DEF Typed, NoDag
  <2> QED
    BY <1>2, <1>4, <2>1 DEF NoDag
<1> QED
  BY <1>1, <1>3, <1>5, <1>6 DEF Planless, Underway, Turns

LEMMA LoopClean ==
    ASSUME Typed, Clean, LoopGoesOn, EnvGrows
    PROVE  Distinct' /\ Planless' /\ Leftover' /\ Underway'
<1>1. /\ m.pc \notin Turns /\ m'.pc \notin Turns /\ m'.dags = m.dags /\ env' = env /\ tree' = tree
  BY DEF LoopGoesOn, Turns
<1>2. DoneWork' = DoneWork /\ Distinct' /\ ReadyUnits' = ReadyUnits /\ NextWave' = NextWave
  BY <1>1, DoneStays, SameReady DEF Clean
<1> QED
  BY <1>1, <1>2 DEF Clean, Planless, Leftover, Underway

\* While there are waves only.
LEMMA NextClean ==
    ASSUME Typed, Crew, Course, Clean, OnlyWaves', Does, EnvGrows, m'.pc # "off"
    PROVE  Clean'
<1>1. Lives /\ Strangers'
  <2>1. m' # Off
    BY DEF Off
  <2> QED
    BY <2>1, LivesOrEnds, NextStrangers DEF Course, Clean
<1>2. ~ UnitAsked
  <2> SUFFICES ASSUME UnitAsked PROVE FALSE
    OBVIOUS
  <2>1. m.dags = NoDag /\ m.unit \in DOMAIN env
    BY DEF UnitAsked, SingleBegins
  <2>2. env = <<>>
    BY <2>1 DEF Clean, Planless
  <2> QED
    BY <2>1, <2>2
<1>3. ~ \E parts \in SUBSET Units : BatchAsked(parts)
  <2> SUFFICES ASSUME NEW parts \in SUBSET Units, BatchAsked(parts) PROVE FALSE
    OBVIOUS
  <2> DEFINE n == Len(env) + 1
  <2>1. n \in DOMAIN env' /\ env'[n].kind = "master" /\ env'[n].covers = {}
    BY DEF BatchAsked, BatchBegins, NewEntry
  <2> QED
    BY <2>1 DEF OnlyWaves
<1>4. Distinct' /\ Planless' /\ Leftover' /\ Underway'
  BY <1>1, <1>2, <1>3, TurnClean, LoopClean, WaveBeginsClean, UnitBeginsClean, DagAskedClean, AcceptClean, ReworkClean
     DEF Lives, Begins, Course
<1> QED
  BY <1>1, <1>4 DEF Clean

\* What holds of an engine that has waves only and lives.
Tidy == OnlyWaves /\ m.pc # "off" => Clean

LEMMA InitTidy == Init => Tidy
<1> SUFFICES ASSUME Init PROVE Clean
  BY DEF Tidy
<1>1. /\ env = <<>> /\ tree = {} /\ m = [Off EXCEPT !.pc = "loop"]
  BY DEF Init
<1>2. m.pc = "loop" /\ m.dags = NoDag
  BY <1>1 DEF Off
<1>3. DOMAIN m.dags = {}
  BY <1>2 DEF NoDag
<1> QED
  BY <1>1, <1>2, <1>3 DEF Clean, Distinct, Strangers, Planless, Leftover, Underway, Turns, Batch

LEMMA NextTidy == ASSUME Typed, Crew, Lived, Tidy, Does, EnvGrows PROVE Tidy'
<1> SUFFICES ASSUME OnlyWaves', m'.pc # "off" PROVE Clean'
  BY DEF Tidy
<1>1. crashes = 0
  BY CrashesGrow DEF OnlyWaves
<1>2. OnlyWaves
  <2>1. ASSUME NEW i \in DOMAIN env, env[i].kind = "master" PROVE env[i].covers # {}
    <3>1. i \in DOMAIN env' /\ env'[i].kind = "master" /\ env'[i].covers = env[i].covers
      BY <2>1 DEF EnvGrows, Kept
    <3> QED
      BY <3>1 DEF OnlyWaves
  <2> QED
    BY <1>1, <2>1 DEF OnlyWaves
<1>3. Course
  BY <1>1 DEF Lived
<1>4. m.pc # "off"
  <2>1. m' # Off
    BY DEF Off
  <2> QED
    BY <1>3, <2>1, LivesOrEnds DEF Course
<1>5. Clean
  BY <1>2, <1>4 DEF Tidy
<1> QED
  BY <1>3, <1>5, NextClean

LEMMA StutterTidy == ASSUME Tidy, UNCHANGED vars PROVE Tidy'
<1>1. env' = env /\ tree' = tree /\ m' = m /\ crashes' = crashes
  BY DEF vars
<1>2. ReadyUnits' = ReadyUnits /\ NextWave' = NextWave /\ DoneWork' = DoneWork /\ Current' = Current
  BY <1>1 DEF ReadyUnits, NextWave, DoneWork, PartOf, Current
<1>3. PartOf(Picked)' = PartOf(Picked)
  BY <1>1, <1>2 DEF PartOf, Picked
<1> QED
  BY <1>1, <1>2, <1>3 DEF Tidy, OnlyWaves, Clean, Distinct, Strangers, Planless, Leftover, Underway

\* A peer is not on the branch when its turn comes: neither from an earlier try
\* at the wave nor from a unit that is accepted nor from another peer.
LEMMA TidyMerges == ASSUME Typed, Crew, Lived, Tidy PROVE CleanMerge
<1> SUFFICES ASSUME OnlyWaves, m.pc = "merge", NEW i \in m.next .. Len(env)
             PROVE  env[i].part \cap tree = {}
  BY DEF CleanMerge
<1>1. Course /\ Clean
  BY DEF OnlyWaves, Lived, Tidy
<1>2. m.unit \in DOMAIN env /\ env[m.unit].kind = "master" /\ m.dags # NoDag
  BY <1>1 DEF Typed, Placed, Turns, Batch, Clean, Underway
<1>3. m.wave # {}
  <2> SUFFICES ASSUME m.wave = {} PROVE FALSE
    OBVIOUS
  <2>1. ReadyUnits # {} /\ m.unit = Min(ReadyUnits)
    BY <1>1, <1>2 DEF Course, TheUnit, Turns
  <2>2. m.unit \in DOMAIN m.dags
    BY <2>1, ReadyAre, MinIsLeast DEF Typed
  <2> QED
    BY <1>1, <1>2, <2>2 DEF Course, OfPlan
<1>4. /\ tree \subseteq DoneWork \cup PartOf(Picked)
      /\ env[m.unit].part = PartOf(m.wave) /\ m.wave \cap Accepted(m.dags) = {}
      /\ m.wave \subseteq DOMAIN m.dags
  BY <1>1, <1>2, <1>3, AcceptAdds DEF Clean, Underway, Turns, Course
<1>5. i \in Current /\ ~(i < m.next)
  <2>1. m.unit \in Nat /\ m.next \in m.unit + 1 .. Len(env) + 1 /\ Len(env) \in Nat /\ m.next \in Nat
    BY TypedParts DEF Placed, EngineOK
  <2> QED
    BY <2>1 DEF Current
<1>6. env[i].part \subseteq PartOf(m.wave)
  BY <1>4, <1>5 DEF Crew, CrewOK, Batch
<1>7. PartOf(m.wave) \cap DoneWork = {}
  <2> SUFFICES ASSUME NEW j \in m.wave, NEW k \in Accepted(m.dags) PROVE env[j].part \cap env[k].part = {}
    BY DEF PartOf, DoneWork
  <2>1. j # k /\ j \in DOMAIN m.dags /\ k \in DOMAIN m.dags
    BY <1>4 DEF Accepted
  <2> QED
    BY <1>1, <2>1 DEF Clean, Distinct
<1>8. env[i].part \cap PartOf(Picked) = {}
  <2> SUFFICES ASSUME NEW k \in Picked PROVE env[i].part \cap env[k].part = {}
    BY DEF PartOf
  <2>1. k \in Current /\ k # i
    BY <1>5 DEF Picked
  <2> QED
    BY <1>1, <1>5, <2>1 DEF Clean, Strangers, Batch
<1> QED
  BY <1>4, <1>6, <1>7, <1>8

\* However often a wave and the units before it were sent back, what is about to
\* be picked is not on the inner branch yet.
THEOREM MergesAreClean == Spec => []CleanMerge
<1> DEFINE IInv == Typed /\ Crew /\ Lived /\ Tidy
<1>1. Init => IInv
  BY InitTyped, InitCredit, InitLived, InitTidy DEF Credit
<1>2. IInv /\ [Next]_vars => IInv'
  <2>1. CASE Next
    BY <2>1, NextTyped, NextCrew, NextLived, NextTidy
  <2>2. CASE UNCHANGED vars
    <3>1. Crew => Crew'
      BY <2>2 DEF vars, Crew, CrewOK, Current
    <3> QED
      BY <2>2, <3>1, StutterTyped, StutterLived, StutterTidy
  <2> QED
    BY <2>1, <2>2
<1>3. IInv => CleanMerge
  BY TidyMerges
<1> HIDE DEF IInv
<1> QED
  BY <1>1, <1>2, <1>3, PTL DEF Spec

-----------------------------------------------------------------------------
(* An accepted run has an accept on record for every unit of its plan *)

\* A unit in memory that a master in memory, itself not accepted, has for a member: a
\* verdict on that master changes the unit on record and not in memory.
Open(i)  == i \in DOMAIN m.dags => m.dags[i].state # "accepted"
Taken(i) == \E j \in DOMAIN m.dags : i \in env[j].covers /\ Open(j)

CoversGlobs == \A i \in DOMAIN env : \A j \in env[i].covers : env[j].globs
SoloMaster == (\A i \in DOMAIN env : env[i].kind = "master") => \A i, j \in DOMAIN env : i = j
Owing == DOMAIN env # {} => Owed # {}

\* Without a DAG in memory there is one master, and it is in hand.
Lone == \A i \in DOMAIN env : /\ env[i].kind # "dag"
                              /\ env[i].kind = "master" => i = m.unit
                              /\ i = m.unit => env[i].kind = "master" /\ env[i].covers = {}

Planned ==
    /\ m.pc # "off" => IF DOMAIN m.dags = {} THEN Lone ELSE Owed \subseteq DOMAIN m.dags
    /\ m.reuse => DOMAIN m.dags = {}
    /\ m.pending => DOMAIN m.dags = {} \/ m.unit \in DOMAIN m.dags

Known == \A i \in DOMAIN m.dags : Open(i) \/ env[i].state = "accepted" \/ Taken(i)

InHand ==
    m.pc \in Turns =>
        /\ env[m.unit].covers = m.wave \/ (m.unit \in DOMAIN m.dags /\ m.wave = {})
        /\ \A i \in m.wave : Open(i)
        /\ Open(m.unit) \/ (m.pc \in {"turns", "outer"} /\ m.outer # outers)
        /\ m.pc \in Batch => \A i \in DOMAIN m.dags : i < m.unit

Ruled == m.pc = "apply" /\ m.decision = "accept" => \A i \in Covered : env[i].state = "accepted"

Roster == CoversGlobs /\ SoloMaster /\ Owing

Backed == Roster /\ Planned /\ Known /\ InHand /\ Ruled

LEMMA NewUnits ==
    ASSUME Does, EnvGrows
    PROVE  \/ DOMAIN env' = DOMAIN env
           \/ WaveBegins \/ (\E parts \in SUBSET Units : BatchAsked(parts))
           \/ (\E u \in Units : PeerSeeded(u)) \/ (\E plan \in DagPlans : DagAsked(plan))
  BY DEF Does, Gone, MoveStep, Move, PendingTaken, PeersRun, AllMerged, PeerMerged, SingleWorked, DagUnitBegins,
     UnitReused, UnitAsked, SingleBegins, PeerHandsIn, ReceiptMade, ReviewOpens, VerdictGiven, RunAccepted,
     UnitAccepted, ReworkEnds, ReworkBegins, TurnOver, Resumed, DagClosed, DiskKept, Touched, Marked

LEMMA OwedIs ==
    ASSUME NEW i \in Owed
    PROVE  i \in DOMAIN env /\ (env[i].kind = "dag" \/ (env[i].kind = "master" /\ env[i].covers = {}))
  BY DEF Owed

LEMMA OwedStays ==
    ASSUME EnvGrows,
           \A i \in DOMAIN env' \ DOMAIN env :
               env'[i].kind = "peer" \/ (env'[i].kind = "master" /\ env'[i].covers # {})
    PROVE  Owed' = Owed
<1>1. /\ DOMAIN env \subseteq DOMAIN env'
      /\ \A i \in DOMAIN env : env'[i].kind = env[i].kind /\ env'[i].covers = env[i].covers
  BY DEF EnvGrows, Kept
<1> DEFINE dag == {i \in DOMAIN env : env[i].kind = "dag"}
           dagp == {i \in DOMAIN env' : env'[i].kind = "dag"}
           lone == {i \in DOMAIN env : env[i].kind = "master" /\ env[i].covers = {}}
           lonep == {i \in DOMAIN env' : env'[i].kind = "master" /\ env'[i].covers = {}}
<1>2. dagp = dag /\ lonep = lone
  BY <1>1
<1>3. Owed = (IF dag # {} THEN dag ELSE lone) /\ Owed' = IF dagp # {} THEN dagp ELSE lonep
  BY DEF Owed
<1> QED
  BY <1>2, <1>3

\* A batch has its unit where no DAG is in memory, a wave where one is.
LEMMA WaveIsNew ==
    ASSUME Typed, WaveBegins
    PROVE  /\ DOMAIN m.dags # {} /\ NextWave # {}
           /\ \A i \in NextWave : i \in DOMAIN m.dags /\ i \in DOMAIN env /\ env[i].globs
                                  /\ m.dags[i].state # "accepted"
           /\ DOMAIN env' \ DOMAIN env = {m'.unit} /\ m'.unit \notin DOMAIN m.dags /\ m'.unit \notin DOMAIN env
           /\ env'[m'.unit].kind = "master" /\ env'[m'.unit].covers = NextWave
<1>0. TypeOK
  BY DEF Typed
<1>1. /\ NextWave \subseteq ReadyUnits /\ ReadyUnits \subseteq DOMAIN m.dags /\ DOMAIN m.dags \subseteq DOMAIN env
      /\ \A i \in NextWave : env[i].globs
  BY <1>0, ReadyAre, TypeParts DEF Greedy
<1>2. Two(NextWave)
  BY DEF WaveBegins
<1>3. NextWave # {} /\ DOMAIN m.dags # {}
  BY <1>1, <1>2 DEF Two
<1>4. \A i \in ReadyUnits : m.dags[i].state # "accepted"
  BY DEF ReadyUnits, Ready
<1> DEFINE parts == UNION {env[i].part : i \in NextWave}
           w == NextWave
<1>5. NewEntry("master", parts, FALSE, {}, w, "implementing") /\ m'.unit = Len(env) + 1
  BY DEF WaveBegins, BatchBegins
<1> HIDE DEF parts, w
<1>6. /\ DOMAIN env' \ DOMAIN env = {m'.unit} /\ m'.unit \notin DOMAIN env
      /\ env'[m'.unit].kind = "master" /\ env'[m'.unit].covers = w
  BY <1>5 DEF NewEntry
<1> QED
  BY <1>1, <1>3, <1>4, <1>6 DEF w

LEMMA BatchIsNew ==
    ASSUME Typed, NEW parts \in SUBSET Units, BatchAsked(parts)
    PROVE  /\ DOMAIN m.dags = {} /\ m'.dags = m.dags /\ m.unit = 0 /\ m.pc = "loop" /\ m'.pc = "batch"
           /\ DOMAIN env' \ DOMAIN env = {m'.unit} /\ m'.unit \notin DOMAIN env /\ m'.wave = m.wave /\ m'.unit # 0
           /\ env'[m'.unit].kind = "master" /\ env'[m'.unit].covers = {}
           /\ m'.unit = Len(env) + 1 /\ Len(env') = Len(env) + 1 /\ m'.reuse = m.reuse
<1>1. NewEntry("master", parts, FALSE, {}, {}, "implementing") /\ m'.unit = Len(env) + 1
  BY DEF BatchAsked, BatchBegins
<1>2. DOMAIN m.dags = {} /\ m'.dags = m.dags /\ m.unit = 0 /\ m'.wave = m.wave /\ m.pc = "loop" /\ m'.pc = "batch"
      /\ m'.reuse = m.reuse
  BY DEF BatchAsked, BatchBegins, NoDag, PlanKept, WaveKept, FlagsKept
<1>3. Len(env) \in Nat
  BY TypeParts, EnvelopeIs DEF Typed
<1> QED
  BY <1>1, <1>2, <1>3 DEF NewEntry

LEMMA PeerIsNew ==
    ASSUME NEW u \in Units, PeerSeeded(u)
    PROVE  /\ m'.unit = m.unit /\ m'.dags = m.dags /\ m'.wave = m.wave /\ m'.reuse = m.reuse
           /\ m.pc = "seed" /\ m'.pc \in {"seed", "adapters"}
           /\ \A i \in DOMAIN env' \ DOMAIN env : env'[i].kind = "peer" /\ env'[i].covers = {}
           /\ \E i \in DOMAIN env' \ DOMAIN env : TRUE
<1>1. NewEntry("peer", {u}, TRUE, {}, {}, "queued")
  BY DEF PeerSeeded
<1> QED
  BY <1>1 DEF PeerSeeded, HandKept, PlanKept, WaveKept, FlagsKept, NewEntry

LEMMA DagIsNew ==
    ASSUME Typed, NEW plan \in DagPlans, DagAsked(plan)
    PROVE  /\ DOMAIN m.dags = {} /\ DOMAIN m'.dags = DOMAIN env' \ DOMAIN env
           /\ \A i \in DOMAIN m'.dags : m'.dags[i].state = "queued"
           /\ \A i \in DOMAIN env' \ DOMAIN env : env'[i].kind = "dag" /\ env'[i].covers = {}
           /\ m.pc = "loop" /\ m'.pc = "loop" /\ m'.unit = m.unit /\ m'.wave = m.wave /\ ~m'.reuse /\ ~m.reuse
<1>0. Envelope /\ Len(env) \in Nat /\ DOMAIN env = 1 .. Len(env)
  BY TypeParts, EnvelopeIs DEF Typed
<1>1. Seeded(plan)
  BY DEF DagAsked
<1>2. DOMAIN env' = DOMAIN env \cup (Len(env) + 1 .. Len(env) + Cardinality(Units)) /\ Cardinality(Units) \in Nat
  BY <1>1 DEF Seeded
<1>3. m'.dags = [i \in Len(env) + 1 .. Len(env) + Cardinality(Units) |-> [state |-> "queued", rework |-> 0]]
  BY DEF DagAsked
<1>4. DOMAIN m'.dags = DOMAIN env' \ DOMAIN env
  BY <1>0, <1>2, <1>3
<1>5. \A i \in DOMAIN env' \ DOMAIN env : env'[i].kind = "dag" /\ env'[i].covers = {}
  BY <1>0, <1>1, SeededAre DEF SeededIs
<1>6. m.dags = NoDag /\ DOMAIN NoDag = {}
  BY DEF DagAsked, NoDag
<1> QED
  BY <1>3, <1>4, <1>5, <1>6 DEF DagAsked, HandKept, WaveKept, FlagsKept

LEMMA NextRoster ==
    ASSUME Typed, Does, EnvGrows, Roster, Planned
    PROVE  Roster'
<1> USE DEF Roster
<1>0. /\ DOMAIN env \subseteq DOMAIN env'
      /\ \A i \in DOMAIN env : /\ env'[i].kind = env[i].kind /\ env'[i].covers = env[i].covers
                               /\ env'[i].globs = env[i].globs
      /\ \A i \in DOMAIN env : \A j \in env[i].covers : j \in DOMAIN env
  <2>1. \A i \in DOMAIN env : env[i].covers \subseteq 1 .. i - 1
    BY TypeParts DEF Typed
  <2>2. DOMAIN env = 1 .. Len(env) /\ Len(env) \in Nat
    BY TypeParts, EnvelopeIs DEF Typed
  <2> QED
    BY <2>1, <2>2 DEF EnvGrows, Kept
\* The entries there were, and new ones that cover what has globs.
<1>1. ASSUME \A i \in DOMAIN env' \ DOMAIN env : \A j \in env'[i].covers : j \in DOMAIN env /\ env[j].globs
      PROVE  CoversGlobs'
  <2>1. ASSUME NEW i \in DOMAIN env', NEW j \in env'[i].covers PROVE env'[j].globs
    <3>1. j \in DOMAIN env /\ env[j].globs
      BY <1>0, <1>1, <2>1 DEF CoversGlobs
    <3> QED
      BY <1>0, <3>1
  <2> QED
    BY <2>1 DEF CoversGlobs
<1>2. CASE DOMAIN env' = DOMAIN env
  <2>1. Owed' = Owed
    BY <1>2, OwedStays
  <2> QED
    BY <1>0, <1>1, <1>2, <2>1 DEF SoloMaster, Owing
<1>3. CASE WaveBegins
  <2>1. /\ NextWave # {} /\ \A i \in NextWave : i \in DOMAIN env /\ env[i].globs
        /\ DOMAIN env' \ DOMAIN env = {m'.unit}
        /\ env'[m'.unit].kind = "master" /\ env'[m'.unit].covers = NextWave
    BY <1>3, WaveIsNew
  <2>2. Owed' = Owed
    BY <2>1, OwedStays
  <2>3. CoversGlobs'
    BY <1>1, <2>1
  <2>4. \E i \in DOMAIN env : env[i].kind # "master"
    BY <2>1 DEF Typed, Shape
  <2> QED
    BY <1>0, <2>1, <2>2, <2>3, <2>4 DEF SoloMaster, Owing
<1>4. CASE \E parts \in SUBSET Units : BatchAsked(parts)
  <2>1. /\ DOMAIN m.dags = {} /\ m.unit = 0 /\ m.pc = "loop"
        /\ DOMAIN env' \ DOMAIN env = {m'.unit}
        /\ env'[m'.unit].kind = "master" /\ env'[m'.unit].covers = {}
    BY <1>4, BatchIsNew
  <2>2. 0 \notin DOMAIN env
    BY TypeParts, EnvelopeIs DEF Typed
  <2>3. \A i \in DOMAIN env : env[i].kind \notin {"master", "dag"}
    BY <2>1, <2>2 DEF Planned, Lone
  <2>4. CoversGlobs'
    BY <1>1, <2>1
  <2>5. SoloMaster'
    BY <1>0, <2>1, <2>3 DEF SoloMaster
  <2>6. m'.unit \in Owed'
    <3>1. {i \in DOMAIN env' : env'[i].kind = "dag"} = {}
      BY <1>0, <2>1, <2>3
    <3> QED
      BY <2>1, <3>1 DEF Owed
  <2> QED
    BY <2>4, <2>5, <2>6 DEF Owing
<1>5. CASE \E u \in Units : PeerSeeded(u)
  <2>1. /\ \A i \in DOMAIN env' \ DOMAIN env : env'[i].kind = "peer" /\ env'[i].covers = {}
        /\ \E i \in DOMAIN env' \ DOMAIN env : TRUE
        /\ m.pc = "seed"
    BY <1>5, PeerIsNew
  <2>2. Owed' = Owed
    BY <2>1, OwedStays
  <2>3. m.unit \in DOMAIN env
    BY <2>1 DEF Typed, Placed, Turns
  <2>4. CoversGlobs'
    BY <1>1, <2>1
  <2> QED
    BY <2>1, <2>2, <2>3, <2>4 DEF SoloMaster, Owing
<1>6. CASE \E plan \in DagPlans : DagAsked(plan)
  <2>1. \A i \in DOMAIN env' \ DOMAIN env : env'[i].kind = "dag" /\ env'[i].covers = {}
    BY <1>6, DagIsNew
  <2>2. CoversGlobs'
    BY <1>1, <2>1
  <2>3. CASE DOMAIN env' = DOMAIN env
    BY <1>2, <2>3
  <2>4. CASE DOMAIN env' # DOMAIN env
    <3>1. PICK i \in DOMAIN env' \ DOMAIN env : TRUE
      BY <1>0, <2>4
    <3>2. i \in {k \in DOMAIN env' : env'[k].kind = "dag"}
      BY <2>1, <3>1
    <3>3. i \in Owed'
      BY <3>2 DEF Owed
    <3> QED
      BY <2>1, <2>2, <3>1, <3>3 DEF SoloMaster, Owing
  <2> QED
    BY <2>3, <2>4
<1> QED
  BY <1>2, <1>3, <1>4, <1>5, <1>6, NewUnits

LEMMA DagUnitInDags ==
    ASSUME Typed, DagUnitBegins
    PROVE  /\ m'.unit \in DOMAIN m.dags /\ m.dags[m'.unit].state # "accepted"
           /\ m'.dags = m.dags /\ m'.wave = m.wave /\ m.pc = "loop" /\ m'.pc = "single"
<1>1. ReadyUnits # {} /\ m'.unit = Min(ReadyUnits)
  BY DEF DagUnitBegins, SingleBegins
<1>2. ReadyUnits \in SUBSET (1 .. Len(env)) /\ Len(env) \in Nat /\ ReadyUnits \subseteq DOMAIN m.dags
  BY ReadyAre DEF Typed
<1>3. m'.unit \in ReadyUnits
  BY <1>1, <1>2, MinIsLeast
<1>4. m.dags[m'.unit].state # "accepted"
  BY <1>3 DEF ReadyUnits, Ready
<1> QED
  BY <1>2, <1>3, <1>4 DEF DagUnitBegins, SingleBegins, PlanKept, WaveKept

\* Steps of a process that goes on, but for an accept, a new batch and a new DAG.
LEMMA DagsStay ==
    ASSUME Typed, Does, m'.pc # "off", ~Resumed, \A plan \in DagPlans : ~DagAsked(plan)
    PROVE  /\ m.pc # "off" /\ (m'.reuse => m.reuse) /\ DOMAIN m'.dags = DOMAIN m.dags
           /\ ~UnitAccepted => \A i \in DOMAIN m.dags : m'.dags[i].state = m.dags[i].state
           /\ \/ m'.unit = m.unit
              \/ DagUnitBegins \/ WaveBegins \/ \E parts \in SUBSET Units : BatchAsked(parts)
<1>1. ~Gone /\ ~RunAccepted /\ ~ReworkEnds /\ ~DagClosed
  BY DEF Gone, RunAccepted, ReworkEnds, DagClosed, Off
<1>2. CASE MoveStep \/ PendingTaken \/ PeersRun \/ AllMerged \/ PeerMerged
           \/ (\E done \in Work : SingleWorked(done)) \/ (\E u \in Units : PeerSeeded(u))
           \/ (\E commit \in Work : PeerHandsIn(commit)) \/ ReceiptMade \/ ReviewOpens
           \/ (\E decision \in Decisions : VerdictGiven(decision))
  <2>1. m'.dags = m.dags /\ (m'.reuse => m.reuse) /\ m'.unit = m.unit /\ m.pc # "off"
    BY <1>2 DEF MoveStep, Move, PendingTaken, PeersRun, AllMerged, PeerMerged, SingleWorked, PeerSeeded, PeerHandsIn,
       ReceiptMade, ReviewOpens, VerdictGiven, HandKept, PlanKept, FlagsKept
  <2> QED
    BY <2>1
<1>3. CASE WaveBegins \/ (\E parts \in SUBSET Units : BatchAsked(parts))
  <2>1. m'.dags = m.dags /\ m'.reuse = m.reuse /\ m.pc # "off"
    BY <1>3 DEF WaveBegins, BatchAsked, BatchBegins, FlagsKept
  <2> QED
    BY <1>3, <2>1
<1>4. CASE DagUnitBegins \/ UnitReused \/ UnitAsked
  <2>1. m'.dags = m.dags /\ ~m'.reuse /\ m.pc # "off" /\ (m'.unit = m.unit \/ DagUnitBegins)
    BY <1>4 DEF DagUnitBegins, UnitReused, UnitAsked, SingleBegins, PlanKept
  <2> QED
    BY <2>1
<1>5. CASE UnitAccepted \/ ReworkBegins
  <2>1. /\ m'.unit = m.unit /\ m'.reuse = m.reuse /\ m.pc # "off"
        /\ m'.dags = DagsAccepted \/ m'.dags = DagsReworked
        /\ ~UnitAccepted => m'.dags = DagsReworked
    BY <1>5 DEF UnitAccepted, ReworkBegins, TurnOver, FlagsKept
  <2>2. DOMAIN DagsAccepted = DOMAIN m.dags
    BY DEF DagsAccepted
  <2> QED
    BY <2>1, <2>2, ReworkedIs
<1> QED
  BY <1>1, <1>2, <1>3, <1>4, <1>5 DEF Does

LEMMA EndIsOff ==
    ASSUME Typed, Does, m'.pc = "off"
    PROVE  m' = Off /\ env' = env
<1>1. \/ Gone \/ RunAccepted \/ ReworkEnds \/ DagClosed
  BY DEF Does, MoveStep, Move, PendingTaken, PeersRun, AllMerged, PeerMerged, SingleWorked, WaveBegins,
     BatchAsked, BatchBegins, DagUnitBegins, UnitReused, UnitAsked, SingleBegins, DagAsked, PeerSeeded, PeerHandsIn,
     ReceiptMade, ReviewOpens, VerdictGiven, UnitAccepted, ReworkBegins, TurnOver, Resumed
<1> QED
  BY <1>1 DEF Gone, RunAccepted, ReworkEnds, DagClosed, DiskKept

LEMMA PendingIsResumed == ASSUME Typed, Does, m'.pending PROVE Resumed
<1>1. ~Gone /\ ~RunAccepted /\ ~ReworkEnds /\ ~DagClosed
  BY DEF Gone, RunAccepted, ReworkEnds, DagClosed, Off
<1>2. m.pending => m.pc = "loop" /\ ~m.reuse
  BY DEF Typed, Placed
<1>3. CASE m.pending
  BY <1>1, <1>2, <1>3 DEF Does, MoveStep, Move, PendingTaken, PeersRun, AllMerged, PeerMerged, SingleWorked, WaveBegins,
     BatchAsked, BatchBegins, DagUnitBegins, UnitReused, UnitAsked, SingleBegins, DagAsked, PeerSeeded, PeerHandsIn,
     ReceiptMade, ReviewOpens, VerdictGiven, UnitAccepted, ReworkBegins, TurnOver
<1>4. CASE ~m.pending
  BY <1>1, <1>4 DEF Does, MoveStep, Move, PendingTaken, PeersRun, AllMerged, PeerMerged, SingleWorked, WaveBegins,
     BatchAsked, BatchBegins, DagUnitBegins, UnitReused, UnitAsked, SingleBegins, DagAsked, PeerSeeded, PeerHandsIn,
     ReceiptMade, ReviewOpens, VerdictGiven, UnitAccepted, ReworkBegins, TurnOver, FlagsKept
<1> QED
  BY <1>3, <1>4

\* What a resume has in memory is all there is.
LEMMA ResumedAll ==
    ASSUME Typed, Roster, Resumed
    PROVE  /\ env' = env
           /\ \/ /\ DOMAIN m'.dags = DOMAIN env /\ DOMAIN env # {}
                 /\ \A i \in DOMAIN env : m'.dags[i].state = env[i].state
                 /\ ~m'.reuse /\ m'.unit \in DOMAIN env
              \/ DOMAIN m'.dags = {} /\ Lone'
<1>1. env' = env /\ m'.unit = Found
  BY DEF Resumed, DiskKept
<1>2. Envelope /\ Len(env) \in Nat /\ DOMAIN env = 1 .. Len(env)
  BY TypeParts, EnvelopeIs DEF Typed
<1>3. Found \in 0 .. Len(env) /\ (Found = 0 => Len(env) = 0)
  BY <1>2, PendingIs
<1>4. CASE Grown
  <2>1. m'.dags = DagsFound /\ DOMAIN env # {} /\ ~m'.reuse
    BY <1>4 DEF Resumed, Grown
  <2>2. DOMAIN DagsFound = DOMAIN env /\ \A i \in DOMAIN env : DagsFound[i].state = env[i].state
    BY DEF DagsFound
  <2>3. Found \in DOMAIN env
    BY <1>2, <1>3, <2>1
  <2> QED
    BY <1>1, <2>1, <2>2, <2>3
<1>5. CASE ~Grown
  <2>1. m'.dags = NoDag /\ DOMAIN NoDag = {} /\ \A i \in DOMAIN env : env[i].kind = "master"
    BY <1>5 DEF Resumed, Grown, NoDag
  <2>2. \A i, j \in DOMAIN env : i = j
    BY <2>1 DEF Roster, SoloMaster
  <2>3. DOMAIN env # {} => Found \in DOMAIN env
    BY <1>2, <1>3
  <2>4. \A i \in DOMAIN env : ~env[i].globs /\ env[i].covers \subseteq DOMAIN env
    BY <1>2, <2>1, TypeParts DEF Typed, Shape
  <2>5. \A i \in DOMAIN env : env[i].covers = {}
    BY <2>4 DEF Roster, CoversGlobs
  <2> QED
    BY <1>1, <2>1, <2>2, <2>3, <2>5 DEF Lone
<1> QED
  BY <1>4, <1>5

LEMMA NextPlanned ==
    ASSUME Typed, Does, EnvGrows, Roster, Planned
    PROVE  Planned'
<1>0. /\ DOMAIN env \subseteq DOMAIN env'
      /\ \A i \in DOMAIN env : env'[i].kind = env[i].kind /\ env'[i].covers = env[i].covers
  BY DEF EnvGrows, Kept
<1>1. CASE m'.pc = "off"
  <2>1. m'.pc = "off" /\ m'.reuse = FALSE /\ m'.pending = FALSE
    BY <1>1, EndIsOff DEF Off
  <2> QED
    BY <2>1 DEF Planned
<1>2. CASE Resumed
  <2>1. CASE DOMAIN m'.dags = {} /\ Lone'
    BY <2>1 DEF Planned
  <2>2. CASE DOMAIN m'.dags = DOMAIN env /\ DOMAIN env # {} /\ ~m'.reuse /\ m'.unit \in DOMAIN env /\ env' = env
    <3>1. Owed' \subseteq DOMAIN m'.dags
      BY <2>2 DEF Owed
    <3> QED
      BY <2>2, <3>1 DEF Planned
  <2> QED
    BY <1>2, <2>1, <2>2, ResumedAll
<1>3. CASE \E plan \in DagPlans : DagAsked(plan)
  <2>1. /\ DOMAIN m.dags = {} /\ DOMAIN m'.dags = DOMAIN env' \ DOMAIN env
        /\ \A i \in DOMAIN env' \ DOMAIN env : env'[i].kind = "dag" /\ env'[i].covers = {}
        /\ m.pc = "loop" /\ m'.unit = m.unit /\ ~m'.reuse
    BY <1>3, DagIsNew
  <2>2. ~m'.pending
    BY <1>3, PendingIsResumed DEF Resumed, DagAsked
  <2>3. Lone
    BY <2>1 DEF Planned
  <2>4. CASE DOMAIN m'.dags = {}
    <3>1. Lone'
      BY <1>0, <2>1, <2>3, <2>4 DEF Lone
    <3> QED
      BY <2>1, <2>2, <2>4, <3>1 DEF Planned
  <2>5. CASE DOMAIN m'.dags # {}
    <3>1. {i \in DOMAIN env' : env'[i].kind = "dag"} = DOMAIN m'.dags
      BY <1>0, <2>1, <2>3 DEF Lone
    <3>2. Owed' = DOMAIN m'.dags
      BY <2>5, <3>1 DEF Owed
    <3> QED
      BY <2>1, <2>2, <2>5, <3>2 DEF Planned
  <2> QED
    BY <2>4, <2>5
<1>4. CASE m'.pc # "off" /\ ~Resumed /\ \A plan \in DagPlans : ~DagAsked(plan)
  <2>1. m.pc # "off" /\ (m'.reuse => m.reuse) /\ DOMAIN m'.dags = DOMAIN m.dags
    BY <1>4, DagsStay
  <2>2. ~m'.pending
    BY <1>4, PendingIsResumed
  <2>3. CASE \E parts \in SUBSET Units : BatchAsked(parts)
    <3>1. /\ DOMAIN m.dags = {} /\ m.unit = 0 /\ DOMAIN env' \ DOMAIN env = {m'.unit} /\ m'.unit \notin DOMAIN env
          /\ env'[m'.unit].kind = "master" /\ env'[m'.unit].covers = {}
      BY <2>3, BatchIsNew
    <3>2. 0 \notin DOMAIN env
      BY TypeParts, EnvelopeIs DEF Typed
    <3>3. Lone
      BY <2>1, <3>1 DEF Planned
    <3>4. \A i \in DOMAIN env : env[i].kind \notin {"dag", "master"}
      BY <3>1, <3>2, <3>3 DEF Lone
    <3>5. Lone'
      BY <1>0, <3>1, <3>4 DEF Lone
    <3> QED
      BY <2>1, <2>2, <3>1, <3>5 DEF Planned
  <2>4. CASE WaveBegins
    <3>1. /\ DOMAIN m.dags # {} /\ NextWave # {} /\ DOMAIN env' \ DOMAIN env = {m'.unit}
          /\ env'[m'.unit].kind = "master" /\ env'[m'.unit].covers = NextWave
      BY <2>4, WaveIsNew
    <3>2. Owed' = Owed
      BY <3>1, OwedStays
    <3> QED
      BY <2>1, <2>2, <3>1, <3>2 DEF Planned
  <2>5. CASE \E u \in Units : PeerSeeded(u)
    <3>1. /\ \A i \in DOMAIN env' \ DOMAIN env : env'[i].kind = "peer" /\ env'[i].covers = {}
          /\ m'.unit = m.unit /\ m.pc = "seed"
      BY <2>5, PeerIsNew
    <3>2. Owed' = Owed
      BY <3>1, OwedStays
    <3>3. m.unit \in DOMAIN env
      BY <3>1 DEF Typed, Placed, Turns
    <3>4. Lone => Lone'
      BY <1>0, <3>1, <3>3 DEF Lone
    <3> QED
      BY <2>1, <2>2, <3>2, <3>4 DEF Planned
  <2>6. CASE DOMAIN env' = DOMAIN env
    <3>1. Owed' = Owed
      BY <2>6, OwedStays
    <3>2. m'.unit = m.unit \/ DOMAIN m.dags # {}
      <4>1. DagUnitBegins => DOMAIN m.dags # {}
        BY DagUnitInDags
      <4> QED
        BY <1>4, <4>1, <2>6, DagsStay, WaveIsNew, BatchIsNew
    <3>3. DOMAIN m.dags = {} /\ Lone => Lone'
      BY <1>0, <2>6, <3>2 DEF Lone
    <3> QED
      BY <2>1, <2>2, <3>1, <3>3 DEF Planned
  <2> QED
    BY <1>4, <2>3, <2>4, <2>5, <2>6, NewUnits
<1> QED
  BY <1>1, <1>2, <1>3, <1>4

\* Where the states in memory stay as they are, it is enough that what is not open, and
\* is accepted on record, is not changed there.
LEMMA KnownStays ==
    ASSUME Typed, EnvGrows, Known, DOMAIN m'.dags = DOMAIN m.dags,
           \A i \in DOMAIN m.dags : m'.dags[i].state = m.dags[i].state,
           \A i \in DOMAIN m.dags :
               ~Open(i) /\ ~Taken(i) /\ env[i].state = "accepted" => env'[i].state = "accepted"
    PROVE  Known'
<1>1. \A i \in DOMAIN m.dags : Open(i)' <=> Open(i)
  BY DEF Open
<1>2. \A i \in DOMAIN m.dags : i \in DOMAIN env /\ env'[i].covers = env[i].covers
  BY TypeParts DEF Typed, EnvGrows, Kept
<1>3. ASSUME NEW i \in DOMAIN m.dags, Taken(i) PROVE Taken(i)'
  BY <1>1, <1>2, <1>3 DEF Taken
<1>4. ASSUME NEW i \in DOMAIN m.dags, ~Open(i)', ~Taken(i)' PROVE env'[i].state = "accepted"
  <2>1. ~Open(i) /\ ~Taken(i)
    BY <1>1, <1>3, <1>4
  <2> QED
    BY <2>1 DEF Known
<1> QED
  BY <1>4 DEF Known

LEMMA AcceptKnown ==
    ASSUME Typed, CoversGlobs, Known, InHand, Ruled, m.pc = "apply", m.decision = "accept",
           NEW i \in DOMAIN m.dags, DagsAccepted[i].state = "accepted"
    PROVE  \/ env[i].state = "accepted"
           \/ \E j \in DOMAIN m.dags : i \in env[j].covers /\ DagsAccepted[j].state # "accepted"
<1>1. m.pc \in Turns /\ m.unit \in DOMAIN env /\ DOMAIN m.dags \subseteq DOMAIN env
  BY TypeParts DEF Turns, Typed, Placed
<1>2. \A j \in Covered : env[j].state = "accepted"
  BY DEF Ruled
<1>3. m.wave \subseteq Covered /\ \A j \in m.wave : env[j].globs
  BY <1>1 DEF InHand, Covered, CoversGlobs
<1>4. CASE i \in m.wave \cup {m.unit}
  BY <1>2, <1>3, <1>4 DEF Covered
<1>5. CASE i \notin m.wave \cup {m.unit}
  <2>1. ~Open(i)
    BY <1>5, AcceptedNow DEF Open
  <2>2. CASE Taken(i)
    <3>1. PICK j \in DOMAIN m.dags : i \in env[j].covers /\ Open(j)
      BY <2>2 DEF Taken
    <3>2. j \notin m.wave
      BY <1>1, <1>3, <3>1 DEF Typed, Shape
    <3>3. CASE j = m.unit
      BY <1>2, <3>1, <3>3 DEF Covered
    <3>4. CASE j # m.unit
      BY <3>1, <3>2, <3>4, AcceptedNow DEF Open
    <3> QED
      BY <3>3, <3>4
  <2> QED
    BY <2>1, <2>2 DEF Known
<1> QED
  BY <1>4, <1>5

LEMMA NextKnown ==
    ASSUME Typed, Does, EnvGrows, Roster, Planned, Trial, Known, InHand, Ruled
    PROVE  Known'
<1>0. DOMAIN m.dags \subseteq DOMAIN env /\ \A i \in DOMAIN env : env'[i].covers = env[i].covers
  BY TypeParts DEF Typed, EnvGrows, Kept
<1>1. CASE m'.pc = "off"
  <2>1. DOMAIN m'.dags = {}
    BY <1>1, EndIsOff DEF Off, NoDag
  <2> QED
    BY <2>1 DEF Known
<1>2. CASE Resumed
  BY <1>2, ResumedAll DEF Known, Open
<1>3. CASE \E plan \in DagPlans : DagAsked(plan)
  BY <1>3, DagIsNew DEF Known, Open
<1>4. CASE UnitAccepted
  <2>1. m.pc = "apply" /\ m.decision = "accept" /\ m'.dags = DagsAccepted /\ env' = env
    BY <1>4 DEF UnitAccepted, TurnOver
  <2>2. DOMAIN m'.dags = DOMAIN m.dags
    BY <2>1, AcceptedNow
  <2>3. ASSUME NEW i \in DOMAIN m.dags, ~Open(i)', env'[i].state # "accepted" PROVE Taken(i)'
    <3>1. DagsAccepted[i].state = "accepted"
      BY <2>1, <2>3 DEF Open
    <3>2. PICK j \in DOMAIN m.dags : i \in env[j].covers /\ DagsAccepted[j].state # "accepted"
      BY <2>1, <2>3, <3>1, AcceptKnown DEF Roster
    <3> QED
      BY <2>1, <2>2, <3>2 DEF Taken, Open
  <2> QED
    BY <2>2, <2>3 DEF Known
<1>5. CASE m'.pc # "off" /\ ~Resumed /\ (\A plan \in DagPlans : ~DagAsked(plan)) /\ ~UnitAccepted
  <2>1. /\ m.pc # "off" /\ DOMAIN m'.dags = DOMAIN m.dags
        /\ \A i \in DOMAIN m.dags : m'.dags[i].state = m.dags[i].state
    BY <1>5, DagsStay
  <2>2. ASSUME \A i \in DOMAIN m.dags :
                   ~Open(i) /\ ~Taken(i) /\ env[i].state = "accepted" => env'[i].state = "accepted"
        PROVE  Known'
    BY <2>1, <2>2, KnownStays
  <2>3. CASE env' = env
    BY <2>2, <2>3
  <2>4. CASE DagUnitBegins
    <3>1. /\ m'.unit \in DOMAIN m.dags /\ Open(m'.unit)
      BY <2>4, DagUnitInDags DEF Open
    <3>2. \A i \in DOMAIN env \ {m'.unit} : env'[i].state = env[i].state
      BY <2>4 DEF DagUnitBegins, SingleBegins, Touched, StateKept
    <3> QED
      BY <1>0, <2>2, <3>1, <3>2
  <2>5. CASE UnitReused \/ UnitAsked
    <3>1. DOMAIN m.dags = {}
      BY <2>5 DEF UnitReused, UnitAsked, Planned, NoDag
    <3> QED
      BY <2>2, <3>1
  <2>6. CASE WaveBegins \/ (\E parts \in SUBSET Units : BatchAsked(parts)) \/ \E u \in Units : PeerSeeded(u)
    <3>1. \A i \in DOMAIN env : env'[i] = env[i]
      BY <2>6 DEF WaveBegins, BatchAsked, BatchBegins, PeerSeeded, NewEntry
    <3> QED
      BY <1>0, <2>2, <3>1
  <2>7. CASE \E commit \in Work : PeerHandsIn(commit)
    <3>1. /\ m.pc = "receipts" /\ m.next \in m.unit + 1 .. Len(env)
          /\ \A i \in DOMAIN env \ {m.next} : env'[i].state = env[i].state
      BY <2>7 DEF PeerHandsIn, Touched, StateKept, Typed, Placed
    <3>2. \A i \in DOMAIN m.dags : i < m.unit
      BY <3>1 DEF InHand, Turns, Batch
    <3>3. m.unit \in Nat /\ \A i \in DOMAIN m.dags : i \in Nat
      BY <1>0, TypeParts, EnvelopeIs DEF Typed, TypeOK
    <3>4. m.next \notin DOMAIN m.dags
      BY <3>1, <3>2, <3>3
    <3> QED
      BY <1>0, <2>2, <3>1, <3>4
  <2>8. CASE ReceiptMade
    <3>1. m.pc = "receipt" /\ \A i \in DOMAIN env \ {m.unit} : env'[i].state = env[i].state
      BY <2>8 DEF ReceiptMade, Touched, StateKept
    <3>2. Open(m.unit)
      BY <3>1 DEF InHand, Turns
    <3> QED
      BY <1>0, <2>2, <3>1, <3>2
  <2>9. CASE \E decision \in Decisions : VerdictGiven(decision)
    <3>1. /\ m.pc = "judge" /\ m.unit \in DOMAIN env
          /\ \A i \in DOMAIN env \ Covered : env'[i].state = env[i].state
      BY <2>9 DEF VerdictGiven, Marked, StateKept
    <3>2. Open(m.unit) /\ (env[m.unit].covers = m.wave \/ m.unit \in DOMAIN m.dags) /\ \A i \in m.wave : Open(i)
      BY <3>1 DEF InHand, Turns
    <3>3. \A i \in env[m.unit].covers : Open(i) \/ Taken(i)
      BY <3>2 DEF Taken
    <3> QED
      BY <1>0, <2>2, <3>1, <3>2, <3>3 DEF Covered
  <2>10. \/ env' = env \/ DagUnitBegins \/ UnitReused \/ UnitAsked
         \/ WaveBegins \/ (\E parts \in SUBSET Units : BatchAsked(parts)) \/ (\E u \in Units : PeerSeeded(u))
         \/ (\E commit \in Work : PeerHandsIn(commit)) \/ ReceiptMade
         \/ \E decision \in Decisions : VerdictGiven(decision)
    BY <1>5 DEF Does, Gone, MoveStep, Move, PendingTaken, PeersRun, AllMerged, PeerMerged, SingleWorked, ReviewOpens,
       RunAccepted, ReworkEnds, ReworkBegins, TurnOver, DagClosed, DiskKept
  <2> QED
    BY <2>3, <2>4, <2>5, <2>6, <2>7, <2>8, <2>9, <2>10
<1> QED
  BY <1>1, <1>2, <1>3, <1>4, <1>5

LEMMA NextRuled == ASSUME Typed, Does, EnvGrows, Ruled PROVE Ruled'
<1> SUFFICES ASSUME m'.pc = "apply", m'.decision = "accept" PROVE \A i \in Covered' : env'[i].state = "accepted"
  BY DEF Ruled
<1>1. VerdictGiven("accept")
  BY DEF Does, Gone, MoveStep, Move, PendingTaken, PeersRun, AllMerged, PeerMerged, SingleWorked, WaveBegins,
     BatchAsked, BatchBegins, DagUnitBegins, UnitReused, UnitAsked, SingleBegins, DagAsked, PeerSeeded, PeerHandsIn,
     ReceiptMade, ReviewOpens, VerdictGiven, RunAccepted, UnitAccepted, ReworkEnds, ReworkBegins, TurnOver, Resumed,
     DagClosed, Off
<1>2. /\ m'.unit = m.unit /\ m.unit \in DOMAIN env
      /\ \A i \in DOMAIN env : env'[i].covers = env[i].covers
      /\ \A i \in DOMAIN env \cap Covered : env'[i].state = "accepted"
  BY <1>1 DEF VerdictGiven, HandKept, Marked, Kept
<1>3. env[m.unit].covers \subseteq DOMAIN env
  <2>1. DOMAIN env = 1 .. Len(env) /\ Len(env) \in Nat /\ env[m.unit].covers \subseteq 1 .. m.unit - 1
    BY <1>2, TypeParts, EnvelopeIs DEF Typed
  <2> QED
    BY <1>2, <2>1
<1>4. Covered' = Covered /\ Covered \subseteq DOMAIN env
  BY <1>2, <1>3 DEF Covered
<1> QED
  BY <1>2, <1>4

\* The turn goes on with the unit it has.
LEMMA HandStays ==
    ASSUME Typed, EnvGrows, InHand, m.pc \in Turns,
           m'.unit = m.unit, m'.dags = m.dags, m'.wave = m.wave,
           m'.pc \in Batch => m.pc \in Batch,
           Open(m.unit) \/ (m'.pc \in {"turns", "outer"} /\ m'.outer # outers')
    PROVE  InHand'
<1>1. env'[m.unit].covers = env[m.unit].covers
  BY DEF Typed, Placed, EnvGrows, Kept
<1>2. \A i : Open(i)' <=> Open(i)
  BY DEF Open
<1> QED
  BY <1>1, <1>2 DEF InHand

LEMMA NextInHand ==
    ASSUME Typed, Does, EnvGrows, Planned, Trial, Unreviewed, InHand
    PROVE  InHand'
<1> SUFFICES ASSUME m'.pc \in Turns PROVE InHand'
  BY DEF InHand
<1>0. /\ DOMAIN m.dags \subseteq DOMAIN env /\ DOMAIN env = 1 .. Len(env) /\ Len(env) \in Nat
      /\ \A i \in DOMAIN env : env'[i].covers = env[i].covers
      /\ m.pc = "loop" => m.wave = {}
      /\ m.outer \in Nat /\ outers \in Nat
  BY TypeParts, EnvelopeIs DEF Typed, EnvGrows, Kept, Standing, Turns, TypeOK, IsEngine
<1>1. CASE WaveBegins
  <2>1. /\ \A i \in NextWave : i \in DOMAIN m.dags /\ m.dags[i].state # "accepted"
        /\ m'.unit \notin DOMAIN m.dags /\ env'[m'.unit].covers = NextWave
    BY <1>1, WaveIsNew
  <2>2. m'.wave = NextWave /\ m'.dags = m.dags /\ m'.unit = Len(env) + 1
    BY <1>1 DEF WaveBegins, BatchBegins
  <2>3. \A i \in DOMAIN m.dags : i < Len(env) + 1
    BY <1>0
  <2> QED
    BY <2>1, <2>2, <2>3 DEF InHand, Open
<1>2. CASE \E parts \in SUBSET Units : BatchAsked(parts)
  BY <1>0, <1>2, BatchIsNew DEF InHand, Open
<1>3. CASE DagUnitBegins
  BY <1>0, <1>3, DagUnitInDags DEF InHand, Open, Batch
<1>4. CASE UnitReused \/ UnitAsked
  <2>1. /\ m.pc = "loop" /\ m'.pc = "single" /\ m'.unit = m.unit /\ m'.dags = m.dags /\ m'.wave = m.wave
        /\ m.unit \in DOMAIN env
    BY <1>4 DEF UnitReused, UnitAsked, SingleBegins, PlanKept, WaveKept
  <2>2. DOMAIN m.dags = {}
    BY <1>4 DEF UnitReused, UnitAsked, Planned, NoDag
  <2>3. env[m.unit].covers = {}
    BY <2>1, <2>2 DEF Planned, Lone
  <2> QED
    BY <1>0, <2>1, <2>2, <2>3 DEF InHand, Open, Batch
<1>5. CASE PendingTaken
  <2>1. /\ m.pc = "loop" /\ m.pending /\ m'.pc = "turns" /\ m'.unit = m.unit /\ m'.dags = m.dags /\ m'.wave = m.wave
        /\ m'.outer = m.outer /\ outers' = outers
    BY <1>5 DEF PendingTaken, HandKept, PlanKept, WaveKept, TrialKept, DiskKept
  <2>2. m.unit \in DOMAIN env /\ m.outer = 0
    BY <2>1 DEF Typed, Placed, Trial
  <2>3. DOMAIN m.dags = {} => env[m.unit].covers = {}
    BY <2>1, <2>2 DEF Planned, Lone
  <2>4. DOMAIN m.dags = {} \/ m.unit \in DOMAIN m.dags
    BY <2>1 DEF Planned
  <2>5. outers = 0 => Open(m.unit)
    <3>1. outers = 0 /\ m.dags # NoDag => \A i \in DOMAIN env : m.dags[i].state # "accepted"
      BY <2>1 DEF Unreviewed, Unseen, AtHead
    <3>2. m.dags = NoDag => DOMAIN m.dags = {}
      BY DEF NoDag
    <3> QED
      BY <1>0, <3>1, <3>2 DEF Open
  <2>6. Open(m.unit)' <=> Open(m.unit)
    BY <2>1 DEF Open
  <2> QED
    BY <1>0, <2>1, <2>2, <2>3, <2>4, <2>5, <2>6 DEF InHand, Batch
<1>6. CASE MoveStep
  <2>1. /\ m'.unit = m.unit /\ m'.dags = m.dags /\ m'.wave = m.wave /\ m'.outer = m.outer /\ outers' = outers
    BY <1>6 DEF MoveStep, Move, HandKept, PlanKept, WaveKept, TrialKept, DiskKept
  <2>2. /\ m.pc \in Turns /\ (m'.pc \in Batch => m.pc \in Batch)
        /\ m.pc \in {"turns", "outer"} => m'.pc \in {"turns", "outer"}
    BY <1>6 DEF MoveStep, Move, Turns, Batch
  <2>3. Open(m.unit) \/ (m'.pc \in {"turns", "outer"} /\ m'.outer # outers')
    BY <2>1, <2>2 DEF InHand
  <2> QED
    BY <2>1, <2>2, <2>3, HandStays
<1>7. CASE ReviewOpens
  <2>1. /\ m'.unit = m.unit /\ m'.dags = m.dags /\ m'.wave = m.wave /\ m.pc = "outer" /\ m'.pc = "judge"
        /\ m.outer + 1 > outers
    BY <1>7 DEF ReviewOpens, HandKept, PlanKept, WaveKept
  <2>2. m.outer = outers
    BY <1>0, <2>1 DEF Trial
  <2>3. Open(m.unit)
    BY <2>1, <2>2 DEF InHand, Turns
  <2> QED
    BY <2>1, <2>3, HandStays DEF Turns, Batch
<1>8. CASE PeersRun \/ AllMerged \/ PeerMerged \/ (\E done \in Work : SingleWorked(done))
           \/ (\E u \in Units : PeerSeeded(u)) \/ (\E commit \in Work : PeerHandsIn(commit)) \/ ReceiptMade
           \/ (\E decision \in Decisions : VerdictGiven(decision))
  <2>1. /\ m'.unit = m.unit /\ m'.dags = m.dags /\ m'.wave = m.wave
        /\ m.pc \in Turns \ {"turns", "outer"} /\ (m'.pc \in Batch => m.pc \in Batch)
    BY <1>8 DEF PeersRun, AllMerged, PeerMerged, SingleWorked, PeerSeeded, PeerHandsIn, ReceiptMade, VerdictGiven,
       HandKept, PlanKept, WaveKept, Turns, Batch
  <2>2. Open(m.unit)
    BY <2>1 DEF InHand
  <2> QED
    BY <2>1, <2>2, HandStays
<1> QED
  BY <1>1, <1>2, <1>3, <1>4, <1>5, <1>6, <1>7, <1>8 DEF Does, Gone, RunAccepted, UnitAccepted, ReworkEnds,
     ReworkBegins, TurnOver, Resumed, DagAsked, DagClosed, Off, Turns

LEMMA NextBacked ==
    ASSUME Typed, Does, EnvGrows, Trial, Unreviewed, Backed
    PROVE  Backed'
  BY NextRoster, NextPlanned, NextKnown, NextInHand, NextRuled DEF Backed

\* All that is owed is in memory, and all that is accepted there is so on record.
LEMMA NextVerdicts ==
    ASSUME Typed, Does, EnvGrows, Backed, AcceptHasVerdicts
    PROVE  AcceptHasVerdicts'
<1> SUFFICES ASSUME row'.state = "accepted"
             PROVE  Owed' # {} /\ \A i \in Owed' : env'[i].state = "accepted"
  BY DEF AcceptHasVerdicts
<1>1. CASE row.state = "accepted"
  <2>1. m.pc = "off"
    BY <1>1 DEF Typed, Standing, Terminal
  <2>2. Gone
    BY <1>1, <2>1 DEF Does, MoveStep, Move, PendingTaken, PeersRun, AllMerged, PeerMerged, SingleWorked, WaveBegins,
       BatchAsked, BatchBegins, DagUnitBegins, UnitReused, UnitAsked, SingleBegins, DagAsked, PeerSeeded, PeerHandsIn,
       ReceiptMade, ReviewOpens, VerdictGiven, RunAccepted, UnitAccepted, ReworkEnds, ReworkBegins, TurnOver,
       Resumed, DagClosed, Terminal
  <2>3. env' = env
    BY <2>2 DEF Gone, DiskKept
  <2>4. Owed' = Owed
    BY <2>3 DEF Owed
  <2> QED
    BY <1>1, <2>3, <2>4 DEF AcceptHasVerdicts
<1>2. CASE row.state # "accepted"
  <2>1. RunAccepted \/ DagClosed
    BY <1>2 DEF Does, Gone, MoveStep, Move, PendingTaken, PeersRun, AllMerged, PeerMerged, SingleWorked, WaveBegins,
       BatchAsked, BatchBegins, DagUnitBegins, UnitReused, UnitAsked, SingleBegins, DagAsked, PeerSeeded, PeerHandsIn,
       ReceiptMade, ReviewOpens, VerdictGiven, UnitAccepted, ReworkEnds, ReworkBegins, TurnOver, Resumed, RestKept,
       TurnsKept
  <2>2. env' = env /\ m.pc # "off"
    BY <2>1 DEF RunAccepted, DagClosed, DiskKept
  <2>3. Owed' = Owed
    BY <2>2 DEF Owed
  <2>4. DOMAIN m.dags \subseteq DOMAIN env /\ m.dags \in [DOMAIN m.dags -> Progress]
    BY TypeParts DEF Typed
  <2>5. CASE DagClosed
    <3>1. \A i \in DOMAIN m.dags : m.dags[i].state = "accepted"
      BY <2>5 DEF DagClosed, Accepted
    <3>2. \A i \in DOMAIN m.dags : env[i].state = "accepted"
      BY <3>1 DEF Backed, Known, Taken, Open
    <3>3. DOMAIN m.dags # {}
      BY <2>4, <2>5 DEF DagClosed, NoDag
    <3>4. Owed \subseteq DOMAIN m.dags /\ Owed # {}
      BY <2>2, <2>4, <3>3 DEF Backed, Planned, Roster, Owing
    <3> QED
      BY <2>2, <2>3, <3>2, <3>4
  <2>6. CASE RunAccepted
    <3>1. m.pc = "apply" /\ m.decision = "accept" /\ \A i \in DOMAIN m.dags : DagsAccepted[i].state = "accepted"
      BY <2>6, AcceptedNow DEF RunAccepted, Accepted
    <3>2. \A i \in DOMAIN m.dags : env[i].state = "accepted"
      BY <3>1, AcceptKnown DEF Backed, Roster
    <3>3. m.unit \in DOMAIN env /\ env[m.unit].state = "accepted"
      BY <3>1 DEF Typed, Placed, Turns, Backed, Ruled, Covered
    <3>4. Owed # {}
      BY <3>3 DEF Backed, Roster, Owing
    <3>5. CASE DOMAIN m.dags # {}
      BY <2>2, <2>3, <3>2, <3>4, <3>5 DEF Backed, Planned
    <3>6. CASE DOMAIN m.dags = {}
      <4>1. Lone
        BY <2>2, <3>6 DEF Backed, Planned
      <4>2. \A i \in Owed : i = m.unit
        BY <4>1, OwedIs DEF Lone
      <4> QED
        BY <2>2, <2>3, <3>3, <3>4, <4>2
    <3> QED
      BY <3>5, <3>6
  <2> QED
    BY <2>1, <2>5, <2>6
<1> QED
  BY <1>1, <1>2

LEMMA InitBacked == Init => Backed /\ AcceptHasVerdicts
<1> SUFFICES ASSUME Init PROVE Backed /\ AcceptHasVerdicts
  OBVIOUS
<1>1. /\ m.pc = "loop" /\ m.dags = NoDag /\ m.reuse = FALSE /\ m.pending = FALSE /\ m.decision = "none"
      /\ row.state = "dispatched"
  BY DEF Init, Off
<1>2. DOMAIN env = {} /\ DOMAIN m.dags = {}
  BY <1>1 DEF Init, NoDag
<1>3. Roster /\ Lone
  BY <1>2 DEF Roster, CoversGlobs, SoloMaster, Owing, Lone
<1> QED
  BY <1>1, <1>2, <1>3 DEF Backed, Planned, Known, InHand, Ruled, Turns, AcceptHasVerdicts

LEMMA StutterBacked ==
    ASSUME Backed, AcceptHasVerdicts, UNCHANGED vars
    PROVE  Backed' /\ AcceptHasVerdicts'
<1>1. row' = row /\ env' = env /\ outers' = outers /\ m' = m
  BY DEF vars
<1>2. Owed' = Owed /\ Covered' = Covered
  BY <1>1 DEF Owed, Covered
<1>3. /\ \A i : Open(i)' <=> Open(i)
      /\ \A i : Taken(i)' <=> Taken(i)
  BY <1>1 DEF Open, Taken
<1>4. Roster' /\ (Lone <=> Lone')
  BY <1>1, <1>2 DEF Backed, Roster, CoversGlobs, SoloMaster, Owing, Lone
<1>5. Planned'
  BY <1>1, <1>2, <1>4 DEF Backed, Planned
<1>6. Known' /\ InHand' /\ Ruled'
  BY <1>1, <1>2, <1>3 DEF Backed, Known, InHand, Ruled
<1> QED
  BY <1>1, <1>2, <1>4, <1>5, <1>6 DEF Backed, AcceptHasVerdicts

\* A run is accepted only with an accept on record for every unit of its plan, however
\* it was crashed and resumed.
THEOREM AcceptsHaveVerdicts == Spec => []AcceptHasVerdicts
<1> DEFINE Inv == Typed /\ Credit /\ Backed /\ AcceptHasVerdicts
<1>1. Init => Inv
  BY InitTyped, InitCredit, InitBacked
<1>2. Inv /\ [Next]_vars => Inv'
  <2>1. ASSUME Inv, Next PROVE Inv'
    <3>1. Typed' /\ Does /\ EnvGrows /\ Credit'
      BY <2>1, NextTyped, NextCredit
    <3> QED
      BY <2>1, <3>1, NextBacked, NextVerdicts DEF Credit
  <2>2. ASSUME Inv, UNCHANGED vars PROVE Inv'
    BY <2>2, StutterTyped, StutterCredit, StutterBacked
  <2> QED
    BY <2>1, <2>2
<1> QED
  BY <1>1, <1>2, PTL DEF Spec
=============================================================================
