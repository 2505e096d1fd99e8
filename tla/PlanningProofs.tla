--------------------------- MODULE PlanningProofs ---------------------------
(***************************************************************************)
(* Proofs about Planning: the sorting and seeding of every DAG over every  *)
(* set of keys, and the checks of peers over every set of patterns.        *)
(*                                                                         *)
(* The invariant of the sort is that a key is sorted or queued exactly     *)
(* when all it depends on is sorted, and that indeg counts what is not: so *)
(* an order that stops short leaves keys that all wait for one another.    *)
(*                                                                         *)
(* What the matcher does with a file or a whole tree is found from its     *)
(* table: a function that solves the table's equation is the table, as two *)
(* solutions would differ in a last place.  Two trees that share a path    *)
(* are one inside the other, so the probe of the inner one is in both.     *)
(***************************************************************************)
EXTENDS Planning, FiniteSetTheorems, TLAPS

DagType == /\ dag.ids \in Seq(Keys)
           /\ dag.deps \in [Keys -> Seq(Keys)]

Sorted == Range(out)

Sound == /\ IsInjective(dag.ids)
         /\ \A k \in Listed : Deps(k) \subseteq Listed

Counts == /\ indeg \in [Listed -> Nat]
          /\ \A k \in Listed : indeg[k] = Cardinality(Deps(k) \ Sorted)

Placed == /\ queue \in Seq(Listed) /\ out \in Seq(Listed)
          /\ IsInjective(queue) /\ IsInjective(out)
          /\ Sorted \cap Range(queue) = {}
          /\ \A k \in Listed :
                (k \in Sorted \/ k \in Range(queue)) <=> Deps(k) \subseteq Sorted

Ordered == \A n \in DOMAIN out : \A d \in Deps(out[n]) :
              \E i \in 1 .. n - 1 : out[i] = d

Units == /\ Sorted = Listed
         /\ Len(seeded) \in 0 .. Len(out)
         /\ DOMAIN seeded = 1 .. Len(seeded)
         /\ \A n \in 1 .. Len(seeded) :
               /\ seeded[n].key = out[n]
               /\ seeded[n].depends_on = {i \in DOMAIN out : out[i] \in Deps(out[n])}

IInv ==
    /\ DagType
    /\ pc \in {"sort", "seed", "seeded"} => Sound /\ Counts /\ Placed /\ Ordered
    /\ pc \in {"seed", "seeded"} => Units
    /\ pc \notin {"seed", "seeded"} => seeded = << >>
    /\ pc = "parse" => out = << >>
    /\ pc = "seeded" => Len(seeded) = Len(out)
    /\ CycleRight

LEMMA RangeOfSeq ==
  ASSUME NEW S, NEW s \in Seq(S)
  PROVE  Range(s) \subseteq S
BY DEF Range

\* A sequence without repetitions has as many members as its length says.
LEMMA DistinctLength ==
  ASSUME NEW S, NEW s \in Seq(S), IsInjective(s)
  PROVE  IsFiniteSet(Range(s)) /\ Cardinality(Range(s)) = Len(s)
<1>1. s \in Bijection(1 .. Len(s), Range(s))
  BY DEF Range, Bijection, Injection, Surjection, IsInjective
<1>2. ExistsBijection(1 .. Len(s), Range(s))
  BY <1>1 DEF ExistsBijection
<1> QED
  BY <1>2, FS_CountingElements, FS_NatBijection

\* A DAG has finitely many keys.
LEMMA ListedFinite == ASSUME DagType PROVE IsFiniteSet(Listed)
<1>1. dag.ids \in Surjection(1 .. Len(dag.ids), Listed)
  BY DEF DagType, Listed, Range, Surjection
<1> QED
  BY <1>1, FS_Surjection, FS_Interval DEF DagType

\* A key depends on finitely many others.
LEMMA FiniteDeps ==
  ASSUME DagType, NEW k \in Listed
  PROVE  IsFiniteSet(Deps(k))
<1> DEFINE s == dag.deps[k]
<1>1. s \in Seq(Keys)
  BY DEF DagType, Listed, Range
<1>2. s \in Surjection(1 .. Len(s), Range(s))
  BY <1>1 DEF Range, Surjection
<1> QED
  BY <1>1, <1>2, FS_Surjection, FS_Interval DEF Deps

\* Finitely many are open, and none exactly when the count is 0.
LEMMA OpenCount ==
  ASSUME DagType, NEW k \in Listed, NEW T
  PROVE  /\ IsFiniteSet(Deps(k) \ T)
         /\ Cardinality(Deps(k) \ T) \in Nat
         /\ Cardinality(Deps(k) \ T) = 0 <=> Deps(k) \subseteq T
<1>1. IsFiniteSet(Deps(k) \ T)
  BY FiniteDeps, FS_Difference
<1> QED
  BY <1>1, FS_CardinalityType, FS_EmptySet

\* The listing of a set of keys has each of them once.
LEMMA SortingsAre ==
  ASSUME DagType, NEW S \in SUBSET Listed, NEW s \in Sortings(S)
  PROVE  s \in Seq(S) /\ Range(s) = S /\ IsInjective(s)
<1>1. Listed \subseteq Nat
  <2>1. dag.ids \in Seq(Keys)
    BY DEF DagType
  <2>2. Range(dag.ids) \subseteq Keys
    BY <2>1, RangeOfSeq
  <2> QED
    BY <2>2, KeysAreNat DEF Listed
<1>2. IsFiniteSet(S) /\ Cardinality(S) \in Nat
  BY FS_Subset, FS_CardinalityType, ListedFinite
<1>3. s \in [1 .. Cardinality(S) -> S] /\ Range(s) = S
  BY DEF Sortings
<1>4. ASSUME NEW i \in 1 .. Cardinality(S), NEW j \in 1 .. Cardinality(S), i < j
      PROVE  s[i] # s[j]
  <2>1. s[i] < s[j]
    BY <1>3, <1>4 DEF Sortings
  <2>2. s[i] \in Nat /\ s[j] \in Nat
    <3>1. s[i] \in S /\ s[j] \in S
      BY <1>3
    <3> QED
      BY <1>1, <3>1
  <2> QED
    BY <2>1, <2>2
<1> QED
  BY <1>2, <1>3, <1>4 DEF IsInjective

LEMMA InitIInv == Init => IInv
<1> SUFFICES ASSUME Init PROVE IInv
  OBVIOUS
<1>1. DagType
  <2>1. CASE dag \in Dags
    BY <2>1, DagsAreLists DEF DagType
  <2>2. CASE dag = NoDag
    BY <2>2 DEF NoDag, DagType
  <2> QED
    BY <2>1, <2>2 DEF Init
<1> QED
  BY <1>1 DEF Init, IInv, CycleRight

\* A sort starts with the keys that depend on nothing, all at count.
LEMMA StartSortIInv == ASSUME IInv, StartSort PROVE IInv'
<1> USE DEF StartSort, IInv
<1>1. DagType /\ DagType' /\ Listed' = Listed /\ \A k : Deps(k)' = Deps(k)
  BY DEF DagType, Listed, Deps
<1>2. out = << >> /\ Sorted = {} /\ Sorted' = {}
  BY DEF Sorted, Range
<1>3. Sound'
  BY <1>1 DEF Sound
<1>4. Counts'
  <2>1. ASSUME NEW k \in Listed PROVE Indegree(k) \in Nat /\ Deps(k) \ Sorted' = Deps(k)
    <3>1. Deps(k) \ {} = Deps(k)
      OBVIOUS
    <3> QED
      BY <1>1, <1>2, <3>1, OpenCount DEF Indegree
  <2> QED
    BY <1>1, <2>1 DEF Counts, Indegree
<1>5. Placed'
  <2> DEFINE S == {k \in Listed : Indegree(k) = 0}
  <2>1. \A k \in Listed : k \in S <=> Deps(k) \subseteq {}
    BY <1>1, OpenCount, \A k : Deps(k) \ {} = Deps(k) DEF Indegree
  <2>2. queue' \in Sortings(S)
    OBVIOUS
  <2>3. queue' \in Seq(S) /\ Range(queue') = S /\ IsInjective(queue')
    BY <2>2, SortingsAre, <1>1 DEF Listed
  <2> QED
    BY <1>1, <1>2, <2>1, <2>3 DEF Placed, IsInjective
<1>6. Ordered'
  BY <1>2 DEF Ordered
<1>7. CycleRight'
  BY DEF CycleRight
<1> QED
  BY <1>1, <1>2, <1>3, <1>4, <1>5, <1>6, <1>7

\* What Append, Tail and \o do to the members of a sequence without repetitions.
LEMMA AppendOnce ==
  ASSUME NEW S, NEW s \in Seq(S), NEW x \in S
  PROVE  /\ Append(s, x) \in Seq(S)
         /\ Range(Append(s, x)) = Range(s) \cup {x}
         /\ IsInjective(s) /\ x \notin Range(s) => IsInjective(Append(s, x))
<1>1. /\ DOMAIN Append(s, x) = 1 .. Len(s) + 1 /\ DOMAIN s = 1 .. Len(s)
      /\ Len(s) \in Nat
      /\ \A i \in 1 .. Len(s) : Append(s, x)[i] = s[i]
      /\ Append(s, x)[Len(s) + 1] = x
  OBVIOUS
<1>2. \A i \in 1 .. Len(s) + 1 : i \in 1 .. Len(s) \/ i = Len(s) + 1
  BY <1>1
<1> QED
  BY <1>1, <1>2 DEF Range, IsInjective

LEMMA TailOnce ==
  ASSUME NEW S, NEW s \in Seq(S), s # << >>
  PROVE  /\ Head(s) \in S /\ Tail(s) \in Seq(S)
         /\ Range(s) = {Head(s)} \cup Range(Tail(s))
         /\ IsInjective(s) => IsInjective(Tail(s)) /\ Head(s) \notin Range(Tail(s))
<1>1. /\ DOMAIN Tail(s) = 1 .. Len(s) - 1 /\ DOMAIN s = 1 .. Len(s)
      /\ Len(s) \in Nat /\ Len(s) >= 1 /\ Head(s) = s[1]
      /\ \A i \in 1 .. Len(s) - 1 : Tail(s)[i] = s[i + 1]
  OBVIOUS
<1>2. \A i \in 1 .. Len(s) : i = 1 \/ (i - 1 \in 1 .. Len(s) - 1 /\ (i - 1) + 1 = i)
  BY <1>1
<1>3. \A i \in 1 .. Len(s) - 1 : i + 1 \in 1 .. Len(s) /\ i + 1 # 1
  BY <1>1
<1>4. Range(s) = {Head(s)} \cup Range(Tail(s))
  <2>1. ASSUME NEW i \in 1 .. Len(s) PROVE s[i] \in {Head(s)} \cup Range(Tail(s))
    <3>1. CASE i = 1
      BY <1>1, <3>1
    <3>2. CASE i # 1
      <4>1. i - 1 \in DOMAIN Tail(s) /\ Tail(s)[i - 1] = s[i]
        BY <1>1, <1>2, <3>2
      <4> QED
        BY <4>1 DEF Range
    <3> QED
      BY <3>1, <3>2
  <2>2. Range(Tail(s)) \subseteq Range(s) /\ Head(s) \in Range(s)
    BY <1>1, <1>3 DEF Range
  <2> QED
    BY <1>1, <2>1, <2>2 DEF Range
<1>5. ASSUME IsInjective(s)
      PROVE  IsInjective(Tail(s)) /\ Head(s) \notin Range(Tail(s))
  BY <1>1, <1>3, <1>5 DEF Range, IsInjective
<1> QED
  BY <1>1, <1>4, <1>5

LEMMA ConcatOnce ==
  ASSUME NEW S, NEW s \in Seq(S), NEW t \in Seq(S)
  PROVE  /\ s \o t \in Seq(S)
         /\ Range(s \o t) = Range(s) \cup Range(t)
         /\ IsInjective(s) /\ IsInjective(t) /\ Range(s) \cap Range(t) = {}
                => IsInjective(s \o t)
<1>1. /\ DOMAIN s = 1 .. Len(s) /\ DOMAIN t = 1 .. Len(t)
      /\ Len(s) \in Nat /\ Len(t) \in Nat
      /\ s \o t \in Seq(S) /\ DOMAIN (s \o t) = 1 .. Len(s) + Len(t)
      /\ \A i \in 1 .. Len(s) : (s \o t)[i] = s[i]
      /\ \A i \in 1 .. Len(t) : (s \o t)[Len(s) + i] = t[i]
  OBVIOUS
<1>2. \A i \in 1 .. Len(s) + Len(t) :
         i \in 1 .. Len(s) \/ (i - Len(s) \in 1 .. Len(t) /\ Len(s) + (i - Len(s)) = i)
  BY <1>1
<1>3. /\ \A i \in 1 .. Len(s) : i \in 1 .. Len(s) + Len(t)
      /\ \A i \in 1 .. Len(t) : Len(s) + i \in 1 .. Len(s) + Len(t)
  BY <1>1
<1>4. Range(s \o t) = Range(s) \cup Range(t)
  <2>1. \A i \in 1 .. Len(s) + Len(t) : (s \o t)[i] \in Range(s) \cup Range(t)
    BY <1>1, <1>2 DEF Range
  <2>2. Range(s) \subseteq Range(s \o t)
    BY <1>1, <1>3 DEF Range
  <2>3. Range(t) \subseteq Range(s \o t)
    BY <1>1, <1>3 DEF Range
  <2> QED
    BY <1>1, <2>1, <2>2, <2>3 DEF Range
<1>5. ASSUME IsInjective(s), IsInjective(t), Range(s) \cap Range(t) = {},
             NEW i \in 1 .. Len(s) + Len(t), NEW j \in 1 .. Len(s) + Len(t),
             (s \o t)[i] = (s \o t)[j]
      PROVE  i = j
  <2>1. ASSUME NEW a \in 1 .. Len(s), NEW b \in 1 .. Len(t) PROVE s[a] # t[b]
    BY <1>1, <1>5 DEF Range
  <2>2. CASE i \in 1 .. Len(s) /\ j \in 1 .. Len(s)
    BY <1>1, <1>5, <2>2 DEF IsInjective
  <2>3. CASE i \notin 1 .. Len(s) /\ j \notin 1 .. Len(s)
    <3> DEFINE a == i - Len(s)
               b == j - Len(s)
    <3>1. a \in 1 .. Len(t) /\ b \in 1 .. Len(t) /\ i = Len(s) + a /\ j = Len(s) + b
      BY <1>1, <1>2, <2>3
    <3>2. t[a] = t[b]
      BY <1>1, <1>5, <3>1
    <3> QED
      BY <1>1, <1>5, <3>1, <3>2 DEF IsInjective
  <2>4. CASE i \in 1 .. Len(s) /\ j \notin 1 .. Len(s)
    BY <1>1, <1>2, <1>5, <2>1, <2>4
  <2>5. CASE i \notin 1 .. Len(s) /\ j \in 1 .. Len(s)
    BY <1>1, <1>2, <1>5, <2>1, <2>5
  <2> QED
    BY <2>2, <2>3, <2>4, <2>5
<1> QED
  BY <1>1, <1>4, <1>5 DEF IsInjective

\* Taking the head of the queue into the order frees just the keys that waited
\* for nothing else.
LEMMA SortNextIInv == ASSUME IInv, SortNext PROVE IInv'
<1> DEFINE k == Head(queue)
<1> USE DEF SortNext, IInv
<1>1. DagType /\ DagType' /\ Listed' = Listed /\ \A c : Deps(c)' = Deps(c)
  BY DEF DagType, Listed, Deps
<1>2. Sound /\ Counts /\ Placed /\ Ordered
  OBVIOUS
<1>3. PICK s \in Sortings(Freed(k)) : queue' = Tail(queue) \o s
  OBVIOUS
<1>4. s \in Seq(Listed) /\ s \in Seq(Freed(k)) /\ Range(s) = Freed(k) /\ IsInjective(s)
  BY <1>1, <1>3, SortingsAre DEF Freed
<1>5. /\ k \in Listed /\ Tail(queue) \in Seq(Listed)
      /\ Range(queue) = {k} \cup Range(Tail(queue))
      /\ IsInjective(Tail(queue)) /\ k \notin Range(Tail(queue))
  BY <1>2, TailOnce DEF Placed
<1>6. k \notin Sorted /\ Deps(k) \subseteq Sorted
  BY <1>2, <1>5 DEF Placed
<1>7. out' \in Seq(Listed) /\ Sorted' = Sorted \cup {k} /\ IsInjective(out')
  BY <1>2, <1>5, <1>6, AppendOnce DEF Placed, Sorted
<1>8. ASSUME NEW c \in Listed, k \in Deps(c)
      PROVE  /\ Less(indeg[c]) = Cardinality(Deps(c) \ Sorted')
             /\ Less(indeg[c]) \in Nat
  <2> DEFINE D == Deps(c) \ Sorted
  <2>1. IsFiniteSet(D) /\ Cardinality(D) \in Nat /\ indeg[c] = Cardinality(D)
    BY <1>1, <1>2, OpenCount DEF Counts
  <2>2. k \in D /\ Deps(c) \ Sorted' = D \ {k}
    BY <1>6, <1>7, <1>8
  <2>3. Cardinality(D \ {k}) = Cardinality(D) - 1
    BY <2>1, <2>2, FS_RemoveElement
  <2>4. Cardinality(D) # 0
    BY <2>1, <2>2, FS_EmptySet
  <2>5. ASSUME NEW n \in Nat, n # 0 PROVE Less(n) = n - 1 /\ Less(n) \in Nat
    BY <2>5 DEF Less
  <2>6. Less(indeg[c]) = Cardinality(D) - 1 /\ Less(indeg[c]) \in Nat
    BY <2>1, <2>4, <2>5
  <2> QED
    BY <2>2, <2>3, <2>6
<1>9. Counts'
  <2>1. ASSUME NEW c \in Listed, k \notin Deps(c)
        PROVE  indeg[c] = Cardinality(Deps(c) \ Sorted') /\ indeg[c] \in Nat
    <3>1. Deps(c) \ Sorted' = Deps(c) \ Sorted
      BY <1>7, <2>1
    <3> QED
      BY <1>2, <3>1 DEF Counts
  <2>2. indeg' = [c \in Listed |-> IF k \in Deps(c) THEN Less(indeg[c]) ELSE indeg[c]]
    OBVIOUS
  <2>3. ASSUME NEW c \in Listed
        PROVE  indeg'[c] \in Nat /\ indeg'[c] = Cardinality(Deps(c) \ Sorted')
    BY <1>8, <2>1, <2>2
  <2> QED
    BY <1>1, <2>2, <2>3 DEF Counts
<1>10. Freed(k) \cap (Sorted \cup Range(queue)) = {}
  BY <1>2, <1>6 DEF Freed, Placed
<1>11. /\ queue' \in Seq(Listed)
       /\ Range(queue') = Range(Tail(queue)) \cup Freed(k)
       /\ IsInjective(queue')
  <2>1. Range(Tail(queue)) \cap Range(s) = {}
    BY <1>4, <1>5, <1>10
  <2>2. LET t == Tail(queue) IN
          /\ t \o s \in Seq(Listed)
          /\ Range(t \o s) = Range(t) \cup Range(s)
          /\ IsInjective(t \o s)
    <3> DEFINE t == Tail(queue)
    <3>1. t \in Seq(Listed) /\ s \in Seq(Listed) /\ IsInjective(t) /\ IsInjective(s)
      BY <1>4, <1>5
    <3> HIDE DEF t
    <3>2. Range(t) \cap Range(s) = {} => IsInjective(t \o s)
      BY <3>1, ConcatOnce
    <3>3. t \o s \in Seq(Listed) /\ Range(t \o s) = Range(t) \cup Range(s)
      BY <3>1, ConcatOnce
    <3> QED
      BY <2>1, <3>2, <3>3 DEF t
  <2> QED
    BY <1>3, <1>4, <2>2
<1>12. ASSUME NEW c \in Listed
       PROVE  (c \in Sorted' \/ c \in Range(queue')) <=> Deps(c) \subseteq Sorted'
  <2>1. (c \in Sorted' \/ c \in Range(queue'))
           <=> (Deps(c) \subseteq Sorted \/ c \in Freed(k))
    BY <1>2, <1>5, <1>7, <1>11 DEF Placed
  <2>2. CASE k \in Deps(c)
    <3>1. c \in Freed(k) <=> Deps(c) \subseteq Sorted'
      BY <1>1, <1>8, <2>2, OpenCount DEF Freed
    <3> QED
      BY <1>6, <2>1, <2>2, <3>1
  <2>3. CASE k \notin Deps(c)
    BY <1>7, <2>1, <2>3 DEF Freed
  <2> QED
    BY <2>2, <2>3
<1>13. Sorted' \cap Range(queue') = {}
  BY <1>2, <1>5, <1>7, <1>10, <1>11 DEF Placed
<1>14. Placed'
  BY <1>1, <1>7, <1>11, <1>12, <1>13 DEF Placed
<1>15. Ordered'
  <2>1. /\ DOMAIN out = 1 .. Len(out) /\ DOMAIN out' = 1 .. Len(out) + 1
        /\ Len(out) \in Nat /\ out'[Len(out) + 1] = k
        /\ \A i \in 1 .. Len(out) : out'[i] = out[i]
    BY <1>2, <1>5 DEF Placed
  <2>2. ASSUME NEW n \in 1 .. Len(out), NEW d \in Deps(out[n])
        PROVE  \E i \in 1 .. n - 1 : out'[i] = d
    <3>1. PICK i \in 1 .. n - 1 : out[i] = d
      BY <1>2, <2>1, <2>2 DEF Ordered
    <3>2. i \in 1 .. Len(out)
      BY <2>1
    <3> QED
      BY <2>1, <3>1, <3>2
  <2>3. ASSUME NEW d \in Deps(k) PROVE \E i \in 1 .. (Len(out) + 1) - 1 : out'[i] = d
    <3>1. PICK i \in 1 .. Len(out) : out[i] = d
      BY <1>6, <2>1, <2>3 DEF Sorted, Range
    <3> QED
      BY <2>1, <3>1
  <2>4. ASSUME NEW n \in DOMAIN out', NEW d \in Deps(out'[n])
        PROVE  \E i \in 1 .. n - 1 : out'[i] = d
    <3>1. CASE n \in 1 .. Len(out)
      BY <2>1, <2>2, <2>4, <3>1
    <3>2. CASE n = Len(out) + 1
      BY <2>1, <2>3, <2>4, <3>2
    <3> QED
      BY <2>1, <3>1, <3>2
  <2> QED
    BY <1>1, <2>4 DEF Ordered
<1>16. Sound'
  BY <1>1, <1>2 DEF Sound
<1>17. CycleRight'
  BY DEF CycleRight
<1> QED
  BY <1>1, <1>9, <1>14, <1>15, <1>16, <1>17

\* An empty queue leaves either nothing or keys that all wait for one another.
LEMMA SortEndIInv == ASSUME IInv, SortEnd PROVE IInv'
<1> USE DEF SortEnd, IInv
<1>1. DagType /\ DagType' /\ Listed' = Listed /\ \A c : Deps(c)' = Deps(c)
  BY DEF DagType, Listed, Deps
<1>2. Sound /\ Counts /\ Placed /\ Ordered
  OBVIOUS
<1>3. Sound' /\ Counts' /\ Placed' /\ Ordered'
  BY <1>1, <1>2 DEF Sound, Counts, Placed, Ordered, Sorted
<1>4. /\ Sorted \subseteq Listed /\ IsFiniteSet(Listed)
      /\ Cardinality(Sorted) = Len(out) /\ Cardinality(Listed) = Len(dag.ids)
  <2>1. dag.ids \in Seq(Keys) /\ IsInjective(dag.ids)
    BY <1>1, <1>2 DEF DagType, Sound
  <2>2. out \in Seq(Listed) /\ IsInjective(out)
    BY <1>2 DEF Placed
  <2> QED
    BY <2>1, <2>2, DistinctLength, RangeOfSeq DEF Listed, Sorted
<1>5. CASE Len(out) = Len(dag.ids)
  <2>1. Sorted = Listed
    BY <1>4, <1>5, FS_Subset
  <2>2. Units'
    BY <1>1, <1>2, <2>1 DEF Units, Sorted, Placed
  <2> QED
    BY <1>1, <1>3, <1>5, <2>2 DEF CycleRight
<1>6. CASE Len(out) # Len(dag.ids)
  <2> DEFINE S == Listed \ Sorted
  <2>1. S # {}
    <3>1. S = {} => Sorted = Listed
      BY <1>4
    <3> QED
      BY <1>4, <1>6, <3>1
  <2>2. ASSUME NEW k \in S PROVE Deps(k) \cap S # {}
    <3>1. Range(queue) = {}
      BY DEF Range
    <3>2. ~ (Deps(k) \subseteq Sorted)
      BY <1>2, <3>1 DEF Placed
    <3>3. Deps(k) \subseteq Listed
      BY <1>2 DEF Sound
    <3> QED
      BY <3>2, <3>3
  <2>3. CycleRight'
    <3>1. S \in SUBSET Listed /\ S # {} /\ \A k \in S : Deps(k) \cap S # {}
      BY <2>1, <2>2
    <3>2. \E T \in SUBSET Listed : T # {} /\ \A k \in T : Deps(k) \cap T # {}
      BY <3>1
    <3> QED
      BY <1>1, <3>2 DEF CycleRight
  <2> QED
    BY <1>1, <1>6, <2>3
<1> QED
  BY <1>5, <1>6

\* A unit is seeded with the units its dependencies became.
LEMMA SeedIInv == ASSUME IInv, Seed PROVE IInv'
<1> USE DEF Seed, IInv
<1>1. DagType /\ DagType' /\ Listed' = Listed /\ \A c : Deps(c)' = Deps(c)
  BY DEF DagType, Listed, Deps
<1>2. Sound' /\ Counts' /\ Placed' /\ Ordered'
  BY <1>1 DEF Sound, Counts, Placed, Ordered, Sorted
<1>3. Units'
  <2> DEFINE n == Len(seeded) + 1
             u == [key |-> out[n],
                   depends_on |-> {i \in DOMAIN out : out[i] \in Deps(out[n])}]
  <2>1. Units /\ Len(seeded) \in Nat /\ Len(out) \in Nat /\ Len(seeded) < Len(out)
    BY DEF Units, Placed
  <2>2. seeded' = Append(seeded, u)
    OBVIOUS
  <2>3. /\ Len(seeded') = n /\ DOMAIN seeded' = 1 .. n
        /\ \A i \in 1 .. Len(seeded) : seeded'[i] = seeded[i]
        /\ seeded'[n] = u
    BY <2>1, <2>2 DEF Units
  <2>4. ASSUME NEW i \in 1 .. n
        PROVE  /\ seeded'[i].key = out[i]
               /\ seeded'[i].depends_on = {j \in DOMAIN out : out[j] \in Deps(out[i])}
    <3>1. CASE i = n
      BY <2>3, <3>1
    <3>2. CASE i \in 1 .. Len(seeded)
      BY <2>1, <2>3, <3>2 DEF Units
    <3> QED
      BY <2>1, <3>1, <3>2
  <2> QED
    BY <1>1, <2>1, <2>3, <2>4 DEF Units, Sorted
<1>4. CycleRight'
  BY DEF CycleRight
<1> QED
  BY <1>1, <1>2, <1>3, <1>4

LEMMA SeedEndIInv == ASSUME IInv, SeedEnd PROVE IInv'
<1> USE DEF SeedEnd, IInv
<1>1. DagType /\ DagType' /\ Listed' = Listed /\ \A c : Deps(c)' = Deps(c)
  BY DEF DagType, Listed, Deps
<1>2. Sound' /\ Counts' /\ Placed' /\ Ordered'
  BY <1>1 DEF Sound, Counts, Placed, Ordered, Sorted
<1>3. Units'
  BY <1>1 DEF Units, Sorted
<1> QED
  BY <1>1, <1>2, <1>3 DEF CycleRight

\* The parser, and the whole handling of peers, keep the invariant.
LEMMA OtherIInv ==
  ASSUME IInv, \/ RefuseDag \/ RefusePeers \/ TakePeers \/ ComparePeers
               \/ ContractCheck \/ UNCHANGED vars
  PROVE  IInv'
<1>1. CASE UNCHANGED vars
  <2> USE <1>1 DEF vars
  <2>1. Listed' = Listed /\ \A c : Deps(c)' = Deps(c)
    BY DEF Listed, Deps
  <2>2. /\ DagType' <=> DagType
        /\ Sound' <=> Sound
        /\ Counts' <=> Counts
        /\ Placed' <=> Placed
        /\ Ordered' <=> Ordered
        /\ Units' <=> Units
        /\ CycleRight' <=> CycleRight
    BY <2>1 DEF DagType, Sound, Counts, Placed, Ordered, Units, CycleRight, Sorted
  <2> QED
    BY <2>2 DEF IInv
<1>2. CASE RefuseDag
  <2> USE <1>2 DEF RefuseDag
  <2>1. DagType' /\ CycleRight' /\ seeded = << >>
    BY DEF IInv, DagType, CycleRight
  <2> QED
    BY <2>1 DEF IInv
<1>3. CASE RefusePeers \/ TakePeers \/ ComparePeers \/ ContractCheck
  <2>1. /\ pc \in {"parse", "overlap", "contract"}
        /\ pc' \in {"schema", "overlap", "peer_overlap", "contract", "started"}
        /\ dag' = dag /\ seeded' = seeded
    BY <1>3 DEF RefusePeers, TakePeers, ComparePeers, ContractCheck
  <2> QED
    BY <2>1 DEF IInv, DagType, CycleRight
<1> QED
  BY <1>1, <1>2, <1>3

LEMMA StepIInv == IInv /\ [Next]_vars => IInv'
BY StartSortIInv, SortNextIInv, SortEndIInv, SeedIInv, SeedEndIInv, OtherIInv DEF Next

\* The invariant gives the order of the units on record.
LEMMA IInvOrder == IInv => OrderRight
<1> SUFFICES ASSUME IInv PROVE OrderRight
  OBVIOUS
<1> USE DEF IInv
<1>1. CASE pc \notin {"seed", "seeded"}
  BY <1>1 DEF OrderRight
<1>2. CASE pc \in {"seed", "seeded"}
  <2>1. Units /\ Ordered /\ Placed /\ Sound
    BY <1>2
  <2>2. /\ DOMAIN out = 1 .. Len(out) /\ Len(out) \in Nat
        /\ Range(out) = Listed /\ IsInjective(out)
    BY <2>1 DEF Placed, Units, Sorted
  <2>3. ASSUME NEW n \in DOMAIN seeded
        PROVE  /\ seeded[n].depends_on \subseteq 1 .. n - 1
               /\ {seeded[i].key : i \in seeded[n].depends_on} = Deps(seeded[n].key)
    <3>1. /\ n \in 1 .. Len(out) /\ seeded[n].key = out[n]
          /\ seeded[n].depends_on = {i \in DOMAIN out : out[i] \in Deps(out[n])}
          /\ \A i \in 1 .. n - 1 : i \in DOMAIN out /\ seeded[i].key = out[i]
      <4>1. PICK len \in 0 .. Len(out) :
               /\ DOMAIN seeded = 1 .. len
               /\ \A i \in 1 .. len :
                     /\ seeded[i].key = out[i]
                     /\ seeded[i].depends_on = {j \in DOMAIN out : out[j] \in Deps(out[i])}
        BY <2>1 DEF Units
      <4>2. n \in 1 .. len
        BY <4>1
      <4>3. n \in 1 .. Len(out) /\ \A i \in 1 .. n - 1 : i \in 1 .. len /\ i \in 1 .. Len(out)
        BY <2>2, <4>2
      <4> QED
        BY <2>2, <4>1, <4>2, <4>3
    <3>2. ASSUME NEW i \in seeded[n].depends_on PROVE i \in 1 .. n - 1
      <4>1. i \in DOMAIN out /\ out[i] \in Deps(out[n])
        BY <3>1, <3>2
      <4>2. PICK j \in 1 .. n - 1 : out[j] = out[i]
        BY <2>1, <2>2, <3>1, <4>1 DEF Ordered
      <4>3. j = i
        BY <2>2, <3>1, <4>1, <4>2 DEF IsInjective
      <4> QED
        BY <4>3
    <3>3. ASSUME NEW d \in Deps(out[n])
          PROVE  \E i \in seeded[n].depends_on : seeded[i].key = d
      <4>1. PICK j \in 1 .. n - 1 : out[j] = d
        BY <2>1, <2>2, <3>1, <3>3 DEF Ordered
      <4> QED
        BY <2>2, <3>1, <4>1
    <3>4. \A i \in seeded[n].depends_on : seeded[i].key \in Deps(out[n])
      BY <3>1, <3>2
    <3>5. {seeded[i].key : i \in seeded[n].depends_on} = Deps(out[n])
      BY <3>3, <3>4
    <3> QED
      BY <3>1, <3>2, <3>5
  <2>4. ASSUME pc = "seeded" PROVE {seeded[n].key : n \in DOMAIN seeded} = Listed
    <3>1. DOMAIN seeded = DOMAIN out /\ \A n \in DOMAIN seeded : seeded[n].key = out[n]
      BY <2>1, <2>2, <2>4 DEF Units
    <3> QED
      BY <2>2, <3>1 DEF Range
  <2> QED
    BY <2>3, <2>4 DEF OrderRight
<1> QED
  BY <1>1, <1>2

\* Every unit on record depends on units recorded before it, just those the
\* commander named, and a plan seeded to the end has all its units: topo_sort
\* and seed_dag_units, for every DAG.
THEOREM OrderIsRight == Spec => []OrderRight
BY InitIInv, StepIInv, IInvOrder, PTL DEF Spec

\* topo_sort refuses as a cycle only a plan that no order could do.
THEOREM CycleIsRight == Spec => []CycleRight
<1>1. IInv => CycleRight
  BY DEF IInv
<1> QED
  BY InitIInv, StepIInv, <1>1, PTL DEF Spec

\* The plan, the sort, the units on record and the pair of peers stay in their types.
LEMMA TypeInit == Init => TypeOK
<1> SUFFICES ASSUME Init PROVE TypeOK
  OBVIOUS
<1>1. dag \in [ids : Seq(Keys), deps : [Keys -> Seq(Keys)]]
  <2>1. CASE dag \in Dags
    BY <2>1, DagsAreLists
  <2>2. CASE dag = NoDag
    BY <2>2 DEF NoDag
  <2> QED
    BY <2>1, <2>2 DEF Init
<1>2. batch \in Seq(SUBSET Patterns)
  <2>1. CASE batch = << >>
    BY <2>1
  <2>2. CASE batch \in Batches
    BY <2>2, GlobsCompile
  <2> QED
    BY <2>1, <2>2 DEF Init
<1> QED
  BY <1>1, <1>2 DEF Init, TypeOK

LEMMA TypeNext == IInv /\ IInv' /\ TypeOK /\ [Next]_vars => TypeOK'
<1> SUFFICES ASSUME IInv, IInv', TypeOK, [Next]_vars PROVE TypeOK'
  OBVIOUS
<1>0. ASSUME dag' = dag PROVE Listed' = Listed
  BY <1>0 DEF Listed
<1>1. CASE StartSort
  <2>1. Counts' /\ Placed'
    BY <1>1 DEF IInv, StartSort
  <2> QED
    BY <1>0, <1>1, <2>1 DEF StartSort, TypeOK, Counts, Placed
<1>2. CASE SortNext
  <2>1. Counts' /\ Placed'
    BY <1>2 DEF IInv, SortNext
  <2> QED
    BY <1>0, <1>2, <2>1 DEF SortNext, TypeOK, Counts, Placed
<1>3. CASE Seed
  <2> DEFINE key == out[Len(seeded) + 1]
             unit == [key |-> key, depends_on |-> {i \in DOMAIN out : out[i] \in Deps(key)}]
  <2>1. Len(seeded) + 1 \in 1 .. Len(out) /\ out \in Seq(Listed)
    BY <1>3 DEF Seed, TypeOK
  <2>2. key \in Listed /\ DOMAIN out \subseteq Nat
    BY <2>1
  <2> HIDE DEF key
  <2>3. unit \in [key : Listed, depends_on : SUBSET Nat]
    BY <2>2
  <2>4. seeded' = Append(seeded, unit)
    BY <1>3 DEF Seed, key
  <2> HIDE DEF unit
  <2>5. seeded' \in Seq([key : Listed, depends_on : SUBSET Nat])
    BY <2>3, <2>4 DEF TypeOK
  <2> QED
    BY <1>0, <1>3, <2>5 DEF Seed, TypeOK
<1>4. CASE ComparePeers
  <2>1. pair[1] \in Nat /\ pair[2] \in Nat
    BY DEF TypeOK
  <2>2. pair' \in Nat \X Nat
    BY <1>4, <2>1 DEF ComparePeers, TypeOK
  <2>3. pc' \in {"overlap", "contract", "peer_overlap"}
    BY <1>4 DEF ComparePeers
  <2> QED
    BY <1>0, <1>4, <2>2, <2>3 DEF ComparePeers, TypeOK, Verdicts
<1>5. CASE RefuseDag
  BY <1>0, <1>5 DEF RefuseDag, TypeOK, Verdicts
<1>6. CASE SortEnd
  BY <1>0, <1>6 DEF SortEnd, TypeOK, Verdicts
<1>7. CASE SeedEnd
  BY <1>0, <1>7 DEF SeedEnd, TypeOK, Verdicts
<1>8. CASE RefusePeers
  BY <1>0, <1>8 DEF RefusePeers, TypeOK, Verdicts
<1>9. CASE TakePeers
  BY <1>0, <1>9 DEF TakePeers, TypeOK, Verdicts
<1>10. CASE ContractCheck
  BY <1>0, <1>10 DEF ContractCheck, TypeOK, Verdicts
<1>11. CASE UNCHANGED vars
  BY <1>0, <1>11 DEF vars, TypeOK
<1> QED
  BY <1>1, <1>2, <1>3, <1>4, <1>5, <1>6, <1>7, <1>8, <1>9, <1>10, <1>11 DEF Next

\* The plan, the sort, the units on record and the pair of peers compared stay in
\* their types, for every answer of the commander.
THEOREM TypeCorrect == Spec => []TypeOK
BY InitIInv, StepIInv, TypeInit, TypeNext, PTL DEF Spec

----------------------------------------------------------------------------
\* The order of the numbers, and the least element of a set of them.
Below == {ss \in Nat \X Nat : ss[1] < ss[2]}

LEMMA BelowIsWellFounded == IsWellFoundedOn(Below, Nat)
  BY NatLessThanWellFounded DEF OpToRel, Below

LEMMA LeastExists ==
    ASSUME NEW S \in SUBSET Nat, S # {}
    PROVE  \E x \in S : \A y \in S : x <= y
<1>1. PICK x \in S : \A y \in S : ~ (<<y, x>> \in Below)
  BY BelowIsWellFounded, WFMin
<1>2. \A y \in S : x \in Nat /\ y \in Nat /\ ~ (y < x)
  BY <1>1 DEF Below
<1> QED
  BY <1>2

----------------------------------------------------------------------------
(* The matcher: its table is the one solution of its equation, so that any  *)
(* function that solves the equation says what matches.                     *)

Cells(pat, text) == (1 .. Len(pat) + 1) \X (1 .. Len(text) + 1)

Entry(pat, text, m, at) ==
    LET i == at[1]
        j == at[2]
    IN IF i > Len(pat) THEN j > Len(text)
       ELSE IF pat[i] = "*"
            THEN m[<<i + 1, j>>] \/ (j <= Len(text) /\ m[<<i, j + 1>>])
            ELSE j <= Len(text) /\ pat[i] = text[j] /\ m[<<i + 1, j + 1>>]

IsTable(m, pat, text) == m = [at \in Cells(pat, text) |-> Entry(pat, text, m, at)]

LEMMA MatchesIsEntry ==
    ASSUME NEW pat, NEW text
    PROVE  Matches(pat, text) = (CHOOSE m : IsTable(m, pat, text))[<<1, 1>>]
  BY DEF Matches, IsTable, Entry, Cells

LEMMA EntryOf ==
    ASSUME NEW pat \in Seq(STRING), NEW text \in Seq(STRING), NEW m, IsTable(m, pat, text),
           NEW i \in 1 .. Len(pat) + 1, NEW j \in 1 .. Len(text) + 1
    PROVE  m[<<i, j>>] = IF i > Len(pat) THEN j > Len(text)
                         ELSE IF pat[i] = "*"
                              THEN m[<<i + 1, j>>] \/ (j <= Len(text) /\ m[<<i, j + 1>>])
                              ELSE j <= Len(text) /\ pat[i] = text[j] /\ m[<<i + 1, j + 1>>]
<1>1. m[<<i, j>>] = Entry(pat, text, m, <<i, j>>)
  BY DEF IsTable, Cells
<1> QED
  BY <1>1 DEF Entry

\* Of two tables that differ, the last place where they do would have to differ in
\* a later one.
LEMMA OneTable ==
    ASSUME NEW pat \in Seq(STRING), NEW text \in Seq(STRING), NEW m, NEW w,
           IsTable(m, pat, text), IsTable(w, pat, text)
    PROVE  m[<<1, 1>>] = w[<<1, 1>>]
<1> DEFINE a == Len(pat) + 1
           b == Len(text) + 1
           Differ(i, j) == m[<<i, j>>] # w[<<i, j>>]
           Far == {d \in Nat : \E i \in 1 .. a, j \in 1 .. b : d = (a + b) - (i + j) /\ Differ(i, j)}
<1>1. a \in Nat /\ b \in Nat /\ Len(pat) \in Nat /\ Len(text) \in Nat /\ a >= 1 /\ b >= 1
  OBVIOUS
<1>2. ASSUME NEW i \in 1 .. a, NEW j \in 1 .. b, Differ(i, j)
      PROVE  \/ i + 1 \in 1 .. a /\ Differ(i + 1, j)
             \/ j + 1 \in 1 .. b /\ Differ(i, j + 1)
             \/ i + 1 \in 1 .. a /\ j + 1 \in 1 .. b /\ Differ(i + 1, j + 1)
  <2>1. i > Len(pat) \/ (i <= Len(pat) /\ i + 1 \in 1 .. a /\ ~ (i > Len(pat)))
    BY <1>1
  <2>2. j > Len(text) \/ (j <= Len(text) /\ j + 1 \in 1 .. b)
    BY <1>1
  <2>3. /\ m[<<i, j>>] = IF i > Len(pat) THEN j > Len(text)
                         ELSE IF pat[i] = "*"
                              THEN m[<<i + 1, j>>] \/ (j <= Len(text) /\ m[<<i, j + 1>>])
                              ELSE j <= Len(text) /\ pat[i] = text[j] /\ m[<<i + 1, j + 1>>]
        /\ w[<<i, j>>] = IF i > Len(pat) THEN j > Len(text)
                         ELSE IF pat[i] = "*"
                              THEN w[<<i + 1, j>>] \/ (j <= Len(text) /\ w[<<i, j + 1>>])
                              ELSE j <= Len(text) /\ pat[i] = text[j] /\ w[<<i + 1, j + 1>>]
    BY EntryOf
  <2>4. j > Len(text) => ~ (j <= Len(text))
    BY <1>1
  <2> QED
    BY <1>2, <2>1, <2>2, <2>3, <2>4
<1> SUFFICES ASSUME Differ(1, 1) PROVE FALSE
  OBVIOUS
<1> HIDE DEF Differ
<1>3. (a + b) - 2 \in Nat /\ (a + b) - 2 = (a + b) - (1 + 1) /\ 1 \in 1 .. a /\ 1 \in 1 .. b
  BY <1>1
<1>4. (a + b) - 2 \in Far
  BY <1>3
<1>5. PICK d \in Far : \A e \in Far : d <= e
  BY <1>4, LeastExists
<1>6. PICK i \in 1 .. a, j \in 1 .. b : d = (a + b) - (i + j) /\ Differ(i, j)
  BY <1>5
<1>7. ASSUME NEW k \in 1 .. a, NEW l \in 1 .. b, k + l > i + j, Differ(k, l)
      PROVE  FALSE
  <2> DEFINE e == (a + b) - (k + l)
  <2>1. e \in Nat /\ e < d
    BY <1>1, <1>6, <1>7
  <2>2. e \in Far
    BY <1>7, <2>1
  <2> HIDE DEF e, Far
  <2>3. d <= e /\ d \in Nat
    BY <1>1, <1>5, <1>6, <2>2 DEF Far
  <2> QED
    BY <2>1, <2>3
<1> HIDE DEF Far
<1>8. i + 1 + j > i + j /\ i + (j + 1) > i + j /\ i + 1 + (j + 1) > i + j
  BY <1>1
<1> QED
  BY <1>2, <1>6, <1>7, <1>8

\* A function that says of each place what the matcher does with the places after it.
Solves(w, pat, text) ==
    \A i \in 1 .. Len(pat) + 1, j \in 1 .. Len(text) + 1 :
        /\ i > Len(pat) => (w[<<i, j>>] <=> j > Len(text))
        /\ i <= Len(pat) /\ pat[i] = "*" =>
              (w[<<i, j>>] <=> w[<<i + 1, j>>] \/ (j <= Len(text) /\ w[<<i, j + 1>>]))
        /\ i <= Len(pat) /\ pat[i] # "*" =>
              (w[<<i, j>>] <=> j <= Len(text) /\ pat[i] = text[j] /\ w[<<i + 1, j + 1>>])

LEMMA MatchesByTable ==
    ASSUME NEW pat \in Seq(STRING), NEW text \in Seq(STRING),
           NEW w \in [Cells(pat, text) -> BOOLEAN], Solves(w, pat, text)
    PROVE  Matches(pat, text) <=> w[<<1, 1>>]
<1> DEFINE m == CHOOSE f : IsTable(f, pat, text)
<1>1. ASSUME NEW at \in Cells(pat, text)
      PROVE  w[at] = Entry(pat, text, w, at)
  <2>1. PICK i \in 1 .. Len(pat) + 1, j \in 1 .. Len(text) + 1 : at = <<i, j>>
    BY DEF Cells
  <2>2. i \in Nat /\ Len(pat) \in Nat /\ (i > Len(pat) \/ (i <= Len(pat) /\ ~ (i > Len(pat))))
    OBVIOUS
  <2>3. w[at] <=> Entry(pat, text, w, at)
    BY <2>1, <2>2 DEF Solves, Entry
  <2>4. w[at] \in BOOLEAN
    OBVIOUS
  <2>5. Entry(pat, text, w, at) \in BOOLEAN
    <3>1. CASE i > Len(pat)
      BY <2>1, <3>1 DEF Entry
    <3>2. CASE ~ (i > Len(pat)) /\ pat[i] = "*"
      BY <2>1, <3>2 DEF Entry
    <3>3. CASE ~ (i > Len(pat)) /\ pat[i] # "*"
      BY <2>1, <3>3 DEF Entry
    <3> QED
      BY <3>1, <3>2, <3>3
  <2> QED
    BY <2>3, <2>4, <2>5
<1>2. IsTable(w, pat, text)
  BY <1>1 DEF IsTable
<1>3. IsTable(m, pat, text)
  BY <1>2
<1> HIDE DEF m
<1>4. m[<<1, 1>>] = w[<<1, 1>>]
  BY <1>2, <1>3, OneTable
<1> QED
  BY <1>4, MatchesIsEntry DEF m

\* From place i of the pattern and j of the text on, both are the same.
Same(pat, text, i, j) ==
    /\ Len(pat) - i = Len(text) - j
    /\ \A k \in i .. Len(pat) : pat[k] = text[(k - i) + j]

LEMMA SameStep ==
    ASSUME NEW pat \in Seq(STRING), NEW text \in Seq(STRING),
           NEW i \in 1 .. Len(pat) + 1, NEW j \in 1 .. Len(text) + 1
    PROVE  /\ i > Len(pat) => (Same(pat, text, i, j) <=> j > Len(text))
           /\ i <= Len(pat) =>
                 (Same(pat, text, i, j) <=> /\ j <= Len(text) /\ pat[i] = text[j]
                                            /\ Same(pat, text, i + 1, j + 1))
<1>1. Len(pat) \in Nat /\ Len(text) \in Nat /\ i \in Nat /\ j \in Nat
  OBVIOUS
<1>2. CASE i > Len(pat)
  BY <1>1, <1>2 DEF Same
<1>3. CASE i <= Len(pat)
  <2>1. \A k \in i + 1 .. Len(pat) : (k - i) + j = (k - (i + 1)) + (j + 1)
    BY <1>1
  <2>2. (i - i) + j = j
    BY <1>1
  <2>3. \A k : k \in i .. Len(pat) <=> k = i \/ k \in i + 1 .. Len(pat)
    BY <1>1, <1>3
  <2>4. Len(pat) - i = Len(text) - j <=> Len(pat) - (i + 1) = Len(text) - (j + 1)
    BY <1>1
  <2>5. Len(pat) - i = Len(text) - j => j <= Len(text)
    BY <1>1, <1>3
  <2> QED
    BY <1>1, <1>3, <2>1, <2>2, <2>3, <2>4, <2>5 DEF Same
<1> QED
  BY <1>1, <1>2, <1>3

\* A pattern without stars matches itself.
LEMMA FileMatches ==
    ASSUME NEW pat \in Seq(STRING), NEW text \in Seq(STRING), \A k \in 1 .. Len(pat) : pat[k] # "*"
    PROVE  Matches(pat, text) <=> pat = text
<1> DEFINE w == [at \in Cells(pat, text) |-> Same(pat, text, at[1], at[2])]
<1>1. Len(pat) \in Nat /\ Len(text) \in Nat
  OBVIOUS
<1>2. ASSUME NEW i \in 1 .. Len(pat) + 1, NEW j \in 1 .. Len(text) + 1
      PROVE  w[<<i, j>>] <=> Same(pat, text, i, j)
  BY <1>2 DEF Cells
<1>3. w \in [Cells(pat, text) -> BOOLEAN]
  BY DEF Same
<1> HIDE DEF w
<1>4. Solves(w, pat, text)
  <2> SUFFICES ASSUME NEW i \in 1 .. Len(pat) + 1, NEW j \in 1 .. Len(text) + 1
               PROVE  /\ i > Len(pat) => (w[<<i, j>>] <=> j > Len(text))
                      /\ i <= Len(pat) => pat[i] # "*"
                      /\ i <= Len(pat) =>
                            (w[<<i, j>>] <=> j <= Len(text) /\ pat[i] = text[j] /\ w[<<i + 1, j + 1>>])
    BY DEF Solves
  <2>1. i <= Len(pat) => pat[i] # "*" /\ i + 1 \in 1 .. Len(pat) + 1
    BY <1>1
  <2>2. j <= Len(text) => j + 1 \in 1 .. Len(text) + 1
    BY <1>1
  <2> QED
    BY <1>2, <2>1, <2>2, SameStep
<1>5. Matches(pat, text) <=> Same(pat, text, 1, 1)
  BY <1>1, <1>2, <1>3, <1>4, MatchesByTable
<1>6. Same(pat, text, 1, 1) <=> Len(pat) = Len(text) /\ \A k \in 1 .. Len(pat) : pat[k] = text[k]
  <2>1. \A k \in 1 .. Len(pat) : (k - 1) + 1 = k
    BY <1>1
  <2> QED
    BY <1>1, <2>1 DEF Same
<1> QED
  BY <1>5, <1>6

\* The text is what comes before the star, and more.
Under(pat, text) == \A k \in 1 .. Len(pat) - 1 : k <= Len(text) /\ pat[k] = text[k]

\* The same from place i of the pattern and j of the text on.
UnderFrom(pat, text, i, j) ==
    \A k \in i .. Len(pat) - 1 : (k - i) + j <= Len(text) /\ pat[k] = text[(k - i) + j]

LEMMA UnderStep ==
    ASSUME NEW pat \in Seq(STRING), NEW text \in Seq(STRING),
           NEW i \in 1 .. Len(pat), NEW j \in 1 .. Len(text) + 1
    PROVE  /\ i = Len(pat) => UnderFrom(pat, text, i, j)
           /\ i < Len(pat) =>
                 (UnderFrom(pat, text, i, j) <=> /\ j <= Len(text) /\ pat[i] = text[j]
                                                 /\ UnderFrom(pat, text, i + 1, j + 1))
<1>1. Len(pat) \in Nat /\ Len(text) \in Nat /\ i \in Nat /\ j \in Nat
  OBVIOUS
<1>2. CASE i = Len(pat)
  BY <1>1, <1>2 DEF UnderFrom
<1>3. CASE i < Len(pat)
  <2>1. \A k \in i + 1 .. Len(pat) - 1 : (k - i) + j = (k - (i + 1)) + (j + 1)
    BY <1>1
  <2>2. (i - i) + j = j
    BY <1>1
  <2>3. \A k : k \in i .. Len(pat) - 1 <=> k = i \/ k \in i + 1 .. Len(pat) - 1
    BY <1>1, <1>3
  <2> QED
    BY <1>1, <1>3, <2>1, <2>2, <2>3 DEF UnderFrom
<1> QED
  BY <1>1, <1>2, <1>3

\* A pattern with one star, at its end, matches whatever is under it.
LEMMA TreeMatches ==
    ASSUME NEW pat \in Seq(STRING), NEW text \in Seq(STRING), Len(pat) > 0, pat[Len(pat)] = "*",
           \A k \in 1 .. Len(pat) - 1 : pat[k] # "*"
    PROVE  Matches(pat, text) <=> Under(pat, text)
<1> DEFINE n == Len(pat)
           Value(i, j) == (i > n /\ j > Len(text)) \/ (i <= n /\ UnderFrom(pat, text, i, j))
           w == [at \in Cells(pat, text) |-> Value(at[1], at[2])]
<1>1. n \in Nat /\ Len(text) \in Nat /\ n > 0
  OBVIOUS
<1>2. ASSUME NEW i \in 1 .. n + 1, NEW j \in 1 .. Len(text) + 1
      PROVE  /\ i > n => (w[<<i, j>>] <=> j > Len(text))
             /\ i <= n => (w[<<i, j>>] <=> UnderFrom(pat, text, i, j))
  <2>1. <<i, j>> \in Cells(pat, text)
    BY <1>2 DEF Cells
  <2>2. w[<<i, j>>] <=> (i > n /\ j > Len(text)) \/ (i <= n /\ UnderFrom(pat, text, i, j))
    BY <2>1
  <2>3. (i > n /\ ~ (i <= n)) \/ (i <= n /\ ~ (i > n))
    BY <1>1, <1>2
  <2> QED
    BY <2>2, <2>3
<1>3. w \in [Cells(pat, text) -> BOOLEAN]
  BY DEF UnderFrom
<1> HIDE DEF w
<1>4. Solves(w, pat, text)
  <2>1. ASSUME NEW i \in 1 .. n + 1, NEW j \in 1 .. Len(text) + 1
        PROVE  /\ i > n => (w[<<i, j>>] <=> j > Len(text))
               /\ i = n => (w[<<i, j>>] <=> w[<<i + 1, j>>] \/ (j <= Len(text) /\ w[<<i, j + 1>>]))
               /\ i < n => (w[<<i, j>>] <=> j <= Len(text) /\ pat[i] = text[j] /\ w[<<i + 1, j + 1>>])
    <3>1. j <= Len(text) => j + 1 \in 1 .. Len(text) + 1
      BY <1>1, <2>1
    <3>2. ASSUME i = n PROVE w[<<i, j>>] <=> w[<<i + 1, j>>] \/ (j <= Len(text) /\ w[<<i, j + 1>>])
      <4>1. w[<<i, j>>]
        BY <1>1, <1>2, <3>2, UnderStep
      <4>2. j > Len(text) => w[<<i + 1, j>>]
        BY <1>1, <1>2, <3>2
      <4>3. j <= Len(text) => w[<<i, j + 1>>]
        BY <1>1, <1>2, <3>1, <3>2, UnderStep
      <4>4. j > Len(text) \/ j <= Len(text)
        BY <1>1
      <4> QED
        BY <4>1, <4>2, <4>3, <4>4
    <3>3. ASSUME i < n
          PROVE  w[<<i, j>>] <=> j <= Len(text) /\ pat[i] = text[j] /\ w[<<i + 1, j + 1>>]
      <4>1. i \in 1 .. n /\ i + 1 \in 1 .. n + 1 /\ i <= n /\ i + 1 <= n
        BY <1>1, <3>3
      <4>2. w[<<i, j>>] <=> j <= Len(text) /\ pat[i] = text[j] /\ UnderFrom(pat, text, i + 1, j + 1)
        BY <1>2, <3>3, <4>1, UnderStep
      <4>3. j <= Len(text) => (w[<<i + 1, j + 1>>] <=> UnderFrom(pat, text, i + 1, j + 1))
        BY <1>2, <3>1, <4>1
      <4> QED
        BY <4>2, <4>3
    <3> QED
      BY <1>2, <3>2, <3>3
  <2>2. \A i \in 1 .. n + 1 : /\ i <= n /\ pat[i] = "*" => i = n
                             /\ i <= n /\ pat[i] # "*" => i < n
    BY <1>1
  <2>3. ASSUME NEW i \in 1 .. n + 1, NEW j \in 1 .. Len(text) + 1
        PROVE  /\ i > n => (w[<<i, j>>] <=> j > Len(text))
               /\ i <= n /\ pat[i] = "*" =>
                     (w[<<i, j>>] <=> w[<<i + 1, j>>] \/ (j <= Len(text) /\ w[<<i, j + 1>>]))
               /\ i <= n /\ pat[i] # "*" =>
                     (w[<<i, j>>] <=> j <= Len(text) /\ pat[i] = text[j] /\ w[<<i + 1, j + 1>>])
    <3>1. (i <= n /\ pat[i] = "*" => i = n) /\ (i <= n /\ pat[i] # "*" => i < n)
      BY <2>2
    <3>2. i > n => (w[<<i, j>>] <=> j > Len(text))
      BY <2>1
    <3>3. i = n => (w[<<i, j>>] <=> w[<<i + 1, j>>] \/ (j <= Len(text) /\ w[<<i, j + 1>>]))
      BY <2>1
    <3>4. i < n => (w[<<i, j>>] <=> j <= Len(text) /\ pat[i] = text[j] /\ w[<<i + 1, j + 1>>])
      BY <2>1
    <3> QED
      BY <3>1, <3>2, <3>3, <3>4
  <2> QED
    BY <2>3 DEF Solves
<1>5. Matches(pat, text) <=> w[<<1, 1>>]
  BY <1>3, <1>4, MatchesByTable
<1>6. w[<<1, 1>>] <=> UnderFrom(pat, text, 1, 1)
  BY <1>1, <1>2
<1>7. UnderFrom(pat, text, 1, 1) <=> Under(pat, text)
  <2>1. \A k \in 1 .. n - 1 : (k - 1) + 1 = k
    BY <1>1
  <2> QED
    BY <1>1, <2>1 DEF Under, UnderFrom
<1> QED
  BY <1>5, <1>6, <1>7

----------------------------------------------------------------------------
(* Files and whole trees. *)

\* What a glob that is a tree matches.
Covers(p, path) == IF HasStar(p) THEN Under(p, path) ELSE p = path

\* A tree with a star has it at its end, below a directory or at the top.
LEMMA TreeShape ==
    ASSUME NEW p \in Seq(STRING), Tree(p), HasStar(p)
    PROVE  /\ Len(p) \in Nat \ {0} /\ p[Len(p)] = "*"
           /\ \A k \in 1 .. Len(p) - 1 : p[k] \notin Stars
           /\ Len(p) = 1 \/ (Len(p) > 2 /\ p[Len(p) - 1] = "/" /\ p[Len(p) - 2] # "/")
<1>1. CASE p = <<"*">>
  BY <1>1
<1>2. CASE p # <<"*">>
  <2>1. /\ Len(p) > 2 /\ p[Len(p)] = "*" /\ p[Len(p) - 1] = "/" /\ p[Len(p) - 2] # "/"
        /\ \A i \in 1 .. Len(p) - 1 : p[i] \notin Stars
    BY <1>2 DEF Tree
  <2>2. Len(p) \in Nat \ {0}
    BY <2>1
  <2> QED
    BY <2>1, <2>2
<1> QED
  BY <1>1, <1>2

LEMMA NoStar ==
    ASSUME NEW p \in Seq(STRING), ~ HasStar(p)
    PROVE  \A k \in 1 .. Len(p) : p[k] \notin Stars
  BY DEF HasStar, Range

LEMMA TreeReadings ==
    ASSUME NEW p \in Seq(STRING), Tree(p)
    PROVE  Readings(p) = {p}
<1>1. {i \in DOMAIN p : p[i] = "**/"} = {}
  <2>0. Len(p) \in Nat
    OBVIOUS
  <2>1. DOMAIN p = 1 .. Len(p)
    OBVIOUS
  <2>2. CASE HasStar(p)
    <3>1. \A k \in 1 .. Len(p) : k \in 1 .. Len(p) - 1 \/ k = Len(p)
      BY <2>0
    <3>2. p[Len(p)] = "*" /\ \A k \in 1 .. Len(p) - 1 : p[k] \notin Stars
      BY <2>2, TreeShape
    <3>3. \A k \in 1 .. Len(p) : p[k] # "**/"
      BY <3>1, <3>2 DEF Stars
    <3> QED
      BY <2>1, <3>3
  <2>3. CASE ~ HasStar(p)
    BY <2>1, <2>3, NoStar DEF Stars
  <2> QED
    BY <2>2, <2>3
<1> QED
  BY <1>1 DEF Readings

LEMMA TreeCovers ==
    ASSUME NEW p \in Seq(STRING), Tree(p), NEW path \in Seq(STRING)
    PROVE  Matches(p, path) <=> Covers(p, path)
<1>1. CASE HasStar(p)
  <2>1. /\ Len(p) > 0 /\ p[Len(p)] = "*"
        /\ \A k \in 1 .. Len(p) - 1 : p[k] # "*"
    BY <1>1, TreeShape DEF Stars
  <2> QED
    BY <1>1, <2>1, TreeMatches DEF Covers
<1>2. CASE ~ HasStar(p)
  <2>1. \A k \in 1 .. Len(p) : p[k] # "*"
    BY <1>2, NoStar DEF Stars
  <2> QED
    BY <1>2, <2>1, FileMatches DEF Covers
<1> QED
  BY <1>1, <1>2

LEMMA TreeHits ==
    ASSUME NEW globs \in SUBSET Patterns, \A p \in globs : Tree(p), NEW path \in Seq(STRING)
    PROVE  Hits(globs, path) <=> \E p \in globs : Covers(p, path)
<1>1. \A p \in globs : p \in Seq(STRING)
  BY TextIsTokens
<1> QED
  BY <1>1, TreeReadings, TreeCovers DEF Hits

\* What comes before the star of a tree, without its "/".
LEMMA TreePrefix ==
    ASSUME NEW p \in Seq(STRING), Tree(p), HasStar(p)
    PROVE  Prefix(p) = IF Len(p) = 1 THEN << >> ELSE SubSeq(p, 1, Len(p) - 2)
<1> DEFINE First(i) == p[i] \in Stars /\ \A j \in 1 .. i - 1 : p[j] \notin Stars
           star == CHOOSE i \in DOMAIN p : First(i)
           full == SubSeq(p, 1, star - 1)
           Trimmed(k) == /\ k > 0 => full[k] # "/"
                         /\ \A i \in k + 1 .. Len(full) : full[i] = "/"
           n == CHOOSE k \in 0 .. Len(full) : Trimmed(k)
<1>0. Prefix(p) = SubSeq(full, 1, n)
  BY DEF Prefix
<1>1. star = Len(p)
  <2>1. Len(p) \in DOMAIN p /\ First(Len(p))
    BY TreeShape DEF Stars
  <2>2. star \in DOMAIN p /\ First(star)
    BY <2>1
  <2>3. \A k \in DOMAIN p : k \in 1 .. Len(p) - 1 \/ k = Len(p)
    BY TreeShape
  <2> QED
    BY <2>2, <2>3, TreeShape
<1> HIDE DEF star
<1>2. /\ full \in Seq(STRING) /\ Len(full) = Len(p) - 1
      /\ \A i \in 1 .. Len(p) - 1 : full[i] = p[i]
  BY <1>1, TreeShape
<1>3. CASE Len(p) = 1
  <2>1. full = << >> /\ Len(full) = 0
    BY <1>2, <1>3
  <2> QED
    BY <1>0, <1>3, <2>1
<1>4. CASE Len(p) # 1
  <2>1. /\ Len(p) > 2 /\ Len(p) \in Nat
        /\ full[Len(p) - 1] = "/" /\ full[Len(p) - 2] # "/"
    BY <1>2, <1>4, TreeShape
  <2>2. Len(p) - 2 \in 0 .. Len(full) /\ Trimmed(Len(p) - 2)
    BY <1>2, <2>1
  <2>3. n \in 0 .. Len(full) /\ Trimmed(n)
    BY <2>2
  <2> HIDE DEF full, n
  <2>4. n \notin 0 .. Len(p) - 3
    BY <1>2, <2>1, <2>3
  <2>5. n # Len(p) - 1
    BY <1>2, <2>1, <2>3
  <2>6. n = Len(p) - 2
    BY <1>2, <2>1, <2>3, <2>4, <2>5
  <2>7. SubSeq(full, 1, n) = SubSeq(p, 1, Len(p) - 2)
    BY <1>2, <2>1, <2>6
  <2> QED
    BY <1>0, <1>4, <2>7
<1> QED
  BY <1>3, <1>4

LEMMA ThreeMore ==
    ASSUME NEW d \in Seq(STRING), NEW a, NEW b, NEW c, NEW t, t = d \o <<a, b, c>>
    PROVE  /\ Len(t) = Len(d) + 3
           /\ \A k \in 1 .. Len(d) : t[k] = d[k]
           /\ t[Len(d) + 1] = a /\ t[Len(d) + 2] = b /\ t[Len(d) + 3] = c
<1>1. Len(t) = Len(d) + 3
  OBVIOUS
<1>2. \A k \in 1 .. Len(d) : t[k] = d[k]
  OBVIOUS
<1>3. t[Len(d) + 1] = a /\ t[Len(d) + 2] = b /\ t[Len(d) + 3] = c
  OBVIOUS
<1> QED
  BY <1>1, <1>2, <1>3

LEMMA NotEmpty == ASSUME NEW d \in Seq(STRING), Len(d) > 0 PROVE d # << >>
  OBVIOUS

LEMMA Shorter ==
    ASSUME NEW p \in Seq(STRING), Len(p) > 2, NEW d, d = SubSeq(p, 1, Len(p) - 2)
    PROVE  /\ d \in Seq(STRING) /\ Len(d) = Len(p) - 2 /\ d # << >>
           /\ \A k \in 1 .. Len(p) - 2 : d[k] = p[k]
<1>1. d \in Seq(STRING) /\ Len(d) = Len(p) - 2
  OBVIOUS
<1>2. \A k \in 1 .. Len(p) - 2 : d[k] = p[k]
  OBVIOUS
<1>3. Len(d) > 0
  BY <1>1
<1>4. d # << >>
  BY <1>1, <1>3, NotEmpty
<1> QED
  BY <1>1, <1>2, <1>4

\* The path that stands for a tree: a file in its directory.
LEMMA ProbeOfTree ==
    ASSUME NEW p \in Patterns, Tree(p), HasStar(p)
    PROVE  /\ PeerProbe(p) \in Probes(p) /\ Len(PeerProbe(p)) = Len(p) + 1
           /\ \A k \in 1 .. Len(p) - 1 : PeerProbe(p)[k] = p[k]
           /\ PeerProbe(p)[Len(p)] = "file" /\ PeerProbe(p)[Len(p) + 1] = ".rs"
<1> DEFINE t == PeerProbe(p)
<1>0. p \in Seq(STRING)
  BY TextIsTokens
<1>1. CASE Len(p) = 1
  <2>1. t = <<"file", ".rs">> /\ t \in Probes(p)
    BY <1>0, <1>1, TreePrefix DEF PeerProbe, Probes
  <2>2. Len(t) = 2 /\ t[1] = "file" /\ t[2] = ".rs"
    BY <2>1
  <2>3. 1 .. Len(p) - 1 = {}
    BY <1>1
  <2> HIDE DEF t
  <2>4. Len(t) = Len(p) + 1 /\ t[Len(p)] = "file" /\ t[Len(p) + 1] = ".rs"
    BY <1>1, <2>2
  <2> QED
    BY <2>1, <2>3, <2>4 DEF t
<1>2. CASE Len(p) # 1
  <2> DEFINE d == SubSeq(p, 1, Len(p) - 2)
  <2>1. /\ Len(p) > 2 /\ Len(p) \in Nat /\ p[Len(p) - 1] = "/"
    BY <1>0, <1>2, TreeShape
  <2>2. /\ d \in Seq(STRING) /\ Len(d) = Len(p) - 2 /\ d # << >>
        /\ \A k \in 1 .. Len(p) - 2 : d[k] = p[k]
    BY <1>0, <2>1, Shorter
  <2>3. Prefix(p) = d
    BY <1>0, <1>2, TreePrefix
  <2> HIDE DEF d
  <2>4. t = d \o <<"/", "file", ".rs">> /\ t \in Probes(p)
    BY <2>2, <2>3 DEF PeerProbe, Probes
  <2> HIDE DEF t
  <2>5. /\ Len(t) = Len(d) + 3
        /\ \A k \in 1 .. Len(d) : t[k] = d[k]
        /\ t[Len(d) + 1] = "/" /\ t[Len(d) + 2] = "file" /\ t[Len(d) + 3] = ".rs"
    BY <2>2, <2>4, ThreeMore
  <2>6. Len(d) + 1 = Len(p) - 1 /\ Len(d) + 2 = Len(p) /\ Len(d) + 3 = Len(p) + 1
    BY <2>1, <2>2
  <2>7. \A k \in 1 .. Len(p) - 1 : k \in 1 .. Len(p) - 2 \/ k = Len(p) - 1
    BY <2>1
  <2>8. \A k \in 1 .. Len(p) - 1 : t[k] = p[k]
    BY <2>1, <2>2, <2>5, <2>6, <2>7
  <2> QED
    BY <2>4, <2>5, <2>6, <2>8 DEF t
<1> QED
  BY <1>1, <1>2

\* A glob without a star stands for itself.
LEMMA ProbeOfFile ==
    ASSUME NEW p, ~ HasStar(p)
    PROVE  PeerProbe(p) = p /\ Probes(p) = {p}
  BY DEF PeerProbe, Probes

\* The path that stands for a tree is a path, and the tree covers it.
LEMMA ProbeCovered ==
    ASSUME NEW p \in Patterns, Tree(p)
    PROVE  PeerProbe(p) \in Probes(p) /\ PeerProbe(p) \in Paths /\ Covers(p, PeerProbe(p))
<1>1. p \in Seq(STRING)
  BY TextIsTokens
<1>2. CASE HasStar(p)
  <2>1. Len(p) \in Nat
    BY <1>1
  <2>2. Under(p, PeerProbe(p))
    BY <1>2, <2>1, ProbeOfTree DEF Under
  <2> QED
    BY <1>2, <2>2, ProbeOfTree, ProbesArePaths DEF Covers
<1>3. CASE ~ HasStar(p)
  BY <1>3, ProbeOfFile, ProbesArePaths DEF Covers
<1> QED
  BY <1>2, <1>3

\* A tree that covers the file that stands for another holds all of it: its
\* directory ends in "/", and the name of the file holds none.
LEMMA Nested ==
    ASSUME NEW p \in Patterns, NEW q \in Patterns, Tree(p), Tree(q), HasStar(p), HasStar(q),
           Under(q, PeerProbe(p)), NEW path \in Seq(STRING), Under(p, path)
    PROVE  Under(q, path)
<1> DEFINE t == PeerProbe(p)
<1>1. p \in Seq(STRING) /\ q \in Seq(STRING)
  BY TextIsTokens
<1>2. Len(p) \in Nat \ {0} /\ Len(q) \in Nat \ {0} /\ Len(path) \in Nat
  BY <1>1, TreeShape
<1>3. /\ Len(t) = Len(p) + 1 /\ \A k \in 1 .. Len(p) - 1 : t[k] = p[k]
      /\ t[Len(p)] = "file" /\ t[Len(p) + 1] = ".rs"
  BY ProbeOfTree
<1>4. \A k \in 1 .. Len(q) - 1 : k <= Len(t) /\ q[k] = t[k]
  BY DEF Under
<1>5. \A k \in 1 .. Len(p) - 1 : k <= Len(path) /\ p[k] = path[k]
  BY DEF Under
<1> HIDE DEF t
<1>6. Len(q) = 1 \/ (Len(q) - 1 \in 1 .. Len(q) - 1 /\ q[Len(q) - 1] = "/")
  BY <1>1, <1>2, TreeShape
<1>7. Len(q) - 1 <= Len(p) - 1
  <2>1. CASE Len(q) = 1
    BY <1>2, <2>1
  <2>2. CASE Len(q) # 1
    <3>1. Len(q) - 1 <= Len(p) + 1 /\ t[Len(q) - 1] = "/"
      BY <1>3, <1>4, <1>6, <2>2
    <3>2. Len(q) - 1 # Len(p) /\ Len(q) - 1 # Len(p) + 1
      BY <1>3, <3>1
    <3> QED
      BY <1>2, <3>1, <3>2
  <2> QED
    BY <2>1, <2>2
<1>8. \A k \in 1 .. Len(q) - 1 : k \in 1 .. Len(p) - 1
  BY <1>2, <1>7
<1>9. \A k \in 1 .. Len(q) - 1 : k <= Len(path) /\ q[k] = path[k]
  BY <1>3, <1>4, <1>5, <1>8
<1> QED
  BY <1>9 DEF Under

\* Of two trees with a path in common, one covers the file that stands for the
\* other.
LEMMA MeetIsNest ==
    ASSUME NEW p \in Patterns, NEW q \in Patterns, Tree(p), Tree(q), HasStar(p), HasStar(q),
           NEW path \in Seq(STRING), Under(p, path), Under(q, path), Len(q) <= Len(p)
    PROVE  Under(q, PeerProbe(p))
<1>1. p \in Seq(STRING) /\ q \in Seq(STRING) /\ Len(p) \in Nat /\ Len(q) \in Nat
  BY TextIsTokens
<1>2. \A k \in 1 .. Len(q) - 1 : k \in 1 .. Len(p) - 1
  BY <1>1
<1>3. \A k \in 1 .. Len(q) - 1 : q[k] = PeerProbe(p)[k]
  BY <1>2, ProbeOfTree DEF Under
<1>4. \A k \in 1 .. Len(q) - 1 : k <= Len(PeerProbe(p))
  BY <1>1, <1>2, ProbeOfTree
<1> QED
  BY <1>3, <1>4 DEF Under

\* Of two globs with a path in common, one covers what stands for the other.
LEMMA CommonProbe ==
    ASSUME NEW p \in Patterns, NEW q \in Patterns, Tree(p), Tree(q),
           NEW path \in Seq(STRING), Covers(p, path), Covers(q, path)
    PROVE  Covers(q, PeerProbe(p)) \/ Covers(p, PeerProbe(q))
<1>1. CASE ~ HasStar(p)
  BY <1>1, ProbeOfFile DEF Covers
<1>2. CASE ~ HasStar(q)
  BY <1>2, ProbeOfFile DEF Covers
<1>3. CASE HasStar(p) /\ HasStar(q)
  <2>1. Len(p) \in Nat /\ Len(q) \in Nat
    BY TextIsTokens
  <2>2. Len(q) <= Len(p) \/ Len(p) <= Len(q)
    BY <2>1
  <2> QED
    BY <1>3, <2>2, MeetIsNest DEF Covers
<1> QED
  BY <1>1, <1>2, <1>3

\* find_peer_overlap is exact for globs that name files and whole trees: two sets
\* of them overlap just when a path matches both.
THEOREM OverlapIsMeet ==
    ASSUME NEW a \in SUBSET Patterns, NEW b \in SUBSET Patterns,
           \A p \in a \cup b : Tree(p)
    PROVE  Overlap(a, b) <=> Meet(a, b)
<1>1. \A p \in a \cup b : p \in Patterns /\ Tree(p) /\ Compiles(p) /\ Probes(p) \subseteq Paths
  BY ProbesArePaths DEF Tree
<1>2. \A path \in Paths : /\ Hits(a, path) <=> \E p \in a : Covers(p, path)
                          /\ Hits(b, path) <=> \E p \in b : Covers(p, path)
  BY TreeHits, TextIsTokens
<1>3. \A p \in a \cup b : Language[p] = {path \in Paths : Covers(p, path)}
  <2> SUFFICES ASSUME NEW p \in a \cup b
               PROVE  Language[p] = {path \in Paths : Covers(p, path)}
    OBVIOUS
  <2>1. p \in Patterns /\ {p} \in SUBSET Patterns /\ \A g \in {p} : Tree(g)
    BY <1>1
  <2>2. \A path \in Paths : Hits({p}, path) <=> \E g \in {p} : Covers(g, path)
    BY <2>1, TreeHits, TextIsTokens
  <2>3. \A path \in Paths : Hits({p}, path) <=> Covers(p, path)
    BY <2>2
  <2> QED
    BY <2>1, <2>3 DEF Language
<1>4. Meet(a, b) <=> \E p \in a, q \in b, path \in Paths : Covers(p, path) /\ Covers(q, path)
  BY <1>3 DEF Meet
<1>5. ASSUME Overlap(a, b)
      PROVE  \E p \in a, q \in b, path \in Paths : Covers(p, path) /\ Covers(q, path)
  <2>1. CASE a \cap b # {}
    BY <1>1, <2>1, ProbeCovered
  <2>2. CASE \E p \in a \cup b : \E path \in Probes(p) : Hits(a, path) /\ Hits(b, path)
    <3>1. PICK path \in Paths : Hits(a, path) /\ Hits(b, path)
      BY <1>1, <2>2
    <3> QED
      BY <1>2, <3>1
  <2> QED
    BY <1>1, <1>5, <2>1, <2>2 DEF Overlap
<1>6. ASSUME NEW p \in a, NEW q \in b, NEW path \in Paths, Covers(p, path), Covers(q, path)
      PROVE  Overlap(a, b)
  <2>1. Covers(q, PeerProbe(p)) \/ Covers(p, PeerProbe(q))
    BY <1>1, <1>6, CommonProbe, TextIsTokens
  <2>2. /\ PeerProbe(p) \in Probes(p) /\ PeerProbe(p) \in Paths /\ Covers(p, PeerProbe(p))
        /\ PeerProbe(q) \in Probes(q) /\ PeerProbe(q) \in Paths /\ Covers(q, PeerProbe(q))
    BY <1>1, ProbeCovered
  <2>3. CASE Covers(q, PeerProbe(p))
    BY <1>2, <2>2, <2>3 DEF Overlap
  <2>4. CASE Covers(p, PeerProbe(q))
    BY <1>2, <2>2, <2>4 DEF Overlap
  <2> QED
    BY <2>1, <2>3, <2>4
<1> QED
  BY <1>4, <1>5, <1>6

\* If a set of files and whole trees, none of the files with the name that stands for
\* a tree, covers what stands for a glob, it covers everything the glob does.
LEMMA ProbeBoundsAll ==
    ASSUME NEW S \in SUBSET Patterns, \A g \in S : Tree(g),
           \A g \in S, q \in Patterns : HasStar(q) /\ Tree(q) => PeerProbe(q) # g,
           NEW p \in Patterns, Tree(p), NEW path \in Paths, Covers(p, path),
           Hits(S, PeerProbe(p))
    PROVE  Hits(S, path)
<1>1. PeerProbe(p) \in Seq(STRING) /\ path \in Seq(STRING)
  BY ProbeCovered, TextIsTokens
<1>2. PICK g \in S : Covers(g, PeerProbe(p))
  BY <1>1, TreeHits
<1>3. Covers(g, path)
  <2>1. CASE ~ HasStar(p)
    BY <1>2, <2>1, ProbeOfFile DEF Covers
  <2>2. CASE HasStar(p)
    <3>1. HasStar(g)
      BY <1>2, <2>2 DEF Covers
    <3> QED
      BY <1>1, <1>2, <2>2, <3>1, Nested DEF Covers
  <2> QED
    BY <2>1, <2>2
<1> QED
  BY <1>1, <1>3, TreeHits

\* Globs of files and whole trees that the probes do not catch outside a contract of
\* the same kind are inside it, in every path.
LEMMA ProbesSuffice ==
    ASSUME NEW globs \in SUBSET Patterns, \A p \in globs : Tree(p), PlainContract,
           ~ Exceeds(globs), NEW path \in Paths, Bounded(path, globs)
    PROVE  Bounded(path, Allowed)
<1>1. PICK p \in globs : Covers(p, path)
  BY TreeHits, TextIsTokens DEF Bounded
<1>2. p \in Patterns /\ Tree(p)
  OBVIOUS
<1>3. PeerProbe(p) \in Paths /\ Covers(p, PeerProbe(p))
  BY <1>2, ProbeCovered
<1>4. Hits(globs, PeerProbe(p))
  BY <1>3, TreeHits, TextIsTokens
<1>5. /\ Allowed \in SUBSET Patterns /\ Forbidden \in SUBSET Patterns
      /\ \A g \in Allowed : Tree(g)
      /\ \A g \in Forbidden : Tree(g)
      /\ \A g \in Allowed, q \in Patterns : HasStar(q) /\ Tree(q) => PeerProbe(q) # g
      /\ \A g \in Forbidden, q \in Patterns : HasStar(q) /\ Tree(q) => PeerProbe(q) # g
  BY GlobsCompile DEF PlainContract
<1>6. ~ Hits(Forbidden, path)
  BY DEF Bounded
<1>7. ~ Hits(Forbidden, PeerProbe(p))
  BY <1>1, <1>2, <1>5, <1>6, ProbeBoundsAll
<1>8. Hits(Allowed, PeerProbe(p))
  BY <1>4, <1>7 DEF Exceeds, Bounded
<1>9. Hits(Allowed, path)
  BY <1>1, <1>2, <1>5, <1>8, ProbeBoundsAll
<1> QED
  BY <1>6, <1>9 DEF Bounded

----------------------------------------------------------------------------
(* The comparison of the peers. *)

Apart(k, l) == ~ Overlap(batch[k], batch[l])

Comparing ==
    LET i == pair[1]
        j == pair[2]
    IN /\ pair = <<i, j>> /\ i \in 1 .. Len(batch) /\ j \in 1 .. Len(batch) /\ i < j
       /\ \A k, l \in 1 .. Len(batch) :
             k < l /\ (k < i \/ (k = i /\ l < j)) => Apart(k, l)

AllApart == \A k, l \in 1 .. Len(batch) : k < l => Apart(k, l)

\* Before the comparison the first pair is next; during it all pairs before the next one
\* are known to be apart.
PeerInv ==
    /\ batch \in Seq(SUBSET Patterns)
    /\ pc = "parse" => pair = <<1, 2>>
    /\ pc = "overlap" => Comparing
    /\ pc = "peer_overlap" => \E k, l \in 1 .. Len(batch) : k < l /\ ~ Apart(k, l)
    /\ pc \in {"contract", "started"} => AllApart
    /\ pc = "started" => \A i \in 1 .. Len(batch) : ~ Exceeds(batch[i])

LEMMA PeerInvInit == Init => PeerInv
<1> SUFFICES ASSUME Init PROVE PeerInv
  OBVIOUS
<1>1. CASE batch = << >>
  BY <1>1 DEF Init, PeerInv
<1>2. CASE batch \in Batches
  <2>1. batch \in Seq(SUBSET Patterns)
    BY <1>2, GlobsCompile
  <2> QED
    BY <2>1 DEF Init, PeerInv
<1> QED
  BY <1>1, <1>2 DEF Init

LEMMA PeerInvNext == PeerInv /\ [Next]_vars => PeerInv'
<1> SUFFICES ASSUME PeerInv, [Next]_vars PROVE PeerInv'
  OBVIOUS
<1> USE DEF PeerInv
<1>1. ASSUME TakePeers PROVE PeerInv'
  <2>1. Len(batch) \in Nat /\ Len(batch) >= 2
    BY <1>1 DEF TakePeers
  <2>2. pair = <<1, 2>> /\ batch' = batch /\ pair' = pair /\ pc' = "overlap"
    BY <1>1 DEF TakePeers
  <2>3. Comparing'
    BY <2>1, <2>2 DEF Comparing
  <2> QED
    BY <2>2, <2>3
<1>2. ASSUME ComparePeers PROVE PeerInv'
  <2> DEFINE i == pair[1]
             j == pair[2]
             n == Len(batch)
  <2>1. /\ pair = <<i, j>> /\ i \in 1 .. n /\ j \in 1 .. n /\ i < j /\ n \in Nat
        /\ \A k, l \in 1 .. n : k < l /\ (k < i \/ (k = i /\ l < j)) => Apart(k, l)
    BY <1>2 DEF ComparePeers, Comparing
  <2>2. batch' = batch /\ \A k, l : Apart(k, l)' = Apart(k, l)
    BY <1>2 DEF ComparePeers, Apart
  <2>3. CASE Overlap(batch[i], batch[j]) /\ pc' = "peer_overlap"
    BY <2>1, <2>2, <2>3 DEF Apart
  <2>4. CASE ~ Overlap(batch[i], batch[j]) /\ j < n /\ pair' = <<i, j + 1>> /\ pc' = pc
    <3>1. Apart(i, j) /\ pc' = "overlap"
      BY <1>2, <2>4 DEF Apart, ComparePeers
    <3>2. \A k, l \in 1 .. n : k < l /\ (k < i \/ (k = i /\ l < j + 1)) => Apart(k, l)
      BY <2>1, <3>1
    <3>3. Comparing'
      BY <2>1, <2>2, <2>4, <3>2 DEF Comparing
    <3> QED
      BY <2>2, <3>1, <3>3
  <2>5. CASE ~ Overlap(batch[i], batch[j]) /\ j = n /\ i + 1 < n
             /\ pair' = <<i + 1, i + 2>> /\ pc' = pc
    <3>1. Apart(i, j) /\ pc' = "overlap"
      BY <1>2, <2>5 DEF Apart, ComparePeers
    <3>2. \A k, l \in 1 .. n : k < l /\ (k < i + 1 \/ (k = i + 1 /\ l < i + 2)) => Apart(k, l)
      BY <2>1, <2>5, <3>1
    <3>3. Comparing'
      BY <2>1, <2>2, <2>5, <3>2 DEF Comparing
    <3> QED
      BY <2>2, <3>1, <3>3
  <2>6. CASE ~ Overlap(batch[i], batch[j]) /\ j = n /\ i + 1 = n /\ pc' = "contract"
    <3>1. Apart(i, j)
      BY <2>6 DEF Apart
    <3>2. AllApart
      BY <2>1, <2>6, <3>1 DEF AllApart
    <3> QED
      BY <2>2, <2>6, <3>2 DEF AllApart
  <2> QED
    BY <1>2, <2>3, <2>4, <2>5, <2>6 DEF ComparePeers
<1>3. ASSUME ContractCheck PROVE PeerInv'
  <2>1. batch' = batch /\ pc' \in {"schema", "started"} /\ AllApart
    BY <1>3 DEF ContractCheck
  <2>2. AllApart'
    BY <2>1 DEF AllApart, Apart
  <2>3. pc' = "started" => \A i \in 1 .. Len(batch) : ~ Exceeds(batch[i])
    BY <1>3 DEF ContractCheck
  <2> QED
    BY <2>1, <2>2, <2>3
<1>4. CASE RefuseDag
  BY <1>4 DEF RefuseDag
<1>5. CASE StartSort
  BY <1>5 DEF StartSort
<1>6. CASE SortNext
  BY <1>6 DEF SortNext
<1>7. CASE SortEnd
  BY <1>7 DEF SortEnd
<1>8. CASE Seed
  BY <1>8 DEF Seed
<1>9. CASE SeedEnd
  BY <1>9 DEF SeedEnd
<1>10. CASE RefusePeers
  BY <1>10 DEF RefusePeers
<1>11. CASE UNCHANGED vars
  BY <1>11 DEF vars, Comparing, AllApart, Apart
<1> QED
  BY <1>1, <1>2, <1>3, <1>4, <1>5, <1>6, <1>7, <1>8, <1>9, <1>10, <1>11 DEF Next

LEMMA PeersRight ==
    ASSUME PeerInv
    PROVE  OverlapExact /\ PeersInContract
<1>1. batch \in Seq(SUBSET Patterns) /\ DOMAIN batch = 1 .. Len(batch)
  BY DEF PeerInv
<1>2. ASSUME Plain, NEW k \in 1 .. Len(batch), NEW l \in 1 .. Len(batch)
      PROVE  Overlap(batch[k], batch[l]) <=> Meet(batch[k], batch[l])
  <2>1. \A p \in batch[k] \cup batch[l] : Tree(p)
    BY <1>1, <1>2 DEF Plain
  <2> QED
    BY <1>1, <2>1, OverlapIsMeet
<1>3. OverlapExact
  BY <1>1, <1>2 DEF PeerInv, OverlapExact, Met, AllApart, Apart
<1>4. PeersInContract
  <2> SUFFICES ASSUME Plain, PlainContract, pc = "started", NEW i \in 1 .. Len(batch),
                      NEW path \in Paths, Bounded(path, batch[i])
               PROVE  Bounded(path, Allowed)
    BY <1>1 DEF PeersInContract
  <2>1. batch[i] \in SUBSET Patterns /\ (\A p \in batch[i] : Tree(p)) /\ ~ Exceeds(batch[i])
    BY <1>1 DEF PeerInv, Plain
  <2> QED
    BY <2>1, ProbesSuffice
<1> QED
  BY <1>3, <1>4

\* Of peers that name files and whole trees, run_peer_batch refuses those with a
\* path in common and starts those without: find_peer_overlap tries enough paths.
THEOREM OverlapIsExact == Spec => []OverlapExact
<1>1. PeerInv => OverlapExact
  BY PeersRight
<1> QED
  BY <1>1, PeerInvInit, PeerInvNext, PTL DEF Spec

\* Of peers and a contract that name files and whole trees, the peers started may
\* write nothing the contract does not allow: one path a glob stands for all of it.
THEOREM PeersStayInContract == Spec => []PeersInContract
<1>1. PeerInv => PeersInContract
  BY PeersRight
<1> QED
  BY <1>1, PeerInvInit, PeerInvNext, PTL DEF Spec
=============================================================================
