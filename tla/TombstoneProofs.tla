--------------------------- MODULE TombstoneProofs ---------------------------
(***************************************************************************)
(* Proofs about Tombstone, for every number of engines, cancels and events: *)
(* as long as no two processes have been in a write at once, what one of   *)
(* them holds in memory and has on its way to the disk is the envelope and *)
(* more.                                                                   *)
(***************************************************************************)
EXTENDS Tombstone, TLAPS

\* Before the first event there is no file, and only one process to write it.
Fresh ==
    /\ \A p \in Procs : row.state = "none" => at[p] # "init"
    /\ \A p, q \in Procs : at[p] = "init" /\ at[q] = "init" => p = q
    /\ (row.state = "none" \/ \E p \in Procs : at[p] = "init") =>
           /\ recorded = {}
           /\ disk["json"] = Bare("none")
           /\ \A p \in Procs : ~Busy(p)

\* One writer at a time, and only it has a file open.
Alone ==
    /\ \A p, q \in Procs : Busy(p) /\ Busy(q) => p = q
    /\ \A p \in Procs : fd[p] = IF at[p] = "write" THEN "tmp" ELSE "none"

\* What a writer is about to store.
OnItsWay(p) ==
    /\ copy[p].kind = "whole"
    /\ at[p] = "write" => tmp[file[p]].kind = "empty"
    /\ at[p] = "rename" => tmp[file[p]] = copy[p]
    /\ file[p] = "json" => disk["json"].events \subseteq copy[p].events
    /\ file[p] = "md" => disk["json"] = copy[p]

Ordered == Alone /\ \A p \in Procs : Busy(p) => OnItsWay(p)

Safe == NeverTorn /\ NothingLost /\ MarkdownFollows

IInv == TypeOK /\ Fresh /\ (raced = "no" => Ordered) /\ Safe

USE ProcsDistinct

\* At the start there are no files and no writers.
LEMMA InitIInv == Init => IInv
<1> SUFFICES ASSUME Init PROVE IInv
  OBVIOUS
<1>1. TypeOK
  BY DEF Init, TypeOK, Content, Bare, Kinds, States, Files, Steps, Writing, Procs
<1>2. Fresh
  BY DEF Init, Fresh, Busy, Writing, Bare, Files
<1>3. Ordered
  BY DEF Init, Ordered, Alone, Busy, Writing
<1>4. Safe
  BY DEF Init, Safe, NeverTorn, NothingLost, MarkdownFollows, Bare, Files
<1> QED
  BY <1>1, <1>2, <1>3, <1>4 DEF IInv

\* What a process that stores nothing leaves alone.
stored == <<disk, tmp, file, fd, copy, recorded, behind, raced>>

\* A process that only moves, between places where it writes nothing.
LEMMA Moves ==
    ASSUME IInv, NEW p \in Procs, NEW step \in Steps \ (Writing \cup {"init"}),
           ~Busy(p), Go(p, step), UNCHANGED stored,
           TypeOK', row'.state = "none" => row.state = "none"
    PROVE  IInv'
<1> USE DEF IInv, TypeOK, Busy, Writing, Go, stored
<1>1. Fresh'
  BY DEF Fresh
<1>2. (raced = "no" => Ordered)'
  BY DEF Ordered, Alone, OnItsWay
<1>3. Safe'
  BY DEF Safe, NeverTorn, NothingLost, MarkdownFollows
<1> QED
  BY <1>1, <1>2, <1>3

\* A process that begins to store an envelope with all that is on the disk, the
\* first one or a later one.
LEMMA Stores ==
    ASSUME IInv, NEW p \in Procs, NEW c \in Content, ~Busy(p), Store(p, c), TypeOK',
           c.kind = "whole", disk["json"].events \subseteq c.events,
           at[p] = "init" \/ disk["json"].kind = "whole", UNCHANGED row,
           at[p] = "init" => row.state # "none"
    PROVE  IInv'
<1> USE DEF IInv, TypeOK, Busy, Writing, Go, world, Store, FirstFile
<1>1. Fresh'
  <2>1. row.state # "none"
    BY DEF Fresh, Bare
  <2>2. \A q \in Procs : at'[q] # "init"
    BY DEF Fresh, Bare
  <2> QED
    BY <2>1, <2>2 DEF Fresh
<1>2. (raced = "no" => Ordered)'
  BY DEF Ordered, Alone, OnItsWay
<1>3. Safe'
  BY DEF Safe, NeverTorn, NothingLost, MarkdownFollows
<1> QED
  BY <1>1, <1>2, <1>3

\* A process that dies, in a write or between two; others may move meanwhile.
LEMMA Death ==
    ASSUME IInv, NEW p \in Procs, NEW step \in [Procs -> Steps], Dies(p, step), TypeOK',
           \A q \in Procs : step[q] = at[q] \/ (~Busy(q) /\ step[q] = "mark")
    PROVE  IInv'
<1> USE DEF IInv, TypeOK, Busy, Writing, world, Dies, StopsShort, FirstFile
<1>1. Fresh'
  BY DEF Fresh
<1>2. (raced = "no" => Ordered)'
  BY DEF Ordered, Alone, OnItsWay
<1>3. Safe'
  BY DEF Safe, NeverTorn, NothingLost, MarkdownFollows
<1> QED
  BY <1>1, <1>2, <1>3

LEMMA Opens == ASSUME IInv, TypeOK', NEW p \in Procs, Open(p) PROVE IInv'
<1> USE DEF IInv, TypeOK, Busy, Writing, Go, world, Open, FirstFile
<1>1. Fresh'
  BY DEF Fresh
<1>2. (raced = "no" => Ordered)'
  BY DEF Ordered, Alone, OnItsWay, Bare
<1>3. Safe'
  BY DEF Safe, NeverTorn, NothingLost, MarkdownFollows
<1> QED
  BY <1>1, <1>2, <1>3

LEMMA Writes == ASSUME IInv, TypeOK', NEW p \in Procs, Write(p) PROVE IInv'
<1> USE DEF IInv, TypeOK, Busy, Writing, Go, world, Write, FirstFile
<1>1. Fresh'
  <2>1. Busy(p) /\ at'[p] = "rename"
    OBVIOUS
  <2>2. ~(row.state = "none" \/ \E q \in Procs : at[q] = "init")
    BY <2>1 DEF Fresh
  <2> QED
    BY <2>2 DEF Fresh
<1>2. ASSUME raced' = "no" PROVE Ordered'
  <2>1. Alone /\ OnItsWay(p) /\ fd[p] = "tmp" /\ raced = "no"
    BY <1>2 DEF Ordered, Alone
  <2>2. tmp' = [tmp EXCEPT ![file[p]] = copy[p]] /\ disk' = disk
    BY <2>1 DEF OnItsWay, Over
  <2>3. Alone'
    BY <2>1 DEF Alone
  <2>4. \A q \in Procs : Busy(q)' => q = p
    BY <2>1 DEF Alone
  <2>5. OnItsWay(p)'
    BY <2>1, <2>2 DEF OnItsWay
  <2> QED
    BY <2>3, <2>4, <2>5 DEF Ordered
<1>3. ASSUME raced = "no" PROVE disk' = disk
  BY <1>3 DEF Ordered, Alone
<1>4. Safe'
  BY <1>3 DEF Safe, NeverTorn, NothingLost, MarkdownFollows
<1> QED
  BY <1>1, <1>2, <1>4

\* The rename, of the envelope or of the markdown.
LEMMA Renames == ASSUME IInv, TypeOK', NEW p \in Procs, Rename(p) PROVE IInv'
<1> USE DEF IInv, TypeOK, Busy, Writing, Go, world, Rename, FirstFile, Files
<1>1. Fresh'
  <2>1. ~(row.state = "none" \/ \E q \in Procs : at[q] = "init")
    BY DEF Fresh
  <2> QED
    BY <2>1 DEF Fresh, Back
<1>2. ASSUME raced = "no"
      PROVE  /\ Alone /\ OnItsWay(p)
             /\ \A q \in Procs : Busy(q) => q = p
             /\ disk' = [disk EXCEPT ![file[p]] = copy[p]]
             /\ copy[p].kind = "whole"
  BY <1>2 DEF Ordered, Alone, OnItsWay
<1>3. ASSUME raced' = "no" PROVE Ordered'
  <2>1. raced = "no"
    BY <1>3
  <2>2. Alone'
    BY <1>2, <2>1 DEF Alone, Renamed, Back
  <2>3. \A q \in Procs : Busy(q)' => q = p /\ file[p] = "json"
    BY <1>2, <2>1 DEF Back
  <2>4. ASSUME file[p] = "json" PROVE OnItsWay(p)'
    BY <2>4, <1>2, <2>1 DEF OnItsWay
  <2> QED
    BY <2>2, <2>3, <2>4 DEF Ordered
<1>4. NeverTorn'
  BY <1>2 DEF Safe, NeverTorn
<1>5. NothingLost'
  BY <1>2 DEF Safe, NothingLost, OnItsWay
<1>6. CASE file[p] = "json"
  <2>1. MarkdownFollows'
    BY <1>2, <1>6 DEF Safe, MarkdownFollows, OnItsWay
  <2> QED
    BY <1>1, <1>3, <1>4, <1>5, <2>1 DEF Safe
<1>7. CASE file[p] = "md"
  <2>1. MarkdownFollows'
    BY <1>2, <1>7 DEF Safe, MarkdownFollows, OnItsWay
  <2> QED
    BY <1>1, <1>3, <1>4, <1>5, <2>1 DEF Safe
<1> QED
  BY <1>6, <1>7

\* A store that stops short leaves the file it was about as it is, but for a race.
LEMMA Fails ==
    ASSUME IInv, TypeOK', NEW p \in Procs, RenameFails(p) \/ StoreFails(p)
    PROVE  IInv'
<1> USE DEF IInv, TypeOK, Busy, Writing, world, FirstFile
<1>1. /\ Busy(p) /\ Go(p, AfterError(p)) /\ StopsShort(p)
      /\ UNCHANGED <<file, copy, mem, world, recorded, raced>>
      /\ raced = "no" => fd' = [fd EXCEPT ![p] = "none"] /\ disk' = disk
  <2>1. CASE RenameFails(p)
    BY <2>1 DEF RenameFails, Ordered, Alone
  <2>2. CASE StoreFails(p)
    BY <2>2 DEF StoreFails, Ordered, Alone
  <2> QED
    BY <2>1, <2>2
<1>2. AfterError(p) \in {"quit", "run", "release"}
  BY DEF AfterError, Back
<1>3. Fresh'
  <2>1. ~(row.state = "none" \/ \E q \in Procs : at[q] = "init")
    BY <1>1 DEF Fresh
  <2>2. row'.state # "none" /\ \A q \in Procs : at'[q] # "init"
    BY <1>1, <1>2, <2>1 DEF Go
  <2> QED
    BY <2>2 DEF Fresh
<1>4. ASSUME raced = "no" PROVE Alone' /\ \A q \in Procs : ~Busy(q)'
  BY <1>1, <1>2, <1>4 DEF Ordered, Alone, Go
<1>5. (raced = "no" => Ordered)'
  BY <1>1, <1>4 DEF Ordered
<1>6. NeverTorn' /\ NothingLost'
  BY <1>1 DEF Safe, NeverTorn, NothingLost
<1>7. MarkdownFollows'
  BY <1>1 DEF Safe, MarkdownFollows, Ordered, Alone, StopsShort
<1> QED
  BY <1>3, <1>5, <1>6, <1>7 DEF Safe

\* Every action keeps the types.
LEMMA StepType == TypeOK /\ [Next]_vars => TypeOK'
<1> SUFFICES ASSUME TypeOK, [Next]_vars PROVE TypeOK'
  OBVIOUS
<1> USE DEF TypeOK, Content, Bare, Envelope, Kinds, States, Files, Steps, Writing, Procs,
            Go, Back, AfterError, StopsShort, Fault, world, files, Store, First, FirstFile
<1>1. ASSUME NEW e \in Engines, Engine(e) PROVE TypeOK'
  <2>1. CASE Start(e)
    BY <2>1 DEF Start
  <2>2. CASE InitEnvelope(e)
    <3>1. 1 \in 1 .. MaxEvents
      BY <2>2 DEF InitEnvelope
    <3> QED
      BY <2>2, <3>1 DEF InitEnvelope
  <2>3. CASE WantResume(e)
    BY <2>3 DEF WantResume
  <2>4. CASE Resume(e)
    BY <2>4 DEF Resume
  <2>5. CASE SetState(e)
    BY <2>5 DEF SetState
  <2>6. CASE StoreState(e)
    <3>1. disk["json"].events \in SUBSET (1 .. MaxEvents) /\ mem[e] \in States
      OBVIOUS
    <3> QED
      BY <2>6, <3>1 DEF StoreState
  <2>7. CASE Return(e)
    BY <2>7 DEF Return
  <2> QED
    BY <1>1, <2>1, <2>2, <2>3, <2>4, <2>5, <2>6, <2>7 DEF Engine
<1>2. ASSUME NEW c \in Cancels, Cancel(c) PROVE TypeOK'
  <2>1. CASE ReadRow(c)
    BY <2>1 DEF ReadRow, Terminal
  <2>2. CASE Kill(c)
    <3>1. [at EXCEPT ![c] = "mark"] \in [Procs -> Steps]
      OBVIOUS
    <3>2. ASSUME NEW p \in Procs, NEW step \in [Procs -> Steps], Dies(p, step)
          PROVE  TypeOK'
      BY <3>2 DEF Dies, Busy
    <3> HIDE DEF TypeOK, world, files
    <3>3. UNCHANGED <<files, mem, world>> /\ at' = [at EXCEPT ![c] = "mark"] => TypeOK'
      BY <3>1 DEF TypeOK, world, files
    <3> QED
      BY <2>2, <3>1, <3>2, <3>3 DEF Kill
  <2>3. CASE Mark(c)
    BY <2>3 DEF Mark, Terminal
  <2>4. CASE Release(c)
    BY <2>4 DEF Release
  <2> QED
    BY <1>2, <2>1, <2>2, <2>3, <2>4 DEF Cancel
<1>3. ASSUME NEW p \in Procs, AppendEvent(p) \/ LoadFails(p) \/ Persist(p) \/ Crash(p)
      PROVE  TypeOK'
  <2>1. CASE AppendEvent(p)
    <3>1. disk["json"].events \in SUBSET (1 .. MaxEvents) /\ mem[p] \in States
      OBVIOUS
    <3>2. issued + 1 \in 1 .. MaxEvents
      BY <2>1 DEF AppendEvent
    <3> QED
      BY <2>1, <3>1, <3>2 DEF AppendEvent
  <2>2. CASE LoadFails(p)
    BY <2>2 DEF LoadFails
  <2>3. CASE Open(p)
    BY <2>3 DEF Open
  <2>4. CASE Write(p)
    <3>1. ASSUME NEW old \in Content PROVE Over(old, copy[p]) \subseteq Content
      BY DEF Over
    <3> QED
      BY <2>4, <3>1 DEF Write
  <2>5. CASE Rename(p)
    <3>1. disk' \in [Files -> Content] /\ tmp' \in [Files -> Content]
      BY <2>5 DEF Rename
    <3>2. at' \in [Procs -> Steps] /\ file' \in [Procs -> Files]
      <4>1. Back(p) \in Steps /\ "open" \in Steps
        BY DEF Back
      <4>2. at' \in [Procs -> Steps]
        BY <2>5, <4>1 DEF Rename
      <4>3. file' \in [Procs -> Files]
        BY <2>5 DEF Rename
      <4> QED
        BY <4>2, <4>3
    <3>3. fd' \in [Procs -> {"none", "tmp", "file", "gone"}]
      <4>1. \A f \in Files : Renamed(f) \in [Procs -> {"none", "tmp", "file", "gone"}]
        BY DEF Renamed
      <4>2. file[p] \in Files
        OBVIOUS
      <4> QED
        BY <2>5, <4>1, <4>2 DEF Rename
    <3>4. recorded' \subseteq 1 .. MaxEvents /\ behind' \in {"yes", "no"}
      <4>1. copy[p].events \subseteq 1 .. MaxEvents
        OBVIOUS
      <4> QED
        BY <2>5, <4>1 DEF Rename
    <3> QED
      BY <2>5, <3>1, <3>2, <3>3, <3>4 DEF Rename
  <2>6. CASE RenameFails(p)
    BY <2>6 DEF RenameFails
  <2>7. CASE Crash(p)
    BY <2>7 DEF Crash, Dies, Busy
  <2>8. CASE StoreFails(p)
    <3>1. ASSUME NEW old \in Content PROVE Partly(old, copy[p]) \subseteq Content
      BY DEF Partly
    <3>2. disk' \in [Files -> Content] /\ tmp' \in [Files -> Content]
      BY <2>8, <3>1 DEF StoreFails
    <3>3. faults' \in 0 .. MaxFaults
      BY <2>8 DEF StoreFails
    <3> QED
      BY <2>8, <3>2, <3>3 DEF StoreFails
  <2> QED
    BY <1>3, <2>1, <2>2, <2>3, <2>4, <2>5, <2>6, <2>7, <2>8 DEF Persist
<1>4. CASE UNCHANGED vars
  BY <1>4 DEF vars
<1> QED
  BY <1>1, <1>2, <1>3, <1>4 DEF Next

LEMMA EngineStep == ASSUME IInv, TypeOK', NEW e \in Engines, Engine(e) PROVE IInv'
<1> USE DEF IInv, TypeOK, Procs
<1>1. CASE Start(e)
  <2> USE DEF Start, Busy, Writing, Go, files
  <2>1. Fresh'
    BY <1>1 DEF Fresh
  <2>2. (raced = "no" => Ordered)'
    BY <1>1 DEF Ordered, Alone, OnItsWay
  <2>3. Safe'
    BY <1>1 DEF Safe, NeverTorn, NothingLost, MarkdownFollows
  <2> QED
    BY <2>1, <2>2, <2>3
<1>2. CASE InitEnvelope(e)
  <2>1. disk["json"].events = {} /\ ~Busy(e) /\ row.state # "none"
    BY <1>2 DEF InitEnvelope, Fresh, Bare
  <2>2. First \in Content
    BY <1>2 DEF InitEnvelope, First, Envelope, Content, Kinds, States
  <2> QED
    BY <1>2, <2>1, <2>2, Stores DEF InitEnvelope, First, Envelope, Store, world
<1>3. CASE WantResume(e)
  BY <1>3, Moves DEF WantResume, Busy, Writing, Steps, world, files, stored
<1>4. CASE Resume(e)
  BY <1>4, Moves DEF Resume, Busy, Writing, Steps, files, stored
<1>5. CASE SetState(e)
  <2>1. Go(e, "run")
    BY <1>5 DEF SetState, Go
  <2> QED
    BY <1>5, <2>1, Moves DEF SetState, Busy, Writing, Steps, files, stored
<1>6. CASE StoreState(e)
  <2>1. Envelope(disk["json"].events, mem[e]) \in Content
    <3>1. disk["json"].events \in SUBSET (1 .. MaxEvents) /\ mem[e] \in States
      BY DEF Content, Files
    <3> QED
      BY <3>1 DEF Envelope, Content, Kinds
  <2> QED
    BY <1>6, <2>1, Stores DEF StoreState, Envelope, Busy, Writing, Store, world
<1>7. CASE Return(e)
  BY <1>7, Moves DEF Return, Busy, Writing, Steps, files, stored
<1> QED
  BY <1>1, <1>2, <1>3, <1>4, <1>5, <1>6, <1>7 DEF Engine

LEMMA CancelStep == ASSUME IInv, TypeOK', NEW c \in Cancels, Cancel(c) PROVE IInv'
<1> USE DEF IInv, Procs
<1>1. CASE ReadRow(c)
  BY <1>1, Moves DEF ReadRow, Busy, Writing, Steps, files, stored
<1>2. CASE Kill(c)
  <2> DEFINE step == [at EXCEPT ![c] = "mark"]
  <2>1. CASE seen[c] \in Engines /\ Alive(seen[c])
    <3>1. step \in [Procs -> Steps]
      BY DEF TypeOK, Steps
    <3>2. \A q \in Procs : step[q] = at[q] \/ (~Busy(q) /\ step[q] = "mark")
      BY <1>2 DEF Kill, Busy, Writing, TypeOK
    <3>3. Dies(seen[c], step)
      BY <1>2, <2>1 DEF Kill
    <3> QED
      BY <2>1, <3>1, <3>2, <3>3, Death
  <2>2. CASE ~(seen[c] \in Engines /\ Alive(seen[c]))
    BY <1>2, <2>2, Moves DEF Kill, Busy, Writing, Steps, Go, world, files, stored
  <2> QED
    BY <2>1, <2>2
<1>3. CASE Mark(c)
  <2>1. row'.state = "none" => row.state = "none"
    BY <1>3 DEF Mark, TypeOK
  <2> QED
    BY <1>3, <2>1, Moves DEF Mark, Busy, Writing, Steps, files, stored
<1>4. CASE Release(c)
  BY <1>4, Moves DEF Release, Busy, Writing, Steps, files, stored
<1> QED
  BY <1>1, <1>2, <1>3, <1>4 DEF Cancel

LEMMA WriterStep ==
    ASSUME IInv, TypeOK', NEW p \in Procs,
           AppendEvent(p) \/ LoadFails(p) \/ Persist(p) \/ Crash(p)
    PROVE  IInv'
<1> USE DEF IInv
<1>1. CASE AppendEvent(p)
  <2>1. Envelope(disk["json"].events \cup {issued + 1}, mem[p]) \in Content
    <3>1. disk["json"].events \in SUBSET (1 .. MaxEvents) /\ mem[p] \in States
      BY DEF TypeOK, Content, Files
    <3>2. issued + 1 \in 1 .. MaxEvents
      BY <1>1 DEF AppendEvent, TypeOK
    <3> QED
      BY <3>1, <3>2 DEF Envelope, Content, Kinds
  <2> QED
    BY <1>1, <2>1, Stores DEF AppendEvent, Envelope, Busy, Writing, Store, world
<1>2. CASE LoadFails(p)
  BY <1>2, Moves DEF LoadFails, Busy, Writing, Steps, Back, world, files, stored
<1>3. CASE Persist(p)
  BY <1>3, Opens, Writes, Renames, Fails DEF Persist
<1>4. CASE Crash(p)
  BY <1>4, Death DEF Crash, TypeOK
<1> QED
  BY <1>1, <1>2, <1>3, <1>4

LEMMA StepIInv == IInv /\ [Next]_vars => IInv'
<1> SUFFICES ASSUME IInv, [Next]_vars PROVE IInv'
  OBVIOUS
<1>1. TypeOK'
  BY StepType DEF IInv
<1>2. CASE UNCHANGED vars
  <2>1. Fresh' /\ (raced = "no" => Ordered)'
    BY <1>2 DEF IInv, vars, Fresh, Ordered, Alone, OnItsWay, Busy
  <2>2. Safe'
    BY <1>2 DEF IInv, vars, Safe, NeverTorn, NothingLost, MarkdownFollows, Busy
  <2> QED
    BY <1>1, <2>1, <2>2 DEF IInv
<1> QED
  BY <1>1, <1>2, EngineStep, CancelStep, WriterStep DEF Next

LEMMA Invariant == Spec => []IInv
  BY InitIInv, StepIInv, PTL DEF Spec

-----------------------------------------------------------------------------

\* The variables keep their types, and no process is ever in two places.
THEOREM TypeCorrect == Spec => []TypeOK
<1>1. IInv => TypeOK
  BY DEF IInv
<1> QED
  BY <1>1, Invariant, PTL

\* Wherever a writer is killed, envelope.json is whole (docs/PRD.md:781).
THEOREM EnvelopeIsWhole == Spec => []NeverTorn
<1>1. IInv => NeverTorn
  BY DEF IInv, Safe
<1> QED
  BY <1>1, Invariant, PTL

\* The events of a run are append-only, over crashes, resumes and cancels.
THEOREM EventsStay == Spec => []NothingLost
<1>1. IInv => NothingLost
  BY DEF IInv, Safe
<1> QED
  BY <1>1, Invariant, PTL

\* TOMBSTONE.md never says more than the envelope, and as much unless a writer is
\* between the two, or the last to store an envelope died or failed there.
THEOREM MarkdownIsRendered == Spec => []MarkdownFollows
<1>1. IInv => MarkdownFollows
  BY DEF IInv, Safe
<1> QED
  BY <1>1, Invariant, PTL
=============================================================================
