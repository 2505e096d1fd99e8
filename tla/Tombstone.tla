------------------------------ MODULE Tombstone ------------------------------
(***************************************************************************)
(* The tombstone of a run (crates/wanax-tombstone): envelope.json, its     *)
(* events and its current_state, and TOMBSTONE.md, which is rendered from  *)
(* it.  An event is appended by loading the envelope, changing it in       *)
(* memory and storing both files again, each through a temporary file of   *)
(* the same name whoever writes it, without a lock.                        *)
(*                                                                         *)
(* The writers are the engine, at every step of a run, and wanax cancel    *)
(* (wanax-cli).  Cancel kills the start_pid it has read before it writes,  *)
(* so it meets a live engine only when the run was resumed in between, and *)
(* a second cancel at any time.  The row of the run and its lock are       *)
(* module Commands; here they say who writes when.                         *)
(***************************************************************************)
EXTENDS Naturals

CONSTANTS
    Engines, Cancels,   \* processes: start or resume, and cancel
    NoProc,
    MaxEvents,          \* bound on the events of a run
    MaxFaults           \* bound on the file operations that fail by themselves

ASSUME ProcsDistinct ==
    /\ Engines \cap Cancels = {}
    /\ NoProc \notin Engines \cup Cancels
    /\ MaxEvents \in Nat /\ MaxFaults \in Nat

Procs   == Engines \cup Cancels
Files   == {"json", "md"}
States  == {"none", "active", "ended", "cancelled"}
Kinds   == {"none", "empty", "torn", "whole"}

VARIABLES
    disk, tmp,      \* the files and their temporary files
    at,             \* where each process is
    file,           \* the file it is writing
    fd,             \* the name its open file goes by now
    copy,           \* its envelope in memory
    mem,            \* the state of the run in its memory
    seen,           \* cancel: the start_pid it has read
    row, lock,      \* the state and start_pid of the run, and who holds its lock
    issued,         \* number of events made so far
    recorded,       \* history: the events that have been in the envelope
    behind,         \* history: the last to store the envelope got no further
    raced,          \* history: two processes have been in a write at once
    faults          \* number of file operations that have failed by themselves

vars == <<disk, tmp, at, file, fd, copy, mem, seen, row, lock, issued, recorded, behind, raced, faults>>

Content  == [kind : Kinds, events : SUBSET (1 .. MaxEvents), state : States]
Bare(k)  == [kind |-> k, events |-> {}, state |-> "none"]
Envelope(events, state) == [kind |-> "whole", events |-> events, state |-> state]

Writing == {"open", "write", "rename"}
Steps   == {"out", "want", "init", "run", "quit", "kill", "mark", "release", "done", "dead"} \cup Writing

TypeOK ==
    /\ disk \in [Files -> Content] /\ tmp \in [Files -> Content]
    /\ at \in [Procs -> Steps]
    /\ file \in [Procs -> Files]
    /\ fd \in [Procs -> {"none", "tmp", "file", "gone"}]
    /\ copy \in [Procs -> Content]
    /\ mem \in [Procs -> States]
    /\ seen \in [Cancels -> Engines \cup {NoProc}]
    /\ row \in [state : States, pid : Engines \cup {NoProc}]
    /\ lock \in Engines \cup {NoProc}
    /\ issued \in 0 .. MaxEvents /\ recorded \subseteq 1 .. MaxEvents
    /\ behind \in {"yes", "no"} /\ raced \in {"yes", "no"} /\ faults \in 0 .. MaxFaults

Init ==
    /\ disk = [f \in Files |-> Bare("none")] /\ tmp = [f \in Files |-> Bare("none")]
    /\ at = [p \in Procs |-> "out"]
    /\ file = [p \in Procs |-> "json"]
    /\ fd = [p \in Procs |-> "none"]
    /\ copy = [p \in Procs |-> Bare("none")]
    /\ mem = [p \in Procs |-> IF p \in Engines THEN "active" ELSE "cancelled"]
    /\ seen = [c \in Cancels |-> NoProc]
    /\ row = [state |-> "none", pid |-> NoProc] /\ lock = NoProc
    /\ issued = 0 /\ recorded = {}
    /\ behind = "no" /\ raced = "no" /\ faults = 0

Terminal == {"ended", "cancelled"}
Busy(p)  == at[p] \in Writing
Go(p, step) == at' = [at EXCEPT ![p] = step]

\* Where a process is when it has stored an envelope, or could not load one.
Back(p) == IF p \in Engines THEN "run" ELSE "release"

world == <<seen, row, lock>>
files == <<disk, tmp, file, fd, copy, issued, recorded, behind, raced, faults>>

\* A file operation fails, for a reason outside of the run.
Fault == faults < MaxFaults /\ faults' = faults + 1

-----------------------------------------------------------------------------
(* Changing the envelope *)

\* MUTANT: the markdown is stored first.
MarkdownFirst == "md"

\* persist_envelope stores the envelope, then the other file.
FirstFile == "json"

\* p goes on to store c.
Store(p, c) ==
    /\ copy' = [copy EXCEPT ![p] = c]
    /\ file' = [file EXCEPT ![p] = FirstFile]
    /\ Go(p, "open")
    /\ raced' = IF \E q \in Procs \ {p} : Busy(q) THEN "yes" ELSE raced
    /\ UNCHANGED <<disk, tmp, fd, mem, world, recorded, behind, faults>>

\* A missing or unreadable envelope is an error, which every caller ignores.
LoadFails(p) ==
    /\ at[p] = "run"
    /\ IF disk["json"].kind = "whole" THEN Fault ELSE UNCHANGED faults
    /\ Go(p, Back(p))
    /\ UNCHANGED <<disk, tmp, file, fd, copy, mem, world, issued, recorded, behind, raced>>

\* init_envelope, by start alone.
First == Envelope({1}, "active")

InitEnvelope(p) ==
    /\ at[p] = "init" /\ issued < MaxEvents
    /\ issued' = issued + 1
    /\ Store(p, First)

\* MUTANT: the envelope of the last write is kept in memory and appended to.
AppendToOwn(p) ==
    /\ at[p] = "run" /\ issued < MaxEvents
    /\ disk["json"].kind = "whole"
    /\ issued' = issued + 1
    /\ LET own == IF copy[p].kind = "whole" THEN copy[p] ELSE disk["json"]
       IN Store(p, Envelope(own.events \cup {issued + 1}, mem[p]))

\* append_event, and what cancel does by hand.
AppendEvent(p) ==
    /\ at[p] = "run" /\ issued < MaxEvents
    /\ disk["json"].kind = "whole"
    /\ issued' = issued + 1
    /\ Store(p, Envelope(disk["json"].events \cup {issued + 1}, mem[p]))

\* The engine's last write, of the state alone.
StoreState(e) ==
    /\ at[e] = "run" /\ mem[e] = "ended"
    /\ disk["json"].kind = "whole"
    /\ Store(e, Envelope(disk["json"].events, mem[e]))
    /\ UNCHANGED issued

-----------------------------------------------------------------------------
(* atomic_write, of the envelope and then of the markdown *)

\* MUTANT: the file itself is opened, and truncated.
OpenInPlace(p) ==
    /\ at[p] = "open"
    /\ tmp' = [tmp EXCEPT ![file[p]] = copy[p]]
    /\ disk' = [disk EXCEPT ![file[p]] = Bare("empty")]
    /\ fd' = [fd EXCEPT ![p] = "file"]
    /\ Go(p, "write")
    /\ UNCHANGED <<file, copy, mem, world, issued, recorded, behind, raced, faults>>

\* create and truncate: who has the same file open goes on with it.
Open(p) ==
    /\ at[p] = "open"
    /\ tmp' = [tmp EXCEPT ![file[p]] = Bare("empty")]
    /\ fd' = [fd EXCEPT ![p] = "tmp"]
    /\ Go(p, "write")
    /\ UNCHANGED <<disk, file, copy, mem, world, issued, recorded, behind, raced, faults>>

\* write_all from the start of the file, over what another process has written
\* there: the longer of the two keeps its tail.
Over(old, new) == IF old.kind = "empty" THEN {new} ELSE {new, Bare("torn")}

Write(p) ==
    /\ at[p] = "write"
    /\ \/ /\ fd[p] = "tmp"
          /\ \E c \in Over(tmp[file[p]], copy[p]) : tmp' = [tmp EXCEPT ![file[p]] = c]
          /\ UNCHANGED disk
       \/ /\ fd[p] = "file"
          /\ \E c \in Over(disk[file[p]], copy[p]) : disk' = [disk EXCEPT ![file[p]] = c]
          /\ UNCHANGED tmp
       \/ fd[p] = "gone" /\ UNCHANGED <<disk, tmp>>
    /\ fd' = [fd EXCEPT ![p] = "none"]
    /\ Go(p, "rename")
    /\ UNCHANGED <<file, copy, mem, world, issued, recorded, behind, raced, faults>>

\* Whoever has the temporary file open now has the file itself open.
Renamed(f) ==
    [q \in Procs |-> IF file[q] # f THEN fd[q]
                     ELSE IF fd[q] = "tmp" THEN "file"
                     ELSE IF fd[q] = "file" THEN "gone" ELSE fd[q]]

Rename(p) ==
    /\ at[p] = "rename" /\ tmp[file[p]].kind # "none"
    /\ disk' = [disk EXCEPT ![file[p]] = tmp[file[p]]]
    /\ tmp' = [tmp EXCEPT ![file[p]] = Bare("none")]
    /\ fd' = Renamed(file[p])
    /\ recorded' = IF file[p] = "json" THEN recorded \cup copy[p].events ELSE recorded
    /\ IF file[p] = FirstFile
       THEN /\ Go(p, "open")
            /\ \E f \in Files \ {FirstFile} : file' = [file EXCEPT ![p] = f]
            /\ UNCHANGED behind
       ELSE /\ Go(p, Back(p))
            /\ behind' = "no"
            /\ UNCHANGED file
    /\ UNCHANGED <<copy, mem, world, issued, raced, faults>>

\* p goes no further with its store.
StopsShort(p) == behind' = IF Busy(p) /\ file[p] # FirstFile THEN "yes" ELSE behind

\* An error ends the store.  It is ignored but by start, which gives up.
AfterError(p) == IF p \in Engines /\ copy[p] = First THEN "quit" ELSE Back(p)

\* Another process has renamed it.
RenameFails(p) ==
    /\ at[p] = "rename" /\ tmp[file[p]].kind = "none"
    /\ Go(p, AfterError(p))
    /\ StopsShort(p)
    /\ UNCHANGED <<disk, tmp, file, fd, copy, mem, world, issued, recorded, raced, faults>>

\* What an error of write_all, flush or sync_all leaves in the file.
Partly(old, new) == {old, Bare("torn"), new}

\* An error of any step: create_dir_all and open, those above, or the rename.
StoreFails(p) ==
    /\ Fault /\ Busy(p)
    /\ \/ /\ fd[p] = "tmp"
          /\ \E c \in Partly(tmp[file[p]], copy[p]) : tmp' = [tmp EXCEPT ![file[p]] = c]
          /\ UNCHANGED disk
       \/ /\ fd[p] = "file"
          /\ \E c \in Partly(disk[file[p]], copy[p]) : disk' = [disk EXCEPT ![file[p]] = c]
          /\ UNCHANGED tmp
       \/ fd[p] \in {"none", "gone"} /\ UNCHANGED <<disk, tmp>>
    /\ fd' = [fd EXCEPT ![p] = "none"]
    /\ Go(p, AfterError(p))
    /\ StopsShort(p)
    /\ UNCHANGED <<file, copy, mem, world, issued, recorded, raced>>

Persist(p) == Open(p) \/ Write(p) \/ Rename(p) \/ RenameFails(p) \/ StoreFails(p)

-----------------------------------------------------------------------------
(* The engine *)

Start(e) ==
    /\ at[e] = "out" /\ row.state = "none"
    /\ row' = [state |-> "active", pid |-> e] /\ lock' = e
    /\ Go(e, "init")
    /\ UNCHANGED <<files, mem, seen>>

\* resume reads the row before it takes the lock, and saves its pid after.
WantResume(e) ==
    /\ at[e] = "out" /\ row.state = "active"
    /\ Go(e, "want")
    /\ UNCHANGED <<files, mem, world>>

Resume(e) ==
    /\ at[e] = "want"
    /\ lock = NoProc \/ (lock \in Engines /\ at[lock] = "dead")
    /\ lock' = e /\ row' = [row EXCEPT !.pid = e]
    /\ Go(e, "run")
    /\ UNCHANGED <<files, mem, seen>>

\* set_state checks what the engine has in memory, and overwrites the row.
SetState(e) ==
    /\ at[e] = "run" /\ mem[e] = "active"
    /\ \E s \in {"active", "ended"} :
        /\ mem' = [mem EXCEPT ![e] = s]
        /\ row' = [row EXCEPT !.state = s]
    /\ UNCHANGED <<files, at, seen, lock>>

\* By an early error, or at the end when the last store has been tried.
Return(e) ==
    /\ at[e] \in {"init", "run", "quit"}
    /\ mem[e] = "ended" => copy[e].state = "ended" \/ disk["json"].kind # "whole" \/ faults > 0
    /\ Go(e, "done")
    /\ lock' = IF lock = e THEN NoProc ELSE lock
    /\ UNCHANGED <<files, mem, seen, row>>

-----------------------------------------------------------------------------
(* wanax cancel *)

ReadRow(c) ==
    /\ at[c] = "out" /\ row.state # "none"
    /\ seen' = [seen EXCEPT ![c] = row.pid]
    /\ Go(c, IF row.state \in Terminal THEN "release" ELSE "kill")
    /\ UNCHANGED <<files, mem, row, lock>>

Alive(p) == at[p] \notin {"out", "done", "dead"}

\* What is left of a process that dies; its temporary file stays.
Dies(p, step) ==
    /\ at' = [q \in Procs |-> IF q = p THEN "dead" ELSE step[q]]
    /\ fd' = [fd EXCEPT ![p] = "none"]
    /\ StopsShort(p)
    /\ UNCHANGED <<disk, tmp, file, copy, mem, world, issued, recorded, raced, faults>>

Kill(c) ==
    /\ at[c] = "kill"
    /\ LET step == [at EXCEPT ![c] = "mark"] IN
       IF seen[c] \in Engines /\ Alive(seen[c])
       THEN Dies(seen[c], step)
       ELSE at' = step /\ UNCHANGED <<files, mem, world>>

\* A run that is over keeps its state, and cancel goes on all the same.
Mark(c) ==
    /\ at[c] = "mark"
    /\ row' = [row EXCEPT !.state = IF @ \in Terminal THEN @ ELSE "cancelled"]
    /\ Go(c, "run")
    /\ UNCHANGED <<files, mem, seen, lock>>

Release(c) ==
    /\ at[c] = "release"
    /\ lock' = NoProc
    /\ Go(c, "done")
    /\ UNCHANGED <<files, mem, seen, row>>

Crash(p) ==
    /\ Alive(p)
    /\ Dies(p, at)

-----------------------------------------------------------------------------

Engine(e) ==
    \/ Start(e) \/ InitEnvelope(e) \/ WantResume(e) \/ Resume(e)
    \/ SetState(e) \/ StoreState(e) \/ Return(e)

Cancel(c) == ReadRow(c) \/ Kill(c) \/ Mark(c) \/ Release(c)

Next ==
    \/ \E e \in Engines : Engine(e)
    \/ \E c \in Cancels : Cancel(c)
    \/ \E p \in Procs : AppendEvent(p) \/ LoadFails(p) \/ Persist(p) \/ Crash(p)

Spec == Init /\ [][Next]_vars

-----------------------------------------------------------------------------
(* Properties.  raced is what the code has nothing against: two processes   *)
(* between the load of one append and its last rename.                      *)

\* docs/PRD.md:781: no half written JSON is left behind, wherever a writer dies,
\* nor is there ever one to read.
NeverTorn == raced = "no" => disk["json"].kind \in {"none", "whole"}

\* README: append-only events.  What has been in the envelope stays there,
\* whoever writes next: a resumed engine, or a cancel between two of its events.
NothingLost == raced = "no" => recorded \subseteq disk["json"].events

\* docs/PRD.md:121: envelope and markdown come from one source.  The markdown never has
\* an event that the envelope lacks.  It is what the envelope says, except while a writer
\* is between the two, and after one that died or failed there until a later one gets
\* through.
MarkdownFollows ==
    raced = "no" =>
        /\ disk["md"].kind \in {"none", "whole"}
        /\ disk["md"].events \subseteq disk["json"].events
        /\ (behind = "no" /\ \A p \in Procs : Busy(p) => file[p] = FirstFile)
               => disk["md"] = disk["json"]

\* docs/PRD.md:332: current_state agrees with the database.  Violated when cancel,
\* or a resume, goes on with a row that it has read before the run ended.
StateAgrees ==
    (raced = "no" /\ disk["json"].kind = "whole" /\ row.state \in Terminal
        /\ \A p \in Procs : at[p] \in {"out", "done"})
        => disk["json"].state = row.state
=============================================================================
