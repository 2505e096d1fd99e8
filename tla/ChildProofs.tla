----------------------------- MODULE ChildProofs -----------------------------
(***************************************************************************)
(* Proofs about Child, for any number of calls.  That a time-out leaves    *)
(* nobody behind is not inductive: a later call must not be able to write  *)
(* its end over that of an earlier one, nor become a stray before it ends. *)
(***************************************************************************)
EXTENDS Child, TLAPS

\* The types the argument needs, without those of Boolean variables.
Shape ==
    /\ call \in 0 .. MaxCalls
    /\ sup \in {"idle", "feed", "wait", "drain", "release", "killed"}
    /\ strays \subseteq 1 .. call
    /\ ended \in [1 .. MaxCalls -> Ends \cup {"none"}]

\* The call that is going on is in the table, is no stray, and has not ended.
Open == sup # "idle" => call \in 1 .. MaxCalls /\ call \notin strays /\ ended[call] = "none"

\* Calls to come have not ended.
Coming == \A c \in 1 .. MaxCalls : c > call => ended[c] = "none"

IInv == Shape /\ Open /\ Coming /\ TimeoutLeavesNobody

LEMMA InitIInv == Init => IInv
  BY CallsPositive DEF Init, IInv, Shape, Open, Coming, TimeoutLeavesNobody, Ends

\* An action that leaves the calls, their ends and the strays alone.
LEMMA Quiet ==
    ASSUME IInv, sup \in {"idle"} <=> sup' \in {"idle"},
           sup' \in {"idle", "feed", "wait", "drain", "release", "killed"},
           UNCHANGED <<call, strays, ended>>
    PROVE  IInv'
  BY DEF IInv, Shape, Open, Coming, TimeoutLeavesNobody

\* A call that ends by a time-out ends without survivors.
LEMMA FinishIInv ==
    ASSUME IInv, sup # "idle", NEW how \in Ends, NEW rest, how = "timeout" => rest = {},
           Finish(how, rest)
    PROVE  IInv'
<1> USE CallsPositive DEF IInv, Shape, Open, Coming, TimeoutLeavesNobody, Finish, Over
<1>1. Shape' /\ Open' /\ Coming'
  BY DEF Ends
<1>2. ASSUME NEW c \in strays'
      PROVE  ended'[c] # "timeout"
  <2>1. CASE c = call
    BY <2>1
  <2>2. CASE c # call
    BY <2>2
  <2> QED
    BY <2>1, <2>2
<1> QED
  BY <1>1, <1>2

\* A new call takes a number that nobody has used.
LEMMA SpawnIInv ==
    ASSUME IInv, NEW k \in Kinds, Spawn(k) \/ SpawnFails(k)
    PROVE  IInv'
<1> USE CallsPositive DEF IInv, Shape, Open, Coming, TimeoutLeavesNobody
<1>1. CASE Spawn(k)
  BY <1>1 DEF Spawn
<1>2. CASE SpawnFails(k)
  BY <1>2 DEF SpawnFails, Ends
<1> QED
  BY <1>1, <1>2

\* The processes of a call change nothing of the calls.
LEMMA WorldIInv == IInv /\ World => IInv'
<1> SUFFICES ASSUME IInv, World PROVE IInv'
  OBVIOUS
<1> USE DEF IInv, Shape
<1>1. CASE Fork
  BY <1>1, Quiet DEF Fork, Kept
<1>2. ASSUME NEW p \in Procs, CloseOutput(p)
      PROVE  IInv'
  BY <1>2, Quiet DEF CloseOutput, Kept
<1>3. ASSUME NEW p \in Procs, NEW code, Exit(p, code)
      PROVE  IInv'
  BY <1>3, Quiet DEF Exit, Kept
<1>4. ASSUME NEW c \in strays, StrayExit(c)
      PROVE  IInv'
  BY <1>4 DEF StrayExit, Open, Coming, TimeoutLeavesNobody
<1> QED
  BY <1>1, <1>2, <1>3, <1>4 DEF World

\* Neither does what wanax does between the start and the end of a call.
LEMMA SuperviseIInv == IInv /\ (Supervise \/ FeedFails) => IInv'
<1> SUFFICES ASSUME IInv, Supervise \/ FeedFails PROVE IInv'
  OBVIOUS
<1>1. CASE Feed
  BY <1>1, Quiet DEF Feed
<1>2. CASE FeedFails
  BY <1>2, FinishIInv DEF FeedFails, Ends
<1>3. CASE Collect
  BY <1>3, FinishIInv DEF Collect, How, Ends
<1>4. CASE TimeOut
  BY <1>4, FinishIInv DEF TimeOut, KillGroup, Ends
<1>5. CASE TestExited
  BY <1>5, Quiet DEF TestExited
<1>6. CASE Drained
  BY <1>6, FinishIInv DEF Drained, How, Ends
<1>7. CASE AcpStop
  BY <1>7, Quiet DEF AcpStop, Acp
<1>8. CASE AcpReleased
  BY <1>8, FinishIInv DEF AcpReleased, Ends
<1> QED
  BY <1>1, <1>2, <1>3, <1>4, <1>5, <1>6, <1>7, <1>8 DEF Supervise

LEMMA StepIInv == IInv /\ [Next]_vars => IInv'
<1> SUFFICES ASSUME IInv, [Next]_vars PROVE IInv'
  OBVIOUS
<1>1. CASE Deadline
  BY <1>1, Quiet DEF Deadline
<1>2. CASE AcpSession
  BY <1>2, Quiet DEF AcpSession, Acp
<1>3. CASE AcpError
  BY <1>3, FinishIInv DEF AcpError, Acp, Ends
<1>4. CASE Cancel
  BY <1>4, Quiet DEF Cancel
<1>5. CASE UNCHANGED vars
  BY <1>5 DEF vars, IInv, Shape, Open, Coming, TimeoutLeavesNobody
<1> QED
  BY <1>1, <1>2, <1>3, <1>4, <1>5, WorldIInv, SuperviseIInv, SpawnIInv DEF Next

\* A call that ran into its deadline has left no process of its group, however
\* its processes forked, exited, closed their output and ignored signals before,
\* and whatever calls came after it.
THEOREM TimeoutIsClean == Spec => []TimeoutLeavesNobody
<1>1. IInv => TimeoutLeavesNobody
  BY DEF IInv
<1> QED
  BY <1>1, InitIInv, StepIInv, PTL DEF Spec
=============================================================================
