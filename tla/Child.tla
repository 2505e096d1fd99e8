-------------------------------- MODULE Child --------------------------------
(***************************************************************************)
(* The processes that wanax starts and waits for: worker adapters          *)
(* (crates/wanax-worker), the commander's command line client              *)
(* (wanax-llm/src/cli.rs), test commands and verifier plugins              *)
(* (wanax-verify).  Each is the leader of a process group of its own,      *)
(* except the plugins, and may fork; what it starts inherits its output    *)
(* pipes.  Calls follow each other, as in an iteration of the goal loop; a *)
(* process that outlives its call is a stray.                              *)
(*                                                                         *)
(* A child that leaves its group (setsid) is not in the model, and neither *)
(* is the fake adapter, which starts no process.                           *)
(***************************************************************************)
EXTENDS Naturals, FiniteSets

CONSTANTS
    MaxCalls    \* bound on the calls of a behaviour

ASSUME CallsPositive == MaxCalls \in Nat \ {0}

\* cmd: octoscode and cmd, without input.  cli: claude and codex, which get the
\* instruction on stdin, as does the commander.
Kinds   == {"cmd", "cli", "commander", "acp", "test", "plugin"}
Fed     == {"cli", "commander"}
Limited == Kinds \ {"plugin"}
Procs   == {"leader", "member"}
Ends    == {"ok", "crash", "timeout", "missing"}

VARIABLES
    call,       \* number of calls so far
    kind,       \* of the call
    sup,        \* where wanax is
    group,      \* processes of the call that are alive
    pipes,      \* those that hold its output open
    traits,     \* deaf: the leader reads too little of its input;
                \* stubborn: who ignores SIGTERM
    status,     \* exit status of the leader
    late,       \* the deadline is over
    prompted,   \* acp: the prompt has been sent
    strays,     \* calls that have a process alive after they ended
    ended       \* history: how each call ended

vars == <<call, kind, sup, group, pipes, traits, status, late, prompted, strays, ended>>

TypeOK ==
    /\ call \in 0 .. MaxCalls
    /\ kind \in Kinds
    /\ sup \in {"idle", "feed", "wait", "drain", "release", "killed"}
    /\ group \subseteq Procs /\ pipes \subseteq group
    /\ sup = "idle" => group = {}
    /\ traits \in [deaf : BOOLEAN, stubborn : SUBSET Procs]
    /\ status \in {"running", "zero", "nonzero"}
    /\ late \in BOOLEAN /\ prompted \in BOOLEAN
    /\ strays \subseteq 1 .. call
    /\ ended \in [1 .. MaxCalls -> Ends \cup {"none"}]

Init ==
    /\ call = 0 /\ kind = "cmd" /\ sup = "idle"
    /\ group = {} /\ pipes = {}
    /\ traits = [deaf |-> FALSE, stubborn |-> {}]
    /\ status = "zero" /\ late = FALSE /\ prompted = FALSE
    /\ strays = {}
    /\ ended = [c \in 1 .. MaxCalls |-> "none"]

-----------------------------------------------------------------------------
(* The processes of a call *)

Kept == UNCHANGED <<call, kind, sup, traits, late, prompted, strays, ended>>

Fork ==
    /\ "leader" \in group /\ "member" \notin group
    /\ group' = Procs
    /\ pipes' = IF "leader" \in pipes THEN pipes \cup {"member"} ELSE pipes
    /\ Kept /\ UNCHANGED status

\* Its output is redirected.
CloseOutput(p) ==
    /\ p \in pipes
    /\ pipes' = pipes \ {p}
    /\ Kept /\ UNCHANGED <<group, status>>

Exit(p, code) ==
    /\ p \in group
    /\ group' = group \ {p} /\ pipes' = pipes \ {p}
    /\ status' = IF p = "leader" THEN code ELSE status
    /\ Kept

StrayExit(c) ==
    /\ c \in strays
    /\ strays' = strays \ {c}
    /\ UNCHANGED <<call, kind, sup, group, pipes, traits, status, late, prompted, ended>>

World ==
    \/ Fork
    \/ \E p \in Procs : CloseOutput(p) \/ (\E code \in {"zero", "nonzero"} : Exit(p, code))
    \/ \E c \in strays : StrayExit(c)

-----------------------------------------------------------------------------
(* Starting and feeding *)

Spawn(k) ==
    /\ sup = "idle" /\ call < MaxCalls
    /\ call' = call + 1 /\ kind' = k
    /\ group' = {"leader"} /\ pipes' = {"leader"}
    /\ status' = "running" /\ late' = FALSE /\ prompted' = FALSE
    /\ traits' \in [deaf : BOOLEAN, stubborn : SUBSET Procs]
    /\ sup' = IF k \in Fed THEN "feed" ELSE "wait"
    /\ UNCHANGED <<strays, ended>>

SpawnFails(k) ==
    /\ sup = "idle" /\ call < MaxCalls
    /\ call' = call + 1 /\ kind' = k
    /\ ended' = [ended EXCEPT ![call + 1] = "missing"]
    /\ UNCHANGED <<sup, group, pipes, traits, status, late, prompted, strays>>

Over(how, rest) ==
    /\ sup' = "idle"
    /\ ended' = [ended EXCEPT ![call] = how]
    /\ strays' = IF rest = {} THEN strays ELSE strays \cup {call}
    /\ UNCHANGED <<call, kind, traits, status, late, prompted>>

\* The call is over; rest are the processes that nobody has killed.
Finish(how, rest) == Over(how, rest) /\ group' = {} /\ pipes' = {}

\* write_all of the whole input, without a deadline.
Feed ==
    /\ sup = "feed" /\ ~traits.deaf
    /\ sup' = "wait"
    /\ UNCHANGED <<call, kind, group, pipes, traits, status, late, prompted, strays, ended>>

\* The input is closed: an error, by which the Child is dropped and its leader
\* killed (kill_on_drop), but not its group.
FeedFails ==
    /\ \/ sup = "feed" /\ (traits.deaf \/ "leader" \notin group)
       \/ sup = "wait" /\ kind = "acp" /\ ~prompted /\ "leader" \notin group
    /\ Finish("crash", group \ {"leader"})

-----------------------------------------------------------------------------
(* Waiting *)

\* The deadline of cmd, cli and acp includes the output of everybody, that of
\* a test only the leader.
Complete ==
    IF kind = "test" THEN status # "running" ELSE status # "running" /\ pipes = {}

Deadline ==
    /\ sup = "wait" /\ kind \in Limited /\ ~late
    /\ late' = TRUE
    /\ UNCHANGED <<call, kind, sup, group, pipes, traits, status, prompted, strays, ended>>

How == IF status = "zero" THEN "ok" ELSE "crash"

\* wait_with_output, and output() of a plugin.
Collect ==
    /\ sup = "wait" /\ kind \notin {"test", "acp"}
    /\ Complete
    /\ Finish(How, group)

\* MUTANT: only the leader is killed.
KillLeader == group \ {"leader"}

\* MUTANT: a leader that has exited has no time-out any more.
ExpiredLeader == late /\ status = "running"

\* kill_process_group, kill_tree: SIGKILL to the group.
KillGroup == {}

Expired == late /\ (kind = "acp" \/ ~Complete)

TimeOut ==
    /\ sup = "wait"
    /\ Expired
    /\ Finish("timeout", KillGroup)

\* run_test_command: the leader has exited, its readers are joined.
TestExited ==
    /\ sup = "wait" /\ kind = "test"
    /\ Complete
    /\ sup' = "drain"
    /\ UNCHANGED <<call, kind, group, pipes, traits, status, late, prompted, strays, ended>>

Drained ==
    /\ sup = "drain"
    /\ pipes = {}
    /\ Finish(How, group)

-----------------------------------------------------------------------------
(* The exchange of the agent client protocol *)

Acp == sup = "wait" /\ kind = "acp"

\* The answer to session/new; the prompt is written without a deadline.
AcpSession ==
    /\ Acp /\ ~prompted /\ "leader" \in pipes
    /\ prompted' = TRUE
    /\ sup' = IF traits.deaf THEN "feed" ELSE "wait"
    /\ UNCHANGED <<call, kind, group, pipes, traits, status, late, strays, ended>>

\* An error response, or the stream cannot be read.
AcpError ==
    /\ Acp /\ "leader" \in pipes
    /\ Finish("crash", KillGroup)

\* The answer to the prompt, or the end of the stream: SIGTERM to the group.
AcpStop ==
    /\ Acp
    /\ (prompted /\ "leader" \in pipes) \/ pipes = {}
    /\ sup' = "release"
    /\ group' = group \cap traits.stubborn /\ pipes' = pipes \cap traits.stubborn
    /\ status' = IF "leader" \in group \ traits.stubborn THEN "nonzero" ELSE status
    /\ UNCHANGED <<call, kind, traits, late, prompted, strays, ended>>

\* The leader is waited for, then the end of its error output.
AcpReleased ==
    /\ sup = "release"
    /\ "leader" \notin group /\ pipes = {}
    /\ Finish("ok", group)

-----------------------------------------------------------------------------
(* wanax cancel *)

\* SIGTERM, then SIGKILL, to the pids of the row, which are both wanax's own.  It
\* has no handler: it ends at once, and nothing is dropped.
Cancel ==
    /\ sup \notin {"idle", "killed"}
    /\ sup' = "killed"
    /\ UNCHANGED <<call, kind, group, pipes, traits, status, late, prompted, strays, ended>>

Supervise ==
    \/ Feed \/ (FeedFails /\ "leader" \notin group) \/ Collect \/ TimeOut \/ TestExited \/ Drained
    \/ AcpStop \/ AcpReleased

Next ==
    \/ World
    \/ \E k \in Kinds : Spawn(k) \/ SpawnFails(k)
    \/ Supervise \/ FeedFails \/ Deadline
    \/ AcpSession \/ AcpError
    \/ Cancel

Spec == Init /\ [][Next]_vars

\* wanax goes on when it can, and time passes.  Nothing is assumed of the
\* processes it waits for.
FairSpec == Spec /\ WF_vars(Supervise) /\ WF_vars(Deadline)

-----------------------------------------------------------------------------
(* Properties *)

\* docs/IMPROVEMENTS.md H-3: a time-out kills the whole group, also when its
\* leader is gone and only what it has started is left.
TimeoutLeavesNobody == \A c \in strays : ended[c] # "timeout"

\* A call with a deadline ends, whatever its processes do, but for three waits
\* that the deadline does not reach: a test's or an agent's last output, held
\* open by who outlives the leader or SIGTERM, and input that is not read.
CallEnds ==
    (sup # "idle" /\ kind \in Limited)
        ~> \/ sup \in {"idle", "killed"}
           \/ sup \in {"drain", "release"} /\ group # {}
           \/ sup = "feed" /\ traits.deaf /\ "leader" \in group

\* README: its own process group so timeouts and `wanax cancel` kill the whole
\* tree.  Violated: cancel signals wanax, whose children are in other groups.
CancelKillsTree == sup = "killed" => group = {}
=============================================================================
