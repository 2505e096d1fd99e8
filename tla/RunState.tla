------------------------------ MODULE RunState ------------------------------
(***************************************************************************)
(* The states of a FactoryRun and the moves between them that              *)
(* Store::set_state lets through (crates/wanax-core/src/state.rs).         *)
(***************************************************************************)

Terminal == {"accepted", "rejected", "cancelled", "budget_exhausted",
             "failed", "escalate"}

RunStates == Terminal \cup
    {"draft", "contract_ready", "dispatched", "inner_working", "receipt_ready",
     "outer_reviewing", "rework", "canceling"}

\* MUTANT: no way back from a review to the next unit of a DAG.
ArcsSingle ==
    {<<"draft", "contract_ready">>,
     <<"contract_ready", "dispatched">>,
     <<"dispatched", "inner_working">>,
     <<"inner_working", "receipt_ready">>,
     <<"receipt_ready", "outer_reviewing">>,
     <<"rework", "dispatched">>,
     <<"canceling", "cancelled">>}
    \cup {"outer_reviewing"} \X {"accepted", "rejected", "rework", "escalate"}

\* The arcs of the normal course of a run.
Arcs ==
    {<<"draft", "contract_ready">>,
     <<"contract_ready", "dispatched">>,
     <<"dispatched", "inner_working">>,
     <<"inner_working", "receipt_ready">>,
     <<"receipt_ready", "outer_reviewing">>,
     <<"rework", "dispatched">>,
     <<"canceling", "cancelled">>}
    \cup {"outer_reviewing"} \X
         {"accepted", "rejected", "rework", "escalate", "dispatched"}

\* Where a run may go from every state that is not terminal.
Exits == {"canceling", "budget_exhausted", "failed", "escalate"}

CanTransition(from, to) ==
    \/ from = to
    \/ /\ from \notin Terminal
       /\ <<from, to>> \in Arcs \/ to \in Exits
=============================================================================
