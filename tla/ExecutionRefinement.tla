------------------------- MODULE ExecutionRefinement ------------------------
(***************************************************************************)
(* The orchestrator, seen through its store, implements                    *)
(* ControlledExecution: over racing cancellations, deadlines,              *)
(* continuations, failed saves and restarts.                               *)
(***************************************************************************)
EXTENDS Orchestrator

PlaceOf(x) ==
  CASE x.lifecycle = "completed"   -> x.status
    [] x.lifecycle = "interrupted" -> "paused"
    [] OTHER                       -> x.lifecycle

Lifecycles == INSTANCE ControlledExecution WITH
  place     <- [e \in Execution |-> PlaceOf(stored[e])],
  requested <- [e \in Execution |-> stored[e].cancellation # NoCancellation]

\* An observer of the store sees each execution run, pause, resume and end as
\* ControlledExecution allows: once a request is recorded no phase is started
\* and no phase under way turns it into a success.
ImplementsControlledExecution == Lifecycles!Spec
=============================================================================
