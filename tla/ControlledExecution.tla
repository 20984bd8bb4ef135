------------------------- MODULE ControlledExecution ------------------------
(***************************************************************************)
(* What the orchestrator promises of its executions, as an observer of the *)
(* store sees them: an execution is started once, may pause and resume,    *)
(* and ends once.  A cancellation request is never forgotten; after it no  *)
(* phase is started, and the execution does not end in success.            *)
(***************************************************************************)
CONSTANT Execution

Outcome == {"success", "failed", "cancelled"}
Place   == {"absent", "running", "paused"} \cup Outcome

VARIABLES
  place,    \* where each execution is, or how it ended
  requested \* has its cancellation been requested?

vars == <<place, requested>>

Init ==
  /\ place = [e \in Execution |-> "absent"]
  /\ requested = [e \in Execution |-> FALSE]

Moves(e, from, to) == place[e] = from /\ place'[e] \in to

\* A submission that is too late ends at once.
Start(e) ==
  /\ Moves(e, "absent", {"running", "failed"})
  /\ ~requested'[e]

\* A phase ends; the request of a cancellation it observed becomes known.
EndPhase(e) ==
  /\ Moves(e, "running", Outcome \cup {"paused"})
  /\ requested[e] => requested'[e] /\ place'[e] # "success"

Resume(e) ==
  /\ Moves(e, "paused", {"running"})
  /\ ~requested[e] /\ ~requested'[e]

\* A paused execution ends because of its deadline or a cancellation.
Abandon(e) ==
  /\ Moves(e, "paused", {"failed", "cancelled"})
  /\ requested[e] => requested'[e]

Request(e) ==
  /\ place[e] \in {"running", "paused"} /\ place'[e] = place[e]
  /\ requested'[e]

Stay(e) == place'[e] = place[e] /\ requested'[e] = requested[e]

Step(e) ==
  Start(e) \/ EndPhase(e) \/ Resume(e) \/ Abandon(e) \/ Request(e) \/ Stay(e)

Next == \A e \in Execution : Step(e)

Spec == Init /\ [][Next]_vars
=============================================================================
