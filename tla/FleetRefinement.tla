--------------------------- MODULE FleetRefinement --------------------------
(***************************************************************************)
(* The coordinator, seen through its state store, implements               *)
(* FencedDelivery: over claims, expiry, retries, failed saves and restarts.*)
(***************************************************************************)
EXTENDS FleetCoordinator

PhaseOf(status) ==
  CASE status = "queued"  -> "waiting"
    [] status = "running" -> "held"
    [] OTHER              -> status

BudgetOf(task) ==
  IF task.status = "absent" THEN 0 ELSE task.submission.max_attempts

Delivery == INSTANCE FencedDelivery WITH
  phase      <- [t \in Task |-> PhaseOf(stored.tasks[t].status)],
  generation <- [t \in Task |-> stored.tasks[t].lease_generation],
  budget     <- [t \in Task |-> BudgetOf(stored.tasks[t])]

\* Every stored change is a step FencedDelivery allows: the order in which
\* handlers save, and restarts that find an older or a newer snapshot, never
\* show a task handed out beyond its budget, under a used generation or again
\* after it ended.
ImplementsFencedDelivery == Delivery!Spec
=============================================================================
