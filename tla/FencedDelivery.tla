--------------------------- MODULE FencedDelivery ---------------------------
(***************************************************************************)
(* What the fleet promises of a task, as the state store sees it: the task *)
(* is delivered at least once and at most budget times, each delivery      *)
(* under a generation of its own, and it ends with one outcome, which only *)
(* a passed deadline may still turn into a failure.                        *)
(*                                                                         *)
(* One save may move several tasks, so a step moves any set of them.       *)
(***************************************************************************)
EXTENDS Naturals

CONSTANT Task

Outcomes == {"succeeded", "failed", "cancelled"}
Phase    == {"absent", "waiting", "held"} \cup Outcomes

VARIABLES
  phase,      \* where each task is, or how it ended
  generation, \* how often it has been handed out
  budget      \* how often it may be handed out

vars == <<phase, generation, budget>>

Init ==
  /\ phase = [t \in Task |-> "absent"]
  /\ generation = [t \in Task |-> 0]
  /\ budget = [t \in Task |-> 0]

Moves(t, from, to) == phase[t] \in from /\ phase'[t] \in to

SameBudget(t) == budget'[t] = budget[t]
SameGeneration(t) == generation'[t] = generation[t]

Submit(t) ==
  /\ Moves(t, {"absent"}, {"waiting"})
  /\ SameGeneration(t)
  /\ budget'[t] \in Nat \ {0}

\* To the first holder, or in one save from a holder that was too late to the
\* next one.
HandOut(t) ==
  /\ Moves(t, {"waiting", "held"}, {"held"})
  /\ generation[t] < budget[t]
  /\ generation'[t] = generation[t] + 1
  /\ SameBudget(t)

TakeBack(t) ==
  /\ Moves(t, {"held"}, {"waiting"})
  /\ generation[t] < budget[t]
  /\ SameGeneration(t) /\ SameBudget(t)

End(t) ==
  /\ Moves(t, {"waiting", "held"}, Outcomes)
  /\ SameGeneration(t) /\ SameBudget(t)

Overrule(t) ==
  /\ Moves(t, Outcomes, {"failed"})
  /\ SameGeneration(t) /\ SameBudget(t)

Stay(t) == phase'[t] = phase[t] /\ SameGeneration(t) /\ SameBudget(t)

TaskStep(t) ==
  Submit(t) \/ HandOut(t) \/ TakeBack(t) \/ End(t) \/ Overrule(t) \/ Stay(t)

Next == \A t \in Task : TaskStep(t)

Spec == Init /\ [][Next]_vars
=============================================================================
