-------------------------- MODULE RemoteInvocation --------------------------
(***************************************************************************)
(* What dispatching a Worker to the fleet promises its caller: the task is *)
(* handed out at most budget times, every time as an attempt of its own    *)
(* that runs at most once; the caller is answered at most once, with what  *)
(* an attempt came to or with a reason why there is no such result; and    *)
(* after the answer no further attempt is handed out.                      *)
(*                                                                         *)
(* Attempts that still run then may come to results nobody looks at.  One  *)
(* save may move several tasks, so a step moves any set of them.           *)
(***************************************************************************)
EXTENDS Naturals

CONSTANTS
  Task,
  Outcome,  \* what a Worker may come to
  Reason,   \* why a task may end without a Worker's result
  NoAnswer

VARIABLES
  caller,     \* "idle", "waiting", "answered" or "lost"
  answer,     \* what the caller got
  budget,     \* how often the task may be handed out
  deliveries, \* how often it has been handed out
  running,    \* the attempts that run
  results     \* what attempts came to

vars == <<caller, answer, budget, deliveries, running, results>>

Init ==
  /\ caller = [t \in Task |-> "idle"]
  /\ answer = [t \in Task |-> NoAnswer]
  /\ budget = [t \in Task |-> 0]
  /\ deliveries = [t \in Task |-> 0]
  /\ running = [t \in Task |-> {}]
  /\ results = [t \in Task |-> {}]

Came(attempt, outcome) == [attempt |-> attempt, outcome |-> outcome]

SameCaller(t)   == caller'[t] = caller[t] /\ answer'[t] = answer[t]
SameBudget(t)   == budget'[t] = budget[t]
SameAttempts(t) == deliveries'[t] = deliveries[t] /\ running'[t] = running[t]
SameResults(t)  == results'[t] = results[t]

Call(t) ==
  /\ caller[t] = "idle" /\ caller'[t] = "waiting"
  /\ answer'[t] = answer[t]
  /\ budget'[t] \in Nat \ {0}
  /\ SameAttempts(t) /\ SameResults(t)

\* The one who gets the task may never hear of it; then nothing runs.
Deliver(t) ==
  /\ caller[t] # "answered"
  /\ deliveries[t] < budget[t]
  /\ deliveries'[t] = deliveries[t] + 1
  /\ running'[t] \in {running[t], running[t] \cup {deliveries'[t]}}
  /\ SameCaller(t) /\ SameBudget(t) /\ SameResults(t)

\* An attempt comes to a result, or just ends.
Finish(t) ==
  /\ \E attempt \in running[t] :
       /\ running'[t] = running[t] \ {attempt}
       /\ \/ SameResults(t)
          \/ \E outcome \in Outcome :
               results'[t] = results[t] \cup {Came(attempt, outcome)}
  /\ deliveries'[t] = deliveries[t]
  /\ SameCaller(t) /\ SameBudget(t)

Answer(t) ==
  /\ caller[t] = "waiting" /\ caller'[t] = "answered"
  /\ \E attempt \in 0 .. deliveries[t], outcome \in Outcome \cup Reason :
       /\ answer'[t] = Came(attempt, outcome)
       /\ Came(attempt, outcome) \in results[t] \/ outcome \in Reason
  /\ SameBudget(t) /\ SameAttempts(t) /\ SameResults(t)

\* The caller is gone, or does not learn what came of it.
Lose(t) ==
  /\ caller[t] = "waiting" /\ caller'[t] = "lost"
  /\ answer'[t] = answer[t]
  /\ SameBudget(t) /\ SameAttempts(t) /\ SameResults(t)

Stay(t) == SameCaller(t) /\ SameBudget(t) /\ SameAttempts(t) /\ SameResults(t)

TaskStep(t) ==
  Call(t) \/ Deliver(t) \/ Finish(t) \/ Answer(t) \/ Lose(t) \/ Stay(t)

Next == \A t \in Task : TaskStep(t)

Spec == Init /\ [][Next]_vars
=============================================================================
