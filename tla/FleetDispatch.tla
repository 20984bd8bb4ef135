---------------------------- MODULE FleetDispatch ---------------------------
(***************************************************************************)
(* FleetDispatchWorker (loom_ai/fleet_dispatch.py) and the whole way of a  *)
(* Worker invocation through the fleet: dispatching Workers in the         *)
(* coordinator's process submit a task each, watch it, give it up and      *)
(* answer with its result; agents claim, execute and report the tasks over *)
(* a network that loses and delays requests; the coordinator's process,    *)
(* and the dispatchers with it, may end and be started again.              *)
(***************************************************************************)
EXTENDS FleetAgents

CONSTANTS
  WaitTimeout, \* wait_timeout_seconds
  Never        \* no time

ASSUME DispatchAssumption == WaitTimeout \in Nat \ {0} /\ Never \notin Nat

VARIABLE dispatches \* by the task they submit, with what becomes of them

allVars == <<vars, agentVars, dispatches>>

\* The result's outcome or termination cause, the attempt the answer names,
\* and the submission it answers.
Answer ==
  [result : Outcome \cup TerminationCause \cup {NoResult}, attempt : Nat,
   submission : Submission]

Dispatcher ==
  [pc : {"idle", "waiting", "returned", "raised", "gone"}, until : Nat,
   cancelled_at : Nat \cup {Never}, answer : Answer \cup {NoResult}]

DispatchTypeOK ==
  /\ TypeOK
  /\ AgentsTypeOK
  /\ dispatches \in [Task -> Dispatcher]

DispatchInit ==
  /\ Init
  /\ AgentsInit
  /\ dispatches = [t \in Task |->
       [pc |-> "idle", until |-> 0, cancelled_at |-> Never, answer |-> NoResult]]

-----------------------------------------------------------------------------
(* FleetDispatchWorker.execute.                                            *)

\* The fresh idempotency key stands as the task's own identity.  The bound on
\* the time is there for the wait to end within it.
Dispatch(t, s) ==
  /\ dispatches[t].pc = "idle"
  /\ now + WaitTimeout <= MaxTime
  /\ Submit(t, NoKey, s)
  /\ dispatches' = [dispatches EXCEPT
       ![t].pc = IF Acknowledged THEN "waiting" ELSE "raised",
       ![t].until = now + WaitTimeout]
  /\ UNCHANGED agentVars

\* Somebody cancels the execution the dispatcher works for.
CancelExecution(t) ==
  /\ dispatches[t].pc = "waiting"
  /\ dispatches[t].cancelled_at = Never
  /\ dispatches' = [dispatches EXCEPT ![t].cancelled_at = now]
  /\ UNCHANGED <<vars, agentVars>>

\* The evidence of a terminal task.
AnswerOf(task) ==
  [result |-> task.result, attempt |-> task.attempt, submission |-> task.submission]

\* observe_task finds a terminal task; its result becomes the answer.
Returns(t) ==
  /\ dispatches[t].pc = "waiting"
  /\ ObserveTask(t)
  /\ dispatches' = [dispatches EXCEPT
       ![t].pc = "returned",
       ![t].answer = AnswerOf(memory.tasks[t])]
  /\ UNCHANGED agentVars

\* Slip: only the controls of the context end the wait.
GivesUpSlip(t, cause) ==
  LET dispatch == dispatches[t]
      overdue  == DeadlineExpired(memory.tasks[t], now)
  IN
  CASE cause = "deadline_exceeded" -> overdue
    [] cause = "cancelled" -> ~overdue /\ dispatch.cancelled_at # Never
    [] OTHER -> FALSE

\* Why the dispatcher gives the task up: the control that was first, or, when
\* there is none, the end of the time to wait.
GivesUp(t, cause) ==
  LET dispatch  == dispatches[t]
      deadline  == memory.tasks[t].submission.deadline
      overdue   == DeadlineExpired(memory.tasks[t], now)
      cancelled ==
        /\ dispatch.cancelled_at # Never
        /\ overdue => dispatch.cancelled_at < deadline
  IN
  CASE cause = "cancelled"         -> cancelled
    [] cause = "deadline_exceeded" -> overdue /\ ~cancelled
    [] cause = "worker_timeout"    -> ~overdue /\ ~cancelled /\ now >= dispatch.until

\* Slip: the dispatcher returns without cancelling what it waited for.
GiveUpSlip(t, cause) ==
  /\ dispatches[t].pc = "waiting"
  /\ mode # "down"
  /\ GivesUp(t, cause)
  /\ dispatches' = [dispatches EXCEPT
       ![t].pc = "returned",
       ![t].answer = [AnswerOf(memory.tasks[t]) EXCEPT !.result = cause]]
  /\ UNCHANGED <<vars, agentVars>>

\* The task had no terminal status when it was observed; cancel_task leaves it
\* alone when it has one by now.  The next observation ends the wait.
GiveUp(t, cause) ==
  /\ dispatches[t].pc = "waiting"
  /\ GivesUp(t, cause)
  /\ Cancel(t, cause)
  /\ dispatches' =
       IF Finished(memory.tasks[t]) \/ Acknowledged THEN dispatches
       ELSE [dispatches EXCEPT ![t].pc = "raised"]
  /\ UNCHANGED agentVars

-----------------------------------------------------------------------------
(* The coordinator's process takes requests and dispatchers with it.       *)

ProcessEnds ==
  /\ Crash
  /\ late' = {}
  /\ dispatches' = [t \in Task |->
       IF dispatches[t].pc = "waiting" THEN [dispatches[t] EXCEPT !.pc = "gone"]
       ELSE dispatches[t]]
  /\ UNCHANGED <<agents, begun, produced>>

\* The clock ticks; the process is started again.
Others ==
  /\ Tick \/ Restart
  /\ UNCHANGED <<agentVars, dispatches>>

Waits(t) ==
  \/ Returns(t)
  \/ \E cause \in CancelCause : GiveUp(t, cause)

DispatchNext ==
  \/ \E t \in Task, s \in Submission : Dispatch(t, s)
  \/ \E t \in Task : CancelExecution(t)
  \/ \E t \in Task : Waits(t)
  \/ \E w \in Worker : AgentStep(w) /\ UNCHANGED dispatches
  \/ \E request \in late : StrayHandled(request) /\ UNCHANGED dispatches
  \/ ProcessEnds
  \/ Others

DispatchSpec == DispatchInit /\ [][DispatchNext]_allVars

\* The clock runs and a dispatcher polls.  Nothing is asked of the agents.
DispatchFairness ==
  /\ WF_allVars(Tick /\ UNCHANGED <<agentVars, dispatches>>)
  /\ \A t \in Task : WF_allVars(Waits(t))

FairDispatchSpec == DispatchSpec /\ DispatchFairness

-----------------------------------------------------------------------------
(* Properties.                                                             *)

\* However requests and answers get lost, agents die and the coordinator is
\* restarted: the agents of the fleet begin no more executions of a task than
\* its max_attempts.
ExecutionsWithinBudget ==
  \A t \in Task :
    begun[t] # 0 => begun[t] <= stored.tasks[t].submission.max_attempts

\* What a dispatcher answers really happened: a Worker came to that result in
\* the very attempt the answer names, or the execution was cancelled, or the
\* deadline or the time to wait had passed, or the last lease had expired.
Earned(t, answer) ==
  LET overdue == /\ answer.submission.deadline # NoDeadline
                 /\ now >= answer.submission.deadline
  IN
  \/ \E p \in produced :
       /\ p.lease.task = t
       /\ p.lease.generation = answer.attempt
       /\ p.result.outcome = answer.result
  \/ answer.result = "cancelled" /\ dispatches[t].cancelled_at # Never
  \/ answer.result = "deadline_exceeded" /\ overdue
  \/ answer.result = "worker_timeout" /\ now >= dispatches[t].until
  \/ /\ answer.result = "lease_expired"
     /\ answer.attempt = answer.submission.max_attempts \/ overdue

AnswersAreEarned ==
  \A t \in Task :
    dispatches[t].pc = "returned" => Earned(t, dispatches[t].answer)

\* A dispatcher that has answered leaves nothing behind that could still be
\* claimed, executed to an effect on the task, or come to another result, now
\* or after a restart; only a late renewal can turn it into a missed deadline.
NothingLeftBehind ==
  \A t \in Task :
    dispatches[t].pc = "returned" /\ mode = "up" =>
      /\ memory.tasks[t].status \in Terminal
      /\ memory.tasks[t].result \in {dispatches[t].answer.result, "deadline_exceeded"}

\* A dispatching Worker comes back, whatever its agents do.
DispatchEnds ==
  \A t \in Task : dispatches[t].pc = "waiting" ~> dispatches[t].pc # "waiting"
=============================================================================
