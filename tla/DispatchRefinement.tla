------------------------- MODULE DispatchRefinement -------------------------
(***************************************************************************)
(* The fleet, with its dispatchers and agents, implements RemoteInvocation *)
(* when the saves of the coordinator's store do not raise.                 *)
(***************************************************************************)
EXTENDS FleetDispatch, FleetRefinement

CallerOf(dispatch) ==
  CASE dispatch.pc = "returned"          -> "answered"
    [] dispatch.pc \in {"raised", "gone"} -> "lost"
    [] OTHER                              -> dispatch.pc

AnswerGiven(dispatch) ==
  IF dispatch.pc = "returned"
  THEN [attempt |-> dispatch.answer.attempt, outcome |-> dispatch.answer.result]
  ELSE NoResult

\* The agents that execute t, and their attempts.
Executors(t) ==
  {w \in Worker : agents[w].pc = "executing" /\ agents[w].lease.task = t}

Running(t) == {agents[w].lease.generation : w \in Executors(t)}

\* What Workers came to, whether or not it was ever reported.
ResultsOf(t) ==
  {[attempt |-> p.lease.generation, outcome |-> p.result.outcome] :
     p \in {q \in produced : q.lease.task = t}}

\* A dispatcher never learns that attempts were exhausted: only a restart, which
\* no dispatcher survives, ends a task for that.
Invocation == INSTANCE RemoteInvocation WITH
  Reason     <- TerminationCause \ {"attempts_exhausted"},
  NoAnswer   <- NoResult,
  caller     <- [t \in Task |-> CallerOf(dispatches[t])],
  answer     <- [t \in Task |-> AnswerGiven(dispatches[t])],
  budget     <- [t \in Task |-> BudgetOf(stored.tasks[t])],
  deliveries <- [t \in Task |-> stored.tasks[t].lease_generation],
  running    <- [t \in Task |-> Running(t)],
  results    <- [t \in Task |-> ResultsOf(t)]

\* However requests are lost, delayed and overtaken, agents interrupted and the
\* coordinator restarted: an attempt runs at most once, an answer is one that
\* was earned, and no attempt is handed out after it.
ImplementsRemoteInvocation == Invocation!Spec
=============================================================================
