--------------------- MODULE ExecutionRefinementProofs ---------------------
(***************************************************************************)
(* Every behaviour of the orchestrator is one of ControlledExecution, for  *)
(* every set of executions, deadlines and results.                         *)
(***************************************************************************)
EXTENDS ExecutionRefinement, OrchestratorProofs

\* What ControlledExecution lets a record do, in the orchestrator's terms.
Requested(x) == x.cancellation # NoCancellation

AllowedStep(x, y) ==
  \/ /\ x.lifecycle = "absent" /\ PlaceOf(y) \in {"running", "failed"}
     /\ ~Requested(y)
  \/ /\ x.lifecycle = "running"
     /\ PlaceOf(y) \in {"success", "failed", "cancelled", "paused"}
     /\ Requested(x) => Requested(y) /\ PlaceOf(y) # "success"
  \/ /\ x.lifecycle = "interrupted" /\ PlaceOf(y) = "running"
     /\ ~Requested(x) /\ ~Requested(y)
  \/ /\ x.lifecycle = "interrupted" /\ PlaceOf(y) \in {"failed", "cancelled"}
     /\ Requested(x) => Requested(y)
  \/ /\ x.lifecycle \in {"running", "interrupted"} /\ PlaceOf(y) = PlaceOf(x)
     /\ Requested(y)
  \/ PlaceOf(y) = PlaceOf(x) /\ (Requested(y) <=> Requested(x))

LEMMA StayAllowed == \A x : AllowedStep(x, x)
BY DEF AllowedStep

\* A step that stores y for f and leaves the others alone.
LEMMA OneRecordAllowed ==
  ASSUME Good, NEW f \in Execution, NEW y, AllowedStep(stored[f], y),
         stored' \in {stored, [stored EXCEPT ![f] = y]}, NEW e \in Execution
  PROVE  AllowedStep(stored[e], stored'[e])
<1>1. stored'[e] = stored[e] \/ (e = f /\ stored'[e] = y)
  BY DEF Good, GoodShape
<1> QED BY <1>1, StayAllowed

LEMMA SubmitAllowed ==
  ASSUME Good, NEW f \in Execution, NEW d \in Deadline, Submit(f, d),
         NEW e \in Execution
  PROVE  AllowedStep(stored[e], stored'[e])
<1> DEFINE ended   == StateFromResult(Absent, "initial", d, DeadlineResult, NoTime)
           running == [Absent EXCEPT !.lifecycle = "running",
                                     !.status = "running", !.deadline = d]
<1>1. stored[f].lifecycle = "absent"
  BY DEF Submit
<1>2. AllowedStep(stored[f], ended)
  BY <1>1 DEF AllowedStep, StateFromResult, DeadlineResult, Absent, PlaceOf, Requested
<1>3. AllowedStep(stored[f], running)
  BY <1>1 DEF AllowedStep, Absent, PlaceOf, Requested
<1>4. stored' \in {stored, [stored EXCEPT ![f] = ended],
                   [stored EXCEPT ![f] = running]}
  BY DEF Submit, Saved, SaveRaised
<1> HIDE DEF ended, running
<1> QED BY <1>2, <1>3, <1>4, OneRecordAllowed

LEMMA ContinueAllowed ==
  ASSUME Good, NEW f \in Execution, Continue(f), NEW e \in Execution
  PROVE  AllowedStep(stored[e], stored'[e])
<1> DEFINE x == stored[f]
           cancelled == StateFromResult(x, "continued", x.deadline,
                          CancelledResult(ExceptionResult),
                          x.cancellation.requested_at)
           late      == StateFromResult(x, "continued", x.deadline,
                          DeadlineResult, NoTime)
           running   == [x EXCEPT !.lifecycle = "running", !.status = "running",
                                  !.phase = "continued"]
<1>1. x \in ExecutionState /\ x.lifecycle = "interrupted"
  BY DEF Good, GoodShape, Continue
<1>2. Requested(x) => AllowedStep(x, cancelled)
  <2> SUFFICES ASSUME Requested(x) PROVE AllowedStep(x, cancelled)
    OBVIOUS
  <2>1. /\ cancelled.lifecycle = "completed" /\ cancelled.status = "cancelled"
        /\ cancelled.cancellation \in Cancellation
    BY <1>1, ConstantsAssumption
    DEF StateFromResult, CancelledResult, ExceptionResult, ExecutionState,
        Cancellation, Requested
  <2> HIDE DEF cancelled
  <2> QED BY <1>1, <2>1, NoCancellationAssumption DEF AllowedStep, PlaceOf, Requested
<1>3. AllowedStep(x, late)
  BY <1>1 DEF AllowedStep, StateFromResult, DeadlineResult, PlaceOf, Requested
<1>4. ~Requested(x) => AllowedStep(x, running)
  BY <1>1 DEF AllowedStep, PlaceOf, Requested, ExecutionState
<1>5. /\ stored' \in {stored, [stored EXCEPT ![f] = cancelled],
                      [stored EXCEPT ![f] = late], [stored EXCEPT ![f] = running]}
      /\ Requested(x) => stored' \in {stored, [stored EXCEPT ![f] = cancelled]}
      /\ ~Requested(x) => stored' \in {stored, [stored EXCEPT ![f] = late],
                                       [stored EXCEPT ![f] = running]}
  BY DEF Continue, Saved, SaveRaised, Requested
<1> HIDE DEF cancelled, late, running
<1> QED BY <1>2, <1>3, <1>4, <1>5, OneRecordAllowed

\* A request on record has reached the token, so the phase does not succeed.
LEMMA ConcludeAllowed ==
  ASSUME Good, NEW run \in runs, NEW result \in WorkerResult,
         NEW prior \in {run.prior, stored[run.execution]},
         LET control == ControlCause(tokens[run.token], run.deadline) IN
         /\ Conclude(run, Controlled(result, control), prior)
         /\ control # "none" => prior = stored[run.execution],
         NEW e \in Execution
  PROVE  AllowedStep(stored[e], stored'[e])
<1> DEFINE f       == run.execution
           t       == tokens[run.token]
           control == ControlCause(t, run.deadline)
           final   == Controlled(result, control)
           at      == IF control = "cancelled" THEN t ELSE NoTime
           next    == StateFromResult(prior, run.phase, run.deadline, final, at)
<1>1. /\ f \in Execution /\ stored[f].lifecycle = "running"
      /\ Requested(stored[f]) => t # NoTime
      /\ t \in Nat \cup {NoTime}
  BY DEF Good, GoodTokens, GoodRuns, GoodRun, Run, Requested
<1>2. control \in {"none", "cancelled", "deadline_exceeded"}
      /\ (t # NoTime => control # "none")
      /\ (t = NoTime => control # "cancelled")
  BY ControlCases
<1>3. final \in WorkerResult
  BY <1>2, ResultsTyped
<1>4. control # "none" => final.status \in {"failed", "cancelled"}
  BY <1>2 DEF Controlled, CancelledResult, DeadlineResult, WorkerResult
<1>5. /\ next.lifecycle \in {"interrupted", "completed"}
      /\ next.status = final.status
      /\ at = NoTime => next.cancellation = prior.cancellation
      /\ at # NoTime =>
           next.cancellation \in [requested_at : {at}, pending : BOOLEAN]
  <2> HIDE DEF at, final
  <2> QED BY DEF StateFromResult
<1>6. Requested(stored[f]) => Requested(next) /\ PlaceOf(next) # "success"
  <2> SUFFICES ASSUME Requested(stored[f])
               PROVE  Requested(next) /\ PlaceOf(next) # "success"
    OBVIOUS
  <2>1. control # "none" /\ prior = stored[f]
    BY <1>1, <1>2
  <2>2. at # NoTime => at \in Nat /\ next.cancellation \in Cancellation
    <3>1. at # NoTime => at \in Nat
      BY <1>1
    <3>2. at \in Nat => [requested_at : {at}, pending : BOOLEAN] \subseteq Cancellation
      BY DEF Cancellation
    <3> HIDE DEF at, next
    <3> QED BY <1>5, <3>1, <3>2
  <2>3. Requested(next)
    <3> HIDE DEF at, next
    <3> QED BY <1>5, <2>1, <2>2, NoCancellationAssumption DEF Requested
  <2>4. next.status # "success"
    <3> HIDE DEF next, final
    <3> QED BY <1>4, <1>5, <2>1
  <2> HIDE DEF next
  <2> QED BY <1>5, <2>3, <2>4 DEF PlaceOf
<1>7. PlaceOf(next) \in {"success", "failed", "cancelled", "paused"}
  <2> HIDE DEF next, final
  <2> QED BY <1>3, <1>5 DEF PlaceOf, WorkerResult
<1>8. stored' \in {stored, [stored EXCEPT ![f] = next]}
  BY DEF Conclude, Saved, SaveRaised
<1> HIDE DEF next
<1>9. AllowedStep(stored[f], next)
  BY <1>1, <1>6, <1>7 DEF AllowedStep
<1> QED BY <1>1, <1>8, <1>9, OneRecordAllowed

LEMMA CancelAllowed ==
  ASSUME Good, NEW f \in Execution, Cancel(f), NEW e \in Execution
  PROVE  AllowedStep(stored[e], stored'[e])
<1> DEFINE x == stored[f]
<1>1. x \in ExecutionState /\ x.lifecycle \in {"running", "interrupted"}
  BY DEF Good, GoodShape, Cancel
<1>2. ASSUME NEW at \in Nat, NEW tail
      PROVE  AllowedStep(x, CancelConfirmed(x, at, tail))
  <2> DEFINE y == CancelConfirmed(x, at, tail)
  <2>1. /\ y.lifecycle = "completed" /\ y.status = "cancelled"
        /\ y.cancellation \in Cancellation
    BY <1>1 DEF CancelConfirmed, ExecutionState, Cancellation
  <2> HIDE DEF y
  <2>2. AllowedStep(x, y)
    BY <1>1, <2>1, NoCancellationAssumption DEF AllowedStep, PlaceOf, Requested
  <2> QED BY <2>2 DEF y
<1>3. CASE CancelTooLate(f)
  <2> DEFINE told  == [x EXCEPT !.cause = "deadline_exceeded",
                                !.evidence = Append(@, "deadline-exceeded")]
             ended == StateFromResult(x, x.phase, x.deadline, DeadlineResult, NoTime)
  <2>1. AllowedStep(x, told)
    BY <1>1 DEF AllowedStep, PlaceOf, Requested, ExecutionState
  <2>2. AllowedStep(x, ended)
    BY <1>1 DEF AllowedStep, StateFromResult, DeadlineResult, PlaceOf, Requested
  <2>3. stored' \in {stored, [stored EXCEPT ![f] = told], [stored EXCEPT ![f] = ended]}
    BY <1>3 DEF CancelTooLate, Saved, SaveRaised
  <2> HIDE DEF told, ended
  <2> QED BY <2>1, <2>2, <2>3, OneRecordAllowed
<1>4. CASE CancelAgain(f)
  <2> DEFINE y == CancelConfirmed(x, x.cancellation.requested_at,
                                  <<"cancellation-confirmed">>)
  <2>1. x.cancellation.requested_at \in Nat
    BY <1>1, <1>4 DEF CancelAgain, ExecutionState, Cancellation
  <2>2. AllowedStep(x, y)
    BY <1>2, <2>1
  <2>3. stored' \in {stored, [stored EXCEPT ![f] = y]}
    BY <1>4 DEF CancelAgain, Saved, SaveRaised
  <2> HIDE DEF y
  <2> QED BY <2>2, <2>3, OneRecordAllowed
<1>5. CASE CancelFirst(f)
  <2> DEFINE pending(at) ==
               [x EXCEPT !.cancellation = [requested_at |-> at, pending |-> TRUE],
                         !.evidence = Append(@, "cancellation-requested")]
             confirmed(at) ==
               CancelConfirmed(x, at, <<"cancellation-requested",
                                        "cancellation-confirmed">>)
  <2>1. PICK at \in now .. now' :
          stored' \in {stored, [stored EXCEPT ![f] = pending(at)],
                       [stored EXCEPT ![f] = confirmed(at)]}
    BY <1>5 DEF CancelFirst, Saved, SaveRaised
  <2>2. at \in Nat
    BY <1>5 DEF Good, GoodShape, CancelFirst
  <2> DEFINE p == pending(at)
             c == confirmed(at)
  <2>3. p.lifecycle = x.lifecycle /\ p.cancellation \in Cancellation
    BY <1>1, <2>2 DEF ExecutionState, Cancellation
  <2>4. AllowedStep(x, c)
    BY <1>2, <2>2
  <2>5. stored' \in {stored, [stored EXCEPT ![f] = p], [stored EXCEPT ![f] = c]}
    BY <2>1
  <2> HIDE DEF p, c
  <2>6. AllowedStep(x, p)
    BY <1>1, <2>3, NoCancellationAssumption DEF AllowedStep, PlaceOf, Requested
  <2> QED BY <2>4, <2>5, <2>6, OneRecordAllowed
<1> QED BY <1>3, <1>4, <1>5 DEF Cancel

LEMMA RecordEvaluationAllowed ==
  ASSUME Good, NEW f \in Execution, RecordEvaluation(f), NEW e \in Execution
  PROVE  AllowedStep(stored[e], stored'[e])
<1> DEFINE x == stored[f]
           y == [x EXCEPT !.evaluations = Append(@, ResultReference(x))]
<1>1. AllowedStep(x, y)
  BY DEF Good, GoodShape, ExecutionState, AllowedStep, PlaceOf, Requested
<1>2. stored' \in {stored, [stored EXCEPT ![f] = y]}
  BY DEF RecordEvaluation, Saved, SaveRaised
<1> HIDE DEF y
<1> QED BY <1>1, <1>2, OneRecordAllowed

LEMMA StepAllowed ==
  ASSUME Good, [Next]_vars, NEW e \in Execution
  PROVE  AllowedStep(stored[e], stored'[e])
<1>1. ASSUME NEW run \in runs, NEW result \in Result, Return(run, result)
      PROVE  AllowedStep(stored[e], stored'[e])
  <2>1. result \in WorkerResult
    BY ConstantsAssumption
  <2> QED BY <1>1, <2>1, ConcludeAllowed DEF Return
<1>2. ASSUME NEW run \in runs, Raise(run)
      PROVE  AllowedStep(stored[e], stored'[e])
  <2> DEFINE control == ControlCause(tokens[run.token], run.deadline)
             prior == IF control = "none" THEN run.prior ELSE stored[run.execution]
  <2>1. /\ Conclude(run, Controlled(ExceptionResult, control), prior)
        /\ prior \in {run.prior, stored[run.execution]}
        /\ control # "none" => prior = stored[run.execution]
    BY <1>2 DEF Raise
  <2> HIDE DEF prior
  <2> QED BY <2>1, ResultsTyped, ConcludeAllowed
<1>3. CASE UNCHANGED stored
  BY <1>3, StayAllowed
<1> QED
  BY <1>1, <1>2, <1>3, SubmitAllowed, ContinueAllowed, CancelAllowed,
     RecordEvaluationAllowed
  DEF Next, Crash, Tick, vars

LEMMA RefinedInit == Init => Lifecycles!Init
<1> SUFFICES ASSUME Init PROVE Lifecycles!Init
  OBVIOUS
<1>1. \A e \in Execution :
        PlaceOf(stored[e]) = "absent" /\ stored[e].cancellation = NoCancellation
  BY DEF Init, Absent, PlaceOf
<1> QED BY <1>1 DEF Lifecycles!Init

LEMMA RefinedNext == IInv /\ [Next]_vars => [Lifecycles!Next]_(Lifecycles!vars)
<1> SUFFICES ASSUME IInv, [Next]_vars PROVE Lifecycles!Next
  OBVIOUS
<1> SUFFICES ASSUME NEW e \in Execution PROVE Lifecycles!Step(e)
  BY DEF Lifecycles!Next
<1>1. AllowedStep(stored[e], stored'[e]) /\ stored[e].lifecycle \in Lifecycle
  BY GoodIsIInv, StepAllowed DEF Good, GoodShape, ExecutionState
<1> QED BY <1>1
  DEF AllowedStep, Requested, PlaceOf, Lifecycle, Lifecycles!Step,
      Lifecycles!Start, Lifecycles!EndPhase, Lifecycles!Resume,
      Lifecycles!Abandon, Lifecycles!Request, Lifecycles!Stay,
      Lifecycles!Moves, Lifecycles!Outcome

\* The orchestrator implements controlled executions: observers of its store
\* never see a requested cancellation forgotten, continued or turned into a
\* success.
THEOREM Refinement == Spec => ImplementsControlledExecution
<1> QED BY RefinedInit, RefinedNext, Invariance, PTL
        DEF Spec, ImplementsControlledExecution, Lifecycles!Spec

=============================================================================
