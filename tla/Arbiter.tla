------------------------------- MODULE Arbiter ------------------------------
(***************************************************************************)
(* One call of Arbiter.execute (loom_ai/arbiter.py): the Workers of a      *)
(* queue are executed in turn, each result is looked at, and what does not *)
(* end the execution by itself is handed to the evaluator, which completes,*)
(* interrupts, goes on, retries or replans.                                *)
(*                                                                         *)
(* Meanwhile a canceller and the clock, in other threads, may raise the    *)
(* two controls of the context; the Arbiter looks at them before and after *)
(* each Worker.  A Worker may be an Arbiter: then its result is one.       *)
(***************************************************************************)
EXTENDS Integers, Sequences, FiniteSets

CONSTANTS
  Worker,      \* the Workers there are
  WorkerId,    \* worker_id values; attempts are counted by these
  IdOf,        \* the worker_id of each Worker
  Plan,        \* the workers the Arbiter is built with
  Replan,      \* what the evaluator may put into WorkerEvaluation.workers
  MaxRetries,  \* max_retries
  MaxReplans,  \* bound on the evaluator's replans
  NoAnswer

Outcome ==
  {"succeeded", "partially_succeeded", "failed", "policy_denied", "cancelled",
   "deadline_exceeded"}

Decision == {"complete", "interrupt", "continue", "retry", "replan"}
Control  == {"cancelled", "deadline_exceeded"}

\* The outcomes whose status is FAILED.
Failing(outcome) == outcome \in {"failed", "policy_denied", "deadline_exceeded"}

\* What a Worker returns: interrupted stands for the termination cause of a
\* nested Arbiter that was interrupted.  The flags are looked at with the
\* outcomes that are named here only.
Output ==
  {output \in [outcome : Outcome, retryable : BOOLEAN, interrupted : BOOLEAN] :
     /\ output.retryable => Failing(output.outcome)
     /\ output.interrupted => output.outcome = "failed"}

\* What the Arbiter returns: pending stands for continuation_pending.
Answer ==
  [outcome : Outcome, cause : {"none", "interrupted", "deadline_exceeded"},
   pending : BOOLEAN]

ASSUME ConstantsAssumption ==
  /\ IdOf \in [Worker -> WorkerId]
  /\ Plan \in Seq(Worker)
  /\ Replan \subseteq Seq(Worker)
  /\ MaxRetries \in Nat
  /\ MaxReplans \in Nat
  /\ NoAnswer \notin Answer

VARIABLES
  pc,       \* "looking" for a Worker, "working", "judging", "returned", "raised"
  queue,
  index,    \* from 1, where the code counts from 0
  attempts, \* by worker_id
  outputs,  \* what the Workers returned
  signals,  \* the controls that were raised, in their order
  answer,   \* what execute returned
  replans   \* how often the evaluator replanned

vars == <<pc, queue, index, attempts, outputs, signals, answer, replans>>

\* A result with its place in the queue; late tells that a control had been
\* raised before it was returned.
Entry == [place : Nat, output : Output, late : BOOLEAN]

TypeOK ==
  /\ pc \in {"looking", "working", "judging", "returned", "raised"}
  /\ queue \in Seq(Worker)
  /\ index \in 1 .. Len(queue) + 1
  /\ attempts \in [WorkerId -> Nat]
  /\ outputs \in Seq(Entry)
  /\ signals \in Seq(Control)
  /\ answer \in Answer \cup {NoAnswer}
  /\ replans \in Nat

Init ==
  /\ pc = "looking"
  /\ queue = Plan
  /\ index = 1
  /\ attempts = [i \in WorkerId |-> 0]
  /\ outputs = <<>>
  /\ signals = <<>>
  /\ answer = NoAnswer
  /\ replans = 0

-----------------------------------------------------------------------------
(* Results and answers.                                                    *)

\* Slip: an interrupted Worker is judged as one that failed.
EndsSlip(output) ==
  output.outcome \in {"cancelled", "deadline_exceeded", "policy_denied",
                      "partially_succeeded"}

\* Results that end the execution, whatever the evaluator would say.
Ends(output) ==
  \/ output.outcome \in {"cancelled", "deadline_exceeded", "policy_denied",
                         "partially_succeeded"}
  \/ output.outcome = "failed" /\ output.interrupted

Answered(outcome, cause, pending) ==
  [outcome |-> outcome, cause |-> cause, pending |-> pending]

Complete    == Answered("succeeded", "none", FALSE)
Failed      == Answered("failed", "none", FALSE)
Interrupted == Answered("failed", "interrupted", TRUE)

\* The answer to a control, or to a Worker that ended because of one.
Stopped(control) ==
  Answered(control, IF control = "deadline_exceeded" THEN control ELSE "none", FALSE)

\* The answer to a result that ends the execution.
Ending(output) ==
  CASE output.outcome = "partially_succeeded" ->
         Answered("partially_succeeded", "none", TRUE)
    [] output.outcome = "failed" -> Interrupted
    [] output.outcome = "policy_denied" -> Answered("policy_denied", "none", FALSE)
    [] OTHER -> Stopped(output.outcome)

Returned(a) == pc' = "returned" /\ answer' = a

\* Slip: a control only breaks off the round of the loop.
StopsSlip(control) == UNCHANGED <<pc, answer>>

Stops(control) == Returned(Stopped(control))

-----------------------------------------------------------------------------
(* The controls of the context.                                            *)

Signal(control) ==
  /\ pc \notin {"returned", "raised"}
  /\ control \notin {signals[i] : i \in DOMAIN signals}
  /\ signals' = Append(signals, control)
  /\ UNCHANGED <<pc, queue, index, attempts, outputs, answer, replans>>

\* Slip: only the deadline is looked at.
CauseSlip ==
  IF signals # <<>> /\ Head(signals) = "deadline_exceeded"
  THEN "deadline_exceeded" ELSE "none"

\* The control that was first.
Cause == IF signals = <<>> THEN "none" ELSE Head(signals)

\* termination_cause reads the clock, the token and the clock again.  Between
\* its first two readings the deadline may pass and, after it, cancellation be
\* requested: then the request is reported though the deadline was first.
Observes(cause) ==
  \/ cause = Cause /\ UNCHANGED signals
  \/ /\ cause = "cancelled" /\ signals = <<>>
     /\ signals' = <<"deadline_exceeded", "cancelled">>

-----------------------------------------------------------------------------
(* The loop.                                                               *)

\* Slip: what became of the last Worker does not matter.
QueueEndedSlip == Returned(Complete)

\* All Workers have been executed: a failure no later Worker made up for
\* fails the execution.
QueueEnded ==
  Returned(IF outputs # <<>> /\ Failing(outputs[Len(outputs)].output.outcome)
           THEN Failed ELSE Complete)

\* The head of the loop: the queue has ended, a control was raised, or the
\* next Worker is started.
Look ==
  /\ pc = "looking"
  /\ \/ /\ index > Len(queue)
        /\ QueueEnded
        /\ UNCHANGED <<attempts, signals>>
     \/ /\ index <= Len(queue)
        /\ \E cause \in Control : Observes(cause) /\ Stops(cause)
        /\ UNCHANGED attempts
     \/ /\ index <= Len(queue)
        /\ Observes("none")
        /\ attempts' = [attempts EXCEPT ![IdOf[queue[index]]] = @ + 1]
        /\ pc' = "working"
        /\ UNCHANGED answer
  /\ UNCHANGED <<queue, index, outputs, replans>>

\* The Worker returned output.
WorkerReturns(output) ==
  /\ pc = "working"
  /\ outputs' = Append(outputs,
       [place |-> index, output |-> output, late |-> signals # <<>>])
  /\ \/ \E cause \in Control : Observes(cause) /\ Stops(cause)
     \/ /\ Observes("none")
        /\ IF Ends(output)
           THEN Returned(Ending(output))
           ELSE pc' = "judging" /\ UNCHANGED answer
  /\ UNCHANGED <<queue, index, attempts, replans>>

\* Slip: one execution too many.
RetryRefusedSlip(output, tried) ==
  \/ Failing(output.outcome) /\ ~output.retryable
  \/ tried >= MaxRetries + 2

\* Slip: every failure may be retried.
RetryAnyFailure(output, tried) == tried >= MaxRetries + 1

\* A retry is refused after a denial, a cancellation or a deadline (which do
\* not get here), a failure that is not retryable, or one attempt too many.
RetryRefused(output, tried) ==
  \/ output.outcome \in {"policy_denied", "cancelled", "deadline_exceeded"}
  \/ Failing(output.outcome) /\ ~output.retryable
  \/ tried >= MaxRetries + 1

\* Slip: the failed Worker's successor is passed over, too.
PassedSlip == index + 2

Passed == index + 1

\* Slip: the new Workers take the place of the ones that were left.
ReplannedSlip(workers) == SubSeq(queue, 1, index) \o workers

\* The new Workers come next, the ones that were left after them.
Replanned(workers) ==
  SubSeq(queue, 1, index) \o workers \o SubSeq(queue, index + 1, Len(queue))

\* The evaluator has decided.
Complies(decision) ==
  LET output == outputs[Len(outputs)].output
      tried  == attempts[IdOf[queue[index]]]
  IN
  CASE decision = "complete"  -> Returned(Complete) /\ UNCHANGED <<queue, index, replans>>
    [] decision = "interrupt" -> Returned(Interrupted) /\ UNCHANGED <<queue, index, replans>>
    [] decision = "continue"  ->
         /\ pc' = "looking" /\ index' = Passed
         /\ UNCHANGED <<queue, answer, replans>>
    [] decision = "retry"     ->
         /\ IF RetryRefused(output, tried)
            THEN Returned(Failed)
            ELSE pc' = "looking" /\ UNCHANGED answer
         /\ UNCHANGED <<queue, index, replans>>
    [] decision = "replan"    ->
         /\ replans < MaxReplans
         /\ \E workers \in Replan : queue' = Replanned(workers)
         /\ pc' = "looking" /\ index' = Passed
         /\ replans' = replans + 1
         /\ UNCHANGED answer

Judge(decision) ==
  /\ pc = "judging"
  /\ Complies(decision)
  /\ UNCHANGED <<attempts, outputs, signals>>

\* A Worker or the evaluator raised: so does execute.
Raises ==
  /\ pc \in {"working", "judging"}
  /\ pc' = "raised"
  /\ UNCHANGED <<queue, index, attempts, outputs, signals, answer, replans>>

Step ==
  \/ Look
  \/ \E output \in Output : WorkerReturns(output)
  \/ \E decision \in Decision : Judge(decision)
  \/ Raises

Next == Step \/ \E control \in Control : Signal(control)

Spec == Init /\ [][Next]_vars

\* The thread runs, Workers and evaluators return.
FairSpec == Spec /\ WF_vars(Step)

-----------------------------------------------------------------------------
(* Invariants.                                                             *)

\* Neither a success nor a failure of the Worker's own.
Decisive(output) ==
  output.outcome \notin {"succeeded", "failed"} \/ output.interrupted

\* A result that ends the execution by itself is the last one: no Worker is
\* started and no evaluator asked after it, at any place of the queue.
EndsAtOnce ==
  \A i \in DOMAIN outputs :
    Decisive(outputs[i].output) => i = Len(outputs) /\ pc = "returned"

Returns(place) == {i \in DOMAIN outputs : outputs[i].place = place}

Executions(place) ==
  Cardinality(Returns(place)) + IF pc = "working" /\ index = place THEN 1 ELSE 0

\* No place of the queue is executed more than once and max_retries times more,
\* over replans, and also when Workers share a worker_id.
RetriesBounded ==
  \A place \in 1 .. index : Executions(place) <= MaxRetries + 1

\* A failure that is not retryable is never followed by another execution of
\* the same place.
OnlyRetryableRetried ==
  \A i \in DOMAIN outputs :
    Failing(outputs[i].output.outcome) /\ ~outputs[i].output.retryable =>
      /\ \A j \in Returns(outputs[i].place) : j <= i
      /\ ~(pc = "working" /\ index = outputs[i].place)

\* After cancellation or the deadline no Worker is started: the one that was
\* working is the last, and whatever it returned, the answer is the control.
StopsPromptly ==
  \A i \in DOMAIN outputs :
    outputs[i].late =>
      i = Len(outputs) /\ pc = "returned" /\ answer = Stopped(Head(signals))

\* The places of a queue that a Worker has.
Places(workers, worker) == {i \in DOMAIN workers : workers[i] = worker}

\* Replanning loses nobody: when the queue has ended, every place of it has
\* been executed, and the Workers of the plan are among them as often as the
\* plan names them.
PlanIsKept ==
  pc = "returned" /\ index > Len(queue) =>
    /\ \A place \in 1 .. Len(queue) : Returns(place) # {}
    /\ \A worker \in Worker :
         Cardinality(Places(Plan, worker)) <= Cardinality(Places(queue, worker))

\* The answer says what ended the execution, unless a control did.
AnswerSaysWhy ==
  pc = "returned" /\ outputs # <<>> /\ signals = <<>> =>
    LET last == outputs[Len(outputs)].output IN
    Decisive(last) => answer.outcome = last.outcome

\* A result that decides the execution ends it, and is what is answered.
DecisiveResultsStand == EndsAtOnce /\ AnswerSaysWhy

\* An unrecovered failure is not reported as a success, unless the evaluator
\* said so: the Workers that were left out show that it did.
FailureIsNotMasked ==
  pc = "returned" /\ answer.outcome = "succeeded" /\ index > Len(queue)
    => outputs = <<>> \/ outputs[Len(outputs)].output.outcome = "succeeded"

-----------------------------------------------------------------------------
(* Liveness.                                                               *)

\* As long as the evaluator does not replan for ever, the execution ends.
Terminates == <>(pc \in {"returned", "raised"})
=============================================================================
