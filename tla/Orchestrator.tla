---------------------------- MODULE Orchestrator ----------------------------
(***************************************************************************)
(* The orchestration service of loom_ai/orchestrator.py with a durable     *)
(* store: submissions, continuations, cooperative cancellation, absolute   *)
(* deadlines and evaluations of executions.                                *)
(*                                                                         *)
(* A handler holds the lock except while the arbiter executes, so an       *)
(* execution phase is two actions: its start (Submit, Continue) and its    *)
(* end (Return, Raise), with any handler in between.  Saves may raise,     *)
(* with the new snapshot stored or not: the file system failed, or a       *)
(* result has no JSON form.  Observing changes nothing and has no action.  *)
(***************************************************************************)
EXTENDS Integers, Sequences, FiniteSets

CONSTANTS
  Execution,     \* execution identities
  Deadline,      \* the deadlines a submission may carry
  Result,        \* what the arbiter may return
  SaveMayFail,   \* may ExecutionStateStore.create, load or save raise?
  MaxTime,       \* bound on the clock
  MaxRuns,       \* bound on the phases one process starts
  MaxCrashes,    \* bound on restarts of the process
  MaxLateCancels,\* bound on cancellations after the deadline of one execution
  MaxEvaluations,\* bound on the evaluations of one execution
  NoDeadline, NoToken, NoTime, NoCancellation, NoResult

Lifecycle == {"absent", "running", "interrupted", "completed"}
Status    == {"absent", "running", "success", "failed", "cancelled"}
Phase     == {"initial", "continued"}

\* metadata.termination_cause
Cause     == {"none", "interrupted", "deadline_exceeded"}

\* A WorkerResult: pending stands for metadata.continuation_pending.
WorkerResult ==
  [status : {"success", "failed", "cancelled"}, cause : Cause,
   pending : BOOLEAN]

ASSUME ConstantsAssumption ==
  /\ Deadline \subseteq Nat \cup {NoDeadline}
  /\ Result \subseteq WorkerResult
  /\ SaveMayFail \in BOOLEAN
  /\ MaxTime \in Nat /\ MaxRuns \in Nat /\ MaxCrashes \in Nat
  /\ MaxLateCancels \in Nat /\ MaxEvaluations \in Nat
  /\ NoTime \notin Nat /\ NoToken \notin Nat /\ NoDeadline \notin Nat

Cancellation == [requested_at : Nat, pending : BOOLEAN]

ASSUME NoCancellationAssumption == NoCancellation \notin Cancellation

\* What an evaluation refers to: the result of one phase.
Reference == [phase : Phase, result : WorkerResult]

Evidence == {"execution-phase", "cancellation-requested",
             "cancellation-confirmed", "deadline-exceeded"}

ExecutionState ==
  [lifecycle : Lifecycle, status : Status, phase : Phase,
   deadline : Nat \cup {NoDeadline},
   cancellation : Cancellation \cup {NoCancellation},
   cause : Cause, result : WorkerResult \cup {NoResult},
   evidence : Seq(Evidence), evaluations : Seq(Reference)]

\* A phase the arbiter is executing: prior is the snapshot it started from.
Run == [execution : Execution, token : Nat, phase : Phase,
        deadline : Nat \cup {NoDeadline}, prior : ExecutionState]

VARIABLES
  now,      \* what datetime.now returns
  crashes,  \* how often the process has been restarted
  stored,   \* the execution state store
  tokens,   \* per CancellationToken of this process: when it was cancelled
  active,   \* self._active: the token of each execution, by index in tokens
  runs,     \* phases the arbiter is executing
  accepted, \* executions a caller was told cancellation is accepted for
  asked     \* the deadline each execution was submitted with

vars == <<now, crashes, stored, tokens, active, runs, accepted, asked>>

TypeOK ==
  /\ now \in Nat
  /\ crashes \in Nat
  /\ stored \in [Execution -> ExecutionState]
  /\ tokens \in Seq(Nat \cup {NoTime})
  /\ active \in [Execution -> Nat \cup {NoToken}]
  /\ runs \subseteq Run
  /\ accepted \subseteq Execution
  /\ asked \in [Execution -> Nat \cup {NoDeadline}]

Absent ==
  [lifecycle |-> "absent", status |-> "absent", phase |-> "initial",
   deadline |-> NoDeadline, cancellation |-> NoCancellation, cause |-> "none",
   result |-> NoResult, evidence |-> <<>>, evaluations |-> <<>>]

Init ==
  /\ now = 0
  /\ crashes = 0
  /\ stored = [e \in Execution |-> Absent]
  /\ tokens = <<>>
  /\ active = [e \in Execution |-> NoToken]
  /\ runs = {}
  /\ accepted = {}
  /\ asked = [e \in Execution |-> NoDeadline]

-----------------------------------------------------------------------------
(* The store.                                                              *)

Saved(e, x) == stored' = [stored EXCEPT ![e] = x]

\* create or save raised, or something before it: x may be stored or not.
SaveRaised(e, x) ==
  /\ SaveMayFail
  /\ stored' \in {stored, [stored EXCEPT ![e] = x]}

-----------------------------------------------------------------------------
(* Deadlines, cancellation tokens and results.                             *)

Expired(deadline, at) == deadline # NoDeadline /\ at >= deadline

\* Slip: the deadline is not looked at again when the arbiter is back.
ControlCauseSlip(requested_at, deadline) ==
  IF requested_at # NoTime THEN "cancelled" ELSE "none"

\* Which of two controls came first; requested_at is a token's.
ControlCause(requested_at, deadline) ==
  IF Expired(deadline, now) /\ (requested_at = NoTime \/ Expired(deadline, requested_at))
  THEN "deadline_exceeded"
  ELSE IF requested_at # NoTime THEN "cancelled" ELSE "none"

DeadlineResult ==
  [status |-> "failed", cause |-> "deadline_exceeded", pending |-> FALSE]

ExceptionResult == [status |-> "failed", cause |-> "none", pending |-> FALSE]

\* _cancelled_result keeps the metadata of the result it replaces.
CancelledResult(result) == [result EXCEPT !.status = "cancelled"]

\* Slip: a result that is not a failure stands.
ControlledSlip(result, control) ==
  CASE control = "cancelled" /\ result.status = "failed" -> CancelledResult(result)
    [] control = "deadline_exceeded" -> DeadlineResult
    [] OTHER -> result

\* What becomes of a result under the control that came first.
Controlled(result, control) ==
  CASE control = "cancelled" -> CancelledResult(result)
    [] control = "deadline_exceeded" -> DeadlineResult
    [] OTHER -> result

\* Slip: the cancellation metadata of the state before is not merged.
StateFromResultSlip(prior, phase, deadline, result, requested_at) ==
  [lifecycle |-> IF result.pending THEN "interrupted" ELSE "completed",
   status |-> result.status, phase |-> phase,
   deadline |-> IF deadline # NoDeadline THEN deadline ELSE prior.deadline,
   cancellation |-> NoCancellation,
   cause |-> IF result.cause # "none" THEN result.cause ELSE prior.cause,
   result |-> result,
   evidence |-> prior.evidence \o <<"execution-phase">>,
   evaluations |-> prior.evaluations]

\* _state_from_result; requested_at is the time in the cancellation it is
\* given, or NoTime when it is given none.
StateFromResult(prior, phase, deadline, result, requested_at) ==
  LET confirmed == requested_at # NoTime /\ result.status = "cancelled" IN
  [lifecycle |-> IF result.pending THEN "interrupted" ELSE "completed",
   status |-> result.status, phase |-> phase,
   deadline |-> IF deadline # NoDeadline THEN deadline ELSE prior.deadline,
   cancellation |->
     IF requested_at = NoTime THEN prior.cancellation
     ELSE [requested_at |-> requested_at, pending |-> ~confirmed],
   cause |-> IF result.cause # "none" THEN result.cause ELSE prior.cause,
   result |-> result,
   evidence |-> prior.evidence \o <<"execution-phase">>
                  \o (IF confirmed THEN <<"cancellation-confirmed">> ELSE <<>>),
   evaluations |-> prior.evaluations]

\* CancellationToken.cancel: only the first request counts.
TokenCancelled(token, at) ==
  tokens' = [tokens EXCEPT ![token] = IF @ = NoTime THEN at ELSE @]

-----------------------------------------------------------------------------
(* Starting a phase.                                                       *)

Started(e, phase, deadline, prior) ==
  /\ tokens' = Append(tokens, NoTime)
  /\ active' = [active EXCEPT ![e] = Len(tokens) + 1]
  /\ runs' = runs \cup {[execution |-> e, token |-> Len(tokens) + 1,
                         phase |-> phase, deadline |-> deadline,
                         prior |-> prior]}

NotStarted == UNCHANGED <<tokens, active, runs>>

Submit(e, deadline) ==
  LET ended   == StateFromResult(Absent, "initial", deadline, DeadlineResult, NoTime)
      running == [Absent EXCEPT !.lifecycle = "running", !.status = "running",
                                !.deadline = deadline]
  IN
  /\ stored[e].lifecycle = "absent"
  /\ IF Expired(deadline, now)
     THEN (Saved(e, ended) \/ SaveRaised(e, ended)) /\ NotStarted
     ELSE /\ Len(tokens) < MaxRuns
          /\ \/ Saved(e, running) /\ Started(e, "initial", deadline, Absent)
             \/ SaveRaised(e, running) /\ NotStarted
  /\ asked' = [asked EXCEPT ![e] = deadline]
  /\ UNCHANGED <<now, crashes, accepted>>

\* Slip: a recorded cancellation does not stop a continuation.
ContinueSlip(e) ==
  LET x       == stored[e]
      running == [x EXCEPT !.lifecycle = "running", !.status = "running",
                           !.phase = "continued"]
  IN
  /\ x.lifecycle = "interrupted"
  /\ ~Expired(x.deadline, now)
  /\ Len(tokens) < MaxRuns
  /\ Saved(e, running) /\ Started(e, "continued", x.deadline, x)
  /\ UNCHANGED <<now, crashes, accepted, asked>>

\* Slip: the continued execution still says interrupted.
ContinueInterrupted(e) ==
  LET x == stored[e] IN
  /\ x.lifecycle = "interrupted"
  /\ x.cancellation = NoCancellation /\ ~Expired(x.deadline, now)
  /\ Len(tokens) < MaxRuns
  /\ Saved(e, [x EXCEPT !.phase = "continued"])
  /\ Started(e, "continued", x.deadline, x)
  /\ UNCHANGED <<now, crashes, accepted, asked>>

\* continue_execution, up to the arbiter.
Continue(e) ==
  LET x         == stored[e]
      cancelled == x.cancellation # NoCancellation
      ended     ==
        IF cancelled
        THEN StateFromResult(x, "continued", x.deadline,
               CancelledResult(ExceptionResult), x.cancellation.requested_at)
        ELSE StateFromResult(x, "continued", x.deadline, DeadlineResult, NoTime)
      running   == [x EXCEPT !.lifecycle = "running", !.status = "running",
                             !.phase = "continued"]
  IN
  /\ x.lifecycle = "interrupted"
  /\ IF cancelled \/ Expired(x.deadline, now)
     THEN (Saved(e, ended) \/ SaveRaised(e, ended)) /\ NotStarted
     ELSE /\ Len(tokens) < MaxRuns
          /\ \/ Saved(e, running) /\ Started(e, "continued", x.deadline, x)
             \/ SaveRaised(e, running) /\ NotStarted
  /\ UNCHANGED <<now, crashes, accepted, asked>>

-----------------------------------------------------------------------------
(* Ending a phase.                                                         *)

\* Slip: a run ends the execution it started from, not the stored one.
ConcludeSlip(run, result, prior) ==
  /\ Saved(run.execution, StateFromResult(run.prior, run.phase, run.deadline, result,
                            tokens[run.token]))
  /\ active' = [active EXCEPT ![run.execution] = NoToken]
  /\ runs' = runs \ {run}
  /\ UNCHANGED <<now, crashes, tokens, accepted, asked>>

\* Slip: a cancelled phase, its request being on record, is not saved.
ConcludeUnsaved(run, result, prior) ==
  LET e    == run.execution
      next == StateFromResult(prior, run.phase, run.deadline, result, NoTime)
  IN
  /\ IF tokens[run.token] # NoTime THEN UNCHANGED stored ELSE Saved(e, next)
  /\ active' = [active EXCEPT ![e] = NoToken]
  /\ runs' = runs \ {run}
  /\ UNCHANGED <<now, crashes, tokens, accepted, asked>>

\* The snapshot with the result is saved and the token forgotten; a save that
\* raises leaves the token behind, and the arbiter's work has ended anyway.
Conclude(run, result, prior) ==
  LET e       == run.execution
      control == ControlCause(tokens[run.token], run.deadline)
      next    == StateFromResult(prior, run.phase, run.deadline, result,
                   IF control = "cancelled" THEN tokens[run.token] ELSE NoTime)
  IN
  /\ \/ Saved(e, next) /\ active' = [active EXCEPT ![e] = NoToken]
     \/ SaveRaised(e, next) /\ UNCHANGED active
  /\ runs' = runs \ {run}
  /\ UNCHANGED <<now, crashes, tokens, accepted, asked>>

\* The arbiter returned result.
Return(run, result) ==
  Conclude(run,
    Controlled(result, ControlCause(tokens[run.token], run.deadline)),
    stored[run.execution])

\* The arbiter raised.  Without a control the snapshot the phase started from
\* is extended, not the stored one.
Raise(run) ==
  LET control == ControlCause(tokens[run.token], run.deadline) IN
  Conclude(run, Controlled(ExceptionResult, control),
    IF control = "none" THEN run.prior ELSE stored[run.execution])

-----------------------------------------------------------------------------
(* Cancellation.                                                           *)

\* A request recorded before the deadline is not overtaken by it.
DeadlineWins(x) ==
  /\ Expired(x.deadline, now)
  /\ x.cancellation # NoCancellation => Expired(x.deadline, x.cancellation.requested_at)

LateCancels(x) ==
  Cardinality({i \in DOMAIN x.evidence : x.evidence[i] = "deadline-exceeded"})

\* The deadline was first: the work is told to stop, or declared over.
CancelTooLate(e) ==
  LET x     == stored[e]
      told  == [x EXCEPT !.cause = "deadline_exceeded",
                         !.evidence = Append(@, "deadline-exceeded")]
      ended == StateFromResult(x, x.phase, x.deadline, DeadlineResult, NoTime)
  IN
  /\ DeadlineWins(x)
  /\ \/ /\ active[e] # NoToken
        /\ LateCancels(x) < MaxLateCancels
        /\ TokenCancelled(active[e], now)
        /\ Saved(e, told) \/ SaveRaised(e, told)
     \/ /\ active[e] = NoToken
        /\ Saved(e, ended) \/ SaveRaised(e, ended)
        /\ UNCHANGED tokens
  /\ UNCHANGED <<now, accepted>>

CancelConfirmed(x, requested_at, evidence) ==
  [x EXCEPT !.lifecycle = "completed", !.status = "cancelled",
            !.cancellation = [requested_at |-> requested_at, pending |-> FALSE],
            !.evidence = @ \o evidence]

\* A repeated request: confirmed once no token is left.
CancelAgain(e) ==
  LET x         == stored[e]
      confirmed == CancelConfirmed(x, x.cancellation.requested_at,
                                   <<"cancellation-confirmed">>)
  IN
  /\ ~DeadlineWins(x)
  /\ x.cancellation # NoCancellation
  /\ \/ /\ active[e] # NoToken
        /\ TokenCancelled(active[e], now)
        /\ UNCHANGED stored
     \/ /\ active[e] = NoToken
        /\ Saved(e, confirmed) \/ SaveRaised(e, confirmed)
        /\ UNCHANGED tokens
  /\ UNCHANGED <<now, accepted>>

\* The first request.  The handler reads the clock for the deadline, for the
\* request and, in the token, once more, and the clock may move in between.
CancelFirst(e) ==
  LET x == stored[e] IN
  /\ ~DeadlineWins(x)
  /\ x.cancellation = NoCancellation
  /\ now' \in {now, now + 1} /\ now' <= MaxTime
  /\ \E at \in now .. now' :
       LET pending   == [x EXCEPT
                           !.cancellation = [requested_at |-> at, pending |-> TRUE],
                           !.evidence = Append(@, "cancellation-requested")]
           confirmed == CancelConfirmed(x, at, <<"cancellation-requested",
                                                 "cancellation-confirmed">>)
           next      == IF active[e] # NoToken THEN pending ELSE confirmed
       IN
       /\ \/ Saved(e, next) /\ accepted' = accepted \cup {e}
          \/ SaveRaised(e, next) /\ UNCHANGED accepted
       /\ IF active[e] # NoToken
          THEN TokenCancelled(active[e], now')
          ELSE UNCHANGED tokens

\* Slip: an execution that is over can be cancelled.
CancelSlip(e) ==
  /\ stored[e].lifecycle # "absent"
  /\ CancelTooLate(e) \/ CancelAgain(e) \/ CancelFirst(e)
  /\ UNCHANGED <<crashes, active, runs, asked>>

Cancel(e) ==
  /\ stored[e].lifecycle \in {"running", "interrupted"}
  /\ CancelTooLate(e) \/ CancelAgain(e) \/ CancelFirst(e)
  /\ UNCHANGED <<crashes, active, runs, asked>>

-----------------------------------------------------------------------------
(* Evaluations, the process and its clock.                                 *)

\* execution_result_reference
ResultReference(x) == [phase |-> x.phase, result |-> x.result]

\* Slip: an interrupted execution may be evaluated.
RecordEvaluationSlip(e) ==
  LET x == stored[e] IN
  /\ x.result # NoResult
  /\ Len(x.evaluations) < MaxEvaluations
  /\ Saved(e, [x EXCEPT !.evaluations = Append(@, ResultReference(x))])
  /\ UNCHANGED <<now, crashes, tokens, active, runs, accepted, asked>>

\* Slip: an execution without a result is evaluated.
RecordEvaluationUnchecked(e) ==
  LET x == stored[e] IN
  /\ x.lifecycle = "completed"
  /\ Len(x.evaluations) < MaxEvaluations
  /\ Saved(e, [x EXCEPT !.evaluations = Append(@, ResultReference(x))])
  /\ UNCHANGED <<now, crashes, tokens, active, runs, accepted, asked>>

RecordEvaluation(e) ==
  LET x == stored[e]
      evaluated == [x EXCEPT !.evaluations = Append(@, ResultReference(x))]
  IN
  /\ x.lifecycle = "completed"
  /\ x.result # NoResult
  /\ Len(x.evaluations) < MaxEvaluations
  /\ Saved(e, evaluated) \/ SaveRaised(e, evaluated)
  /\ UNCHANGED <<now, crashes, tokens, active, runs, accepted, asked>>

\* The process dies with its runs and tokens, and another one takes its place.
Crash ==
  /\ crashes < MaxCrashes
  /\ crashes' = crashes + 1
  /\ tokens' = <<>>
  /\ active' = [e \in Execution |-> NoToken]
  /\ runs' = {}
  /\ UNCHANGED <<now, stored, accepted, asked>>

Tick ==
  /\ now < MaxTime
  /\ now' = now + 1
  /\ UNCHANGED <<crashes, stored, tokens, active, runs, accepted, asked>>

-----------------------------------------------------------------------------
Next ==
  \/ \E e \in Execution, d \in Deadline : Submit(e, d)
  \/ \E e \in Execution : Continue(e)
  \/ \E run \in runs, result \in Result : Return(run, result)
  \/ \E run \in runs : Raise(run)
  \/ \E e \in Execution : Cancel(e)
  \/ \E e \in Execution : RecordEvaluation(e)
  \/ Crash
  \/ Tick

Spec == Init /\ [][Next]_vars

\* Workers and evaluators return: an execution phase does not run for ever.
Ends(e) ==
  \E run \in runs :
    /\ run.execution = e
    /\ Raise(run) \/ \E result \in Result : Return(run, result)

FairSpec == Spec /\ \A e \in Execution : WF_vars(Ends(e))

-----------------------------------------------------------------------------
(* Invariants.                                                             *)

\* An execution has at most one phase under way: it is recorded as running,
\* and the token a canceller would reach is the one the phase looks at.
RunsAreOwned ==
  /\ \A run \in runs :
       /\ stored[run.execution].lifecycle = "running"
       /\ active[run.execution] = run.token
       /\ run.deadline = stored[run.execution].deadline
  /\ \A r, s \in runs : r.execution = s.execution => r = s

\* A cancellation a caller was told is accepted is never lost: when the
\* execution is over it was cancelled, or its deadline had come first; over
\* phases, failed saves and restarts.
AcceptedIsHonoured ==
  \A e \in accepted :
    stored[e].lifecycle = "completed" =>
      stored[e].status = "cancelled" \/ stored[e].cause = "deadline_exceeded"

\* An evaluation refers to the result the execution has, also after later
\* phases: nothing is evaluated that can still be replaced.
EvaluationsFitResult ==
  \A e \in Execution : \A i \in DOMAIN stored[e].evaluations :
    stored[e].evaluations[i] = ResultReference(stored[e])

\* The inductive invariant behind these.
TokensExist ==
  /\ \A e \in Execution : active[e] # NoToken => active[e] \in DOMAIN tokens
  /\ \A run \in runs : run.token \in DOMAIN tokens

\* A request on record has reached the token, so the phase will look at it.
RequestsReachRuns ==
  \A run \in runs :
    stored[run.execution].cancellation # NoCancellation =>
      tokens[run.token] # NoTime

NotEvaluatedBefore ==
  \A e \in Execution :
    stored[e].evaluations # <<>> => stored[e].lifecycle = "completed"

AcceptedIsRecorded ==
  \A e \in accepted : stored[e].cancellation # NoCancellation

DeadlinesKept ==
  \A e \in Execution :
    stored[e].lifecycle # "absent" => stored[e].deadline = asked[e]

\* Nobody is told anything of an execution that does not exist.
AbsentIsEmpty ==
  \A e \in Execution : stored[e].lifecycle = "absent" => stored[e] = Absent

\* Everything recorded when a phase began is still on record.
Extends(x, y) ==
  \A i \in DOMAIN x.evidence :
    i \in DOMAIN y.evidence /\ y.evidence[i] = x.evidence[i]

PriorIsPast ==
  \A run \in runs :
    LET x == stored[run.execution] IN
    /\ Extends(run.prior, x)
    /\ run.prior.evaluations = <<>>
    /\ run.prior.cancellation = NoCancellation
    /\ run.prior.deadline \in {NoDeadline, x.deadline}
    /\ tokens[run.token] = NoTime => run.prior.evidence = x.evidence

IInv ==
  /\ TypeOK
  /\ RunsAreOwned
  /\ TokensExist
  /\ RequestsReachRuns
  /\ AcceptedIsRecorded
  /\ AcceptedIsHonoured
  /\ NotEvaluatedBefore
  /\ EvaluationsFitResult
  /\ DeadlinesKept
  /\ AbsentIsEmpty
  /\ PriorIsPast

-----------------------------------------------------------------------------
(* Action properties.                                                      *)

\* The last word: a completed execution is never run, cancelled, interrupted
\* or failed again; only evaluations are added to it.
TerminalIsFinal ==
  [][\A e \in Execution :
       stored[e].lifecycle = "completed" =>
         stored'[e] = [stored[e] EXCEPT !.evaluations = stored'[e].evaluations]]_vars

\* No step replaces evidence of an earlier phase or of a cancellation, not
\* even the end of a phase that works from the snapshot it started from.
EvidenceOnlyGrows ==
  [][\A e \in Execution : Extends(stored[e], stored'[e])]_vars

\* The deadline of the submission binds every phase: nothing is recorded as
\* finished successfully after it, continuations included.
DeadlineBinds ==
  [][\A e \in Execution :
       /\ stored'[e].lifecycle = "completed" /\ stored'[e].status = "success"
       /\ stored[e].lifecycle # "completed"
       => ~Expired(asked'[e], now)]_vars

-----------------------------------------------------------------------------
(* Liveness.                                                               *)

\* Cooperative cancellation: once accepted, the execution stops running.
CancellationStopsWork ==
  \A e \in Execution :
    e \in accepted ~> stored[e].lifecycle \in {"interrupted", "completed"}

-----------------------------------------------------------------------------
(* What the code's text promises, and the model does not keep.             *)

\* Cancellation is persisted "as distinct terminal status" (a test's name):
\* once confirmed, the execution is terminal.
ConfirmedCancellationIsTerminal ==
  \A e \in Execution :
    stored[e].cancellation # NoCancellation /\ ~stored[e].cancellation.pending
      => stored[e].lifecycle = "completed"

\* "Resolve concurrent controls by the first recorded termination instant"
\* (_control_cause): a cancellation recorded before the deadline is not
\* reported as a deadline failure.
FirstRecordedControlWins ==
  \A e \in Execution :
    LET x == stored[e] IN
    x.lifecycle = "completed" /\ x.status = "failed"
      /\ x.cause = "deadline_exceeded" /\ x.cancellation # NoCancellation
      => Expired(x.deadline, x.cancellation.requested_at)

=============================================================================
