-------------------------- MODULE OrchestratorProofs -------------------------
(***************************************************************************)
(* Proofs about the orchestrator: its inductive invariant, and the safety  *)
(* and action properties that follow from it.                              *)
(***************************************************************************)
EXTENDS Orchestrator, TLAPS

-----------------------------------------------------------------------------
(* Types of the parts.                                                     *)

LEMMA AbsentTyped == Absent \in ExecutionState
BY DEF Absent, ExecutionState, Lifecycle, Status, Phase, Cause

LEMMA ResultsTyped ==
  /\ DeadlineResult \in WorkerResult
  /\ ExceptionResult \in WorkerResult
  /\ \A r \in WorkerResult : CancelledResult(r) \in WorkerResult
  /\ \A r \in WorkerResult, c \in {"none", "cancelled", "deadline_exceeded"} :
       Controlled(r, c) \in WorkerResult
BY DEF DeadlineResult, ExceptionResult, CancelledResult, Controlled,
       WorkerResult, Cause

\* The control that came first, by whether the token was cancelled.
LEMMA ControlCases ==
  ASSUME NEW requested_at, NEW deadline
  PROVE  LET c == ControlCause(requested_at, deadline) IN
         /\ c \in {"none", "cancelled", "deadline_exceeded"}
         /\ requested_at = NoTime => c # "cancelled"
         /\ requested_at # NoTime => c # "none"
         /\ c = "deadline_exceeded" <=>
              /\ Expired(deadline, now)
              /\ requested_at = NoTime \/ Expired(deadline, requested_at)
BY DEF ControlCause

LEMMA TailsTyped ==
  /\ <<"execution-phase">> \in Seq(Evidence)
  /\ <<"cancellation-confirmed">> \in Seq(Evidence)
  /\ <<"cancellation-requested", "cancellation-confirmed">> \in Seq(Evidence)
  /\ <<>> \in Seq(Evidence)
<1>1. /\ "execution-phase" \in Evidence /\ "cancellation-confirmed" \in Evidence
      /\ "cancellation-requested" \in Evidence
  BY DEF Evidence
<1> QED BY <1>1

LEMMA StateTyped ==
  ASSUME NEW prior \in ExecutionState, NEW phase \in Phase,
         NEW deadline \in Nat \cup {NoDeadline},
         NEW result \in WorkerResult, NEW at \in Nat \cup {NoTime}
  PROVE  StateFromResult(prior, phase, deadline, result, at) \in ExecutionState
<1> DEFINE x == StateFromResult(prior, phase, deadline, result, at)
           tail == IF at # NoTime /\ result.status = "cancelled"
                   THEN <<"cancellation-confirmed">> ELSE <<>>
<1>1. /\ prior.evidence \in Seq(Evidence) /\ prior.evaluations \in Seq(Reference)
      /\ prior.deadline \in Nat \cup {NoDeadline}
      /\ prior.cancellation \in Cancellation \cup {NoCancellation}
      /\ prior.cause \in Cause
  BY DEF ExecutionState
<1>2. prior.evidence \o <<"execution-phase">> \o tail \in Seq(Evidence)
  <2>1. <<"execution-phase">> \in Seq(Evidence) /\ tail \in Seq(Evidence)
    BY TailsTyped
  <2>2. prior.evidence \o <<"execution-phase">> \in Seq(Evidence)
    BY <1>1, <2>1
  <2> QED BY <2>1, <2>2
<1>3. result.status \in Status /\ result.cause \in Cause
  BY DEF WorkerResult, Status
<1>4. at # NoTime =>
        \A b \in BOOLEAN : [requested_at |-> at, pending |-> b] \in Cancellation
  BY DEF Cancellation
<1> QED
  BY <1>1, <1>2, <1>3, <1>4 DEF StateFromResult, ExecutionState, Lifecycle

\* What _state_from_result keeps of the snapshot it starts from.
LEMMA StateExtends ==
  ASSUME NEW prior \in ExecutionState, NEW phase, NEW deadline,
         NEW result \in WorkerResult, NEW at
  PROVE  Extends(prior, StateFromResult(prior, phase, deadline, result, at))
<1> DEFINE head == prior.evidence \o <<"execution-phase">>
           tail == IF at # NoTime /\ result.status = "cancelled"
                   THEN <<"cancellation-confirmed">> ELSE <<>>
<1>1. prior.evidence \in Seq(Evidence)
  BY DEF ExecutionState
<1>2. <<"execution-phase">> \in Seq(Evidence) /\ tail \in Seq(Evidence)
  BY TailsTyped
<1>3. head \in Seq(Evidence)
  BY <1>1, <1>2
<1>4. \A i \in DOMAIN prior.evidence :
        i \in DOMAIN head /\ head[i] = prior.evidence[i]
  BY <1>1, <1>2
<1>5. \A i \in DOMAIN head : i \in DOMAIN (head \o tail) /\ (head \o tail)[i] = head[i]
  <2> HIDE DEF head, tail
  <2> QED BY <1>2, <1>3
<1> QED
  BY <1>4, <1>5 DEF StateFromResult, Extends

LEMMA AppendExtends ==
  ASSUME NEW x \in ExecutionState, NEW tag \in Evidence
  PROVE  /\ Append(x.evidence, tag) \in Seq(Evidence)
         /\ \A i \in DOMAIN x.evidence :
              /\ i \in DOMAIN Append(x.evidence, tag)
              /\ Append(x.evidence, tag)[i] = x.evidence[i]
BY DEF ExecutionState

LEMMA ConfirmedExtends ==
  ASSUME NEW x \in ExecutionState, NEW at \in Nat, NEW tail \in Seq(Evidence)
  PROVE  /\ CancelConfirmed(x, at, tail) \in ExecutionState
         /\ Extends(x, CancelConfirmed(x, at, tail))
<1>1. x.evidence \in Seq(Evidence)
  BY DEF ExecutionState
<1>2. /\ x.evidence \o tail \in Seq(Evidence)
      /\ \A i \in DOMAIN x.evidence :
           i \in DOMAIN (x.evidence \o tail) /\ (x.evidence \o tail)[i] = x.evidence[i]
  BY <1>1
<1>3. [requested_at |-> at, pending |-> FALSE] \in Cancellation
  BY DEF Cancellation
<1>4. CancelConfirmed(x, at, tail) =
        [x EXCEPT !.lifecycle = "completed", !.status = "cancelled",
                  !.cancellation = [requested_at |-> at, pending |-> FALSE],
                  !.evidence = x.evidence \o tail]
  BY DEF CancelConfirmed, ExecutionState
<1> QED
  BY <1>2, <1>3, <1>4 DEF ExecutionState, Extends, Lifecycle, Status

-----------------------------------------------------------------------------
(* The invariant, execution by execution and run by run.                   *)

\* What the invariant says of the record x of execution e, when A are the
\* accepted executions and e was submitted with the deadline d.
GoodExecution(e, x, A, d) ==
  /\ x \in ExecutionState
  /\ e \in A => x.cancellation # NoCancellation
  /\ e \in A /\ x.lifecycle = "completed" =>
       x.status = "cancelled" \/ x.cause = "deadline_exceeded"
  /\ x.evaluations # <<>> => x.lifecycle = "completed"
  /\ \A i \in DOMAIN x.evaluations : x.evaluations[i] = ResultReference(x)
  /\ x.lifecycle # "absent" => x.deadline = d
  /\ x.lifecycle = "absent" => x = Absent

\* What it says of a run of an execution with record x and active token k,
\* when T are the tokens.
GoodRun(run, x, k, T) ==
  /\ run \in Run
  /\ x.lifecycle = "running"
  /\ k = run.token
  /\ run.deadline = x.deadline
  /\ run.token \in DOMAIN T
  /\ x.cancellation # NoCancellation => T[run.token] # NoTime
  /\ Extends(run.prior, x)
  /\ run.prior.evaluations = <<>>
  /\ run.prior.cancellation = NoCancellation
  /\ run.prior.deadline \in {NoDeadline, x.deadline}
  /\ T[run.token] = NoTime => run.prior.evidence = x.evidence

GoodExecutions ==
  \A e \in Execution : GoodExecution(e, stored[e], accepted, asked[e])

GoodRuns ==
  /\ \A run \in runs :
       GoodRun(run, stored[run.execution], active[run.execution], tokens)
  /\ \A r, s \in runs : r.execution = s.execution => r = s

GoodTokens ==
  /\ tokens \in Seq(Nat \cup {NoTime})
  /\ active \in [Execution -> Nat \cup {NoToken}]
  /\ \A e \in Execution : active[e] # NoToken => active[e] \in DOMAIN tokens

GoodShape ==
  /\ now \in Nat /\ crashes \in Nat
  /\ stored \in [Execution -> ExecutionState]
  /\ accepted \subseteq Execution
  /\ asked \in [Execution -> Nat \cup {NoDeadline}]

LEMMA InvariantParts ==
  IInv <=> GoodShape /\ GoodTokens /\ GoodExecutions /\ GoodRuns
<1>1. IInv => GoodShape /\ GoodTokens
  BY DEF IInv, TypeOK, TokensExist, GoodShape, GoodTokens
<1>2. IInv => GoodExecutions
  <2> SUFFICES ASSUME IInv, NEW e \in Execution
               PROVE  GoodExecution(e, stored[e], accepted, asked[e])
    BY DEF GoodExecutions
  <2>1. /\ stored[e] \in ExecutionState
        /\ e \in accepted => stored[e].cancellation # NoCancellation
        /\ e \in accepted /\ stored[e].lifecycle = "completed" =>
             stored[e].status = "cancelled" \/ stored[e].cause = "deadline_exceeded"
    BY DEF IInv, TypeOK, AcceptedIsRecorded, AcceptedIsHonoured
  <2>2. /\ stored[e].evaluations # <<>> => stored[e].lifecycle = "completed"
        /\ \A i \in DOMAIN stored[e].evaluations :
             stored[e].evaluations[i] = ResultReference(stored[e])
    BY DEF IInv, NotEvaluatedBefore, EvaluationsFitResult
  <2>3. /\ stored[e].lifecycle # "absent" => stored[e].deadline = asked[e]
        /\ stored[e].lifecycle = "absent" => stored[e] = Absent
    BY DEF IInv, DeadlinesKept, AbsentIsEmpty
  <2> QED BY <2>1, <2>2, <2>3 DEF GoodExecution
<1>3. IInv => GoodRuns
  BY DEF IInv, TypeOK, RunsAreOwned, TokensExist, RequestsReachRuns, PriorIsPast,
         GoodRuns, GoodRun
<1>4. ASSUME GoodShape, GoodTokens, GoodExecutions, GoodRuns
      PROVE  IInv
  <2>1. TypeOK
    BY <1>4 DEF GoodShape, GoodTokens, GoodRuns, GoodRun, TypeOK
  <2>2. RunsAreOwned /\ TokensExist /\ RequestsReachRuns /\ PriorIsPast
    BY <1>4 DEF GoodTokens, GoodRuns, GoodRun,
                RunsAreOwned, TokensExist, RequestsReachRuns, PriorIsPast
  <2>3. AcceptedIsRecorded /\ AcceptedIsHonoured
    BY <1>4 DEF GoodShape, GoodExecutions, GoodExecution,
                AcceptedIsRecorded, AcceptedIsHonoured
  <2>4. NotEvaluatedBefore /\ EvaluationsFitResult
    BY <1>4 DEF GoodExecutions, GoodExecution,
                NotEvaluatedBefore, EvaluationsFitResult
  <2>5. DeadlinesKept /\ AbsentIsEmpty
    BY <1>4 DEF GoodExecutions, GoodExecution, DeadlinesKept, AbsentIsEmpty
  <2> QED BY <2>1, <2>2, <2>3, <2>4, <2>5 DEF IInv
<1> QED BY <1>1, <1>2, <1>3, <1>4

\* A step that changes the record of one execution only.
LEMMA OneRecordChanges ==
  ASSUME GoodShape, GoodExecutions, NEW e \in Execution, NEW x,
         stored' = stored \/ stored' = [stored EXCEPT ![e] = x],
         accepted' = accepted \/ accepted' = accepted \cup {e},
         asked' \in [Execution -> Nat \cup {NoDeadline}],
         \A f \in Execution \ {e} : asked'[f] = asked[f],
         GoodExecution(e, stored'[e], accepted', asked'[e]),
         now' \in Nat, crashes' \in Nat
  PROVE  GoodShape' /\ GoodExecutions'
<1>1. \A f \in Execution \ {e} : stored'[f] = stored[f] /\ (f \in accepted' <=> f \in accepted)
  BY DEF GoodShape
<1>2. \A f \in Execution : GoodExecution(f, stored'[f], accepted', asked'[f])
  BY <1>1 DEF GoodExecutions, GoodExecution
<1>3. \A f \in Execution : stored'[f] \in ExecutionState
  BY <1>2 DEF GoodExecution
<1>4. stored' \in [Execution -> ExecutionState]
  BY <1>3 DEF GoodShape
<1>5. accepted' \subseteq Execution
  BY DEF GoodShape
<1>6. GoodExecutions'
  BY <1>2 DEF GoodExecutions
<1> QED BY <1>4, <1>5, <1>6 DEF GoodShape

\* A run of an execution whose record and tokens stay as they are stays good.
LEMMA IdleRecordChanges ==
  ASSUME GoodShape, GoodTokens, GoodRuns, NEW e \in Execution, NEW x,
         stored' = stored \/ stored' = [stored EXCEPT ![e] = x],
         stored' = stored \/ \A run \in runs : run.execution # e,
         UNCHANGED <<tokens, active, runs>>
  PROVE  GoodTokens' /\ GoodRuns'
<1>1. GoodTokens'
  BY DEF GoodTokens
<1>2. \A run \in runs : stored'[run.execution] = stored[run.execution]
  BY DEF GoodShape, GoodRuns, GoodRun, Run
<1> QED BY <1>1, <1>2 DEF GoodRuns

LEMMA NoRunWithoutToken ==
  ASSUME GoodTokens, GoodRuns, NEW e \in Execution,
         active[e] = NoToken \/ stored[e].lifecycle # "running"
  PROVE  \A run \in runs : run.execution # e
BY ConstantsAssumption DEF GoodRuns, GoodRun, Run

-----------------------------------------------------------------------------
(* Starting a phase.                                                       *)

\* A phase may start on an execution that has none under way, from a snapshot
\* without evaluations or cancellation.
LEMMA StartedGood ==
  ASSUME GoodShape, GoodTokens, GoodRuns, NEW e \in Execution,
         NEW x \in ExecutionState, NEW prior \in ExecutionState,
         NEW phase \in Phase, NEW deadline \in Nat \cup {NoDeadline},
         \A run \in runs : run.execution # e,
         stored' = [stored EXCEPT ![e] = x],
         Started(e, phase, deadline, prior),
         x.lifecycle = "running", x.deadline = deadline,
         x.cancellation = NoCancellation, x.evidence = prior.evidence,
         prior.evaluations = <<>>, prior.cancellation = NoCancellation,
         prior.deadline \in {NoDeadline, deadline}
  PROVE  GoodTokens' /\ GoodRuns'
<1> DEFINE k == Len(tokens) + 1
           new == [execution |-> e, token |-> k, phase |-> phase,
                   deadline |-> deadline, prior |-> prior]
<1>1. /\ tokens' \in Seq(Nat \cup {NoTime})
      /\ DOMAIN tokens' = 1 .. k /\ k \in Nat /\ k \in DOMAIN tokens'
      /\ DOMAIN tokens = 1 .. (k - 1)
      /\ tokens'[k] = NoTime
      /\ \A i \in DOMAIN tokens : i \in DOMAIN tokens' /\ tokens'[i] = tokens[i]
  BY DEF GoodTokens, Started
<1>2. /\ active' = [active EXCEPT ![e] = k]
      /\ runs' = runs \cup {new}
  BY DEF Started
<1>3. GoodTokens'
  BY <1>1, <1>2 DEF GoodTokens
<1>4. GoodRun(new, stored'[e], active'[e], tokens')
  <2>1. stored'[e] = x /\ active'[e] = k
    BY <1>2 DEF GoodShape, GoodTokens
  <2>2. new \in Run
    BY <1>1 DEF Run
  <2>3. Extends(prior, x)
    BY DEF Extends
  <2> QED BY <1>1, <2>1, <2>2, <2>3 DEF GoodRun
<1>5. \A run \in runs :
        GoodRun(run, stored'[run.execution], active'[run.execution], tokens')
  <2> SUFFICES ASSUME NEW run \in runs
               PROVE  GoodRun(run, stored'[run.execution],
                              active'[run.execution], tokens')
    OBVIOUS
  <2>1. GoodRun(run, stored[run.execution], active[run.execution], tokens)
    BY DEF GoodRuns
  <2>2. run.execution \in Execution /\ run.execution # e
    BY <2>1 DEF GoodRun, Run
  <2>3. /\ stored'[run.execution] = stored[run.execution]
        /\ active'[run.execution] = active[run.execution]
    BY <1>2, <2>2 DEF GoodShape, GoodTokens
  <2>4. run.token \in DOMAIN tokens
    BY <2>1 DEF GoodRun
  <2>5. tokens'[run.token] = tokens[run.token] /\ run.token \in DOMAIN tokens'
    BY <2>4, <1>1
  <2> QED BY <2>1, <2>3, <2>5 DEF GoodRun
<1>6. \A r, s \in runs' : r.execution = s.execution => r = s
  BY <1>2 DEF GoodRuns
<1>7. \A run \in runs' :
        GoodRun(run, stored'[run.execution], active'[run.execution], tokens')
  BY <1>2, <1>4, <1>5
<1> QED BY <1>3, <1>6, <1>7 DEF GoodRuns

Good == GoodShape /\ GoodTokens /\ GoodExecutions /\ GoodRuns

LEMMA SubmitGood ==
  ASSUME Good, NEW e \in Execution, NEW d \in Deadline, Submit(e, d)
  PROVE  Good'
<1> DEFINE ended   == StateFromResult(Absent, "initial", d, DeadlineResult, NoTime)
           running == [Absent EXCEPT !.lifecycle = "running",
                                     !.status = "running", !.deadline = d]
<1>1. d \in Nat \cup {NoDeadline}
  BY ConstantsAssumption
<1>2. stored[e] = Absent /\ e \notin accepted
  BY DEF Good, GoodExecutions, GoodExecution, Submit, Absent
<1>3. ended \in ExecutionState
  BY <1>1, AbsentTyped, ResultsTyped, StateTyped DEF Phase
<1>4. running \in ExecutionState
  BY <1>1, AbsentTyped DEF ExecutionState, Lifecycle, Status, Absent
<1>5. GoodExecution(e, ended, accepted, d)
  <2>1. /\ ended.lifecycle = "completed" /\ ended.evaluations = <<>>
        /\ ended.deadline = d
    BY DEF StateFromResult, Absent, DeadlineResult
  <2> HIDE DEF ended
  <2> QED BY <1>2, <1>3, <2>1 DEF GoodExecution
<1>6. GoodExecution(e, running, accepted, d)
  BY <1>2, <1>4 DEF GoodExecution, Absent
<1>7. GoodExecution(e, Absent, accepted, d)
  BY <1>2, AbsentTyped DEF GoodExecution, Absent
<1>8. /\ asked' = [asked EXCEPT ![e] = d]
      /\ UNCHANGED <<now, crashes, accepted>>
  BY DEF Submit
<1>9. \A x : [stored EXCEPT ![e] = x][e] = x
  BY DEF Good, GoodShape
<1>10. asked' \in [Execution -> Nat \cup {NoDeadline}] /\ asked'[e] = d
       /\ \A f \in Execution \ {e} : asked'[f] = asked[f]
  BY <1>1, <1>8 DEF Good, GoodShape
<1>11. \A run \in runs : run.execution # e
  BY <1>2, NoRunWithoutToken DEF Good, Absent
<1> HIDE DEF ended, running
<1>12. CASE stored' \in {stored, [stored EXCEPT ![e] = ended]} /\ NotStarted
  <2>1. GoodExecution(e, stored'[e], accepted', asked'[e])
    BY <1>2, <1>5, <1>7, <1>8, <1>9, <1>10, <1>12
  <2>2. GoodShape' /\ GoodExecutions'
    BY <1>8, <1>10, <1>12, <2>1, OneRecordChanges DEF Good, GoodShape
  <2>3. GoodTokens' /\ GoodRuns'
    BY <1>11, <1>12, IdleRecordChanges DEF Good, NotStarted
  <2> QED BY <2>2, <2>3 DEF Good
<1>13. CASE stored' \in {stored, [stored EXCEPT ![e] = running]} /\ NotStarted
  <2>1. GoodExecution(e, stored'[e], accepted', asked'[e])
    BY <1>2, <1>6, <1>7, <1>8, <1>9, <1>10, <1>13
  <2>2. GoodShape' /\ GoodExecutions'
    BY <1>8, <1>10, <1>13, <2>1, OneRecordChanges DEF Good, GoodShape
  <2>3. GoodTokens' /\ GoodRuns'
    BY <1>11, <1>13, IdleRecordChanges DEF Good, NotStarted
  <2> QED BY <2>2, <2>3 DEF Good
<1>14. CASE Saved(e, running) /\ Started(e, "initial", d, Absent)
  <2>1. stored' = [stored EXCEPT ![e] = running]
    BY <1>14 DEF Saved
  <2>2. GoodExecution(e, stored'[e], accepted', asked'[e])
    BY <1>6, <1>8, <1>9, <1>10, <2>1
  <2>3. GoodShape' /\ GoodExecutions'
    BY <1>8, <1>10, <2>1, <2>2, OneRecordChanges DEF Good, GoodShape
  <2>4. /\ running.lifecycle = "running" /\ running.deadline = d
        /\ running.cancellation = NoCancellation
        /\ running.evidence = Absent.evidence
        /\ Absent.evaluations = <<>> /\ Absent.cancellation = NoCancellation
        /\ Absent.deadline = NoDeadline /\ "initial" \in Phase
    BY DEF running, Absent, Phase
  <2>5. GoodTokens' /\ GoodRuns'
    BY <1>1, <1>4, <1>11, <1>14, <2>1, <2>4, AbsentTyped, StartedGood DEF Good
  <2> QED BY <2>3, <2>5 DEF Good
<1> QED
  BY <1>12, <1>13, <1>14 DEF Submit, Saved, SaveRaised, ended, running

-----------------------------------------------------------------------------
(* Ending a phase.                                                         *)

\* What _state_from_result builds is a good record, when the result ends an
\* accepted cancellation as it must.
LEMMA EndedGood ==
  ASSUME NEW e \in Execution, NEW A, NEW prior \in ExecutionState,
         NEW phase \in Phase, NEW d \in Nat \cup {NoDeadline},
         NEW result \in WorkerResult, NEW at \in Nat \cup {NoTime},
         prior.evaluations = <<>>,
         d = NoDeadline => prior.deadline = NoDeadline,
         e \in A =>
           /\ at # NoTime \/ prior.cancellation # NoCancellation
           /\ result.status = "cancelled" \/ result.cause = "deadline_exceeded"
  PROVE  GoodExecution(e, StateFromResult(prior, phase, d, result, at), A, d)
<1> DEFINE x == StateFromResult(prior, phase, d, result, at)
<1>1. x \in ExecutionState
  BY StateTyped
<1>2. /\ x.lifecycle \in {"interrupted", "completed"}
      /\ x.status = result.status
      /\ x.cause = IF result.cause # "none" THEN result.cause ELSE prior.cause
      /\ x.evaluations = <<>>
      /\ x.deadline = d
  BY DEF StateFromResult
<1>3. at # NoTime => x.cancellation \in Cancellation
  BY DEF StateFromResult, Cancellation
<1>4. at = NoTime => x.cancellation = prior.cancellation
  BY DEF StateFromResult
<1>5. e \in A => x.cancellation # NoCancellation
  BY <1>3, <1>4, NoCancellationAssumption
<1>6. GoodExecution(e, x, A, d)
  <2> HIDE DEF x
  <2> QED BY <1>1, <1>2, <1>5 DEF GoodExecution
<1> QED BY <1>6

LEMMA ContinueGood ==
  ASSUME Good, NEW e \in Execution, Continue(e)
  PROVE  Good'
<1> DEFINE x         == stored[e]
           cancelled == StateFromResult(x, "continued", x.deadline,
                          CancelledResult(ExceptionResult),
                          x.cancellation.requested_at)
           late      == StateFromResult(x, "continued", x.deadline,
                          DeadlineResult, NoTime)
           running   == [x EXCEPT !.lifecycle = "running", !.status = "running",
                                  !.phase = "continued"]
<1>1. /\ x \in ExecutionState /\ x.lifecycle = "interrupted"
      /\ x.evaluations = <<>>
      /\ e \in accepted => x.cancellation # NoCancellation
      /\ x.deadline = asked[e] /\ asked[e] \in Nat \cup {NoDeadline}
      /\ GoodExecution(e, x, accepted, asked[e])
  BY DEF Good, GoodShape, GoodExecutions, GoodExecution, Continue
<1>2. x.cancellation # NoCancellation =>
        x.cancellation.requested_at \in Nat \cup {NoTime}
          /\ x.cancellation.requested_at # NoTime
  BY <1>1, ConstantsAssumption DEF ExecutionState, Cancellation
<1>3. x.cancellation # NoCancellation => GoodExecution(e, cancelled, accepted, asked[e])
  <2>1. /\ CancelledResult(ExceptionResult) \in WorkerResult
        /\ CancelledResult(ExceptionResult).status = "cancelled"
        /\ "continued" \in Phase
    BY ResultsTyped DEF CancelledResult, ExceptionResult, Phase
  <2> QED BY <1>1, <1>2, <2>1, EndedGood
<1>4. GoodExecution(e, late, accepted, asked[e])
  <2>1. /\ DeadlineResult \in WorkerResult
        /\ DeadlineResult.cause = "deadline_exceeded"
        /\ "continued" \in Phase
    BY ResultsTyped DEF DeadlineResult, Phase
  <2> QED BY <1>1, <2>1, EndedGood
<1>5. /\ running \in ExecutionState
      /\ running.lifecycle = "running" /\ running.deadline = x.deadline
      /\ running.cancellation = x.cancellation /\ running.evidence = x.evidence
      /\ running.evaluations = <<>>
  BY <1>1 DEF ExecutionState, Lifecycle, Status, Phase
<1>6. x.cancellation = NoCancellation => GoodExecution(e, running, accepted, asked[e])
  BY <1>1, <1>5 DEF GoodExecution
<1>7. \A run \in runs : run.execution # e
  BY <1>1, NoRunWithoutToken DEF Good
<1>8. UNCHANGED <<now, crashes, accepted, asked>>
  BY DEF Continue
<1>9. \A y : [stored EXCEPT ![e] = y][e] = y
  BY DEF Good, GoodShape
<1>10. \E y : /\ stored' \in {stored, [stored EXCEPT ![e] = y]}
              /\ GoodExecution(e, y, accepted, asked[e])
              /\ \/ NotStarted
                 \/ /\ y = running /\ stored' = [stored EXCEPT ![e] = y]
                    /\ x.cancellation = NoCancellation
                    /\ Started(e, "continued", x.deadline, x)
  <2>1. CASE x.cancellation # NoCancellation
    <3>1. stored' \in {stored, [stored EXCEPT ![e] = cancelled]} /\ NotStarted
      BY <2>1 DEF Continue, Saved, SaveRaised
    <3> HIDE DEF cancelled
    <3> QED BY <1>3, <2>1, <3>1
  <2>2. CASE x.cancellation = NoCancellation /\ Expired(x.deadline, now)
    <3>1. stored' \in {stored, [stored EXCEPT ![e] = late]} /\ NotStarted
      BY <2>2 DEF Continue, Saved, SaveRaised
    <3> HIDE DEF late
    <3> QED BY <1>4, <3>1
  <2>3. CASE x.cancellation = NoCancellation /\ ~Expired(x.deadline, now)
    <3>1. \/ /\ stored' = [stored EXCEPT ![e] = running]
             /\ Started(e, "continued", x.deadline, x)
          \/ /\ stored' \in {stored, [stored EXCEPT ![e] = running]}
             /\ NotStarted
      BY <2>3 DEF Continue, Saved, SaveRaised
    <3> HIDE DEF running
    <3> QED BY <1>6, <2>3, <3>1
  <2> QED BY <2>1, <2>2, <2>3
<1>11. PICK y : /\ stored' \in {stored, [stored EXCEPT ![e] = y]}
               /\ GoodExecution(e, y, accepted, asked[e])
               /\ \/ NotStarted
                  \/ /\ y = running /\ stored' = [stored EXCEPT ![e] = y]
                     /\ x.cancellation = NoCancellation
                     /\ Started(e, "continued", x.deadline, x)
  BY <1>10
<1>12. GoodExecution(e, stored'[e], accepted', asked'[e])
  BY <1>1, <1>8, <1>9, <1>11
<1>13. GoodShape' /\ GoodExecutions'
  BY <1>8, <1>11, <1>12, OneRecordChanges DEF Good, GoodShape
<1>14. CASE NotStarted
  <2>1. GoodTokens' /\ GoodRuns'
    BY <1>7, <1>11, <1>14, IdleRecordChanges DEF Good, NotStarted
  <2> QED BY <1>13, <2>1 DEF Good
<1>15. CASE /\ y = running /\ stored' = [stored EXCEPT ![e] = y]
            /\ x.cancellation = NoCancellation
            /\ Started(e, "continued", x.deadline, x)
  <2>1. "continued" \in Phase /\ x.deadline \in Nat \cup {NoDeadline}
    BY <1>1 DEF Phase
  <2> HIDE DEF running
  <2>2. GoodTokens' /\ GoodRuns'
    BY <1>1, <1>5, <1>7, <1>15, <2>1, StartedGood DEF Good
  <2> QED BY <1>13, <2>2 DEF Good
<1> QED BY <1>11, <1>14, <1>15

\* The phase's execution gets a record that is good, and the run is over.
LEMMA RunEndsGood ==
  ASSUME Good, NEW run \in runs, NEW x,
         GoodExecution(run.execution, x, accepted, asked[run.execution]),
         \/ /\ stored' = [stored EXCEPT ![run.execution] = x]
            /\ active' = [active EXCEPT ![run.execution] = NoToken]
         \/ /\ stored' \in {stored, [stored EXCEPT ![run.execution] = x]}
            /\ active' = active,
         runs' = runs \ {run},
         UNCHANGED <<now, crashes, tokens, accepted, asked>>
  PROVE  Good'
<1> DEFINE e == run.execution
<1>1. e \in Execution /\ GoodExecution(e, stored[e], accepted, asked[e])
  BY DEF Good, GoodRuns, GoodRun, Run, GoodExecutions
<1>2. GoodExecution(e, stored'[e], accepted', asked'[e])
  <2>1. stored'[e] \in {stored[e], x}
    BY <1>1 DEF Good, GoodShape
  <2> QED BY <1>1, <2>1
<1>3. stored' = stored \/ stored' = [stored EXCEPT ![e] = x]
  OBVIOUS
<1>4. GoodShape' /\ GoodExecutions'
  BY <1>1, <1>2, <1>3, OneRecordChanges DEF Good, GoodShape
<1>5. GoodTokens'
  BY <1>1 DEF Good, GoodTokens
<1>6. \A s \in runs' : s \in runs /\ s.execution # e
  BY DEF Good, GoodRuns
<1>7. \A s \in runs' : GoodRun(s, stored'[s.execution], active'[s.execution], tokens')
  <2> SUFFICES ASSUME NEW s \in runs'
               PROVE  GoodRun(s, stored'[s.execution], active'[s.execution], tokens')
    OBVIOUS
  <2>1. /\ s.execution # e /\ s.execution \in Execution
        /\ GoodRun(s, stored[s.execution], active[s.execution], tokens)
    BY <1>6 DEF Good, GoodRuns, GoodRun, Run
  <2>2. /\ stored'[s.execution] = stored[s.execution]
        /\ active'[s.execution] = active[s.execution]
    BY <1>1, <2>1 DEF Good, GoodShape, GoodTokens
  <2> QED BY <2>1, <2>2
<1>8. GoodRuns'
  BY <1>6, <1>7 DEF Good, GoodRuns
<1> QED BY <1>4, <1>5, <1>8 DEF Good

\* The arbiter's result, or what a control makes of it, ends the run.
LEMMA ConcludeGood ==
  ASSUME Good, NEW run \in runs, NEW result \in WorkerResult,
         NEW prior \in {run.prior, stored[run.execution]},
         LET control == ControlCause(tokens[run.token], run.deadline) IN
         /\ Conclude(run, result, prior)
         /\ control # "none" => prior = stored[run.execution]
         /\ control = "cancelled" => result.status = "cancelled"
         /\ control = "deadline_exceeded" => result.cause = "deadline_exceeded"
  PROVE  Good'
<1> DEFINE e       == run.execution
           t       == tokens[run.token]
           control == ControlCause(t, run.deadline)
           at      == IF control = "cancelled" THEN t ELSE NoTime
           next    == StateFromResult(prior, run.phase, run.deadline, result, at)
<1>1. GoodRun(run, stored[e], active[e], tokens)
  BY DEF Good, GoodRuns
<1>2. /\ run \in Run /\ e \in Execution
      /\ stored[e] \in ExecutionState /\ stored[e].lifecycle = "running"
      /\ run.prior \in ExecutionState
      /\ run.phase \in Phase /\ run.deadline \in Nat \cup {NoDeadline}
      /\ run.deadline = stored[e].deadline
      /\ t \in Nat \cup {NoTime}
  BY <1>1 DEF Good, GoodShape, GoodTokens, GoodRun, Run
<1>3. /\ e \in accepted => stored[e].cancellation # NoCancellation
      /\ stored[e].evaluations = <<>>
      /\ stored[e].deadline = asked[e]
  BY <1>2 DEF Good, GoodExecutions, GoodExecution
<1>4. /\ stored[e].cancellation # NoCancellation => t # NoTime
      /\ run.prior.evaluations = <<>>
      /\ run.prior.deadline \in {NoDeadline, stored[e].deadline}
  BY <1>1 DEF GoodRun
<1>5. /\ control \in {"none", "cancelled", "deadline_exceeded"}
      /\ t = NoTime => control # "cancelled"
      /\ t # NoTime => control # "none"
  BY ControlCases
<1>6. /\ prior \in ExecutionState /\ prior.evaluations = <<>>
      /\ run.deadline = NoDeadline => prior.deadline = NoDeadline
  BY <1>2, <1>3, <1>4
<1>7. at \in Nat \cup {NoTime}
  BY <1>2
<1>8. e \in accepted =>
        /\ at # NoTime \/ prior.cancellation # NoCancellation
        /\ result.status = "cancelled" \/ result.cause = "deadline_exceeded"
  <2> SUFFICES ASSUME e \in accepted
               PROVE  /\ at # NoTime \/ prior.cancellation # NoCancellation
                      /\ result.status = "cancelled" \/ result.cause = "deadline_exceeded"
    OBVIOUS
  <2>1. t # NoTime /\ control \in {"cancelled", "deadline_exceeded"}
    BY <1>3, <1>4, <1>5
  <2>2. prior = stored[e]
    BY <2>1
  <2> QED BY <1>3, <2>1, <2>2
<1>9. GoodExecution(e, next, accepted, run.deadline)
  <2> HIDE DEF at
  <2> QED BY <1>2, <1>6, <1>7, <1>8, EndedGood
<1>10. GoodExecution(e, next, accepted, asked[e])
  BY <1>2, <1>3, <1>9
<1>11. /\ \/ stored' = [stored EXCEPT ![e] = next] /\ active' = [active EXCEPT ![e] = NoToken]
          \/ stored' \in {stored, [stored EXCEPT ![e] = next]} /\ active' = active
       /\ runs' = runs \ {run}
       /\ UNCHANGED <<now, crashes, tokens, accepted, asked>>
  BY DEF Conclude, Saved, SaveRaised
<1> HIDE DEF next
<1> QED BY <1>10, <1>11, RunEndsGood

LEMMA ReturnGood ==
  ASSUME Good, NEW run \in runs, NEW result \in Result, Return(run, result)
  PROVE  Good'
<1> DEFINE control == ControlCause(tokens[run.token], run.deadline)
           final   == Controlled(result, control)
<1>1. control \in {"none", "cancelled", "deadline_exceeded"}
  BY ControlCases
<1>2. result \in WorkerResult
  BY ConstantsAssumption
<1>3. final \in WorkerResult
  BY <1>1, <1>2, ResultsTyped
<1>4. /\ control = "cancelled" => final.status = "cancelled"
      /\ control = "deadline_exceeded" => final.cause = "deadline_exceeded"
  BY <1>2 DEF Controlled, CancelledResult, DeadlineResult, WorkerResult
<1>5. Conclude(run, final, stored[run.execution])
  BY DEF Return
<1> QED BY <1>3, <1>4, <1>5, ConcludeGood

LEMMA RaiseGood ==
  ASSUME Good, NEW run \in runs, Raise(run)
  PROVE  Good'
<1> DEFINE control == ControlCause(tokens[run.token], run.deadline)
           final   == Controlled(ExceptionResult, control)
           prior   == IF control = "none" THEN run.prior ELSE stored[run.execution]
<1>1. control \in {"none", "cancelled", "deadline_exceeded"}
  BY ControlCases
<1>2. final \in WorkerResult
  BY <1>1, ResultsTyped
<1>3. /\ control = "cancelled" => final.status = "cancelled"
      /\ control = "deadline_exceeded" => final.cause = "deadline_exceeded"
  BY DEF Controlled, CancelledResult, DeadlineResult, ExceptionResult
<1>4. Conclude(run, final, prior)
  BY DEF Raise
<1> QED BY <1>2, <1>3, <1>4, ConcludeGood

-----------------------------------------------------------------------------
(* Cancellation.                                                           *)

\* A cancelled token, and a record that says more than before, keep the runs
\* good: a run that looks at the token looks at a cancelled one.
LEMMA TokenCancelledGood ==
  ASSUME Good, NEW e \in Execution, NEW at \in Nat, NEW x \in ExecutionState,
         active[e] # NoToken, TokenCancelled(active[e], at),
         stored' = stored \/ stored' = [stored EXCEPT ![e] = x],
         x.lifecycle = stored[e].lifecycle, x.deadline = stored[e].deadline,
         Extends(stored[e], x),
         UNCHANGED <<active, runs>>
  PROVE  GoodTokens' /\ GoodRuns'
<1> DEFINE k == active[e]
<1>1. k \in DOMAIN tokens /\ tokens \in Seq(Nat \cup {NoTime})
  BY DEF Good, GoodTokens
<1>2. tokens' = [tokens EXCEPT ![k] = IF tokens[k] = NoTime THEN at ELSE tokens[k]]
  BY DEF TokenCancelled
<1>3. /\ tokens' \in Seq(Nat \cup {NoTime}) /\ DOMAIN tokens' = DOMAIN tokens
      /\ \A i \in DOMAIN tokens : tokens[i] # NoTime => tokens'[i] # NoTime
      /\ tokens'[k] # NoTime
  BY <1>1, <1>2, ConstantsAssumption
<1>4. GoodTokens'
  BY <1>3 DEF Good, GoodTokens
<1>5. \A run \in runs :
        GoodRun(run, stored'[run.execution], active'[run.execution], tokens')
  <2> SUFFICES ASSUME NEW run \in runs
               PROVE  GoodRun(run, stored'[run.execution],
                              active'[run.execution], tokens')
    OBVIOUS
  <2>1. GoodRun(run, stored[run.execution], active[run.execution], tokens)
    BY DEF Good, GoodRuns
  <2>2. run.token \in DOMAIN tokens /\ run.execution \in Execution
    BY <2>1 DEF GoodRun, Run
  <2>3. CASE stored'[run.execution] = stored[run.execution]
    BY <1>3, <2>1, <2>2, <2>3 DEF GoodRun
  <2>4. CASE run.execution = e /\ stored'[e] = x
    <3>1. tokens'[run.token] # NoTime
      BY <1>3, <2>1, <2>4 DEF GoodRun
    <3>2. Extends(run.prior, x)
      BY <2>1, <2>4 DEF GoodRun, Extends
    <3> QED BY <1>3, <2>1, <2>2, <2>4, <3>1, <3>2 DEF GoodRun
  <2> QED BY <2>2, <2>3, <2>4 DEF Good, GoodShape
<1> QED BY <1>4, <1>5 DEF Good, GoodRuns

\* A cancellation stores x or fails to, and is accepted only when it stored x.
Answered(e, x) ==
  /\ stored' = stored \/ stored' = [stored EXCEPT ![e] = x]
  /\ \/ accepted' = accepted
     \/ stored' = [stored EXCEPT ![e] = x] /\ accepted' = accepted \cup {e}
  /\ now' \in Nat
  /\ UNCHANGED <<crashes, active, runs, asked>>

\* A cancellation that finds no token: x says how the execution ended.
AnsweredIdle(e, x) ==
  /\ active[e] = NoToken /\ UNCHANGED tokens
  /\ Answered(e, x)
  /\ GoodExecution(e, x, accepted', asked[e])
  /\ GoodExecution(e, x, accepted, asked[e])

\* A cancellation that finds a token: x says that the work is to stop.
AnsweredActive(e, x, at) ==
  /\ active[e] # NoToken /\ TokenCancelled(active[e], at)
  /\ Answered(e, x)
  /\ GoodExecution(e, x, accepted', asked[e])
  /\ x.lifecycle = stored[e].lifecycle /\ x.deadline = stored[e].deadline
  /\ Extends(stored[e], x)

LEMMA AnsweredGood ==
  ASSUME Good, NEW e \in Execution, NEW x, Answered(e, x),
         GoodExecution(e, x, accepted', asked[e])
  PROVE  GoodShape' /\ GoodExecutions'
<1>1. GoodExecution(e, stored[e], accepted, asked[e])
  BY DEF Good, GoodExecutions
<1>2. stored'[e] = x \/ (stored' = stored /\ accepted' = accepted)
  BY DEF Answered, Good, GoodShape
<1>3. GoodExecution(e, stored'[e], accepted', asked'[e])
  BY <1>1, <1>2 DEF Answered, Good, GoodShape
<1> QED
  BY <1>3, OneRecordChanges DEF Answered, Good, GoodShape

LEMMA AnsweredIdleGood ==
  ASSUME Good, NEW e \in Execution, NEW x, AnsweredIdle(e, x)
  PROVE  Good'
<1>1. GoodShape' /\ GoodExecutions'
  BY AnsweredGood DEF AnsweredIdle
<1>2. \A run \in runs : run.execution # e
  BY NoRunWithoutToken DEF Good, AnsweredIdle
<1>3. GoodTokens' /\ GoodRuns'
  BY <1>2, IdleRecordChanges DEF Good, AnsweredIdle, Answered
<1> QED BY <1>1, <1>3 DEF Good

LEMMA AnsweredActiveGood ==
  ASSUME Good, NEW e \in Execution, NEW x, NEW at \in Nat,
         AnsweredActive(e, x, at)
  PROVE  Good'
<1>1. GoodShape' /\ GoodExecutions'
  BY AnsweredGood DEF AnsweredActive
<1>2. x \in ExecutionState
  BY DEF AnsweredActive, GoodExecution
<1>3. GoodTokens' /\ GoodRuns'
  BY <1>2, TokenCancelledGood DEF AnsweredActive, Answered
<1> QED BY <1>1, <1>3 DEF Good

LEMMA CancelTooLateGood ==
  ASSUME Good, NEW e \in Execution,
         stored[e].lifecycle \in {"running", "interrupted"}, CancelTooLate(e),
         UNCHANGED <<crashes, active, runs, asked>>
  PROVE  Good'
<1> DEFINE x     == stored[e]
           told  == [x EXCEPT !.cause = "deadline_exceeded",
                              !.evidence = Append(x.evidence, "deadline-exceeded")]
           ended == StateFromResult(x, x.phase, x.deadline, DeadlineResult, NoTime)
<1>1. /\ x \in ExecutionState /\ x.evaluations = <<>>
      /\ x.phase \in Phase /\ x.deadline = asked[e]
      /\ asked[e] \in Nat \cup {NoDeadline}
      /\ GoodExecution(e, x, accepted, asked[e])
      /\ now \in Nat /\ now' = now /\ accepted' = accepted
  BY DEF Good, GoodShape, GoodExecutions, GoodExecution, ExecutionState, CancelTooLate
<1>2. CASE /\ active[e] # NoToken
           /\ TokenCancelled(active[e], now)
           /\ stored' \in {stored, [stored EXCEPT ![e] = told]}
  <2>1. "deadline-exceeded" \in Evidence
    BY DEF Evidence
  <2>2. /\ told \in ExecutionState /\ Extends(x, told)
    BY <1>1, <2>1, AppendExtends DEF ExecutionState, Cause, Extends
  <2>3. GoodExecution(e, told, accepted, asked[e])
    BY <1>1, <2>2 DEF GoodExecution
  <2>4. told.lifecycle = x.lifecycle /\ told.deadline = x.deadline
    BY <1>1 DEF ExecutionState
  <2> HIDE DEF told
  <2>5. AnsweredActive(e, told, now)
    BY <1>1, <1>2, <2>2, <2>3, <2>4 DEF AnsweredActive, Answered
  <2> QED BY <1>1, <2>5, AnsweredActiveGood
<1>3. CASE /\ active[e] = NoToken
           /\ stored' \in {stored, [stored EXCEPT ![e] = ended]}
           /\ UNCHANGED tokens
  <2>1. /\ DeadlineResult \in WorkerResult
        /\ DeadlineResult.cause = "deadline_exceeded"
    BY ResultsTyped DEF DeadlineResult
  <2>2. e \in accepted => NoTime # NoTime \/ x.cancellation # NoCancellation
    BY <1>1 DEF GoodExecution
  <2>3. GoodExecution(e, ended, accepted, x.deadline)
    BY <1>1, <2>1, <2>2, EndedGood
  <2> HIDE DEF ended
  <2>4. AnsweredIdle(e, ended)
    BY <1>1, <1>3, <2>3 DEF AnsweredIdle, Answered
  <2> QED BY <2>4, AnsweredIdleGood
<1> QED
  BY <1>2, <1>3 DEF CancelTooLate, Saved, SaveRaised

\* What a confirmed cancellation leaves on record.
LEMMA ConfirmedGood ==
  ASSUME NEW e \in Execution, NEW A, NEW d, NEW x, GoodExecution(e, x, A, d),
         x.lifecycle \in {"running", "interrupted"},
         NEW at \in Nat, NEW tail \in Seq(Evidence)
  PROVE  GoodExecution(e, CancelConfirmed(x, at, tail), A \cup {e}, d)
<1> DEFINE y == CancelConfirmed(x, at, tail)
<1>1. x \in ExecutionState /\ x.evaluations = <<>> /\ x.deadline = d
  BY DEF GoodExecution
<1>2. y \in ExecutionState
  BY <1>1, ConfirmedExtends
<1>3. /\ y.lifecycle = "completed" /\ y.status = "cancelled"
      /\ y.cancellation \in Cancellation
      /\ y.evaluations = <<>> /\ y.deadline = d
  BY <1>1 DEF CancelConfirmed, ExecutionState, Cancellation
<1>4. y.cancellation # NoCancellation
  BY <1>3, NoCancellationAssumption
<1>5. GoodExecution(e, y, A \cup {e}, d)
  <2> HIDE DEF y
  <2> QED BY <1>2, <1>3, <1>4 DEF GoodExecution
<1> QED BY <1>5

LEMMA CancelAgainGood ==
  ASSUME Good, NEW e \in Execution,
         stored[e].lifecycle \in {"running", "interrupted"}, CancelAgain(e),
         UNCHANGED <<crashes, active, runs, asked>>
  PROVE  Good'
<1> DEFINE x    == stored[e]
           tail == <<"cancellation-confirmed">>
           y    == CancelConfirmed(x, x.cancellation.requested_at, tail)
<1>1. /\ GoodExecution(e, x, accepted, asked[e])
      /\ x.cancellation \in Cancellation
      /\ now \in Nat /\ now' = now /\ accepted' = accepted
  BY DEF Good, GoodShape, GoodExecutions, GoodExecution, ExecutionState, CancelAgain
<1>2. x.cancellation.requested_at \in Nat
  BY <1>1 DEF Cancellation
<1>3. CASE active[e] # NoToken /\ TokenCancelled(active[e], now) /\ UNCHANGED stored
  <2>1. x \in ExecutionState /\ Extends(x, x)
    BY <1>1 DEF GoodExecution, Extends
  <2>2. AnsweredActive(e, x, now)
    BY <1>1, <1>3, <2>1 DEF AnsweredActive, Answered
  <2> QED BY <1>1, <2>2, AnsweredActiveGood
<1>4. CASE /\ active[e] = NoToken
           /\ stored' \in {stored, [stored EXCEPT ![e] = y]}
           /\ UNCHANGED tokens
  <2>1. GoodExecution(e, y, accepted \cup {e}, asked[e])
    BY <1>1, <1>2, ConfirmedGood, TailsTyped
  <2> HIDE DEF y
  <2>2. GoodExecution(e, y, accepted, asked[e])
    BY <2>1 DEF GoodExecution
  <2>3. AnsweredIdle(e, y)
    BY <1>1, <1>4, <2>1, <2>2 DEF AnsweredIdle, Answered
  <2> QED BY <2>3, AnsweredIdleGood
<1> QED
  BY <1>3, <1>4 DEF CancelAgain, Saved, SaveRaised

LEMMA CancelFirstGood ==
  ASSUME Good, NEW e \in Execution,
         stored[e].lifecycle \in {"running", "interrupted"}, CancelFirst(e),
         UNCHANGED <<crashes, active, runs, asked>>
  PROVE  Good'
<1> DEFINE x    == stored[e]
           tail == <<"cancellation-requested", "cancellation-confirmed">>
           pending(at) ==
             [x EXCEPT !.cancellation = [requested_at |-> at, pending |-> TRUE],
                       !.evidence = Append(x.evidence, "cancellation-requested")]
           confirmed(at) == CancelConfirmed(x, at, tail)
           Outcome(y) ==
             \/ stored' = [stored EXCEPT ![e] = y] /\ accepted' = accepted \cup {e}
             \/ stored' \in {stored, [stored EXCEPT ![e] = y]} /\ accepted' = accepted
<1>1. /\ GoodExecution(e, x, accepted, asked[e])
      /\ now \in Nat /\ now' \in {now, now + 1} /\ now' \in Nat
  BY DEF Good, GoodShape, GoodExecutions, CancelFirst
<1>2. PICK at \in now .. now' :
        /\ active[e] # NoToken => Outcome(pending(at)) /\ TokenCancelled(active[e], now')
        /\ active[e] = NoToken => Outcome(confirmed(at)) /\ UNCHANGED tokens
  BY DEF CancelFirst, Saved, SaveRaised
<1>3. at \in Nat
  BY <1>1
<1>4. CASE active[e] # NoToken
  <2> DEFINE y == pending(at)
  <2>1. Outcome(y) /\ TokenCancelled(active[e], now')
    BY <1>2, <1>4
  <2>2. x \in ExecutionState
    BY <1>1 DEF GoodExecution
  <2>3. "cancellation-requested" \in Evidence
    BY DEF Evidence
  <2>4. [requested_at |-> at, pending |-> TRUE] \in Cancellation
    BY <1>3 DEF Cancellation
  <2>5. /\ y \in ExecutionState /\ Extends(x, y)
        /\ y.lifecycle = x.lifecycle /\ y.deadline = x.deadline
        /\ y.cancellation \in Cancellation
        /\ y.evaluations = x.evaluations
    BY <2>2, <2>3, <2>4, AppendExtends DEF ExecutionState, Extends
  <2>6. y.cancellation # NoCancellation
    BY <2>5, NoCancellationAssumption
  <2> HIDE DEF y
  <2>7. /\ GoodExecution(e, y, accepted, asked[e])
        /\ GoodExecution(e, y, accepted \cup {e}, asked[e])
    BY <1>1, <2>5, <2>6 DEF GoodExecution
  <2>8. Answered(e, y) /\ accepted' \in {accepted, accepted \cup {e}}
    BY <1>1, <2>1 DEF Answered
  <2>9. AnsweredActive(e, y, now')
    BY <1>4, <2>1, <2>5, <2>7, <2>8 DEF AnsweredActive
  <2> QED BY <1>1, <2>9, AnsweredActiveGood
<1>5. CASE active[e] = NoToken
  <2> DEFINE y == confirmed(at)
  <2>1. Outcome(y) /\ UNCHANGED tokens
    BY <1>2, <1>5
  <2>2. GoodExecution(e, y, accepted \cup {e}, asked[e])
    BY <1>1, <1>3, ConfirmedGood, TailsTyped
  <2> HIDE DEF y
  <2>3. GoodExecution(e, y, accepted, asked[e])
    BY <2>2 DEF GoodExecution
  <2>4. Answered(e, y) /\ accepted' \in {accepted, accepted \cup {e}}
    BY <1>1, <2>1 DEF Answered
  <2>5. AnsweredIdle(e, y)
    BY <1>5, <2>1, <2>2, <2>3, <2>4 DEF AnsweredIdle
  <2> QED BY <2>5, AnsweredIdleGood
<1> QED BY <1>4, <1>5

LEMMA CancelGood ==
  ASSUME Good, NEW e \in Execution, Cancel(e)
  PROVE  Good'
BY CancelTooLateGood, CancelAgainGood, CancelFirstGood DEF Cancel

-----------------------------------------------------------------------------
(* Evaluations, the process and its clock.                                 *)

LEMMA RecordEvaluationGood ==
  ASSUME Good, NEW e \in Execution, RecordEvaluation(e)
  PROVE  Good'
<1> DEFINE x   == stored[e]
           new == Append(x.evaluations, ResultReference(x))
           y   == [x EXCEPT !.evaluations = new]
<1>1. /\ GoodExecution(e, x, accepted, asked[e]) /\ x \in ExecutionState
      /\ x.lifecycle = "completed" /\ x.result # NoResult
      /\ x.evaluations \in Seq(Reference)
  BY DEF Good, GoodExecutions, GoodExecution, RecordEvaluation, ExecutionState
<1>2. ResultReference(x) \in Reference /\ new \in Seq(Reference)
  <2>1. ResultReference(x) \in Reference
    BY <1>1 DEF ResultReference, Reference, ExecutionState
  <2> QED BY <1>1, <2>1
<1>3. /\ y \in ExecutionState
      /\ y.lifecycle = "completed" /\ y.status = x.status /\ y.cause = x.cause
      /\ y.deadline = x.deadline /\ y.cancellation = x.cancellation
      /\ y.evaluations = Append(x.evaluations, ResultReference(x))
      /\ ResultReference(y) = ResultReference(x)
  <2> HIDE DEF new
  <2>1. /\ y \in ExecutionState
        /\ y.lifecycle = "completed" /\ y.status = x.status /\ y.cause = x.cause
        /\ y.deadline = x.deadline /\ y.cancellation = x.cancellation
        /\ y.evaluations = new /\ y.phase = x.phase /\ y.result = x.result
    BY <1>1, <1>2 DEF ExecutionState
  <2> QED BY <2>1 DEF new, ResultReference
<1>4. \A i \in DOMAIN y.evaluations : y.evaluations[i] = ResultReference(x)
  <2>1. \A i \in DOMAIN x.evaluations : x.evaluations[i] = ResultReference(x)
    BY <1>1 DEF GoodExecution
  <2> HIDE DEF y
  <2> QED BY <1>1, <1>2, <1>3, <2>1
<1> HIDE DEF y
<1>5. GoodExecution(e, y, accepted, asked[e])
  BY <1>1, <1>3, <1>4 DEF GoodExecution
<1>6. /\ stored' \in {stored, [stored EXCEPT ![e] = y]}
      /\ UNCHANGED <<now, crashes, tokens, active, runs, accepted, asked>>
  BY DEF RecordEvaluation, Saved, SaveRaised, y
<1>7. GoodExecution(e, stored'[e], accepted', asked'[e])
  BY <1>1, <1>5, <1>6 DEF Good, GoodShape
<1>8. GoodShape' /\ GoodExecutions'
  BY <1>6, <1>7, OneRecordChanges DEF Good, GoodShape
<1>9. \A run \in runs : run.execution # e
  BY <1>1, NoRunWithoutToken DEF Good
<1>10. GoodTokens' /\ GoodRuns'
  BY <1>6, <1>9, IdleRecordChanges DEF Good
<1> QED BY <1>8, <1>10 DEF Good

LEMMA CrashGood ==
  ASSUME Good, Crash
  PROVE  Good'
<1>1. GoodShape' /\ GoodExecutions'
  BY DEF Good, GoodShape, GoodExecutions, Crash
<1>2. tokens' \in Seq(Nat \cup {NoTime})
  BY DEF Crash
<1>3. GoodTokens'
  BY <1>2 DEF GoodTokens, Crash
<1>4. GoodRuns'
  BY DEF GoodRuns, Crash
<1> QED BY <1>1, <1>3, <1>4 DEF Good

LEMMA TickGood ==
  ASSUME Good, Tick
  PROVE  Good'
BY DEF Good, GoodShape, GoodTokens, GoodExecutions, GoodRuns, Tick

LEMMA StutterGood ==
  ASSUME Good, UNCHANGED vars
  PROVE  Good'
BY DEF Good, GoodShape, GoodTokens, GoodExecutions, GoodRuns, vars

LEMMA StepGood ==
  ASSUME Good, [Next]_vars
  PROVE  Good'
<1>1. CASE \E e \in Execution, d \in Deadline : Submit(e, d)
  BY <1>1, SubmitGood
<1>2. CASE \E e \in Execution : Continue(e)
  BY <1>2, ContinueGood
<1>3. CASE \E run \in runs, result \in Result : Return(run, result)
  BY <1>3, ReturnGood
<1>4. CASE \E run \in runs : Raise(run)
  BY <1>4, RaiseGood
<1>5. CASE \E e \in Execution : Cancel(e)
  BY <1>5, CancelGood
<1>6. CASE \E e \in Execution : RecordEvaluation(e)
  BY <1>6, RecordEvaluationGood
<1>7. CASE Crash
  BY <1>7, CrashGood
<1>8. CASE Tick
  BY <1>8, TickGood
<1>9. CASE UNCHANGED vars
  BY <1>9, StutterGood
<1> QED
  BY <1>1, <1>2, <1>3, <1>4, <1>5, <1>6, <1>7, <1>8, <1>9 DEF Next

LEMMA InitGood == Init => Good
<1> SUFFICES ASSUME Init PROVE Good
  OBVIOUS
<1>1. \A e \in Execution : GoodExecution(e, Absent, accepted, NoDeadline)
  BY AbsentTyped DEF GoodExecution, Absent, Init
<1>2. GoodExecutions
  BY <1>1 DEF GoodExecutions, Init
<1>3. GoodShape
  BY AbsentTyped DEF GoodShape, Init
<1>4. GoodTokens
  <2>1. tokens \in Seq(Nat \cup {NoTime})
    BY DEF Init
  <2> QED BY <2>1 DEF GoodTokens, Init
<1>5. GoodRuns
  BY DEF GoodRuns, Init
<1> QED BY <1>2, <1>3, <1>4, <1>5 DEF Good

LEMMA GoodIsIInv == Good <=> IInv
BY InvariantParts DEF Good

\* The inductive invariant: every reachable state is good.
THEOREM Invariance == Spec => []IInv
<1>1. Init => IInv
  BY InitGood, GoodIsIInv
<1>2. IInv /\ [Next]_vars => IInv'
  <2> SUFFICES ASSUME IInv, [Next]_vars PROVE IInv'
    OBVIOUS
  <2>1. Good
    BY GoodIsIInv
  <2>2. Good'
    BY <2>1, StepGood
  <2>3. Good' => IInv'
    BY InvariantParts, PTL DEF Good
  <2> QED BY <2>2, <2>3
<1> QED BY <1>1, <1>2, PTL DEF Spec

\* Type correctness, of the store, the tokens and the runs.
THEOREM TypeCorrect == Spec => []TypeOK
<1>1. IInv => TypeOK
  BY DEF IInv
<1> QED BY <1>1, Invariance, PTL

\* One phase at a time, with the token a canceller reaches.
THEOREM OneOwner == Spec => []RunsAreOwned
<1>1. IInv => RunsAreOwned
  BY DEF IInv
<1> QED BY <1>1, Invariance, PTL

\* An accepted cancellation decides how the execution ends.
THEOREM AcceptedHonoured == Spec => []AcceptedIsHonoured
<1>1. IInv => AcceptedIsHonoured
  BY DEF IInv
<1> QED BY <1>1, Invariance, PTL

\* Evaluations stay with the result they were made of.
THEOREM EvaluationsFit == Spec => []EvaluationsFitResult
<1>1. IInv => EvaluationsFitResult
  BY DEF IInv
<1> QED BY <1>1, Invariance, PTL

-----------------------------------------------------------------------------
(* What a step may not do.                                                 *)

\* What the end of a phase stores keeps the evidence that is on record.
LEMMA ConcludeKeeps ==
  ASSUME Good, NEW run \in runs, NEW result \in WorkerResult,
         NEW prior \in {run.prior, stored[run.execution]},
         LET control == ControlCause(tokens[run.token], run.deadline) IN
         /\ Conclude(run, result, prior)
         /\ control # "none" => prior = stored[run.execution],
         NEW e \in Execution
  PROVE  Extends(stored[e], stored'[e])
<1> DEFINE f       == run.execution
           control == ControlCause(tokens[run.token], run.deadline)
           at      == IF control = "cancelled" THEN tokens[run.token] ELSE NoTime
           next    == StateFromResult(prior, run.phase, run.deadline, result, at)
<1>1. /\ GoodRun(run, stored[f], active[f], tokens)
      /\ f \in Execution /\ run.prior \in ExecutionState
      /\ stored[f] \in ExecutionState /\ prior \in ExecutionState
  BY DEF Good, GoodRuns, GoodRun, Run, GoodShape
<1>2. Extends(prior, next)
  BY <1>1, StateExtends
<1>3. stored[f].evidence = prior.evidence
  <2>1. CASE prior = stored[f]
    BY <2>1
  <2>2. CASE control = "none" /\ prior = run.prior
    <3>1. tokens[run.token] = NoTime
      BY <2>2, ControlCases
    <3> QED BY <1>1, <2>2, <3>1 DEF GoodRun
  <2> QED BY <2>1, <2>2, ControlCases
<1>4. Extends(stored[f], next)
  <2> HIDE DEF next
  <2> QED BY <1>2, <1>3 DEF Extends
<1>5. stored' \in {stored, [stored EXCEPT ![f] = next]}
  BY DEF Conclude, Saved, SaveRaised
<1>6. stored'[e] = stored[e] \/ (e = f /\ stored'[e] = next)
  <2> HIDE DEF next
  <2> QED BY <1>1, <1>5 DEF Good, GoodShape
<1>7. Extends(stored[e], stored[e])
  BY DEF Extends
<1> HIDE DEF next
<1> QED BY <1>4, <1>6, <1>7

\* A step that stores nothing else than x for f keeps what x extends.
LEMMA OneRecordKeeps ==
  ASSUME Good, NEW f \in Execution, NEW x, Extends(stored[f], x),
         stored' \in {stored, [stored EXCEPT ![f] = x]},
         NEW e \in Execution
  PROVE  Extends(stored[e], stored'[e])
<1>1. Extends(stored[e], stored[e])
  BY DEF Extends
<1>2. stored'[e] = stored[e] \/ (e = f /\ stored'[e] = x)
  BY DEF Good, GoodShape
<1> QED BY <1>1, <1>2

LEMMA CancelKeeps ==
  ASSUME Good, NEW f \in Execution, Cancel(f), NEW e \in Execution
  PROVE  Extends(stored[e], stored'[e])
<1> DEFINE x == stored[f]
<1>1. x \in ExecutionState /\ Extends(x, x)
  BY DEF Good, GoodShape, Extends
<1>2. CASE CancelTooLate(f)
  <2> DEFINE told  == [x EXCEPT !.cause = "deadline_exceeded",
                                !.evidence = Append(x.evidence, "deadline-exceeded")]
             ended == StateFromResult(x, x.phase, x.deadline, DeadlineResult, NoTime)
  <2>1. "deadline-exceeded" \in Evidence
    BY DEF Evidence
  <2>2. Extends(x, told)
    BY <1>1, <2>1, AppendExtends DEF ExecutionState, Extends
  <2>3. Extends(x, ended)
    BY <1>1, ResultsTyped, StateExtends
  <2>4. stored' \in {stored, [stored EXCEPT ![f] = told], [stored EXCEPT ![f] = ended]}
    BY <1>2 DEF CancelTooLate, Saved, SaveRaised
  <2> HIDE DEF told, ended
  <2> QED BY <2>2, <2>3, <2>4, OneRecordKeeps
<1>3. CASE CancelAgain(f)
  <2> DEFINE y == CancelConfirmed(x, x.cancellation.requested_at,
                                  <<"cancellation-confirmed">>)
  <2>1. x.cancellation.requested_at \in Nat
    BY <1>1, <1>3 DEF CancelAgain, ExecutionState, Cancellation
  <2>2. Extends(x, y)
    BY <1>1, <2>1, TailsTyped, ConfirmedExtends
  <2>3. stored' \in {stored, [stored EXCEPT ![f] = y]}
    BY <1>3 DEF CancelAgain, Saved, SaveRaised
  <2> HIDE DEF y
  <2> QED BY <2>2, <2>3, OneRecordKeeps
<1>4. CASE CancelFirst(f)
  <2> DEFINE pending(at) ==
               [x EXCEPT !.cancellation = [requested_at |-> at, pending |-> TRUE],
                         !.evidence = Append(x.evidence, "cancellation-requested")]
             confirmed(at) ==
               CancelConfirmed(x, at, <<"cancellation-requested",
                                        "cancellation-confirmed">>)
  <2>1. PICK at \in now .. now' :
          stored' \in {stored, [stored EXCEPT ![f] = pending(at)],
                       [stored EXCEPT ![f] = confirmed(at)]}
    BY <1>4 DEF CancelFirst, Saved, SaveRaised
  <2>2. at \in Nat
    BY <1>4 DEF Good, GoodShape, CancelFirst
  <2>3. "cancellation-requested" \in Evidence
    BY DEF Evidence
  <2>4. Extends(x, pending(at))
    BY <1>1, <2>3, AppendExtends DEF ExecutionState, Extends
  <2>5. Extends(x, confirmed(at))
    BY <1>1, <2>2, TailsTyped, ConfirmedExtends
  <2> DEFINE p == pending(at)
             c == confirmed(at)
  <2>6. Extends(x, p) /\ Extends(x, c)
    BY <2>4, <2>5
  <2>7. stored' \in {stored, [stored EXCEPT ![f] = p], [stored EXCEPT ![f] = c]}
    BY <2>1
  <2> HIDE DEF p, c
  <2> QED BY <2>6, <2>7, OneRecordKeeps
<1> QED BY <1>2, <1>3, <1>4 DEF Cancel

LEMMA StepKeeps ==
  ASSUME Good, [Next]_vars, NEW e \in Execution
  PROVE  Extends(stored[e], stored'[e])
<1>1. \A f \in Execution : stored[f] \in ExecutionState /\ Extends(stored[f], stored[f])
  BY DEF Good, GoodShape, Extends
<1>2. ASSUME NEW f \in Execution, NEW d \in Deadline, Submit(f, d)
      PROVE  Extends(stored[e], stored'[e])
  <2>1. stored[f].evidence = <<>>
    BY <1>2 DEF Good, GoodExecutions, GoodExecution, Submit, Absent
  <2>2. \A y : Extends(stored[f], y)
    BY <2>1 DEF Extends
  <2>3. \E y : stored' \in {stored, [stored EXCEPT ![f] = y]}
    BY <1>2 DEF Submit, Saved, SaveRaised
  <2> QED BY <2>2, <2>3, OneRecordKeeps
<1>3. ASSUME NEW f \in Execution, Continue(f)
      PROVE  Extends(stored[e], stored'[e])
  <2> DEFINE x == stored[f]
             cancelled == StateFromResult(x, "continued", x.deadline,
                            CancelledResult(ExceptionResult),
                            x.cancellation.requested_at)
             late      == StateFromResult(x, "continued", x.deadline,
                            DeadlineResult, NoTime)
             running   == [x EXCEPT !.lifecycle = "running", !.status = "running",
                                    !.phase = "continued"]
  <2>1. Extends(x, cancelled) /\ Extends(x, late)
    BY <1>1, ResultsTyped, StateExtends
  <2>2. Extends(x, running)
    BY <1>1 DEF ExecutionState, Extends
  <2>3. stored' \in {stored, [stored EXCEPT ![f] = cancelled],
                     [stored EXCEPT ![f] = late], [stored EXCEPT ![f] = running]}
    BY <1>3 DEF Continue, Saved, SaveRaised
  <2> HIDE DEF cancelled, late, running
  <2> QED BY <2>1, <2>2, <2>3, OneRecordKeeps
<1>4. ASSUME NEW run \in runs, NEW result \in Result, Return(run, result)
      PROVE  Extends(stored[e], stored'[e])
  <2> DEFINE final == Controlled(result, ControlCause(tokens[run.token], run.deadline))
  <2>1. final \in WorkerResult
    BY ConstantsAssumption, ControlCases, ResultsTyped
  <2>2. Conclude(run, final, stored[run.execution])
    BY <1>4 DEF Return
  <2> HIDE DEF final
  <2> QED BY <2>1, <2>2, ConcludeKeeps
<1>5. ASSUME NEW run \in runs, Raise(run)
      PROVE  Extends(stored[e], stored'[e])
  <2> DEFINE control == ControlCause(tokens[run.token], run.deadline)
             final == Controlled(ExceptionResult, control)
             prior == IF control = "none" THEN run.prior ELSE stored[run.execution]
  <2>1. final \in WorkerResult
    BY ControlCases, ResultsTyped
  <2>2. Conclude(run, final, prior)
    BY <1>5 DEF Raise
  <2>3. prior \in {run.prior, stored[run.execution]}
    OBVIOUS
  <2> HIDE DEF final
  <2> QED BY <2>1, <2>2, <2>3, ConcludeKeeps
<1>6. ASSUME NEW f \in Execution, Cancel(f)
      PROVE  Extends(stored[e], stored'[e])
  BY <1>6, CancelKeeps
<1>7. ASSUME NEW f \in Execution, RecordEvaluation(f)
      PROVE  Extends(stored[e], stored'[e])
  <2> DEFINE x == stored[f]
             y == [x EXCEPT !.evaluations = Append(x.evaluations, ResultReference(x))]
  <2>1. Extends(x, y)
    BY <1>1 DEF ExecutionState, Extends
  <2>2. stored' \in {stored, [stored EXCEPT ![f] = y]}
    BY <1>7 DEF RecordEvaluation, Saved, SaveRaised
  <2> HIDE DEF y
  <2> QED BY <2>1, <2>2, OneRecordKeeps
<1>8. CASE UNCHANGED stored
  BY <1>1, <1>8
<1> QED
  BY <1>2, <1>3, <1>4, <1>5, <1>6, <1>7, <1>8 DEF Next, Crash, Tick, vars

\* Evidence is only ever added to, also by a phase that works from the
\* snapshot it started from.
THEOREM EvidenceKept == Spec => EvidenceOnlyGrows
<1>1. IInv /\ [Next]_vars
        => \A e \in Execution : Extends(stored[e], stored'[e])
  BY GoodIsIInv, StepKeeps
<1> QED BY <1>1, Invariance, PTL DEF Spec, EvidenceOnlyGrows

\* Only an evaluation reaches a record that is completed.
LEMMA StepEnds ==
  ASSUME Good, [Next]_vars, NEW e \in Execution,
         stored[e].lifecycle = "completed"
  PROVE  stored'[e] = [stored[e] EXCEPT !.evaluations = stored'[e].evaluations]
<1>1. stored[e] \in ExecutionState
  BY DEF Good, GoodShape
<1>2. stored[e] = [stored[e] EXCEPT !.evaluations = stored[e].evaluations]
  BY <1>1 DEF ExecutionState
<1>3. ASSUME NEW f \in Execution, f # e, NEW x,
             stored' \in {stored, [stored EXCEPT ![f] = x]}
      PROVE  stored'[e] = stored[e]
  BY <1>3 DEF Good, GoodShape
<1>4. ASSUME NEW f \in Execution, NEW d \in Deadline, Submit(f, d)
      PROVE  stored'[e] = stored[e]
  <2>1. f # e
    BY <1>4 DEF Submit
  <2>2. \E x : stored' \in {stored, [stored EXCEPT ![f] = x]}
    BY <1>4 DEF Submit, Saved, SaveRaised
  <2> QED BY <1>3, <2>1, <2>2
<1>5. ASSUME NEW f \in Execution, Continue(f)
      PROVE  stored'[e] = stored[e]
  <2>1. f # e
    BY <1>5 DEF Continue
  <2>2. \E x : stored' \in {stored, [stored EXCEPT ![f] = x]}
    BY <1>5 DEF Continue, Saved, SaveRaised
  <2> QED BY <1>3, <2>1, <2>2
<1>6. ASSUME NEW run \in runs, NEW result, NEW prior, Conclude(run, result, prior)
      PROVE  stored'[e] = stored[e]
  <2>1. run.execution \in Execution /\ run.execution # e
    BY DEF Good, GoodRuns, GoodRun, Run
  <2>2. \E x : stored' \in {stored, [stored EXCEPT ![run.execution] = x]}
    BY <1>6 DEF Conclude, Saved, SaveRaised
  <2> QED BY <1>3, <2>1, <2>2
<1>7. ASSUME NEW f \in Execution, Cancel(f)
      PROVE  stored'[e] = stored[e]
  <2>1. f # e
    BY <1>7 DEF Cancel
  <2>2. \E x : stored' \in {stored, [stored EXCEPT ![f] = x]}
    BY <1>7 DEF Cancel, CancelTooLate, CancelAgain, CancelFirst, Saved, SaveRaised
  <2> QED BY <1>3, <2>1, <2>2
<1>8. ASSUME NEW f \in Execution, RecordEvaluation(f)
      PROVE  stored'[e] = [stored[e] EXCEPT !.evaluations = stored'[e].evaluations]
  <2> DEFINE evaluations == Append(stored[f].evaluations, ResultReference(stored[f]))
             y           == [stored[f] EXCEPT !.evaluations = evaluations]
  <2>1. stored' \in {stored, [stored EXCEPT ![f] = y]}
    BY <1>8 DEF RecordEvaluation, Saved, SaveRaised
  <2> HIDE DEF evaluations
  <2>2. stored'[e] = stored[e] \/ (e = f /\ stored'[e] = y)
    <3> HIDE DEF y
    <3> QED BY <2>1 DEF Good, GoodShape
  <2>3. e = f => y = [stored[e] EXCEPT !.evaluations = y.evaluations]
    BY <1>1 DEF ExecutionState
  <2> QED BY <1>2, <2>2, <2>3
<1>9. CASE UNCHANGED stored
  BY <1>2, <1>9
<1> QED
  BY <1>2, <1>4, <1>5, <1>6, <1>7, <1>8, <1>9
     DEF Next, Return, Raise, Crash, Tick, vars

\* A completed execution is never changed again, but for its evaluations.
THEOREM TerminalFinal == Spec => TerminalIsFinal
<1>1. IInv /\ [Next]_vars
        => \A e \in Execution :
             stored[e].lifecycle = "completed" =>
               stored'[e] = [stored[e] EXCEPT !.evaluations = stored'[e].evaluations]
  BY GoodIsIInv, StepEnds
<1> QED BY <1>1, Invariance, PTL DEF Spec, TerminalIsFinal

\* The end of a phase is a success only when the deadline has not passed.
LEMMA ConcludeInTime ==
  ASSUME Good, NEW run \in runs, NEW result \in WorkerResult,
         NEW prior \in {run.prior, stored[run.execution]},
         LET control == ControlCause(tokens[run.token], run.deadline) IN
         Conclude(run, Controlled(result, control), prior),
         NEW e \in Execution,
         stored'[e].lifecycle = "completed", stored'[e].status = "success",
         stored[e].lifecycle # "completed"
  PROVE  ~Expired(asked'[e], now)
<1> DEFINE f       == run.execution
           control == ControlCause(tokens[run.token], run.deadline)
           final   == Controlled(result, control)
           next    == StateFromResult(prior, run.phase, run.deadline, final,
                        IF control = "cancelled" THEN tokens[run.token] ELSE NoTime)
<1>1. /\ f \in Execution /\ stored[f].lifecycle = "running"
      /\ run.deadline = stored[f].deadline
  BY DEF Good, GoodRuns, GoodRun, Run
<1>2. stored[f].deadline = asked[f] /\ asked' = asked
  BY <1>1 DEF Good, GoodExecutions, GoodExecution, Conclude
<1>3. stored' \in {stored, [stored EXCEPT ![f] = next]}
  BY DEF Conclude, Saved, SaveRaised
<1>4. next.status = final.status
  BY DEF StateFromResult
<1>5. e = f /\ stored'[e] = next
  <2> HIDE DEF next
  <2>1. stored'[e] = stored[e] \/ (e = f /\ stored'[e] = next)
    BY <1>1, <1>3 DEF Good, GoodShape
  <2>2. stored'[e] # stored[e]
    OBVIOUS
  <2> QED BY <2>1, <2>2
<1>6. final.status = "success"
  <2> HIDE DEF next, final
  <2> QED BY <1>4, <1>5
<1>7. control # "deadline_exceeded"
  BY <1>6 DEF Controlled, DeadlineResult
<1>8. control # "cancelled"
  <2>1. CancelledResult(result).status # "success"
    BY DEF CancelledResult, WorkerResult
  <2> QED BY <1>6, <2>1 DEF Controlled
<1>9. tokens[run.token] = NoTime /\ ~Expired(run.deadline, now)
  BY <1>7, <1>8, ControlCases
<1> QED BY <1>1, <1>2, <1>5, <1>9

LEMMA StepInTime ==
  ASSUME Good, [Next]_vars, NEW e \in Execution,
         stored'[e].lifecycle = "completed", stored'[e].status = "success",
         stored[e].lifecycle # "completed"
  PROVE  ~Expired(asked'[e], now)
<1>1. ASSUME NEW f \in Execution, NEW x,
             x.lifecycle # "completed" \/ x.status # "success" \/ x.lifecycle = stored[f].lifecycle,
             stored' \in {stored, [stored EXCEPT ![f] = x]}
      PROVE  FALSE
  <2>1. stored'[e] = stored[e] \/ (e = f /\ stored'[e] = x)
    BY <1>1 DEF Good, GoodShape
  <2> QED BY <1>1, <2>1
<1>2. \A x, phase, d, at :
        StateFromResult(x, phase, d, DeadlineResult, at).status # "success"
  BY DEF StateFromResult, DeadlineResult
<1>3. ASSUME NEW f \in Execution, NEW d \in Deadline, Submit(f, d)
      PROVE  FALSE
  <2> DEFINE ended   == StateFromResult(Absent, "initial", d, DeadlineResult, NoTime)
             running == [Absent EXCEPT !.lifecycle = "running",
                                       !.status = "running", !.deadline = d]
  <2>1. stored' \in {stored, [stored EXCEPT ![f] = ended],
                     [stored EXCEPT ![f] = running]}
    BY <1>3 DEF Submit, Saved, SaveRaised
  <2>2. ended.status # "success"
    BY <1>2
  <2>3. running.status # "success"
    BY DEF Absent
  <2> HIDE DEF ended, running
  <2> QED BY <1>1, <2>1, <2>2, <2>3
<1>4. ASSUME NEW f \in Execution, Continue(f)
      PROVE  FALSE
  <2> DEFINE x == stored[f]
             cancelled == StateFromResult(x, "continued", x.deadline,
                            CancelledResult(ExceptionResult),
                            x.cancellation.requested_at)
             late      == StateFromResult(x, "continued", x.deadline,
                            DeadlineResult, NoTime)
             running   == [x EXCEPT !.lifecycle = "running", !.status = "running",
                                    !.phase = "continued"]
  <2>1. stored' \in {stored, [stored EXCEPT ![f] = cancelled],
                     [stored EXCEPT ![f] = late], [stored EXCEPT ![f] = running]}
    BY <1>4 DEF Continue, Saved, SaveRaised
  <2>2. cancelled.status # "success"
    BY DEF StateFromResult, CancelledResult, ExceptionResult
  <2>3. late.status # "success"
    BY <1>2
  <2>4. running.status # "success"
    BY DEF Good, GoodShape, ExecutionState
  <2> HIDE DEF cancelled, late, running
  <2> QED BY <1>1, <2>1, <2>2, <2>3, <2>4
<1>5. ASSUME NEW run \in runs, NEW result \in Result, Return(run, result)
      PROVE  ~Expired(asked'[e], now)
  <2>1. result \in WorkerResult
    BY ConstantsAssumption
  <2> QED BY <1>5, <2>1, ConcludeInTime DEF Return
<1>6. ASSUME NEW run \in runs, Raise(run)
      PROVE  ~Expired(asked'[e], now)
  <2> DEFINE control == ControlCause(tokens[run.token], run.deadline)
             prior == IF control = "none" THEN run.prior ELSE stored[run.execution]
  <2>1. Conclude(run, Controlled(ExceptionResult, control), prior)
    BY <1>6 DEF Raise
  <2>2. prior \in {run.prior, stored[run.execution]}
    OBVIOUS
  <2> HIDE DEF prior
  <2> QED BY <2>1, <2>2, ResultsTyped, ConcludeInTime
<1>7. ASSUME NEW f \in Execution, Cancel(f)
      PROVE  FALSE
  <2> DEFINE x == stored[f]
  <2>1. x \in ExecutionState
    BY DEF Good, GoodShape
  <2>2. CASE CancelTooLate(f)
    <3> DEFINE told  == [x EXCEPT !.cause = "deadline_exceeded",
                                  !.evidence = Append(@, "deadline-exceeded")]
               ended == StateFromResult(x, x.phase, x.deadline, DeadlineResult, NoTime)
    <3>1. stored' \in {stored, [stored EXCEPT ![f] = told],
                       [stored EXCEPT ![f] = ended]}
      BY <2>2 DEF CancelTooLate, Saved, SaveRaised
    <3>2. told.lifecycle = x.lifecycle
      BY <2>1 DEF ExecutionState
    <3>3. ended.status # "success"
      BY <1>2
    <3> HIDE DEF told, ended
    <3> QED BY <1>1, <3>1, <3>2, <3>3
  <2>3. ASSUME NEW at, NEW tail
        PROVE  CancelConfirmed(x, at, tail).status # "success"
    BY <2>1 DEF CancelConfirmed, ExecutionState
  <2>4. CASE CancelAgain(f)
    <3> DEFINE y == CancelConfirmed(x, x.cancellation.requested_at,
                                    <<"cancellation-confirmed">>)
    <3>1. stored' \in {stored, [stored EXCEPT ![f] = y]}
      BY <2>4 DEF CancelAgain, Saved, SaveRaised
    <3>2. y.status # "success"
      BY <2>3
    <3> HIDE DEF y
    <3> QED BY <1>1, <3>1, <3>2
  <2>5. CASE CancelFirst(f)
    <3> DEFINE p(at) == [x EXCEPT
                           !.cancellation = [requested_at |-> at, pending |-> TRUE],
                           !.evidence = Append(@, "cancellation-requested")]
               c(at) == CancelConfirmed(x, at, <<"cancellation-requested",
                                                 "cancellation-confirmed">>)
    <3>1. PICK at : stored' \in {stored, [stored EXCEPT ![f] = p(at)],
                                 [stored EXCEPT ![f] = c(at)]}
      BY <2>5 DEF CancelFirst, Saved, SaveRaised
    <3> DEFINE y == p(at)
               z == c(at)
    <3>2. y.lifecycle = x.lifecycle
      BY <2>1 DEF ExecutionState
    <3>3. z.status # "success"
      BY <2>3
    <3>4. stored' \in {stored, [stored EXCEPT ![f] = y], [stored EXCEPT ![f] = z]}
      BY <3>1
    <3> HIDE DEF y, z
    <3> QED BY <1>1, <3>2, <3>3, <3>4
  <2> QED BY <1>7, <2>2, <2>4, <2>5 DEF Cancel
<1>8. ASSUME NEW f \in Execution, RecordEvaluation(f)
      PROVE  FALSE
  <2> DEFINE x == stored[f]
             y == [x EXCEPT !.evaluations = Append(@, ResultReference(x))]
  <2>1. stored' \in {stored, [stored EXCEPT ![f] = y]}
    BY <1>8 DEF RecordEvaluation, Saved, SaveRaised
  <2>2. y.lifecycle = x.lifecycle
    BY DEF Good, GoodShape, ExecutionState
  <2> HIDE DEF y
  <2> QED BY <1>1, <2>1, <2>2
<1>9. ~UNCHANGED stored
  OBVIOUS
<1> QED
  BY <1>3, <1>4, <1>5, <1>6, <1>7, <1>8, <1>9 DEF Next, Crash, Tick, vars

\* No execution finishes successfully after the deadline it was submitted
\* with, in whichever phase.
THEOREM DeadlineHolds == Spec => DeadlineBinds
<1>1. IInv /\ [Next]_vars
        => \A e \in Execution :
             /\ stored'[e].lifecycle = "completed" /\ stored'[e].status = "success"
             /\ stored[e].lifecycle # "completed"
             => ~Expired(asked'[e], now)
  BY GoodIsIInv, StepInTime
<1> QED BY <1>1, Invariance, PTL DEF Spec, DeadlineBinds

-----------------------------------------------------------------------------
(* Confirmed cancellations, where no result asks to be continued.          *)

\* A confirmed cancellation on the record x has ended the execution.
ConfirmedEnds(x) ==
  x.cancellation # NoCancellation /\ ~x.cancellation.pending
    => x.lifecycle = "completed"

\* No Worker reports continuation_pending.
NothingPending == \A r \in Result : ~r.pending

\* What _state_from_result makes of a result that is not to be continued.
LEMMA StateCompleted ==
  ASSUME NEW prior, NEW phase, NEW deadline, NEW result, NEW at, ~result.pending
  PROVE  ConfirmedEnds(StateFromResult(prior, phase, deadline, result, at))
BY DEF StateFromResult, ConfirmedEnds

LEMMA StepConfirms ==
  ASSUME Good, NothingPending, ConfirmedCancellationIsTerminal, [Next]_vars
  PROVE  ConfirmedCancellationIsTerminal'
<1> SUFFICES ASSUME NEW e \in Execution PROVE ConfirmedEnds(stored'[e])
  BY DEF ConfirmedCancellationIsTerminal, ConfirmedEnds
<1>1. /\ stored \in [Execution -> ExecutionState]
      /\ \A f \in Execution : ConfirmedEnds(stored[f])
  BY DEF ConfirmedCancellationIsTerminal, ConfirmedEnds, Good, GoodShape
<1>2. ASSUME NEW f \in Execution, NEW x, ConfirmedEnds(x),
             stored' \in {stored, [stored EXCEPT ![f] = x]}
      PROVE  ConfirmedEnds(stored'[e])
  BY <1>1, <1>2
<1>3. /\ ~DeadlineResult.pending /\ ~ExceptionResult.pending
      /\ ~CancelledResult(ExceptionResult).pending
      /\ \A r \in WorkerResult : \A c \in {"none", "cancelled", "deadline_exceeded"} :
           ~r.pending => ~Controlled(r, c).pending
  BY DEF DeadlineResult, ExceptionResult, CancelledResult, Controlled, WorkerResult
<1>4. ASSUME NEW f \in Execution, NEW d \in Deadline, Submit(f, d)
      PROVE  ConfirmedEnds(stored'[e])
  <2> DEFINE ended   == StateFromResult(Absent, "initial", d, DeadlineResult, NoTime)
             running == [Absent EXCEPT !.lifecycle = "running",
                                       !.status = "running", !.deadline = d]
  <2>1. ConfirmedEnds(ended) /\ ConfirmedEnds(running)
    <3>1. ConfirmedEnds(running)
      BY DEF ConfirmedEnds, Absent
    <3> QED BY <1>3, <3>1, StateCompleted
  <2>2. stored' \in {stored, [stored EXCEPT ![f] = ended],
                     [stored EXCEPT ![f] = running]}
    BY <1>4 DEF Submit, Saved, SaveRaised
  <2> HIDE DEF ended, running
  <2> QED BY <1>2, <2>1, <2>2
<1>5. ASSUME NEW f \in Execution, Continue(f)
      PROVE  ConfirmedEnds(stored'[e])
  <2> DEFINE x == stored[f]
             cancelled == StateFromResult(x, "continued", x.deadline,
                            CancelledResult(ExceptionResult),
                            x.cancellation.requested_at)
             late      == StateFromResult(x, "continued", x.deadline,
                            DeadlineResult, NoTime)
             running   == [x EXCEPT !.lifecycle = "running", !.status = "running",
                                    !.phase = "continued"]
  <2>1. ConfirmedEnds(cancelled) /\ ConfirmedEnds(late)
    BY <1>3, StateCompleted
  <2>2. x.cancellation = NoCancellation => ConfirmedEnds(running)
    BY <1>1 DEF ConfirmedEnds, ExecutionState
  <2>3. \/ stored' \in {stored, [stored EXCEPT ![f] = cancelled],
                        [stored EXCEPT ![f] = late]}
        \/ /\ x.cancellation = NoCancellation
           /\ stored' \in {stored, [stored EXCEPT ![f] = running]}
    BY <1>5 DEF Continue, Saved, SaveRaised
  <2> HIDE DEF cancelled, late, running
  <2> QED BY <1>2, <2>1, <2>2, <2>3
<1>6. ASSUME NEW run \in runs, NEW result, ~result.pending, NEW prior,
             Conclude(run, result, prior)
      PROVE  ConfirmedEnds(stored'[e])
  <2> DEFINE control == ControlCause(tokens[run.token], run.deadline)
             next    == StateFromResult(prior, run.phase, run.deadline, result,
                          IF control = "cancelled" THEN tokens[run.token] ELSE NoTime)
  <2>1. ConfirmedEnds(next)
    BY <1>6, StateCompleted
  <2>2. stored' \in {stored, [stored EXCEPT ![run.execution] = next]}
    BY <1>6 DEF Conclude, Saved, SaveRaised
  <2>3. run.execution \in Execution
    BY DEF Good, GoodRuns, GoodRun, Run
  <2> HIDE DEF next
  <2> QED BY <1>2, <2>1, <2>2, <2>3
<1>7. ASSUME NEW run \in runs, NEW result \in Result, Return(run, result)
      PROVE  ConfirmedEnds(stored'[e])
  <2>1. result \in WorkerResult /\ ~result.pending
    BY ConstantsAssumption DEF NothingPending
  <2> QED BY <1>3, <1>6, <1>7, <2>1, ControlCases DEF Return
<1>8. ASSUME NEW run \in runs, Raise(run)
      PROVE  ConfirmedEnds(stored'[e])
  BY <1>3, <1>6, <1>8, ResultsTyped, ControlCases DEF Raise
<1>9. ASSUME NEW f \in Execution, Cancel(f)
      PROVE  ConfirmedEnds(stored'[e])
  <2> DEFINE x == stored[f]
  <2>1. x \in ExecutionState /\ ConfirmedEnds(x)
    BY <1>1
  <2>2. CASE CancelTooLate(f)
    <3> DEFINE told  == [x EXCEPT !.cause = "deadline_exceeded",
                                  !.evidence = Append(@, "deadline-exceeded")]
               ended == StateFromResult(x, x.phase, x.deadline, DeadlineResult, NoTime)
    <3>1. stored' \in {stored, [stored EXCEPT ![f] = told],
                       [stored EXCEPT ![f] = ended]}
      BY <2>2 DEF CancelTooLate, Saved, SaveRaised
    <3>2. ConfirmedEnds(told)
      BY <2>1 DEF ConfirmedEnds, ExecutionState
    <3>3. ConfirmedEnds(ended)
      BY <1>3, StateCompleted
    <3> HIDE DEF told, ended
    <3> QED BY <1>2, <3>1, <3>2, <3>3
  <2>3. ASSUME NEW at, NEW tail
        PROVE  ConfirmedEnds(CancelConfirmed(x, at, tail))
    BY <2>1 DEF CancelConfirmed, ConfirmedEnds, ExecutionState
  <2>4. CASE CancelAgain(f)
    <3> DEFINE y == CancelConfirmed(x, x.cancellation.requested_at,
                                    <<"cancellation-confirmed">>)
    <3>1. stored' \in {stored, [stored EXCEPT ![f] = y]}
      BY <2>4 DEF CancelAgain, Saved, SaveRaised
    <3>2. ConfirmedEnds(y)
      BY <2>3
    <3> HIDE DEF y
    <3> QED BY <1>2, <3>1, <3>2
  <2>5. CASE CancelFirst(f)
    <3> DEFINE p(at) == [x EXCEPT
                           !.cancellation = [requested_at |-> at, pending |-> TRUE],
                           !.evidence = Append(@, "cancellation-requested")]
               c(at) == CancelConfirmed(x, at, <<"cancellation-requested",
                                                 "cancellation-confirmed">>)
    <3>1. PICK at : stored' \in {stored, [stored EXCEPT ![f] = p(at)],
                                 [stored EXCEPT ![f] = c(at)]}
      BY <2>5 DEF CancelFirst, Saved, SaveRaised
    <3> DEFINE y == p(at)
               z == c(at)
    <3>2. ConfirmedEnds(y)
      BY <2>1 DEF ConfirmedEnds, ExecutionState
    <3>3. ConfirmedEnds(z)
      BY <2>3
    <3>4. stored' \in {stored, [stored EXCEPT ![f] = y], [stored EXCEPT ![f] = z]}
      BY <3>1
    <3> HIDE DEF y, z
    <3> QED BY <1>2, <3>2, <3>3, <3>4
  <2> QED BY <1>9, <2>2, <2>4, <2>5 DEF Cancel
<1>10. ASSUME NEW f \in Execution, RecordEvaluation(f)
      PROVE  ConfirmedEnds(stored'[e])
  <2> DEFINE x == stored[f]
             y == [x EXCEPT !.evaluations = Append(@, ResultReference(x))]
  <2>1. stored' \in {stored, [stored EXCEPT ![f] = y]}
    BY <1>10 DEF RecordEvaluation, Saved, SaveRaised
  <2>2. ConfirmedEnds(y)
    BY <1>1 DEF ConfirmedEnds, ExecutionState
  <2> HIDE DEF y
  <2> QED BY <1>2, <2>1, <2>2
<1>11. CASE UNCHANGED stored
  BY <1>1, <1>11
<1> QED
  BY <1>4, <1>5, <1>7, <1>8, <1>9, <1>10, <1>11 DEF Next, Crash, Tick, vars

\* A confirmed cancellation is terminal as long as no Worker leaves work to be
\* continued: a result that was replaced because of the cancellation, but still
\* says continuation_pending, is all that leaves one interrupted.
THEOREM ConfirmedTerminal ==
  ASSUME NothingPending
  PROVE  Spec => []ConfirmedCancellationIsTerminal
<1>1. Init => ConfirmedCancellationIsTerminal
  BY DEF Init, Absent, ConfirmedCancellationIsTerminal
<1>2. IInv /\ ConfirmedCancellationIsTerminal /\ [Next]_vars
        => ConfirmedCancellationIsTerminal'
  BY GoodIsIInv, StepConfirms
<1> QED BY <1>1, <1>2, Invariance, PTL DEF Spec

-----------------------------------------------------------------------------
(* The first recorded control, where a cancellation sees one time.         *)

\* cancel_execution records the request and cancels the token at one instant.
CancelsAtOnce == [][\A e \in Execution : Cancel(e) => now' = now]_vars

\* A deadline failure on the record x was not preceded by the request on it.
FirstWins(x) ==
  x.lifecycle = "completed" /\ x.status = "failed"
    /\ x.cause = "deadline_exceeded" /\ x.cancellation # NoCancellation
    => Expired(x.deadline, x.cancellation.requested_at)

TokensPast ==
  \A i \in DOMAIN tokens : tokens[i] # NoTime => tokens[i] <= now

\* The token of a phase was cancelled no later than the request on record.
TokenComesFirst ==
  \A run \in runs :
    stored[run.execution].cancellation # NoCancellation =>
      tokens[run.token] <= stored[run.execution].cancellation.requested_at

\* With the token no later than the record, the end of a phase names the first.
LEMMA ConcludeNamesFirst ==
  ASSUME Good, TokenComesFirst, NEW run \in runs, NEW result \in WorkerResult,
         NEW prior \in {run.prior, stored[run.execution]},
         ControlCause(tokens[run.token], run.deadline) # "none" =>
           prior = stored[run.execution]
  PROVE  LET control == ControlCause(tokens[run.token], run.deadline) IN
         FirstWins(StateFromResult(prior, run.phase, run.deadline,
                     Controlled(result, control),
                     IF control = "cancelled" THEN tokens[run.token] ELSE NoTime))
<1> DEFINE x       == stored[run.execution]
           control == ControlCause(tokens[run.token], run.deadline)
<1>1. /\ x \in ExecutionState
      /\ run.deadline = x.deadline
      /\ x.cancellation # NoCancellation =>
           /\ tokens[run.token] # NoTime
           /\ tokens[run.token] <= x.cancellation.requested_at
      /\ run.prior.cancellation = NoCancellation
  BY DEF Good, GoodShape, GoodRuns, GoodRun, Run, TokenComesFirst
<1>2. CASE control = "cancelled"
  BY <1>2 DEF Controlled, CancelledResult, StateFromResult, FirstWins, WorkerResult
<1>3. CASE control = "none"
  <2>1. prior.cancellation = NoCancellation
    BY <1>1, <1>3, ControlCases
  <2> QED BY <1>3, <2>1 DEF StateFromResult, FirstWins
<1>4. CASE control = "deadline_exceeded"
  <2>1. x.cancellation # NoCancellation =>
          Expired(x.deadline, x.cancellation.requested_at)
    <3> SUFFICES ASSUME x.cancellation # NoCancellation
                 PROVE  Expired(x.deadline, x.cancellation.requested_at)
      OBVIOUS
    <3>1. /\ Expired(run.deadline, tokens[run.token])
          /\ tokens[run.token] \in Nat
      <4>1. tokens[run.token] \in Nat \cup {NoTime}
        <5>1. tokens \in Seq(Nat \cup {NoTime}) /\ run.token \in DOMAIN tokens
          BY DEF Good, GoodTokens, GoodRuns, GoodRun
        <5> QED BY <5>1
      <4>2. tokens[run.token] # NoTime
        BY <1>1
      <4>3. Expired(run.deadline, tokens[run.token])
        BY <1>4, <4>2 DEF ControlCause
      <4> QED BY <4>1, <4>2, <4>3
    <3>2. /\ x.cancellation.requested_at \in Nat
          /\ x.deadline \in Nat \cup {NoDeadline}
      BY <1>1 DEF ExecutionState, Cancellation
    <3> QED BY <1>1, <3>1, <3>2 DEF Expired
  <2> DEFINE next == StateFromResult(x, run.phase, run.deadline,
                                     Controlled(result, control), NoTime)
  <2>2. next.deadline = x.deadline /\ next.cancellation = x.cancellation
    BY <1>1 DEF StateFromResult
  <2>3. FirstWins(next)
    <3> HIDE DEF next, x, control
    <3> QED BY <2>1, <2>2 DEF FirstWins
  <2>4. prior = x
    BY <1>4
  <2> HIDE DEF x
  <2> QED BY <1>4, <2>3, <2>4
<1> QED BY <1>2, <1>3, <1>4, ControlCases

LEMMA StepNamesFirst ==
  ASSUME Good, TokenComesFirst, FirstRecordedControlWins, [Next]_vars
  PROVE  FirstRecordedControlWins'
<1> SUFFICES ASSUME NEW e \in Execution PROVE FirstWins(stored'[e])
  BY DEF FirstRecordedControlWins, FirstWins
<1>1. /\ stored \in [Execution -> ExecutionState]
      /\ \A f \in Execution : FirstWins(stored[f])
  BY DEF FirstRecordedControlWins, FirstWins, Good, GoodShape
<1>2. ASSUME NEW f \in Execution, NEW x, FirstWins(x),
             stored' \in {stored, [stored EXCEPT ![f] = x]}
      PROVE  FirstWins(stored'[e])
  BY <1>1, <1>2
<1>3. ASSUME NEW x, x.lifecycle # "completed"
      PROVE  FirstWins(x)
  BY <1>3 DEF FirstWins
<1>4. ASSUME NEW x, x.status # "failed"
      PROVE  FirstWins(x)
  BY <1>4 DEF FirstWins
<1>5. ASSUME NEW f \in Execution, NEW d \in Deadline, Submit(f, d)
      PROVE  FirstWins(stored'[e])
  <2> DEFINE ended   == StateFromResult(Absent, "initial", d, DeadlineResult, NoTime)
             running == [Absent EXCEPT !.lifecycle = "running",
                                       !.status = "running", !.deadline = d]
  <2>1. FirstWins(ended) /\ FirstWins(running)
    BY DEF FirstWins, StateFromResult, Absent
  <2>2. stored' \in {stored, [stored EXCEPT ![f] = ended],
                     [stored EXCEPT ![f] = running]}
    BY <1>5 DEF Submit, Saved, SaveRaised
  <2> HIDE DEF ended, running
  <2> QED BY <1>2, <2>1, <2>2
<1>6. ASSUME NEW f \in Execution, Continue(f)
      PROVE  FirstWins(stored'[e])
  <2> DEFINE x == stored[f]
             cancelled == StateFromResult(x, "continued", x.deadline,
                            CancelledResult(ExceptionResult),
                            x.cancellation.requested_at)
             late      == StateFromResult(x, "continued", x.deadline,
                            DeadlineResult, NoTime)
             running   == [x EXCEPT !.lifecycle = "running", !.status = "running",
                                    !.phase = "continued"]
  <2>1. FirstWins(cancelled)
    BY DEF FirstWins, StateFromResult, CancelledResult, ExceptionResult
  <2>2. x.cancellation = NoCancellation => FirstWins(late)
    BY DEF FirstWins, StateFromResult
  <2>3. FirstWins(running)
    BY <1>1 DEF FirstWins, ExecutionState
  <2>4. \/ stored' \in {stored, [stored EXCEPT ![f] = cancelled],
                        [stored EXCEPT ![f] = running]}
        \/ /\ x.cancellation = NoCancellation
           /\ stored' \in {stored, [stored EXCEPT ![f] = late]}
    BY <1>6 DEF Continue, Saved, SaveRaised
  <2> HIDE DEF cancelled, late, running
  <2> QED BY <1>2, <2>1, <2>2, <2>3, <2>4
<1>7. ASSUME NEW run \in runs, NEW result \in WorkerResult,
             NEW prior \in {run.prior, stored[run.execution]},
             ControlCause(tokens[run.token], run.deadline) # "none" =>
               prior = stored[run.execution],
             Conclude(run, Controlled(result,
                        ControlCause(tokens[run.token], run.deadline)), prior)
      PROVE  FirstWins(stored'[e])
  <2> DEFINE control == ControlCause(tokens[run.token], run.deadline)
             next    == StateFromResult(prior, run.phase, run.deadline,
                          Controlled(result, control),
                          IF control = "cancelled" THEN tokens[run.token] ELSE NoTime)
  <2>1. FirstWins(next)
    BY <1>7, ConcludeNamesFirst
  <2>2. stored' \in {stored, [stored EXCEPT ![run.execution] = next]}
    BY <1>7 DEF Conclude, Saved, SaveRaised
  <2>3. run.execution \in Execution
    BY DEF Good, GoodRuns, GoodRun, Run
  <2> HIDE DEF next
  <2> QED BY <1>2, <2>1, <2>2, <2>3
<1>8. ASSUME NEW run \in runs, NEW result \in Result, Return(run, result)
      PROVE  FirstWins(stored'[e])
  <2>1. result \in WorkerResult
    BY ConstantsAssumption
  <2> QED BY <1>7, <1>8, <2>1 DEF Return
<1>9. ASSUME NEW run \in runs, Raise(run)
      PROVE  FirstWins(stored'[e])
  <2> DEFINE control == ControlCause(tokens[run.token], run.deadline)
             prior   == IF control = "none" THEN run.prior ELSE stored[run.execution]
  <2>1. prior \in {run.prior, stored[run.execution]}
    OBVIOUS
  <2>2. control # "none" => prior = stored[run.execution]
    OBVIOUS
  <2>3. Conclude(run, Controlled(ExceptionResult, control), prior)
    BY <1>9 DEF Raise
  <2> HIDE DEF prior
  <2> QED BY <1>7, <2>1, <2>2, <2>3, ResultsTyped
<1>10. ASSUME NEW f \in Execution, Cancel(f)
       PROVE  FirstWins(stored'[e])
  <2> DEFINE x == stored[f]
  <2>1. x \in ExecutionState /\ x.lifecycle # "completed"
    BY <1>1, <1>10 DEF Cancel
  <2>2. CASE CancelTooLate(f)
    <3> DEFINE told  == [x EXCEPT !.cause = "deadline_exceeded",
                                  !.evidence = Append(@, "deadline-exceeded")]
               ended == StateFromResult(x, x.phase, x.deadline, DeadlineResult, NoTime)
    <3>1. stored' \in {stored, [stored EXCEPT ![f] = told],
                       [stored EXCEPT ![f] = ended]}
      BY <2>2 DEF CancelTooLate, Saved, SaveRaised
    <3>2. told.lifecycle # "completed"
      BY <2>1 DEF ExecutionState
    <3>3. FirstWins(ended)
      <4>1. ended.deadline = x.deadline /\ ended.cancellation = x.cancellation
        BY DEF StateFromResult
      <4> HIDE DEF ended
      <4> QED BY <2>2, <4>1 DEF FirstWins, CancelTooLate, DeadlineWins
    <3> HIDE DEF told, ended
    <3> QED BY <1>2, <1>3, <3>1, <3>2, <3>3
  <2>3. ASSUME NEW at, NEW tail
        PROVE  FirstWins(CancelConfirmed(x, at, tail))
    BY <2>1 DEF CancelConfirmed, FirstWins, ExecutionState
  <2>4. CASE CancelAgain(f)
    <3> DEFINE y == CancelConfirmed(x, x.cancellation.requested_at,
                                    <<"cancellation-confirmed">>)
    <3>1. stored' \in {stored, [stored EXCEPT ![f] = y]}
      BY <2>4 DEF CancelAgain, Saved, SaveRaised
    <3>2. FirstWins(y)
      BY <2>3
    <3> HIDE DEF y
    <3> QED BY <1>2, <3>1, <3>2
  <2>5. CASE CancelFirst(f)
    <3> DEFINE p(at) == [x EXCEPT
                           !.cancellation = [requested_at |-> at, pending |-> TRUE],
                           !.evidence = Append(@, "cancellation-requested")]
               c(at) == CancelConfirmed(x, at, <<"cancellation-requested",
                                                 "cancellation-confirmed">>)
    <3>1. PICK at : stored' \in {stored, [stored EXCEPT ![f] = p(at)],
                                 [stored EXCEPT ![f] = c(at)]}
      BY <2>5 DEF CancelFirst, Saved, SaveRaised
    <3> DEFINE y == p(at)
               z == c(at)
    <3>2. y.lifecycle # "completed"
      BY <2>1 DEF ExecutionState
    <3>3. FirstWins(z)
      BY <2>3
    <3>4. stored' \in {stored, [stored EXCEPT ![f] = y], [stored EXCEPT ![f] = z]}
      BY <3>1
    <3> HIDE DEF y, z
    <3> QED BY <1>2, <1>3, <3>2, <3>3, <3>4
  <2> QED BY <1>10, <2>2, <2>4, <2>5 DEF Cancel
<1>11. ASSUME NEW f \in Execution, RecordEvaluation(f)
       PROVE  FirstWins(stored'[e])
  <2> DEFINE x == stored[f]
             y == [x EXCEPT !.evaluations = Append(@, ResultReference(x))]
  <2>1. stored' \in {stored, [stored EXCEPT ![f] = y]}
    BY <1>11 DEF RecordEvaluation, Saved, SaveRaised
  <2>2. FirstWins(y)
    BY <1>1 DEF FirstWins, ExecutionState
  <2> HIDE DEF y
  <2> QED BY <1>2, <2>1, <2>2
<1>12. CASE UNCHANGED stored
  BY <1>1, <1>12
<1> QED
  BY <1>5, <1>6, <1>8, <1>9, <1>10, <1>11, <1>12 DEF Next, Crash, Tick, vars

\* Tokens are stamped with the present, and keep the stamp they have.
LEMMA TokensStamped ==
  ASSUME Good, TokensPast, [Next]_vars, \A e \in Execution : Cancel(e) => now' = now
  PROVE  /\ TokensPast'
         /\ ~Crash => \A i \in DOMAIN tokens :
                        i \in DOMAIN tokens' /\ tokens'[i] \in {tokens[i], now}
                        /\ (tokens[i] # NoTime => tokens'[i] = tokens[i])
<1>1. /\ tokens \in Seq(Nat \cup {NoTime}) /\ now \in Nat
      /\ active \in [Execution -> Nat \cup {NoToken}]
      /\ \A e \in Execution : active[e] # NoToken => active[e] \in DOMAIN tokens
  BY DEF Good, GoodShape, GoodTokens
<1>2. CASE UNCHANGED <<tokens, now>>
  BY <1>1, <1>2 DEF TokensPast
<1>3. CASE tokens' = Append(tokens, NoTime) /\ now' = now
  <2>1. /\ DOMAIN tokens' = 1 .. Len(tokens) + 1
        /\ \A i \in DOMAIN tokens : i \in DOMAIN tokens' /\ tokens'[i] = tokens[i]
        /\ tokens'[Len(tokens) + 1] = NoTime
        /\ DOMAIN tokens = 1 .. Len(tokens) /\ Len(tokens) \in Nat
    BY <1>1, <1>3
  <2> QED BY <1>3, <2>1 DEF TokensPast
<1>4. ASSUME NEW i \in DOMAIN tokens, TokenCancelled(i, now), now' = now
      PROVE  /\ TokensPast'
             /\ \A k \in DOMAIN tokens :
                  k \in DOMAIN tokens' /\ tokens'[k] \in {tokens[k], now}
                  /\ (tokens[k] # NoTime => tokens'[k] = tokens[k])
  <2>1. /\ DOMAIN tokens' = DOMAIN tokens
        /\ \A k \in DOMAIN tokens :
             tokens'[k] = IF k = i /\ tokens[i] = NoTime THEN now ELSE tokens[k]
    BY <1>1, <1>4 DEF TokenCancelled
  <2> QED BY <1>1, <1>4, <2>1 DEF TokensPast
<1>5. ASSUME NEW e \in Execution, Cancel(e)
      PROVE  \/ UNCHANGED <<tokens, now>>
             \/ active[e] \in DOMAIN tokens /\ TokenCancelled(active[e], now) /\ now' = now
  BY <1>1, <1>5 DEF Cancel, CancelTooLate, CancelAgain, CancelFirst
<1>6. CASE Tick
  <2>1. tokens' = tokens /\ now' = now + 1
    BY <1>6 DEF Tick
  <2>2. \A i \in DOMAIN tokens : tokens[i] \in Nat \cup {NoTime}
    BY <1>1
  <2> QED BY <1>1, <2>1, <2>2 DEF TokensPast
<1>7. CASE Crash
  BY <1>7 DEF Crash, TokensPast
<1>8. CASE \/ \E e \in Execution, d \in Deadline : Submit(e, d)
           \/ \E e \in Execution : Continue(e)
  BY <1>2, <1>3, <1>8 DEF Submit, Continue, Started, NotStarted
<1>9. CASE \/ \E run \in runs, result \in Result : Return(run, result)
           \/ \E run \in runs : Raise(run)
           \/ \E e \in Execution : RecordEvaluation(e)
           \/ UNCHANGED vars
  BY <1>2, <1>9 DEF Return, Raise, Conclude, RecordEvaluation, vars
<1>10. CASE \E e \in Execution : Cancel(e)
  BY <1>2, <1>4, <1>5, <1>10
<1> QED BY <1>6, <1>7, <1>8, <1>9, <1>10 DEF Next

\* Every request is recorded no earlier than its token is cancelled.
LEMMA TokenComesFirstInv ==
  ASSUME Good, TokensPast, TokenComesFirst, [Next]_vars,
         \A e \in Execution : Cancel(e) => now' = now
  PROVE  TokenComesFirst'
<1> SUFFICES ASSUME NEW run \in runs', stored'[run.execution].cancellation # NoCancellation
             PROVE  tokens'[run.token] <= stored'[run.execution].cancellation.requested_at
  BY DEF TokenComesFirst
<1>1. /\ stored \in [Execution -> ExecutionState]
      /\ tokens \in Seq(Nat \cup {NoTime})
      /\ now \in Nat
      /\ \A s \in runs :
           /\ s.execution \in Execution /\ s.token \in DOMAIN tokens
           /\ stored[s.execution].lifecycle = "running"
           /\ active[s.execution] = s.token
           /\ stored[s.execution].cancellation # NoCancellation =>
                tokens[s.token] # NoTime
  BY DEF Good, GoodShape, GoodTokens, GoodRuns, GoodRun, Run
<1>2. CASE run \in runs /\ ~Crash
             /\ stored'[run.execution].cancellation = stored[run.execution].cancellation
  BY <1>1, <1>2, TokensStamped DEF TokenComesFirst
<1>3. ASSUME NEW e \in Execution, NEW x, run \in runs, ~Crash,
             stored' \in {stored, [stored EXCEPT ![e] = x]},
             run.execution = e => x.cancellation = stored[e].cancellation
      PROVE  tokens'[run.token] <= stored'[run.execution].cancellation.requested_at
  <2>1. stored'[run.execution].cancellation = stored[run.execution].cancellation
    BY <1>1, <1>3
  <2> QED BY <1>2, <1>3, <2>1
<1>4. CASE Crash
  BY <1>4 DEF Crash
<1>5. ASSUME NEW e \in Execution, NEW d \in Deadline, Submit(e, d)
      PROVE  tokens'[run.token] <= stored'[run.execution].cancellation.requested_at
  <2>1. CASE run \in runs
    <3>1. PICK x : stored' \in {stored, [stored EXCEPT ![e] = x]}
      BY <1>5 DEF Submit, Saved, SaveRaised
    <3>2. run.execution # e /\ ~Crash
      BY <1>1, <1>5, <2>1 DEF Submit, Crash, NotStarted, Started
    <3> QED BY <1>3, <2>1, <3>1, <3>2
  <2>2. CASE run \notin runs
    <3>1. /\ run.execution = e
          /\ stored'[e] = [Absent EXCEPT !.lifecycle = "running",
                             !.status = "running", !.deadline = d]
      BY <1>1, <1>5, <2>2 DEF Submit, Started, NotStarted, Saved
    <3> QED BY <3>1 DEF Absent
  <2> QED BY <2>1, <2>2
<1>6. ASSUME NEW e \in Execution, Continue(e)
      PROVE  tokens'[run.token] <= stored'[run.execution].cancellation.requested_at
  <2>1. CASE run \in runs
    <3>1. PICK x : stored' \in {stored, [stored EXCEPT ![e] = x]}
      BY <1>6 DEF Continue, Saved, SaveRaised
    <3>2. run.execution # e /\ ~Crash
      BY <1>1, <1>6, <2>1 DEF Continue, Crash, NotStarted, Started
    <3> QED BY <1>3, <2>1, <3>1, <3>2
  <2>2. CASE run \notin runs
    <3>1. /\ run.execution = e /\ stored[e].cancellation = NoCancellation
          /\ stored'[e] = [stored[e] EXCEPT !.lifecycle = "running",
                             !.status = "running", !.phase = "continued"]
      BY <1>1, <1>6, <2>2 DEF Continue, Started, NotStarted, Saved
    <3> QED BY <1>1, <3>1 DEF ExecutionState
  <2> QED BY <2>1, <2>2
<1>7. ASSUME NEW other \in runs, NEW result, NEW prior, Conclude(other, result, prior)
      PROVE  tokens'[run.token] <= stored'[run.execution].cancellation.requested_at
  <2>1. PICK x : stored' \in {stored, [stored EXCEPT ![other.execution] = x]}
    BY <1>7 DEF Conclude, Saved, SaveRaised
  <2>2. /\ run \in runs /\ run # other
        /\ other.execution \in Execution
        /\ UNCHANGED <<tokens, crashes>> /\ crashes \in Nat
    BY <1>1, <1>7 DEF Conclude, Good, GoodShape
  <2>3. run.execution # other.execution /\ ~Crash
    BY <2>2 DEF Good, GoodRuns, Crash
  <2> QED BY <1>3, <2>1, <2>2, <2>3
<1>8. ASSUME NEW e \in Execution, Cancel(e)
      PROVE  tokens'[run.token] <= stored'[run.execution].cancellation.requested_at
  <2> DEFINE x == stored[e]
  <2>1. /\ run \in runs /\ now' = now /\ x \in ExecutionState
        /\ crashes' = crashes /\ crashes \in Nat
    BY <1>1, <1>8 DEF Cancel, Good, GoodShape
  <2>2. ~Crash
    BY <2>1 DEF Crash
  <2>3. run.execution = e => active[e] = run.token /\ active[e] # NoToken
    BY <1>1, <2>1, ConstantsAssumption
  <2>4. CASE CancelTooLate(e)
    <3>1. \/ \E y : run.execution # e /\ stored' \in {stored, [stored EXCEPT ![e] = y]}
          \/ stored' \in {stored,
               [stored EXCEPT ![e] = [x EXCEPT !.cause = "deadline_exceeded",
                                         !.evidence = Append(@, "deadline-exceeded")]]}
      BY <2>3, <2>4 DEF CancelTooLate, Saved, SaveRaised
    <3>2. [x EXCEPT !.cause = "deadline_exceeded",
                    !.evidence = Append(@, "deadline-exceeded")].cancellation
            = x.cancellation
      BY <2>1 DEF ExecutionState
    <3> QED BY <1>3, <2>1, <2>2, <3>1, <3>2
  <2>5. CASE CancelAgain(e)
    <3>1. \/ \E y : run.execution # e /\ stored' \in {stored, [stored EXCEPT ![e] = y]}
          \/ stored' = stored
      BY <2>3, <2>5 DEF CancelAgain, Saved, SaveRaised
    <3> QED BY <1>3, <2>1, <2>2, <3>1
  <2>6. CASE CancelFirst(e)
    <3>1. CASE run.execution # e
      <4>1. \E y : stored' \in {stored, [stored EXCEPT ![e] = y]}
        BY <2>6 DEF CancelFirst, Saved, SaveRaised
      <4> QED BY <1>3, <2>1, <2>2, <3>1, <4>1
    <3>2. CASE run.execution = e
      <4>1. PICK at \in now .. now' :
              stored' \in {stored, [stored EXCEPT ![e] = [x EXCEPT
                             !.cancellation = [requested_at |-> at, pending |-> TRUE],
                             !.evidence = Append(@, "cancellation-requested")]]}
        BY <2>3, <2>6, <3>2 DEF CancelFirst, Saved, SaveRaised
      <4>2. CASE stored' = stored
        BY <1>2, <2>1, <2>2, <4>2
      <4>3. CASE stored' # stored
        <5>1. stored'[e].cancellation.requested_at = now
          <6>1. at = now
            BY <1>1, <2>1
          <6>2. stored'[e] = [x EXCEPT
                  !.cancellation = [requested_at |-> at, pending |-> TRUE],
                  !.evidence = Append(@, "cancellation-requested")]
            BY <1>1, <4>1, <4>3
          <6> QED BY <2>1, <6>1, <6>2 DEF ExecutionState
        <5>2. tokens'[run.token] # NoTime
          <6>1. run.token \in DOMAIN tokens /\ TokenCancelled(run.token, now')
            BY <1>1, <2>1, <2>3, <2>6, <3>2 DEF CancelFirst
          <6> QED BY <1>1, <2>1, <6>1, ConstantsAssumption DEF TokenCancelled
        <5>3. TokensPast' /\ run.token \in DOMAIN tokens'
          BY <1>1, <2>1, <2>2, TokensStamped
        <5> QED BY <2>1, <3>2, <5>1, <5>2, <5>3 DEF TokensPast
      <4> QED BY <4>2, <4>3
    <3> QED BY <3>1, <3>2
  <2> QED BY <1>8, <2>4, <2>5, <2>6 DEF Cancel
<1>9. ASSUME NEW e \in Execution, RecordEvaluation(e)
      PROVE  tokens'[run.token] <= stored'[run.execution].cancellation.requested_at
  <2>1. PICK x : stored' \in {stored, [stored EXCEPT ![e] = x]}
    BY <1>9 DEF RecordEvaluation, Saved, SaveRaised
  <2>2. run \in runs /\ crashes' = crashes /\ crashes \in Nat
    BY <1>9 DEF RecordEvaluation, Good, GoodShape
  <2>3. run.execution # e /\ ~Crash
    BY <1>1, <1>9, <2>2 DEF RecordEvaluation, Crash
  <2> QED BY <1>3, <2>1, <2>2, <2>3
<1>10. CASE Tick \/ UNCHANGED vars
  <2>1. run \in runs /\ stored' = stored /\ crashes' = crashes /\ crashes \in Nat
    BY <1>10 DEF Tick, vars, Good, GoodShape
  <2>2. ~Crash
    BY <2>1 DEF Crash
  <2> QED BY <1>2, <2>1, <2>2
<1> QED BY <1>4, <1>5, <1>6, <1>7, <1>8, <1>9, <1>10 DEF Next, Return, Raise

\* "Resolve concurrent controls by the first recorded termination instant" is
\* what happens as long as a cancellation is recorded and reaches the token at
\* one instant: the second reading of the clock, in the token, is all that lets a
\* deadline overtake a request on record.  Saves may raise, processes may die.
THEOREM FirstControlTheorem == Spec /\ CancelsAtOnce => []FirstRecordedControlWins
<1> DEFINE I == Good /\ TokensPast /\ TokenComesFirst /\ FirstRecordedControlWins
           A == \A e \in Execution : Cancel(e) => now' = now
<1>1. Init => I
  BY InitGood DEF Init, Absent, TokensPast, TokenComesFirst, FirstRecordedControlWins
<1>2. I /\ [Next]_vars /\ [A]_vars => I'
  <2> SUFFICES ASSUME I, [Next]_vars, [A]_vars PROVE I'
    OBVIOUS
  <2>1. CASE A
    BY <2>1, StepGood, TokensStamped, TokenComesFirstInv, StepNamesFirst
  <2>2. CASE UNCHANGED vars
    <3>1. UNCHANGED <<tokens, now, runs, stored>>
      BY <2>2 DEF vars
    <3> QED BY <3>1, StepGood DEF TokensPast, TokenComesFirst, FirstRecordedControlWins
  <2> QED BY <2>1, <2>2
<1> HIDE DEF I
<1>3. I => FirstRecordedControlWins
  BY DEF I
<1> QED BY <1>1, <1>2, <1>3, PTL DEF Spec, CancelsAtOnce

-----------------------------------------------------------------------------
(* Cooperative cancellation stops the work, if phases do not run for ever. *)

\* A phase of e is under way.
UnderWay(e) == \E run \in runs : run.execution = e

\* WF_vars(Ends(e)), with UnderWay(e) in the place of its ENABLED: a phase
\* that is under way may always raise.
PhaseEnds(e) == <>[]UnderWay(e) => []<><<Ends(e)>>_vars

\* What is recorded as running is running.
RunningIsUnderWay ==
  \A e \in Execution : stored[e].lifecycle = "running" => UnderWay(e)

LEMMA SavesDoNotRaise ==
  ASSUME SaveMayFail = FALSE, NEW e, NEW x
  PROVE  ~SaveRaised(e, x)
BY DEF SaveRaised

\* The end of a phase leaves the execution interrupted or completed.
LEMMA ConcludeStops ==
  ASSUME Good, SaveMayFail = FALSE, NEW run \in runs, NEW result, NEW prior,
         Conclude(run, result, prior)
  PROVE  /\ stored'[run.execution].lifecycle \in {"interrupted", "completed"}
         /\ \A f \in Execution \ {run.execution} : stored'[f] = stored[f]
         /\ runs' = runs \ {run}
<1> DEFINE control == ControlCause(tokens[run.token], run.deadline)
           next    == StateFromResult(prior, run.phase, run.deadline, result,
                        IF control = "cancelled" THEN tokens[run.token] ELSE NoTime)
<1>1. stored' = [stored EXCEPT ![run.execution] = next] /\ runs' = runs \ {run}
  BY SavesDoNotRaise DEF Conclude, Saved
<1>2. next.lifecycle \in {"interrupted", "completed"}
  BY DEF StateFromResult
<1>3. run.execution \in Execution /\ stored \in [Execution -> ExecutionState]
  BY DEF Good, GoodShape, GoodRuns, GoodRun, Run
<1> HIDE DEF next
<1> QED BY <1>1, <1>2, <1>3

LEMMA StepUnderWay ==
  ASSUME Good, SaveMayFail = FALSE, MaxCrashes = 0, RunningIsUnderWay, [Next]_vars
  PROVE  RunningIsUnderWay'
<1> SUFFICES ASSUME NEW e \in Execution, stored'[e].lifecycle = "running"
             PROVE  \E run \in runs' : run.execution = e
  BY DEF RunningIsUnderWay, UnderWay
<1> USE SavesDoNotRaise
<1>1. /\ stored \in [Execution -> ExecutionState]
      /\ stored[e].lifecycle = "running" => \E run \in runs : run.execution = e
  BY DEF Good, GoodShape, RunningIsUnderWay, UnderWay
<1>2. ASSUME NEW f \in Execution, runs \subseteq runs',
             NEW x, stored' \in {stored, [stored EXCEPT ![f] = x]},
             x.lifecycle # "running" \/ x.lifecycle = stored[f].lifecycle
      PROVE  \E run \in runs' : run.execution = e
  BY <1>1, <1>2
<1>3. ASSUME NEW f \in Execution, runs \subseteq runs', NEW x,
             stored' = [stored EXCEPT ![f] = x], \E run \in runs' : run.execution = f
      PROVE  \E run \in runs' : run.execution = e
  BY <1>1, <1>3
<1>4. \A x, phase, deadline, result, at :
        StateFromResult(x, phase, deadline, result, at).lifecycle # "running"
  BY DEF StateFromResult
<1>5. ASSUME NEW f, NEW phase, NEW deadline, NEW prior,
             Started(f, phase, deadline, prior)
      PROVE  runs \subseteq runs' /\ \E run \in runs' : run.execution = f
  <2> DEFINE new == [execution |-> f, token |-> Len(tokens) + 1,
                     phase |-> phase, deadline |-> deadline, prior |-> prior]
  <2>1. runs' = runs \cup {new}
    BY <1>5 DEF Started
  <2>2. new.execution = f
    OBVIOUS
  <2> HIDE DEF new
  <2> QED BY <2>1, <2>2
<1>6. ASSUME NEW f \in Execution, NEW d \in Deadline, Submit(f, d)
      PROVE  \E run \in runs' : run.execution = e
  <2> DEFINE ended   == StateFromResult(Absent, "initial", d, DeadlineResult, NoTime)
             running == [Absent EXCEPT !.lifecycle = "running",
                                       !.status = "running", !.deadline = d]
  <2>1. \/ stored' = [stored EXCEPT ![f] = ended] /\ runs' = runs
        \/ /\ stored' = [stored EXCEPT ![f] = running]
           /\ Started(f, "initial", d, Absent)
    BY <1>6 DEF Submit, Saved, NotStarted
  <2>2. ended.lifecycle # "running"
    BY <1>4
  <2> HIDE DEF ended, running
  <2> QED BY <1>2, <1>3, <1>5, <2>1, <2>2
<1>7. ASSUME NEW f \in Execution, Continue(f)
      PROVE  \E run \in runs' : run.execution = e
  <2> DEFINE x == stored[f]
             cancelled == StateFromResult(x, "continued", x.deadline,
                            CancelledResult(ExceptionResult),
                            x.cancellation.requested_at)
             late      == StateFromResult(x, "continued", x.deadline,
                            DeadlineResult, NoTime)
             running   == [x EXCEPT !.lifecycle = "running", !.status = "running",
                                    !.phase = "continued"]
  <2>1. \/ /\ stored' \in {[stored EXCEPT ![f] = cancelled], [stored EXCEPT ![f] = late]}
           /\ runs' = runs
        \/ /\ stored' = [stored EXCEPT ![f] = running]
           /\ Started(f, "continued", x.deadline, x)
    BY <1>7 DEF Continue, Saved, NotStarted
  <2>2. cancelled.lifecycle # "running" /\ late.lifecycle # "running"
    BY <1>4
  <2> HIDE DEF cancelled, late, running
  <2> QED BY <1>2, <1>3, <1>5, <2>1, <2>2
<1>8. ASSUME NEW run \in runs, NEW result, NEW prior, Conclude(run, result, prior)
      PROVE  \E other \in runs' : other.execution = e
  BY <1>1, <1>8, ConcludeStops
<1>9. ASSUME NEW f \in Execution, Cancel(f)
      PROVE  \E run \in runs' : run.execution = e
  <2> DEFINE x == stored[f]
             told  == [x EXCEPT !.cause = "deadline_exceeded",
                                !.evidence = Append(@, "deadline-exceeded")]
             ended == StateFromResult(x, x.phase, x.deadline, DeadlineResult, NoTime)
             p(at) == [x EXCEPT
                         !.cancellation = [requested_at |-> at, pending |-> TRUE],
                         !.evidence = Append(@, "cancellation-requested")]
  <2>1. runs' = runs /\ x \in ExecutionState
    BY <1>1, <1>9 DEF Cancel
  <2>2. \A at, tail : CancelConfirmed(x, at, tail).lifecycle = "completed"
    BY <2>1 DEF CancelConfirmed, ExecutionState
  <2>3. \A at : p(at).lifecycle = x.lifecycle
    BY <2>1 DEF ExecutionState
  <2>4. told.lifecycle = x.lifecycle /\ ended.lifecycle # "running"
    BY <1>4, <2>1 DEF ExecutionState
  <2>5. \/ stored' \in {stored, [stored EXCEPT ![f] = told], [stored EXCEPT ![f] = ended]}
        \/ \E at, tail : stored' = [stored EXCEPT ![f] = CancelConfirmed(x, at, tail)]
        \/ \E at : stored' = [stored EXCEPT ![f] = p(at)]
    BY <1>9 DEF Cancel, CancelTooLate, CancelAgain, CancelFirst, Saved
  <2> HIDE DEF told, ended, p, x
  <2>6. \E y : /\ stored' \in {stored, [stored EXCEPT ![f] = y]}
               /\ y.lifecycle # "running" \/ y.lifecycle = x.lifecycle
    BY <2>2, <2>3, <2>4, <2>5
  <2> QED BY <1>2, <2>1, <2>6 DEF x
<1>10. ASSUME NEW f \in Execution, RecordEvaluation(f)
      PROVE  \E run \in runs' : run.execution = e
  <2> DEFINE x == stored[f]
             y == [x EXCEPT !.evaluations = Append(@, ResultReference(x))]
  <2>1. stored' \in {stored, [stored EXCEPT ![f] = y]} /\ runs' = runs
    BY <1>10 DEF RecordEvaluation, Saved
  <2>2. y.lifecycle = x.lifecycle
    BY <1>1 DEF ExecutionState
  <2> HIDE DEF y
  <2> QED BY <1>2, <2>1, <2>2
<1>11. ~Crash
  BY DEF Crash, Good, GoodShape
<1>12. CASE UNCHANGED <<stored, runs>>
  BY <1>1, <1>12
<1> QED
  BY <1>6, <1>7, <1>8, <1>9, <1>10, <1>11, <1>12
     DEF Next, Return, Raise, Tick, vars

\* Cancellation of one execution, with the fairness of its phases.
LEMMA CancellationStops ==
  ASSUME SaveMayFail = FALSE, MaxCrashes = 0, NEW e \in Execution
  PROVE  Spec /\ PhaseEnds(e) =>
           (e \in accepted ~> stored[e].lifecycle \in {"interrupted", "completed"})
<1>1. Init => RunningIsUnderWay
  BY DEF Init, Absent, RunningIsUnderWay
<1>2. IInv /\ RunningIsUnderWay /\ [Next]_vars => RunningIsUnderWay'
  BY GoodIsIInv, StepUnderWay
<1>3. IInv /\ RunningIsUnderWay /\ e \in accepted
        => stored[e].lifecycle \in {"interrupted", "completed"} \/ UnderWay(e)
  <2> SUFFICES ASSUME IInv, RunningIsUnderWay, e \in accepted
               PROVE  stored[e].lifecycle \in {"interrupted", "completed", "running"}
    BY DEF RunningIsUnderWay
  <2>1. stored[e] # Absent /\ stored[e].lifecycle \in Lifecycle
    BY DEF IInv, TypeOK, AcceptedIsRecorded, Absent, ExecutionState
  <2> QED BY <2>1 DEF IInv, AbsentIsEmpty, Lifecycle
<1>4. IInv /\ e \in accepted /\ [Next]_vars => (e \in accepted)'
  BY DEF Next, vars, Submit, Continue, Return, Raise, Conclude, Cancel, CancelTooLate,
         CancelAgain, CancelFirst, RecordEvaluation, Crash, Tick
<1>5. IInv /\ <<Ends(e)>>_vars
        => (stored[e].lifecycle \in {"interrupted", "completed"})'
  <2> SUFFICES ASSUME IInv, Ends(e)
               PROVE  stored'[e].lifecycle \in {"interrupted", "completed"}
    OBVIOUS
  <2>1. PICK run \in runs : /\ run.execution = e
                            /\ \E result, prior : Conclude(run, result, prior)
    BY DEF Ends, Raise, Return
  <2> QED BY <2>1, GoodIsIInv, ConcludeStops
<1> QED BY <1>1, <1>2, <1>3, <1>4, <1>5, Invariance, PTL DEF Spec, PhaseEnds

\* Once a caller is told that cancellation is accepted, the execution stops
\* running, for any number of executions, as long as the store saves, the
\* process lives and no phase runs for ever.
THEOREM CancellationTheorem ==
  ASSUME SaveMayFail = FALSE, MaxCrashes = 0
  PROVE  Spec /\ (\A e \in Execution : PhaseEnds(e)) => CancellationStopsWork
<1>1. \A e \in Execution : Spec /\ PhaseEnds(e) =>
        (e \in accepted ~> stored[e].lifecycle \in {"interrupted", "completed"})
  BY CancellationStops
<1> QED BY <1>1 DEF CancellationStopsWork
=============================================================================
