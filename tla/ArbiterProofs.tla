---------------------------- MODULE ArbiterProofs ---------------------------
(***************************************************************************)
(* Proofs about the Arbiter's loop, for every plan, every replan, any      *)
(* limit of retries and any sharing of worker_ids.                         *)
(***************************************************************************)
EXTENDS Arbiter, FiniteSetTheorems, SequenceTheorems, TLAPS

-----------------------------------------------------------------------------
(* The executions of a place.                                              *)

LEMMA ReturnsFinite ==
  ASSUME TypeOK, NEW place
  PROVE  IsFiniteSet(Returns(place)) /\ Cardinality(Returns(place)) \in Nat
<1>1. Len(outputs) \in Nat /\ DOMAIN outputs = 1 .. Len(outputs)
  BY DEF TypeOK
<1>2. IsFiniteSet(1 .. Len(outputs))
  BY <1>1, FS_Interval
<1>3. Returns(place) \subseteq 1 .. Len(outputs)
  BY <1>1 DEF Returns
<1>4. IsFiniteSet(Returns(place))
  BY <1>2, <1>3, FS_Subset
<1> QED BY <1>4, FS_CardinalityType

\* A Worker that returns adds one to the returns of its place, and nothing to
\* its executions.
LEMMA WorkerReturnsCounts ==
  ASSUME TypeOK, NEW output \in Output, WorkerReturns(output), NEW place
  PROVE  Executions(place)' = Executions(place)
<1> DEFINE e == [place |-> index, output |-> output, late |-> signals # <<>>]
           n == Len(outputs) + 1
<1>1. /\ pc = "working" /\ pc' # "working" /\ index' = index
      /\ outputs' = Append(outputs, e)
  BY DEF WorkerReturns, Stops, Returned
<1>2. e \in Entry
  BY DEF TypeOK, Entry
<1>3. /\ DOMAIN outputs' = DOMAIN outputs \cup {n}
      /\ n \notin DOMAIN outputs
      /\ \A i \in DOMAIN outputs : outputs'[i] = outputs[i]
      /\ outputs'[n] = e
  <2> HIDE DEF e
  <2> QED BY <1>1, <1>2 DEF TypeOK
<1>4. Returns(place)' = IF place = index THEN Returns(place) \cup {n} ELSE Returns(place)
  BY <1>3 DEF Returns
<1>5. n \notin Returns(place)
  BY <1>3 DEF Returns
<1>6. place = index => Cardinality(Returns(place)') = Cardinality(Returns(place)) + 1
  BY <1>4, <1>5, ReturnsFinite, FS_AddElement
<1> QED BY <1>1, <1>4, <1>6, ReturnsFinite DEF Executions

\* Nothing else adds to the returns.
LEMMA SameReturns ==
  ASSUME UNCHANGED outputs, NEW place
  PROVE  Returns(place)' = Returns(place)
BY DEF Returns

-----------------------------------------------------------------------------
(* The inductive invariant.                                                *)

\* Where the loop stands: at a place of the queue, and when it judges the last
\* result is the one of that place, and none that ends the execution.
Standing ==
  /\ pc \in {"working", "judging"} => index <= Len(queue)
  /\ pc = "judging" =>
       /\ outputs # <<>>
       /\ outputs[Len(outputs)].place = index

\* What was returned was returned by places up to the present one.
PlacesBehind ==
  \A i \in DOMAIN outputs : outputs[i].place \in 1 .. index

\* The attempts of a worker_id are at least the executions of each place that
\* has a Worker of that worker_id.
AttemptsCover ==
  \A place \in 1 .. Len(queue) :
    place <= index => Executions(place) <= attempts[IdOf[queue[place]]]

\* Before a Worker is started, its place has an execution left, and no result
\* that may not be retried.
Startable ==
  pc = "looking" =>
    /\ Cardinality(Returns(index)) <= MaxRetries
    /\ \A i \in Returns(index) :
         Failing(outputs[i].output.outcome) => outputs[i].output.retryable

Inv ==
  /\ TypeOK
  /\ Standing
  /\ PlacesBehind
  /\ AttemptsCover
  /\ Startable
  /\ EndsAtOnce
  /\ StopsPromptly
  /\ RetriesBounded
  /\ OnlyRetryableRetried
  /\ AnswerSaysWhy
  /\ FailureIsNotMasked

-----------------------------------------------------------------------------
(* Every step keeps the invariant.                                         *)

LEMMA AnswersTyped ==
  /\ Complete \in Answer /\ Failed \in Answer /\ Interrupted \in Answer
  /\ \A control \in Control : Stopped(control) \in Answer
  /\ \A output \in Output : Ends(output) => Ending(output) \in Answer
BY DEF Complete, Failed, Interrupted, Stopped, Ending, Ends, Answered, Answer,
       Outcome, Control, Output

LEMMA ObservesTyped ==
  ASSUME TypeOK, NEW cause, Observes(cause)
  PROVE  signals' \in Seq(Control)
<1>1. CASE UNCHANGED signals
  BY <1>1 DEF TypeOK
<1>2. CASE signals' = <<"deadline_exceeded", "cancelled">>
  BY <1>2 DEF Control
<1> QED BY <1>1, <1>2 DEF Observes

\* A control that is observed is the first one from then on.
LEMMA ObservedIsFirst ==
  ASSUME TypeOK, NEW cause \in Control, Observes(cause), signals # <<>>
  PROVE  signals' = signals /\ cause = Head(signals)
BY DEF Observes, Cause, TypeOK, Control

LEMMA NothingObserved ==
  ASSUME TypeOK, Observes("none")
  PROVE  signals = <<>> /\ signals' = signals
<1>1. Head(signals) # "none" \/ signals = <<>>
  BY DEF TypeOK, Control
<1> QED BY <1>1 DEF Observes, Cause

\* The last result.
LEMMA LastTyped ==
  ASSUME TypeOK, outputs # <<>>
  PROVE  /\ Len(outputs) \in DOMAIN outputs
         /\ outputs[Len(outputs)].output \in Output
<1>1. outputs \in Seq(Entry)
  BY DEF TypeOK
<1>2. Len(outputs) \in DOMAIN outputs
  BY <1>1
<1>3. outputs[Len(outputs)] \in Entry
  BY <1>1, <1>2
<1> QED BY <1>2, <1>3 DEF Entry

LEMMA InitInv == Init => Inv
<1> SUFFICES ASSUME Init PROVE Inv
  OBVIOUS
<1>1. TypeOK
  BY ConstantsAssumption DEF Init, TypeOK
<1>2. outputs = <<>> /\ DOMAIN outputs = {} /\ pc = "looking" /\ index = 1
  BY DEF Init
<1>3. \A place : Returns(place) = {} /\ Executions(place) = 0
  BY <1>2, FS_EmptySet DEF Returns, Executions
<1>4. AttemptsCover
  <2> SUFFICES ASSUME NEW place \in 1 .. Len(queue)
               PROVE  0 <= attempts[IdOf[queue[place]]]
    BY <1>3 DEF AttemptsCover
  <2>1. IdOf[queue[place]] \in WorkerId
    BY <1>1, ConstantsAssumption DEF TypeOK
  <2> QED BY <1>1, <2>1 DEF TypeOK
<1>5. Startable /\ RetriesBounded
  <2>1. Returns(index) = {} /\ Cardinality(Returns(index)) = 0
    BY <1>3, FS_EmptySet
  <2>2. Startable
    BY <1>2, <2>1, ConstantsAssumption DEF Startable
  <2>3. RetriesBounded
    BY <1>3, ConstantsAssumption DEF RetriesBounded
  <2> QED BY <2>2, <2>3
<1>6. Standing /\ PlacesBehind /\ EndsAtOnce /\ StopsPromptly
      /\ OnlyRetryableRetried /\ AnswerSaysWhy /\ FailureIsNotMasked
  BY <1>2 DEF Standing, PlacesBehind, EndsAtOnce, StopsPromptly,
              OnlyRetryableRetried, AnswerSaysWhy, FailureIsNotMasked
<1> QED BY <1>1, <1>4, <1>5, <1>6 DEF Inv

LEMMA SignalInv ==
  ASSUME Inv, NEW control \in Control, Signal(control)
  PROVE  Inv'
<1>1. TypeOK'
  BY DEF Inv, TypeOK, Signal
<1>2. pc # "returned" /\ signals' # <<>>
  BY DEF Inv, TypeOK, Signal
<1>3. UNCHANGED <<pc, queue, index, attempts, outputs, answer>>
  BY DEF Signal
<1>4. \A place : Returns(place)' = Returns(place) /\ Executions(place)' = Executions(place)
  BY <1>3, SameReturns DEF Executions
<1>5. /\ Standing' /\ PlacesBehind' /\ AttemptsCover' /\ Startable'
      /\ RetriesBounded' /\ OnlyRetryableRetried'
  BY <1>3, <1>4 DEF Inv, Standing, PlacesBehind, AttemptsCover, Startable,
                    RetriesBounded, OnlyRetryableRetried
<1>6. EndsAtOnce' /\ StopsPromptly' /\ AnswerSaysWhy' /\ FailureIsNotMasked'
  BY <1>2, <1>3 DEF Inv, EndsAtOnce, StopsPromptly, AnswerSaysWhy,
                    FailureIsNotMasked
<1> QED BY <1>1, <1>5, <1>6 DEF Inv

LEMMA RaisesInv ==
  ASSUME Inv, Raises
  PROVE  Inv'
<1>1. TypeOK'
  BY DEF Inv, TypeOK, Raises
<1>2. /\ pc # "returned" /\ pc' = "raised"
      /\ UNCHANGED <<queue, index, attempts, outputs, signals, answer>>
  BY DEF Raises
<1>3. \A place : Returns(place)' = Returns(place) /\ Executions(place)' <= Executions(place)
  BY <1>2, SameReturns, ReturnsFinite DEF Executions, Inv
<1>4. \A place : Executions(place) \in Nat /\ Executions(place)' \in Nat
  BY <1>2, SameReturns, ReturnsFinite DEF Executions, Inv
<1>5. AttemptsCover'
  <2> SUFFICES ASSUME NEW place \in 1 .. Len(queue), place <= index
               PROVE  Executions(place)' <= attempts[IdOf[queue[place]]]
    BY <1>2 DEF AttemptsCover
  <2>1. IdOf[queue[place]] \in WorkerId
    BY ConstantsAssumption DEF Inv, TypeOK
  <2> QED BY <1>3, <1>4, <2>1 DEF Inv, AttemptsCover, TypeOK
<1>6. RetriesBounded'
  <2> SUFFICES ASSUME NEW place \in 1 .. index
               PROVE  Executions(place)' <= MaxRetries + 1
    BY <1>2 DEF RetriesBounded
  <2> QED BY <1>3, <1>4, ConstantsAssumption DEF Inv, RetriesBounded
<1>7. Standing' /\ PlacesBehind' /\ Startable' /\ OnlyRetryableRetried'
  BY <1>2, <1>3 DEF Inv, Standing, PlacesBehind, Startable, OnlyRetryableRetried
<1>8. EndsAtOnce' /\ StopsPromptly' /\ AnswerSaysWhy' /\ FailureIsNotMasked'
  BY <1>2 DEF Inv, EndsAtOnce, StopsPromptly, AnswerSaysWhy, FailureIsNotMasked
<1> QED BY <1>1, <1>5, <1>6, <1>7, <1>8 DEF Inv

LEMMA LookReturnsInv ==
  ASSUME Inv, Look, pc' = "returned"
  PROVE  Inv'
<1>1. /\ pc = "looking" /\ UNCHANGED <<queue, index, attempts, outputs, replans>>
      /\ \/ index > Len(queue) /\ QueueEnded /\ UNCHANGED signals
         \/ /\ index <= Len(queue)
            /\ \E cause \in Control : Observes(cause) /\ Stops(cause)
  BY DEF Look
<1>2. TypeOK'
  <2>1. signals' \in Seq(Control)
    BY <1>1, ObservesTyped DEF Inv, TypeOK
  <2>2. answer' \in Answer \cup {NoAnswer}
    BY <1>1, AnswersTyped DEF QueueEnded, Stops, Returned
  <2> QED BY <1>1, <2>1, <2>2 DEF Inv, TypeOK
<1>3. \A place : Returns(place)' = Returns(place) /\ Executions(place)' = Executions(place)
  BY <1>1, SameReturns DEF Executions
<1>4. Standing' /\ PlacesBehind' /\ AttemptsCover' /\ Startable' /\ RetriesBounded'
  BY <1>1, <1>3 DEF Inv, Standing, PlacesBehind, AttemptsCover, Startable,
                    RetriesBounded
<1>5. OnlyRetryableRetried'
  BY <1>1, <1>3 DEF Inv, OnlyRetryableRetried
<1>6. \A i \in DOMAIN outputs : ~Decisive(outputs[i].output) /\ ~outputs[i].late
  BY <1>1 DEF Inv, EndsAtOnce, StopsPromptly
<1>7. EndsAtOnce' /\ StopsPromptly'
  BY <1>1, <1>6 DEF EndsAtOnce, StopsPromptly
<1>8. AnswerSaysWhy' /\ FailureIsNotMasked'
  <2>1. CASE outputs = <<>>
    BY <1>1, <2>1 DEF AnswerSaysWhy, FailureIsNotMasked
  <2>2. CASE outputs # <<>>
    <3> DEFINE last == outputs[Len(outputs)].output
    <3>1. Len(outputs) \in DOMAIN outputs /\ last \in Output /\ ~Decisive(last)
      BY <1>6, <2>2, LastTyped DEF Inv
    <3>2. AnswerSaysWhy'
      BY <1>1, <3>1 DEF AnswerSaysWhy
    <3>3. last.outcome \in {"succeeded", "failed"}
      BY <3>1 DEF Decisive
    <3>4. ASSUME index > Len(queue), answer'.outcome = "succeeded"
          PROVE  last.outcome = "succeeded"
      <4>1. QueueEnded
        BY <1>1, <3>4 DEF Inv, TypeOK
      <4>2. ~Failing(last.outcome)
        BY <2>2, <3>4, <4>1 DEF QueueEnded, Returned, Failed, Answered
      <4> QED BY <3>3, <4>2 DEF Failing
    <3>5. FailureIsNotMasked'
      BY <1>1, <3>4 DEF FailureIsNotMasked
    <3> QED BY <3>2, <3>5
  <2> QED BY <2>1, <2>2
<1> QED BY <1>2, <1>4, <1>5, <1>7, <1>8 DEF Inv

LEMMA LookStartsInv ==
  ASSUME Inv, Look, pc' = "working"
  PROVE  Inv'
<1> DEFINE id == IdOf[queue[index]]
<1>1. /\ pc = "looking" /\ index <= Len(queue) /\ Observes("none")
      /\ attempts' = [attempts EXCEPT ![id] = @ + 1]
      /\ UNCHANGED <<queue, index, outputs, answer, replans>>
  BY DEF Look, QueueEnded, Stops, Returned
<1>2. signals' = signals
  BY <1>1, NothingObserved DEF Inv
<1>3. id \in WorkerId /\ attempts[id] \in Nat
  BY <1>1, ConstantsAssumption DEF Inv, TypeOK
<1>4. attempts' \in [WorkerId -> Nat]
  BY <1>1, <1>3 DEF Inv, TypeOK
<1>5. TypeOK'
  BY <1>1, <1>2, <1>4 DEF Inv, TypeOK
<1>6. \A place : Returns(place)' = Returns(place)
  BY <1>1, SameReturns
<1>7. \A place : Cardinality(Returns(place)) \in Nat
  BY ReturnsFinite DEF Inv
<1>8. \A place : Executions(place)' = Executions(place) + IF place = index THEN 1 ELSE 0
  BY <1>1, <1>6, <1>7 DEF Executions
<1>9. AttemptsCover'
  <2> SUFFICES ASSUME NEW place \in 1 .. Len(queue), place <= index
               PROVE  Executions(place)' <= attempts'[IdOf[queue[place]]]
    BY <1>1 DEF AttemptsCover
  <2>1. IdOf[queue[place]] \in WorkerId
    BY ConstantsAssumption DEF Inv, TypeOK
  <2>2. /\ Executions(place) <= attempts[IdOf[queue[place]]]
        /\ Executions(place) \in Nat /\ attempts[IdOf[queue[place]]] \in Nat
    BY <1>1, <1>7, <2>1 DEF Inv, AttemptsCover, Executions, TypeOK
  <2>3. CASE place = index
    BY <1>1, <1>3, <1>8, <2>2, <2>3 DEF Inv, TypeOK
  <2>4. CASE place # index
    <3>1. attempts[IdOf[queue[place]]] <= attempts'[IdOf[queue[place]]]
      BY <1>1, <2>1, <2>2 DEF Inv, TypeOK
    <3>2. attempts'[IdOf[queue[place]]] \in Nat
      BY <1>4, <2>1
    <3> HIDE DEF id
    <3> QED BY <1>8, <2>2, <2>4, <3>1, <3>2
  <2> QED BY <2>3, <2>4
<1>10. RetriesBounded'
  <2> SUFFICES ASSUME NEW place \in 1 .. index
               PROVE  Executions(place)' <= MaxRetries + 1
    BY <1>1 DEF RetriesBounded
  <2>1. CASE place = index
    <3>1. Cardinality(Returns(index)) <= MaxRetries
      BY <1>1 DEF Inv, Startable
    <3>2. Executions(place)' = Cardinality(Returns(index)) + 1
      BY <1>1, <1>7, <1>8, <2>1 DEF Executions
    <3> QED BY <1>7, <3>1, <3>2, ConstantsAssumption
  <2>2. CASE place # index
    BY <1>7, <1>8, <2>2 DEF Inv, RetriesBounded, Executions
  <2> QED BY <2>1, <2>2
<1>11. OnlyRetryableRetried'
  <2> SUFFICES ASSUME NEW i \in DOMAIN outputs,
                      Failing(outputs[i].output.outcome), ~outputs[i].output.retryable
               PROVE  /\ \A j \in Returns(outputs[i].place) : j <= i
                      /\ index # outputs[i].place
    BY <1>1, <1>6 DEF OnlyRetryableRetried
  <2>1. i \notin Returns(index)
    BY <1>1 DEF Inv, Startable
  <2> QED BY <2>1 DEF Inv, OnlyRetryableRetried, Returns
<1>12. /\ Standing' /\ PlacesBehind' /\ Startable' /\ EndsAtOnce' /\ StopsPromptly'
       /\ AnswerSaysWhy' /\ FailureIsNotMasked'
  BY <1>1, <1>2 DEF Inv, Standing, PlacesBehind, Startable, EndsAtOnce,
     StopsPromptly, AnswerSaysWhy, FailureIsNotMasked
<1> QED BY <1>5, <1>9, <1>10, <1>11, <1>12 DEF Inv

LEMMA DecisiveEnds ==
  ASSUME NEW output \in Output
  PROVE  /\ Decisive(output) <=> Ends(output)
         /\ Ends(output) => Ending(output).outcome = output.outcome
BY DEF Decisive, Ends, Ending, Output, Outcome, Interrupted, Stopped, Answered

LEMMA WorkerReturnsInv ==
  ASSUME Inv, NEW output \in Output, WorkerReturns(output)
  PROVE  Inv'
<1> DEFINE e == [place |-> index, output |-> output, late |-> signals # <<>>]
           n == Len(outputs) + 1
<1>1. /\ pc = "working" /\ index <= Len(queue)
      /\ outputs' = Append(outputs, e)
      /\ UNCHANGED <<queue, index, attempts, replans>>
  BY DEF WorkerReturns, Inv, Standing
<1>2. \/ /\ \E cause \in Control : Observes(cause) /\ answer' = Stopped(cause)
         /\ pc' = "returned"
      \/ /\ Observes("none") /\ Ends(output)
         /\ pc' = "returned" /\ answer' = Ending(output)
      \/ /\ Observes("none") /\ ~Ends(output)
         /\ pc' = "judging" /\ answer' = answer
  BY DEF WorkerReturns, Stops, Returned
<1>3. e \in Entry /\ index \in Nat
  BY DEF Inv, TypeOK, Entry
<1>4. /\ outputs' \in Seq(Entry) /\ Len(outputs') = n /\ n \in Nat
      /\ DOMAIN outputs' = DOMAIN outputs \cup {n}
      /\ n \notin DOMAIN outputs
      /\ \A i \in DOMAIN outputs : outputs'[i] = outputs[i] /\ i < n
      /\ outputs'[n] = e
  <2> HIDE DEF e
  <2> QED BY <1>1, <1>3 DEF Inv, TypeOK
<1>5. TypeOK'
  <2>1. signals' \in Seq(Control)
    BY <1>2, ObservesTyped DEF Inv
  <2>2. answer' \in Answer \cup {NoAnswer} /\ pc' \in {"returned", "judging"}
    BY <1>2, AnswersTyped DEF Inv, TypeOK
  <2> QED BY <1>1, <1>4, <2>1, <2>2 DEF Inv, TypeOK
<1>6. /\ \A i \in DOMAIN outputs : ~Decisive(outputs[i].output) /\ ~outputs[i].late
      /\ pc' \in {"returned", "judging"}
  BY <1>1, <1>2 DEF Inv, EndsAtOnce, StopsPromptly
<1>7. AttemptsCover' /\ RetriesBounded'
  <2>1. \A place : Executions(place)' = Executions(place)
    BY WorkerReturnsCounts DEF Inv
  <2> QED BY <1>1, <2>1 DEF Inv, AttemptsCover, RetriesBounded
<1>8. Standing' /\ PlacesBehind' /\ Startable'
  <2>1. n \in DOMAIN outputs' /\ outputs'[n].place = index
    BY <1>4
  <2>2. Standing'
    BY <1>1, <1>4, <1>6, <2>1 DEF Standing
  <2>3. PlacesBehind'
    BY <1>1, <1>3, <1>4 DEF Inv, TypeOK, PlacesBehind
  <2> QED BY <1>6, <2>2, <2>3 DEF Startable
<1>9. EndsAtOnce'
  BY <1>2, <1>4, <1>6, DecisiveEnds DEF EndsAtOnce
<1>10. StopsPromptly'
  <2> SUFFICES ASSUME signals # <<>>
               PROVE  pc' = "returned" /\ answer' = Stopped(Head(signals'))
    <3>1. ASSUME NEW i \in DOMAIN outputs', outputs'[i].late
          PROVE  i = n /\ signals # <<>>
      <4>1. e.late = (signals # <<>>)
        BY Zenon
      <4>2. i \in DOMAIN outputs => ~outputs'[i].late
        BY <1>4, <1>6
      <4>3. i = n
        <5> HIDE DEF n, e
        <5> QED BY <1>4, <3>1, <4>2
      <4>4. e.late
        <5> HIDE DEF n, e
        <5> QED BY <1>4, <3>1, <4>3
      <4> QED BY <4>1, <4>3, <4>4
    <3> HIDE DEF n, e
    <3> QED BY <1>4, <3>1 DEF StopsPromptly
  <2>1. PICK cause \in Control : Observes(cause) /\ answer' = Stopped(cause)
    BY <1>2, NothingObserved DEF Inv
  <2> QED BY <1>2, <2>1, ObservedIsFirst, NothingObserved DEF Inv
<1>11. OnlyRetryableRetried'
  <2> SUFFICES ASSUME NEW i \in DOMAIN outputs',
                      Failing(outputs'[i].output.outcome),
                      ~outputs'[i].output.retryable,
                      NEW j \in DOMAIN outputs', outputs'[j].place = outputs'[i].place
               PROVE  j <= i
    BY <1>6 DEF OnlyRetryableRetried, Returns
  <2>1. CASE i = n
    BY <1>4, <2>1
  <2>2. CASE i \in DOMAIN outputs
    <3>1. /\ \A k \in Returns(outputs[i].place) : k <= i
          /\ index # outputs[i].place
      BY <1>1, <1>4, <2>2 DEF Inv, OnlyRetryableRetried
    <3> QED BY <1>4, <2>2, <3>1 DEF Returns
  <2> QED BY <1>4, <2>1, <2>2
<1>12. AnswerSaysWhy'
  <2> SUFFICES ASSUME pc' = "returned", signals' = <<>>, Decisive(output)
               PROVE  answer'.outcome = output.outcome
    BY <1>4 DEF AnswerSaysWhy
  <2>1. ~\E cause \in Control : Observes(cause)
    BY DEF Observes, Cause, Control
  <2> QED BY <1>2, <2>1, DecisiveEnds
<1>13. FailureIsNotMasked'
  BY <1>1 DEF FailureIsNotMasked, Inv, TypeOK
<1> QED BY <1>5, <1>7, <1>8, <1>9, <1>10, <1>11, <1>12, <1>13 DEF Inv

LEMMA JudgeReturnsInv ==
  ASSUME Inv, NEW decision \in Decision, Judge(decision), pc' = "returned"
  PROVE  Inv'
<1>1. /\ pc = "judging" /\ index <= Len(queue)
      /\ UNCHANGED <<queue, index, attempts, outputs, signals, replans>>
      /\ answer' \in {Complete, Failed, Interrupted}
  BY DEF Judge, Complies, Decision, Returned, Inv, Standing
<1>2. TypeOK'
  BY <1>1, AnswersTyped DEF Inv, TypeOK
<1>3. \A place : Returns(place)' = Returns(place) /\ Executions(place)' = Executions(place)
  BY <1>1, SameReturns DEF Executions
<1>4. /\ Standing' /\ PlacesBehind' /\ AttemptsCover' /\ Startable'
      /\ RetriesBounded' /\ OnlyRetryableRetried'
  BY <1>1, <1>3 DEF Inv, Standing, PlacesBehind, AttemptsCover, Startable,
                    RetriesBounded, OnlyRetryableRetried
<1>5. \A i \in DOMAIN outputs : ~Decisive(outputs[i].output) /\ ~outputs[i].late
  BY <1>1 DEF Inv, EndsAtOnce, StopsPromptly
<1>6. EndsAtOnce' /\ StopsPromptly'
  BY <1>1, <1>5 DEF EndsAtOnce, StopsPromptly
<1>7. AnswerSaysWhy' /\ FailureIsNotMasked'
  BY <1>1, <1>5, LastTyped DEF Inv, TypeOK, AnswerSaysWhy, FailureIsNotMasked
<1> QED BY <1>2, <1>4, <1>6, <1>7 DEF Inv

LEMMA JudgeRetriesInv ==
  ASSUME Inv, Judge("retry"), pc' = "looking"
  PROVE  Inv'
<1> DEFINE output == outputs[Len(outputs)].output
           tried  == attempts[IdOf[queue[index]]]
<1>1. /\ pc = "judging" /\ index <= Len(queue)
      /\ UNCHANGED vars \/ pc' = "looking"
      /\ UNCHANGED <<queue, index, attempts, outputs, signals, answer, replans>>
      /\ ~RetryRefused(output, tried)
  BY DEF Judge, Complies, Returned, Inv, Standing
<1>2. TypeOK'
  BY <1>1 DEF Inv, TypeOK
<1>3. \A place : Returns(place)' = Returns(place) /\ Executions(place)' = Executions(place)
  BY <1>1, SameReturns DEF Executions
<1>4. Standing' /\ PlacesBehind' /\ AttemptsCover' /\ RetriesBounded' /\ OnlyRetryableRetried'
  BY <1>1, <1>3 DEF Inv, Standing, PlacesBehind, AttemptsCover,
                    RetriesBounded, OnlyRetryableRetried
<1>5. Startable'
  <2>1. Cardinality(Returns(index)) \in Nat /\ index \in 1 .. Len(queue)
    BY <1>1, ReturnsFinite DEF Inv, TypeOK
  <2>2. Executions(index) = Cardinality(Returns(index))
    BY <1>1, <2>1 DEF Executions
  <2>3. tried \in Nat /\ Executions(index) <= tried
    BY <2>1, ConstantsAssumption DEF Inv, AttemptsCover, TypeOK
  <2>4. ~(tried >= MaxRetries + 1)
    BY <1>1 DEF RetryRefused
  <2>5. Cardinality(Returns(index)) <= MaxRetries
    <3> HIDE DEF tried
    <3> QED BY <2>1, <2>2, <2>3, <2>4, ConstantsAssumption
  <2>6. ASSUME NEW i \in Returns(index), Failing(outputs[i].output.outcome)
        PROVE  outputs[i].output.retryable
    <3> SUFFICES ASSUME ~outputs[i].output.retryable PROVE FALSE
      OBVIOUS
    <3>1. i \in DOMAIN outputs /\ outputs[i].place = index /\ i <= Len(outputs)
      BY <2>6 DEF Returns, Inv, TypeOK
    <3>2. Len(outputs) \in Returns(index)
      BY <1>1, LastTyped DEF Inv, Standing, Returns
    <3>3. Len(outputs) <= i
      BY <2>6, <3>1, <3>2 DEF Inv, OnlyRetryableRetried
    <3>4. i = Len(outputs)
      BY <3>1, <3>3 DEF Inv, TypeOK
    <3> QED BY <1>1, <2>6, <3>4 DEF RetryRefused
  <2> QED BY <1>1, <1>3, <2>5, <2>6 DEF Startable
<1>6. \A i \in DOMAIN outputs : ~Decisive(outputs[i].output) /\ ~outputs[i].late
  BY <1>1 DEF Inv, EndsAtOnce, StopsPromptly
<1>7. EndsAtOnce' /\ StopsPromptly' /\ AnswerSaysWhy' /\ FailureIsNotMasked'
  BY <1>1, <1>6 DEF EndsAtOnce, StopsPromptly, AnswerSaysWhy, FailureIsNotMasked
<1> QED BY <1>2, <1>4, <1>5, <1>7 DEF Inv

\* New Workers are put behind the present place and displace nobody before it.
LEMMA ReplannedKeeps ==
  ASSUME queue \in Seq(Worker), index \in 1 .. Len(queue), NEW workers \in Seq(Worker)
  PROVE  /\ Replanned(workers) \in Seq(Worker)
         /\ Len(Replanned(workers)) \in Nat /\ index <= Len(Replanned(workers))
         /\ \A place \in 1 .. index : Replanned(workers)[place] = queue[place]
<1> DEFINE before == SubSeq(queue, 1, index)
           after  == SubSeq(queue, index + 1, Len(queue))
           middle == before \o workers
<1>1. index \in Int /\ Len(queue) \in Int /\ index + 1 \in Int
      /\ \A i \in 1 .. Len(queue) : queue[i] \in Worker
  OBVIOUS
<1>2. /\ before \in Seq(Worker) /\ Len(before) = index
      /\ \A place \in 1 .. index : before[place] = queue[place]
  <2>1. \A i \in 1 .. index : queue[i] \in Worker
    BY <1>1
  <2>2. /\ before \in Seq(Worker)
        /\ Len(before) = IF 1 <= index THEN index - 1 + 1 ELSE 0
        /\ \A i \in 1 .. index - 1 + 1 : before[i] = queue[1 + i - 1]
    BY <1>1, <2>1, SubSeqProperties
  <2> HIDE DEF before
  <2> QED BY <1>1, <2>2
<1>3. after \in Seq(Worker)
  <2>1. \A i \in index + 1 .. Len(queue) : queue[i] \in Worker
    BY <1>1
  <2> QED BY <1>1, <2>1, SubSeqProperties
<1> HIDE DEF before, after
<1>4. /\ middle \in Seq(Worker) /\ Len(middle) \in Nat /\ index <= Len(middle)
      /\ \A place \in 1 .. index : middle[place] = queue[place]
  BY <1>2, ConcatProperties
<1> HIDE DEF middle
<1>5. /\ middle \o after \in Seq(Worker)
      /\ Len(middle \o after) \in Nat /\ index <= Len(middle \o after)
      /\ \A place \in 1 .. index : (middle \o after)[place] = queue[place]
  BY <1>3, <1>4, ConcatProperties
<1> QED BY <1>5 DEF Replanned, before, after, middle

LEMMA JudgePassesInv ==
  ASSUME Inv, NEW decision \in {"continue", "replan"}, Judge(decision)
  PROVE  Inv'
<1>1. /\ pc = "judging" /\ pc' = "looking"
      /\ index \in 1 .. Len(queue) /\ index' = index + 1
      /\ UNCHANGED <<attempts, outputs, signals, answer>>
  <2>1. pc = "judging" /\ index \in 1 .. Len(queue)
    BY DEF Judge, Inv, TypeOK, Standing
  <2>2. CASE decision = "continue"
    BY <2>1, <2>2 DEF Judge, Complies, Passed
  <2>3. CASE decision = "replan"
    BY <2>1, <2>3 DEF Judge, Complies, Passed
  <2> QED BY <2>2, <2>3
<1>2. /\ replans' \in Nat
      /\ queue' = queue \/ \E workers \in Replan : queue' = Replanned(workers)
  <2>1. CASE decision = "continue"
    BY <2>1 DEF Judge, Complies, Inv, TypeOK
  <2>2. CASE decision = "replan"
    BY <2>2 DEF Judge, Complies, Inv, TypeOK
  <2> QED BY <2>1, <2>2
<1>3. /\ queue' \in Seq(Worker) /\ Len(queue') \in Nat /\ index <= Len(queue')
      /\ \A place \in 1 .. index : queue'[place] = queue[place]
  <2>1. queue \in Seq(Worker) /\ Replan \subseteq Seq(Worker)
    BY ConstantsAssumption DEF Inv, TypeOK
  <2>2. CASE queue' = queue
    BY <1>1, <2>1, <2>2
  <2>3. ASSUME NEW workers \in Replan, queue' = Replanned(workers)
        PROVE  <1>3!:
    BY <1>1, <2>1, <2>3, ReplannedKeeps
  <2> QED BY <1>2, <2>2, <2>3
<1>4. TypeOK'
  <2>1. index' \in 1 .. Len(queue') + 1
    BY <1>1, <1>3
  <2> QED BY <1>1, <1>2, <1>3, <2>1 DEF Inv, TypeOK
<1>5. \A place : /\ Returns(place)' = Returns(place)
                 /\ Executions(place) = Cardinality(Returns(place))
                 /\ Executions(place)' = Cardinality(Returns(place))
                 /\ Cardinality(Returns(place)) \in Nat
  BY <1>1, SameReturns, ReturnsFinite DEF Executions, Inv
<1>6. Returns(index + 1) = {} /\ Cardinality(Returns(index + 1)) = 0
  <2>1. Returns(index + 1) = {}
    BY <1>1 DEF Returns, Inv, PlacesBehind
  <2> QED BY <2>1, FS_EmptySet
<1>7. PlacesBehind'
  BY <1>1 DEF Inv, PlacesBehind
<1>8. AttemptsCover'
  <2> SUFFICES ASSUME NEW place \in 1 .. Len(queue'), place <= index + 1
               PROVE  Cardinality(Returns(place)) <= attempts[IdOf[queue'[place]]]
    BY <1>1, <1>5 DEF AttemptsCover
  <2>1. CASE place \in 1 .. index
    BY <1>1, <1>3, <1>5, <2>1 DEF Inv, AttemptsCover
  <2>2. CASE place = index + 1
    <3>1. IdOf[queue'[place]] \in WorkerId
      BY <1>3, ConstantsAssumption
    <3>2. attempts[IdOf[queue'[place]]] \in Nat
      BY <3>1 DEF Inv, TypeOK
    <3> QED BY <1>6, <2>2, <3>2
  <2> QED BY <1>1, <1>3, <2>1, <2>2
<1>9. RetriesBounded'
  <2> SUFFICES ASSUME NEW place \in 1 .. index + 1
               PROVE  Cardinality(Returns(place)) <= MaxRetries + 1
    BY <1>1, <1>5 DEF RetriesBounded
  <2>1. CASE place \in 1 .. index
    BY <1>5, <2>1 DEF Inv, RetriesBounded
  <2>2. CASE place = index + 1
    BY <1>6, <2>2, ConstantsAssumption
  <2> QED BY <1>1, <2>1, <2>2
<1>10. Startable'
  BY <1>1, <1>5, <1>6, ConstantsAssumption DEF Startable
<1>11. OnlyRetryableRetried'
  BY <1>1, <1>5 DEF Inv, OnlyRetryableRetried
<1>12. \A i \in DOMAIN outputs : ~Decisive(outputs[i].output) /\ ~outputs[i].late
  BY <1>1 DEF Inv, EndsAtOnce, StopsPromptly
<1>13. /\ Standing' /\ EndsAtOnce' /\ StopsPromptly' /\ AnswerSaysWhy'
       /\ FailureIsNotMasked'
  BY <1>1, <1>12
     DEF Standing, EndsAtOnce, StopsPromptly, AnswerSaysWhy, FailureIsNotMasked
<1> QED BY <1>4, <1>7, <1>8, <1>9, <1>10, <1>11, <1>13 DEF Inv

LEMMA JudgeInv ==
  ASSUME Inv, NEW decision \in Decision, Judge(decision)
  PROVE  Inv'
<1>1. CASE decision \in {"complete", "interrupt"}
  <2>1. pc' = "returned"
    BY <1>1 DEF Judge, Complies, Returned
  <2> QED BY <2>1, JudgeReturnsInv
<1>2. CASE decision = "retry"
  <2>1. pc' \in {"returned", "looking"}
    BY <1>2 DEF Judge, Complies, Returned
  <2> QED BY <1>2, <2>1, JudgeReturnsInv, JudgeRetriesInv
<1>3. CASE decision \in {"continue", "replan"}
  BY <1>3, JudgePassesInv
<1> QED BY <1>1, <1>2, <1>3 DEF Decision

LEMMA StutterInv ==
  ASSUME Inv, UNCHANGED vars
  PROVE  Inv'
<1>1. \A place : Returns(place)' = Returns(place) /\ Executions(place)' = Executions(place)
  BY SameReturns DEF Executions, vars
<1> QED BY <1>1 DEF vars, Inv, TypeOK, Standing, PlacesBehind, AttemptsCover,
     Startable, EndsAtOnce, StopsPromptly, RetriesBounded, OnlyRetryableRetried,
     AnswerSaysWhy, FailureIsNotMasked

-----------------------------------------------------------------------------
(* The theorems.                                                           *)

\* The inductive invariant holds in every reachable state of the loop.
THEOREM Invariance == Spec => []Inv
<1>1. Inv /\ [Next]_vars => Inv'
  <2> SUFFICES ASSUME Inv, [Next]_vars PROVE Inv'
    OBVIOUS
  <2>1. CASE Look
    <3>1. pc' \in {"returned", "working"}
      BY <2>1 DEF Look, QueueEnded, Stops, Returned
    <3> QED BY <2>1, <3>1, LookReturnsInv, LookStartsInv
  <2>2. ASSUME NEW output \in Output, WorkerReturns(output) PROVE Inv'
    BY <2>2, WorkerReturnsInv
  <2>3. ASSUME NEW decision \in Decision, Judge(decision) PROVE Inv'
    BY <2>3, JudgeInv
  <2>4. CASE Raises
    BY <2>4, RaisesInv
  <2>5. ASSUME NEW control \in Control, Signal(control) PROVE Inv'
    BY <2>5, SignalInv
  <2>6. CASE UNCHANGED vars
    BY <2>6, StutterInv
  <2> QED BY <2>1, <2>2, <2>3, <2>4, <2>5, <2>6 DEF Next, Step
<1> QED BY <1>1, InitInv, PTL DEF Spec

\* Type correctness.
THEOREM TypeCorrect == Spec => []TypeOK
<1>1. Inv => TypeOK
  BY DEF Inv
<1> QED BY <1>1, Invariance, PTL

\* A place of the queue is executed at most once and max_retries times more,
\* whatever is replanned and whichever Workers share a worker_id.
THEOREM RetryLimit == Spec => []RetriesBounded
<1>1. Inv => RetriesBounded
  BY DEF Inv
<1> QED BY <1>1, Invariance, PTL

\* What may not be retried is not executed again.
THEOREM RetryOnlyRetryable == Spec => []OnlyRetryableRetried
<1>1. Inv => OnlyRetryableRetried
  BY DEF Inv
<1> QED BY <1>1, Invariance, PTL

\* No Worker is started after a result that ends the execution, and the answer
\* is that result.
THEOREM DecisiveResultsEnd == Spec => []DecisiveResultsStand
<1>1. Inv => DecisiveResultsStand
  BY DEF Inv, DecisiveResultsStand
<1> QED BY <1>1, Invariance, PTL

\* No Worker is started after cancellation or the deadline.
THEOREM ControlsStop == Spec => []StopsPromptly
<1>1. Inv => StopsPromptly
  BY DEF Inv
<1> QED BY <1>1, Invariance, PTL

\* Only an evaluator makes a success of an execution whose last Worker failed.
THEOREM NoMaskedFailure == Spec => []FailureIsNotMasked
<1>1. Inv => FailureIsNotMasked
  BY DEF Inv
<1> QED BY <1>1, Invariance, PTL

-----------------------------------------------------------------------------
(* Nobody is lost.                                                         *)

\* Every place that was passed has been executed, and the queue has the
\* Workers of the plan as often as the plan.
Covered ==
  /\ \A place \in 1 .. index - 1 : Returns(place) # {}
  /\ \A worker \in Worker :
       Cardinality(Places(Plan, worker)) <= Cardinality(Places(queue, worker))

LEMMA PlacesFinite ==
  ASSUME NEW workers \in Seq(Worker), NEW worker
  PROVE  /\ IsFiniteSet(Places(workers, worker))
         /\ Cardinality(Places(workers, worker)) \in Nat
<1>1. Len(workers) \in Nat /\ DOMAIN workers = 1 .. Len(workers)
  OBVIOUS
<1>2. IsFiniteSet(1 .. Len(workers)) /\ Places(workers, worker) \subseteq 1 .. Len(workers)
  BY <1>1, FS_Interval DEF Places
<1> QED BY <1>2, FS_Subset, FS_CardinalityType

LEMMA Concatenated ==
  ASSUME NEW a \in Seq(Worker), NEW b \in Seq(Worker)
  PROVE  /\ a \o b \in Seq(Worker)
         /\ Len(a \o b) = Len(a) + Len(b)
         /\ \A i \in 1 .. Len(a) : (a \o b)[i] = a[i]
         /\ \A i \in 1 .. Len(b) : (a \o b)[Len(a) + i] = b[i]
OBVIOUS

\* A replan moves the places behind the present one back, and takes none away.
LEMMA ReplannedPlaces ==
  ASSUME queue \in Seq(Worker), index \in 1 .. Len(queue),
         NEW workers \in Seq(Worker), NEW worker \in Worker
  PROVE  Cardinality(Places(queue, worker))
           <= Cardinality(Places(Replanned(workers), worker))
<1> DEFINE before == SubSeq(queue, 1, index)
           after  == SubSeq(queue, index + 1, Len(queue))
           middle == before \o workers
           next   == middle \o after
           moved  == [i \in Places(queue, worker) |->
                        IF i <= index THEN i ELSE i + Len(workers)]
<1>1. /\ index \in Nat /\ Len(queue) \in Nat /\ Len(workers) \in Nat
      /\ index <= Len(queue) /\ 1 <= index
      /\ \A i \in 1 .. Len(queue) : queue[i] \in Worker
  OBVIOUS
<1>2. /\ before \in Seq(Worker) /\ Len(before) = index
      /\ \A i \in 1 .. index : before[i] = queue[i]
  <2>1. \A i \in 1 .. index : queue[i] \in Worker
    BY <1>1
  <2>2. /\ before \in Seq(Worker)
        /\ Len(before) = IF 1 <= index THEN index - 1 + 1 ELSE 0
        /\ \A i \in 1 .. index - 1 + 1 : before[i] = queue[1 + i - 1]
    BY <1>1, <2>1, SubSeqProperties
  <2> HIDE DEF before
  <2> QED BY <1>1, <2>2
<1>3. /\ after \in Seq(Worker) /\ Len(after) = Len(queue) - index
      /\ \A i \in 1 .. Len(queue) - index : after[i] = queue[index + i]
  <2>1. \A i \in index + 1 .. Len(queue) : queue[i] \in Worker
    BY <1>1
  <2>2. /\ after \in Seq(Worker)
        /\ Len(after) = IF index + 1 <= Len(queue)
                        THEN Len(queue) - (index + 1) + 1 ELSE 0
        /\ \A i \in 1 .. Len(queue) - (index + 1) + 1 :
             after[i] = queue[(index + 1) + i - 1]
    BY <1>1, <2>1, SubSeqProperties
  <2> HIDE DEF after
  <2> QED BY <1>1, <2>2
<1> HIDE DEF before, after
<1>4. /\ middle \in Seq(Worker) /\ Len(middle) = Len(before) + Len(workers)
      /\ \A i \in 1 .. Len(before) : middle[i] = before[i]
  BY <1>2, Concatenated
<1> HIDE DEF middle
<1>5. /\ next \in Seq(Worker) /\ Len(next) = Len(middle) + Len(after)
      /\ \A i \in 1 .. Len(middle) : next[i] = middle[i]
      /\ \A i \in 1 .. Len(after) : next[Len(middle) + i] = after[i]
  BY <1>3, <1>4, Concatenated
<1> HIDE DEF next
<1>6. /\ Len(next) = Len(workers) + Len(queue)
      /\ \A i \in 1 .. index : next[i] = queue[i]
      /\ \A i \in index + 1 .. Len(queue) : next[i + Len(workers)] = queue[i]
  <2>1. ASSUME NEW i \in 1 .. index
        PROVE  next[i] = queue[i]
    <3>1. i \in 1 .. Len(before) /\ i \in 1 .. Len(middle)
      BY <1>1, <1>2, <1>4
    <3> QED BY <1>2, <1>4, <1>5, <3>1
  <2>2. ASSUME NEW i \in index + 1 .. Len(queue)
        PROVE  next[i + Len(workers)] = queue[i]
    <3>1. i - index \in 1 .. Len(queue) - index
      BY <1>1
    <3>2. Len(middle) + (i - index) = i + Len(workers) /\ index + (i - index) = i
      BY <1>1, <1>2, <1>4
    <3>3. next[Len(middle) + (i - index)] = after[i - index]
      BY <1>3, <1>5, <3>1
    <3>4. after[i - index] = queue[index + (i - index)]
      BY <1>3, <3>1
    <3> QED BY <3>2, <3>3, <3>4
  <2>3. Len(next) = Len(workers) + Len(queue)
    BY <1>1, <1>2, <1>3, <1>4, <1>5
  <2> QED BY <2>1, <2>2, <2>3
<1>7. DOMAIN queue = 1 .. Len(queue) /\ DOMAIN next = 1 .. Len(workers) + Len(queue)
  BY <1>5, <1>6
<1>8. moved \in Injection(Places(queue, worker), Places(next, worker))
  <2>1. ASSUME NEW i \in Places(queue, worker)
        PROVE  moved[i] \in Places(next, worker)
    <3>1. i \in 1 .. Len(queue) /\ queue[i] = worker
      BY <1>7 DEF Places
    <3>2. CASE i <= index
      BY <1>1, <1>6, <1>7, <3>1, <3>2 DEF Places
    <3>3. CASE i > index
      <4>1. i \in index + 1 .. Len(queue) /\ ~(i <= index)
        BY <1>1, <3>1, <3>3
      <4>2. i + Len(workers) \in 1 .. Len(workers) + Len(queue)
        BY <1>1, <3>1
      <4>3. moved[i] = i + Len(workers)
        BY <4>1
      <4> QED BY <1>6, <1>7, <3>1, <4>1, <4>2, <4>3 DEF Places
    <3> QED BY <1>1, <3>1, <3>2, <3>3
  <2>2. ASSUME NEW i \in Places(queue, worker), NEW j \in Places(queue, worker),
               moved[i] = moved[j]
        PROVE  i = j
    <3>1. i \in Nat /\ j \in Nat
      BY <1>1, <1>7 DEF Places
    <3> QED BY <1>1, <2>2, <3>1
  <2> QED BY <2>1, <2>2 DEF Injection, IsInjective
<1>9. IsFiniteSet(Places(next, worker))
  BY <1>5, PlacesFinite
<1>10. Cardinality(Places(queue, worker)) <= Cardinality(Places(next, worker))
  BY <1>8, <1>9, FS_Injection
<1> QED BY <1>10 DEF Replanned, before, after, middle, next

LEMMA CoveredInit == Init => Covered
<1> SUFFICES ASSUME Init PROVE Covered
  OBVIOUS
<1>1. queue = Plan /\ index = 1 /\ Plan \in Seq(Worker)
  BY ConstantsAssumption DEF Init
<1>2. \A worker \in Worker : Cardinality(Places(Plan, worker)) \in Nat
  BY <1>1, PlacesFinite
<1> QED BY <1>1, <1>2 DEF Covered

\* Only a judgement passes a place, and it judges a result of that place.
LEMMA CoveredNext ==
  ASSUME Inv, Covered, [Next]_vars
  PROVE  Covered'
<1>1. ASSUME UNCHANGED <<queue, index, outputs>>
      PROVE  Covered'
  BY <1>1, SameReturns DEF Covered
<1>2. ASSUME NEW output \in Output, WorkerReturns(output)
      PROVE  Covered'
  <2> DEFINE e == [place |-> index, output |-> output, late |-> signals # <<>>]
  <2>0. e \in Entry
    BY DEF Inv, TypeOK, Entry
  <2>1. UNCHANGED <<queue, index>> /\ outputs' = Append(outputs, e)
    BY <1>2 DEF WorkerReturns
  <2> HIDE DEF e
  <2>2. \A i \in DOMAIN outputs : i \in DOMAIN outputs' /\ outputs'[i] = outputs[i]
    BY <2>0, <2>1 DEF Inv, TypeOK
  <2>3. \A place : Returns(place) \subseteq Returns(place)'
    BY <2>2 DEF Returns
  <2> QED BY <2>1, <2>3 DEF Covered
<1>3. ASSUME NEW decision \in Decision, Judge(decision)
      PROVE  Covered'
  <2>1. CASE UNCHANGED <<queue, index>>
    BY <1>1, <1>3, <2>1 DEF Judge
  <2>2. CASE decision \in {"continue", "replan"}
    <3>1. /\ pc = "judging" /\ index \in 1 .. Len(queue) /\ index' = index + 1
          /\ UNCHANGED outputs
          /\ queue' = queue \/ \E workers \in Replan : queue' = Replanned(workers)
      <4>1. pc = "judging" /\ index \in 1 .. Len(queue)
        BY <1>3 DEF Judge, Inv, TypeOK, Standing
      <4> QED BY <1>3, <2>2, <4>1 DEF Judge, Complies, Passed
    <3>2. Len(outputs) \in Returns(index)
      BY <3>1, LastTyped DEF Inv, Standing, Returns
    <3>3. ASSUME NEW place \in 1 .. index' - 1
          PROVE  Returns(place)' # {}
      BY <3>1, <3>2, <3>3, SameReturns DEF Covered
    <3>4. ASSUME NEW worker \in Worker
          PROVE  Cardinality(Places(Plan, worker)) <= Cardinality(Places(queue', worker))
      <4>1. /\ Plan \in Seq(Worker) /\ queue \in Seq(Worker)
            /\ queue' \in Seq(Worker) /\ Replan \subseteq Seq(Worker)
        BY <3>1, ReplannedKeeps, ConstantsAssumption DEF Inv, TypeOK
      <4>2. Cardinality(Places(queue, worker)) <= Cardinality(Places(queue', worker))
        BY <3>1, <4>1, PlacesFinite, ReplannedPlaces
      <4> QED BY <4>1, <4>2, PlacesFinite DEF Covered
    <3> QED BY <3>3, <3>4 DEF Covered, Places
  <2> QED BY <1>3, <2>1, <2>2 DEF Judge, Complies, Decision
<1>4. CASE Look \/ Raises \/ \E control \in Control : Signal(control)
  BY <1>1, <1>4 DEF Look, Raises, Signal
<1> QED BY <1>1, <1>2, <1>3, <1>4 DEF Next, Step, vars

\* When the queue has ended, every Worker of the plan has been executed, and
\* every Worker a replan put in.
THEOREM NobodyLost == Spec => []PlanIsKept
<1>1. Inv /\ Covered => PlanIsKept
  BY DEF Inv, TypeOK, Covered, PlanIsKept
<1> QED BY <1>1, Invariance, CoveredInit, CoveredNext, PTL DEF Spec

-----------------------------------------------------------------------------
(* The execution is finite.                                                *)

ReplansLeft == MaxReplans - replans
PlacesLeft  == Len(queue) + 1 - index
TriesLeft   == MaxRetries + 1 - Cardinality(Returns(index))
PhasesLeft  ==
  CASE pc = "judging" -> 3 [] pc = "looking" -> 2 [] pc = "working" -> 1 [] OTHER -> 0

\* What a call has left.  It counts in four digits, each a natural number: the
\* replans, the places of the queue, the executions of the present place and
\* the phases of a round of the loop.
Measured ==
  /\ ReplansLeft \in Nat
  /\ PlacesLeft \in Nat
  /\ TriesLeft \in Nat
  /\ PhasesLeft \in Nat

SameMeasure == UNCHANGED <<ReplansLeft, PlacesLeft, TriesLeft, PhasesLeft>>

\* The first digit that changes descends.
Descends ==
  \/ ReplansLeft' < ReplansLeft
  \/ ReplansLeft' = ReplansLeft /\ PlacesLeft' < PlacesLeft
  \/ /\ UNCHANGED <<ReplansLeft, PlacesLeft>>
     /\ TriesLeft' < TriesLeft
  \/ /\ UNCHANGED <<ReplansLeft, PlacesLeft, TriesLeft>>
     /\ PhasesLeft' < PhasesLeft

\* What was executed in all, over the places that were passed and this one.
ExecutionsCounted ==
  /\ Len(outputs) <= (MaxRetries + 1) * (index - 1) + Cardinality(Returns(index))
  /\ index > Len(queue) => Returns(index) = {}

ReplansCounted == replans <= MaxReplans

\* The replans, the tries of each place and the length of the queue limit how
\* often Workers are executed in all.
ExecutionBudget == Len(outputs) <= (MaxRetries + 1) * Len(queue)

LEMMA Times ==
  ASSUME NEW k \in Nat, NEW n \in Nat
  PROVE  /\ k * n \in Nat
         /\ k * (n + 1) = k * n + k
         /\ \A m \in Nat : n <= m => k * n <= k * m
<1>1. ASSUME NEW m \in Nat, n <= m
      PROVE  k * n <= k * m
  <2>1. PICK d \in Nat : m = n + d
    <3>1. m - n \in Nat /\ m = n + (m - n)
      BY <1>1
    <3> QED BY <3>1
  <2>2. k * m = k * n + k * d /\ k * d >= 0
    BY <2>1
  <2> QED BY <2>2
<1> QED BY <1>1

\* The digits are natural numbers.
LEMMA MeasuredInv ==
  ASSUME Inv, ReplansCounted
  PROVE  Measured
<1>1. Cardinality(Returns(index)) \in Nat /\ index \in Nat /\ Len(queue) \in Nat
  BY ReturnsFinite DEF Inv, TypeOK
<1>2. TriesLeft \in Nat
  <2>1. Executions(index) <= MaxRetries + 1
    BY DEF Inv, TypeOK, RetriesBounded
  <2>2. Executions(index) >= Cardinality(Returns(index))
    BY <1>1 DEF Executions
  <2>3. Executions(index) \in Nat
    BY <1>1 DEF Executions
  <2> QED BY <1>1, <2>1, <2>2, <2>3, ConstantsAssumption DEF TriesLeft
<1>3. ReplansLeft \in Nat /\ PlacesLeft \in Nat
  BY <1>1, ConstantsAssumption DEF ReplansLeft, PlacesLeft, ReplansCounted, Inv, TypeOK
<1>4. PhasesLeft \in Nat
  BY DEF PhasesLeft
<1> QED BY <1>2, <1>3, <1>4 DEF Measured

\* A Worker that returns has used up one of its place's executions.
LEMMA ReturnUsesTry ==
  ASSUME Inv, NEW output \in Output, WorkerReturns(output)
  PROVE  /\ UNCHANGED <<queue, index, replans>>
         /\ Len(outputs') = Len(outputs) + 1
         /\ Cardinality(Returns(index)') = Cardinality(Returns(index)) + 1
<1>1. /\ UNCHANGED <<queue, index, replans>> /\ pc = "working" /\ pc' # "working"
  BY DEF WorkerReturns, Stops, Returned
<1>2. Len(outputs') = Len(outputs) + 1
  BY DEF WorkerReturns, Inv, TypeOK
<1>3. Executions(index)' = Executions(index)
  <2>1. \A place : Executions(place)' = Executions(place)
    BY WorkerReturnsCounts DEF Inv
  <2>2. index' = index
    BY <1>1
  <2> QED BY <2>1, <2>2 DEF Executions, Returns
<1>4. Executions(index) = Cardinality(Returns(index)) + 1
  BY <1>1 DEF Executions
<1>5. Executions(index)' = Cardinality(Returns(index)') + 0
  BY <1>1 DEF Executions
<1>6. Cardinality(Returns(index)) \in Nat
  BY ReturnsFinite DEF Inv
<1>7. Cardinality(Returns(index)') \in Nat
  <2>1. outputs' \in Seq(Entry)
    <3>1. TypeOK'
      BY WorkerReturnsInv DEF Inv
    <3> QED BY <3>1 DEF TypeOK
  <2>2. Len(outputs') \in Nat /\ Returns(index)' \subseteq 1 .. Len(outputs')
    BY <2>1 DEF Returns
  <2>3. IsFiniteSet(1 .. Len(outputs'))
    BY <2>2, FS_Interval
  <2>4. IsFiniteSet(Returns(index)')
    BY <2>2, <2>3, FS_Subset
  <2> QED BY <2>4, FS_CardinalityType
<1> QED BY <1>1, <1>2, <1>3, <1>4, <1>5, <1>6, <1>7

\* A decision that lets the loop go on goes on at the next place, or at the same
\* one, and a replan has used up one of the replans.
LEMMA JudgementGoesOn ==
  ASSUME Inv, ReplansCounted, NEW decision \in Decision, Judge(decision)
  PROVE  /\ UNCHANGED outputs
         /\ \/ UNCHANGED <<queue, index, replans>> /\ pc' \in {"looking", "returned"}
            \/ /\ index' = index + 1 /\ index <= Len(queue)
               /\ queue' = queue /\ replans' = replans
            \/ /\ index' = index + 1 /\ index <= Len(queue)
               /\ replans < MaxReplans /\ replans' = replans + 1
<1>1. pc = "judging" /\ index <= Len(queue)
  BY DEF Judge, Inv, Standing
<1> QED BY <1>1 DEF Judge, Complies, Decision, Returned, Passed

LEMMA ReplansCountedInv ==
  ASSUME Inv, ReplansCounted, [Next]_vars
  PROVE  ReplansCounted'
<1>1. ASSUME NEW decision \in Decision, Judge(decision)
      PROVE  ReplansCounted'
  <2>1. replans' = replans \/ (replans < MaxReplans /\ replans' = replans + 1)
    BY <1>1, JudgementGoesOn
  <2>2. replans \in Nat /\ MaxReplans \in Nat
    BY ConstantsAssumption DEF Inv, TypeOK
  <2> QED BY <2>1, <2>2 DEF ReplansCounted
<1>2. CASE UNCHANGED replans
  BY <1>2 DEF ReplansCounted
<1> QED BY <1>1, <1>2 DEF Next, Step, Look, WorkerReturns, Raises, Signal, vars

\* Every step of the call descends.
LEMMA StepsDescend ==
  ASSUME Inv, ReplansCounted, Step
  PROVE  Descends
<1>1. /\ Cardinality(Returns(index)) \in Nat /\ index \in Nat /\ Len(queue) \in Nat
      /\ replans \in Nat /\ MaxReplans \in Nat /\ MaxRetries \in Nat
  BY ReturnsFinite, ConstantsAssumption DEF Inv, TypeOK
<1>2. ASSUME UNCHANGED <<queue, index, outputs, replans>>, PhasesLeft' < PhasesLeft
      PROVE  Descends
  BY <1>2 DEF Descends, ReplansLeft, PlacesLeft, TriesLeft, Returns
<1>3. CASE Look
  <2>1. pc = "looking" /\ pc' \in {"returned", "working"}
    BY <1>3 DEF Look, QueueEnded, Stops, Returned
  <2>2. PhasesLeft' < PhasesLeft
    BY <2>1 DEF PhasesLeft
  <2> QED BY <1>2, <1>3, <2>2 DEF Look
<1>4. ASSUME NEW output \in Output, WorkerReturns(output)
      PROVE  Descends
  BY <1>1, <1>4, ReturnUsesTry DEF Descends, ReplansLeft, PlacesLeft, TriesLeft
<1>5. ASSUME NEW decision \in Decision, Judge(decision)
      PROVE  Descends
  <2>1. pc = "judging" /\ UNCHANGED outputs
    BY <1>5 DEF Judge
  <2>2. CASE UNCHANGED <<queue, index, replans>> /\ pc' \in {"looking", "returned"}
    <3>1. PhasesLeft' < PhasesLeft
      BY <2>1, <2>2 DEF PhasesLeft
    <3> QED BY <1>2, <2>1, <2>2, <3>1
  <2>3. CASE /\ index' = index + 1 /\ queue' = queue /\ replans' = replans
    BY <1>1, <2>3 DEF Descends, ReplansLeft, PlacesLeft
  <2>4. CASE replans < MaxReplans /\ replans' = replans + 1
    BY <1>1, <2>4 DEF Descends, ReplansLeft
  <2> QED BY <1>5, <2>2, <2>3, <2>4, JudgementGoesOn
<1>6. CASE Raises
  <2>1. PhasesLeft' < PhasesLeft
    BY <1>6 DEF Raises, PhasesLeft
  <2> QED BY <1>2, <1>6, <2>1 DEF Raises
<1> QED BY <1>3, <1>4, <1>5, <1>6 DEF Step

\* A call of execute takes finitely many steps: each of them descends in a
\* measure of natural numbers, and a control that is raised meanwhile leaves
\* the measure as it is.  What Workers return, what the evaluator decides and
\* what a replan puts in cannot keep the loop going, as long as the replans are
\* limited.
THEOREM Variant ==
  Spec => /\ []Measured
          /\ [][Descends \/ (SameMeasure /\ \E control \in Control : Signal(control))]_vars
<1>1. Init => ReplansCounted
  BY ConstantsAssumption DEF Init, ReplansCounted
<1>2. Spec => [](Inv /\ ReplansCounted)
  BY <1>1, Invariance, ReplansCountedInv, PTL DEF Spec
<1>3. ASSUME Inv, ReplansCounted, [Next]_vars
      PROVE  [Descends \/ (SameMeasure /\ \E control \in Control : Signal(control))]_vars
  <2>1. ASSUME NEW control \in Control, Signal(control)
        PROVE  SameMeasure
    <3>1. pc' = pc /\ UNCHANGED <<queue, index, outputs, replans>>
      BY <2>1 DEF Signal
    <3> QED BY <3>1 DEF SameMeasure, ReplansLeft, PlacesLeft, TriesLeft, PhasesLeft, Returns
  <2> QED BY <1>3, <2>1, StepsDescend DEF Next
<1> QED BY <1>2, <1>3, MeasuredInv, PTL DEF Spec

LEMMA ExecutionsCountedInv ==
  ASSUME Inv, ReplansCounted, ExecutionsCounted, [Next]_vars
  PROVE  ExecutionsCounted'
<1> DEFINE tries == MaxRetries + 1
<1>1. /\ Cardinality(Returns(index)) \in Nat /\ index - 1 \in Nat /\ index \in Nat
      /\ Len(outputs) \in Nat /\ tries \in Nat
  BY ReturnsFinite, ConstantsAssumption DEF Inv, TypeOK
<1>2. tries * (index - 1) \in Nat
  BY <1>1, Times
<1>3. CASE UNCHANGED <<queue, index, outputs>>
  BY <1>3 DEF ExecutionsCounted, Returns
<1>4. ASSUME NEW output \in Output, WorkerReturns(output)
      PROVE  ExecutionsCounted'
  <2>1. /\ index' = index /\ Len(outputs') = Len(outputs) + 1
        /\ Cardinality(Returns(index)') = Cardinality(Returns(index)) + 1
    BY <1>4, ReturnUsesTry
  <2>2. Len(outputs) + 1 <= tries * (index - 1) + (Cardinality(Returns(index)) + 1)
    <3> HIDE DEF tries
    <3>1. Len(outputs) <= tries * (index - 1) + Cardinality(Returns(index))
      BY DEF ExecutionsCounted, tries
    <3> QED BY <1>1, <1>2, <3>1
  <2>3. ~(index > Len(queue)) /\ queue' = queue
    BY <1>1, <1>4 DEF WorkerReturns, Inv, TypeOK, Standing
  <2> QED BY <2>1, <2>2, <2>3 DEF ExecutionsCounted
<1>5. ASSUME UNCHANGED outputs, index' = index + 1, pc = "judging"
      PROVE  ExecutionsCounted'
  <2>1. Cardinality(Returns(index)) <= tries
    <3>1. Executions(index) <= MaxRetries + 1
      BY DEF Inv, TypeOK, RetriesBounded
    <3>2. Executions(index) = Cardinality(Returns(index)) + 0
      BY <1>5 DEF Executions
    <3> QED BY <1>1, <3>1, <3>2
  <2>2. Returns(index + 1) = {} /\ Cardinality(Returns(index + 1)) = 0
    <3>1. Returns(index + 1) = {}
      BY <1>1 DEF Returns, Inv, PlacesBehind
    <3> QED BY <3>1, FS_EmptySet
  <2>3. tries * ((index - 1) + 1) = tries * (index - 1) + tries
    BY <1>1, Times
  <2>4. (index - 1) + 1 = index' - 1
    BY <1>1, <1>5
  <2>5. Len(outputs) <= tries * (index' - 1) + 0
    <3> HIDE DEF tries
    <3>1. Len(outputs) <= tries * (index - 1) + Cardinality(Returns(index))
      BY DEF ExecutionsCounted, tries
    <3> QED BY <1>1, <1>2, <2>1, <2>3, <2>4, <3>1
  <2>6. Returns(index)' = {} /\ Cardinality(Returns(index)') = 0
    BY <1>5, <2>2 DEF Returns
  <2> QED BY <1>5, <2>5, <2>6 DEF ExecutionsCounted
<1>6. ASSUME NEW decision \in Decision, Judge(decision)
      PROVE  ExecutionsCounted'
  <2>1. pc = "judging"
    BY <1>6 DEF Judge
  <2> QED BY <1>3, <1>5, <1>6, <2>1, JudgementGoesOn
<1> QED BY <1>3, <1>4, <1>6 DEF Next, Step, Look, Raises, Signal, vars

\* However results, decisions, replans and shared worker_ids fall, a call
\* executes Workers at most max_retries + 1 times as often as its queue is long.
THEOREM Budget == Spec => []ExecutionBudget
<1>1. Init => ReplansCounted /\ ExecutionsCounted
  <2> SUFFICES ASSUME Init PROVE ReplansCounted /\ ExecutionsCounted
    OBVIOUS
  <2>1. Returns(index) = {} /\ Cardinality(Returns(index)) = 0
    <3>1. Returns(index) = {}
      BY DEF Init, Returns
    <3> QED BY <3>1, FS_EmptySet
  <2>2. (MaxRetries + 1) * (index - 1) = 0
    BY ConstantsAssumption DEF Init
  <2> QED BY <2>1, <2>2, ConstantsAssumption DEF Init, ReplansCounted, ExecutionsCounted
<1>2. ASSUME Inv, ExecutionsCounted
      PROVE  ExecutionBudget
  <2> DEFINE tries == MaxRetries + 1
             count == Cardinality(Returns(index))
  <2>1. /\ count \in Nat /\ index - 1 \in Nat /\ index \in Nat /\ Len(queue) \in Nat
        /\ Len(outputs) \in Nat /\ tries \in Nat /\ index <= Len(queue) + 1
    BY <1>2, ReturnsFinite, ConstantsAssumption DEF Inv, TypeOK
  <2>2. count <= tries
    <3>1. Executions(index) <= MaxRetries + 1
      BY <1>2 DEF Inv, TypeOK, RetriesBounded
    <3>2. Executions(index) = count \/ Executions(index) = count + 1
      BY <2>1 DEF Executions
    <3> QED BY <2>1, <3>1, <3>2
  <2>3. Len(outputs) <= tries * (index - 1) + count
    BY <1>2 DEF ExecutionsCounted
  <2>4. index > Len(queue) => count = 0
    BY <1>2, FS_EmptySet DEF ExecutionsCounted
  <2> HIDE DEF tries, count
  <2>5. CASE index <= Len(queue)
    <3>1. tries * ((index - 1) + 1) = tries * (index - 1) + tries /\ (index - 1) + 1 = index
      BY <2>1, Times
    <3>2. tries * index <= tries * Len(queue) /\ tries * index \in Nat
          /\ tries * Len(queue) \in Nat /\ tries * (index - 1) \in Nat
      BY <2>1, <2>5, Times
    <3> QED BY <2>1, <2>2, <2>3, <3>1, <3>2 DEF ExecutionBudget, tries
  <2>6. CASE index > Len(queue)
    <3>1. index - 1 = Len(queue)
      BY <2>1, <2>6
    <3> QED BY <2>1, <2>3, <2>4, <2>6, <3>1, Times DEF ExecutionBudget, tries
  <2> QED BY <2>1, <2>5, <2>6
<1> QED BY <1>1, <1>2, Invariance, ReplansCountedInv, ExecutionsCountedInv, PTL DEF Spec
=============================================================================
