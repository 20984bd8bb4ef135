----------------------- MODULE FleetCoordinatorProofs -----------------------
(***************************************************************************)
(* Proofs about FleetCoordinator, for every set of workers and tasks and   *)
(* every value of the bounds.  The first part is about one task, the       *)
(* second about the whole memory, the third about the steps.               *)
(***************************************************************************)
EXTENDS FleetCoordinator, TLAPS

-----------------------------------------------------------------------------
(* One task.                                                               *)

\* h is a complete history of the task: an entry for each attempt, in order.
Recorded(task, h) ==
  /\ h \in Seq(Attempt)
  /\ Len(h) = task.attempt
  /\ \A i \in DOMAIN h : h[i].generation = i /\ h[i].attempt = i

\* Ending the running attempt completes the history.
LEMMA EndedRecorded ==
  ASSUME NEW task \in TaskRecord, GoodTask(task), task.status = "running",
         NEW how \in Ending
  PROVE  Recorded(task, Ended(task, how))
<1> DEFINE entry == [attempt |-> task.attempt, worker |-> task.lease.worker,
                     generation |-> task.lease.generation, status |-> how]
<1>1. /\ task.lease \in Lease
      /\ task.lease.generation = task.attempt
      /\ task.attempt \in Nat
  BY DEF TaskRecord, GoodTask, LeaseAgrees, BudgetKept
<1>2. /\ task.history \in Seq(Attempt)
      /\ Len(task.history) + 1 = task.attempt
      /\ \A i \in DOMAIN task.history :
           task.history[i].generation = i /\ task.history[i].attempt = i
  <2>1. task.history \in Seq(Attempt) BY DEF TaskRecord
  <2>2. Len(task.history) \in Nat BY <2>1
  <2> QED BY <1>1, <2>1, <2>2 DEF GoodTask, HistoryComplete
<1>3. entry \in Attempt
  BY <1>1 DEF Attempt, Lease
<1>4. Ended(task, how) = Append(task.history, entry)
  BY DEF Ended
<1>5. /\ Ended(task, how) \in Seq(Attempt)
      /\ Len(Ended(task, how)) = task.attempt
      /\ DOMAIN Ended(task, how) = 1 .. task.attempt
  BY <1>1, <1>2, <1>3, <1>4
<1>6. ASSUME NEW i \in 1 .. task.attempt
      PROVE  /\ Ended(task, how)[i].generation = i
             /\ Ended(task, how)[i].attempt = i
  <2>1. CASE i = task.attempt
    <3>1. Ended(task, how)[i] = entry
      BY <1>2, <1>3, <1>4, <2>1
    <3> QED BY <1>1, <2>1, <3>1
  <2>2. CASE i # task.attempt
    <3>1. i \in DOMAIN task.history
      BY <1>1, <1>2, <2>2
    <3>2. Ended(task, how)[i] = task.history[i]
      BY <1>2, <1>3, <1>4, <3>1
    <3> QED BY <1>2, <3>1, <3>2
  <2> QED BY <2>1, <2>2
<1> QED BY <1>5, <1>6 DEF Recorded

\* A retry leaves a good task, provided the budget allows one.
LEMMA RequeueGood ==
  ASSUME NEW task \in TaskRecord, GoodTask(task), task.status = "running",
         AttemptsLeft(task), NEW h, Recorded(task, h)
  PROVE  Requeue(task, h) \in TaskRecord /\ GoodTask(Requeue(task, h))
<1> DEFINE new == Requeue(task, h)
<1>1. /\ new.submission = task.submission /\ new.attempt = task.attempt
      /\ new.lease_generation = task.lease_generation
      /\ new.status = "queued" /\ new.lease = NoLease /\ new.history = h
      /\ new \in TaskRecord
  BY DEF Requeue, TaskRecord, TaskStatus, Recorded
<1>2. LeaseAgrees(new)
  BY <1>1 DEF LeaseAgrees, GoodTask
<1>3. BudgetKept(new)
  BY <1>1 DEF GoodTask, BudgetKept, AttemptsLeft
<1>4. HistoryComplete(new)
  BY <1>1 DEF Recorded, HistoryComplete, TaskRecord
<1> QED BY <1>1, <1>2, <1>3, <1>4 DEF GoodTask

\* Ending a task leaves a good task: with a complete history, or with the
\* history it had when a deadline ends it.
LEMMA FinishGood ==
  ASSUME NEW task \in TaskRecord, GoodTask(task), task.status # "absent",
         NEW status \in Terminal, NEW h,
         NEW result \in Outcome \cup TerminationCause,
         \/ Recorded(task, h)
         \/ result = "deadline_exceeded" /\ h = task.history
  PROVE  /\ Finish(task, status, result, h) \in TaskRecord
         /\ GoodTask(Finish(task, status, result, h))
<1> DEFINE new == Finish(task, status, result, h)
<1>1. h \in Seq(Attempt)
  BY DEF Recorded, TaskRecord
<1>2. /\ new.submission = task.submission /\ new.attempt = task.attempt
      /\ new.lease_generation = task.lease_generation
      /\ new.status = status /\ new.lease = NoLease /\ new.history = h
      /\ new.result = result
      /\ new \in TaskRecord
  BY <1>1 DEF Finish, TaskRecord, TaskStatus
<1>3. status \notin {"absent", "queued", "running"}
  BY DEF Terminal
<1>4. LeaseAgrees(new)
  BY <1>2, <1>3 DEF LeaseAgrees, GoodTask
<1>5. BudgetKept(new)
  BY <1>2, <1>3 DEF GoodTask, BudgetKept
<1>6. HistoryComplete(new)
  <2>1. CASE Recorded(task, h)
    BY <1>2, <1>3, <2>1 DEF Recorded, HistoryComplete, TaskRecord
  <2>2. CASE result = "deadline_exceeded" /\ h = task.history
    BY <1>2, <1>3, <2>2 DEF GoodTask, HistoryComplete, TaskRecord
  <2> QED BY <2>1, <2>2
<1> QED BY <1>2, <1>4, <1>5, <1>6 DEF GoodTask

-----------------------------------------------------------------------------
(* What every handler but claim_task does to a task at most: it keeps the  *)
(* generation, starts no attempt, and leaves a finished task as it is      *)
(* unless its deadline overwrites it.                                      *)

TaskKept(old, new) ==
  /\ old.status = "absent" => new.status \in {"absent", "queued"}
  /\ old.status # "absent" =>
       /\ new.status # "absent"
       /\ new.submission = old.submission
       /\ new.idempotency_key = old.idempotency_key
  /\ new.lease_generation = old.lease_generation
  /\ new.status = "running" =>
       /\ old.status = "running"
       /\ new.lease.worker = old.lease.worker
       /\ new.lease.lease_id = old.lease.lease_id
       /\ new.lease.generation = old.lease.generation
  /\ old.status \in Terminal =>
       \/ new = old
       \/ /\ DeadlineExpired(old, now)
          /\ new.status = "failed"
          /\ new.result = "deadline_exceeded"

GoodNext(old, new) == new \in TaskRecord /\ GoodTask(new) /\ TaskKept(old, new)

LEMMA SameIsGoodNext ==
  ASSUME NEW task \in TaskRecord, GoodTask(task)
  PROVE  GoodNext(task, task)
BY DEF GoodNext, TaskKept

LEMMA RequeueGoodNext ==
  ASSUME NEW task \in TaskRecord, GoodTask(task), task.status = "running",
         AttemptsLeft(task), NEW how \in Ending
  PROVE  GoodNext(task, Requeue(task, Ended(task, how)))
<1> DEFINE new == Requeue(task, Ended(task, how))
<1>1. new \in TaskRecord /\ GoodTask(new)
  BY EndedRecorded, RequeueGood
<1>2. /\ new.lease_generation = task.lease_generation
      /\ new.status = "queued"
      /\ new.submission = task.submission
      /\ new.idempotency_key = task.idempotency_key
  BY DEF Requeue, TaskRecord
<1>3. task.status \notin Terminal
  BY DEF Terminal
<1> QED BY <1>1, <1>2, <1>3 DEF GoodNext, TaskKept

LEMMA FinishGoodNext ==
  ASSUME NEW task \in TaskRecord, GoodTask(task), task.status # "absent",
         NEW status \in Terminal, NEW h,
         NEW result \in Outcome \cup TerminationCause,
         \/ Recorded(task, h)
         \/ result = "deadline_exceeded" /\ h = task.history,
         task.status \in Terminal =>
           /\ status = "failed"
           /\ result = "deadline_exceeded"
           /\ DeadlineExpired(task, now)
  PROVE  GoodNext(task, Finish(task, status, result, h))
<1> DEFINE new == Finish(task, status, result, h)
<1>1. new \in TaskRecord /\ GoodTask(new)
  BY FinishGood
<1>2. /\ new.lease_generation = task.lease_generation
      /\ new.status = status
      /\ new.result = result
      /\ new.submission = task.submission
      /\ new.idempotency_key = task.idempotency_key
  BY DEF Finish, TaskRecord
<1>3. status # "running" /\ status # "absent"
  BY DEF Terminal
<1> QED BY <1>1, <1>2, <1>3 DEF GoodNext, TaskKept

\* _finish_deadline, on any task whose deadline has passed.
LEMMA FinishDeadlineGoodNext ==
  ASSUME NEW task \in TaskRecord, GoodTask(task), task.status # "absent",
         DeadlineExpired(task, now)
  PROVE  GoodNext(task, FinishDeadline(task))
<1>1. "failed" \in Terminal /\ "deadline_exceeded" \in Outcome
  BY DEF Terminal, Outcome
<1> QED BY <1>1, FinishGoodNext DEF FinishDeadline

\* expire_leases on one task.
LEMMA ExpireTaskGoodNext ==
  ASSUME NEW task \in TaskRecord, GoodTask(task), NEW at
  PROVE  GoodNext(task, ExpireTask(task, at))
<1>1. "failed" \in Terminal /\ "lease_expired" \in TerminationCause
      /\ "lease_expired" \in Ending
  BY DEF Terminal, TerminationCause, Ending
<1>2. CASE ExpireTask(task, at) = task
  BY <1>2, SameIsGoodNext
<1>3. CASE ExpireTask(task, at) # task
  <2>1. task.status = "running" /\ task.status \notin Terminal
    BY <1>3 DEF ExpireTask, Terminal
  <2>2. Recorded(task, Ended(task, "lease_expired"))
    BY <1>1, <2>1, EndedRecorded
  <2>3. CASE AttemptsLeft(task) /\ ~DeadlineExpired(task, at)
    <3>1. ExpireTask(task, at) = Requeue(task, Ended(task, "lease_expired"))
      BY <1>3, <2>3 DEF ExpireTask
    <3> QED BY <1>1, <2>1, <2>3, <3>1, RequeueGoodNext
  <2>4. CASE ~(AttemptsLeft(task) /\ ~DeadlineExpired(task, at))
    <3>1. ExpireTask(task, at) =
            Finish(task, "failed", "lease_expired", Ended(task, "lease_expired"))
      BY <1>3, <2>4 DEF ExpireTask
    <3> QED BY <1>1, <2>1, <2>2, <3>1, FinishGoodNext
  <2> QED BY <2>3, <2>4
<1> QED BY <1>2, <1>3

\* submit_result, under the current lease.
LEMMA ConcludedGoodNext ==
  ASSUME NEW task \in TaskRecord, GoodTask(task), task.status = "running",
         NEW r \in Result
  PROVE  GoodNext(task, Concluded(task, r))
<1>1. /\ r.outcome \in Outcome
      /\ StatusOf(r.outcome) \in Ending
      /\ StatusOf(r.outcome) \in {"success", "cancelled", "failed"}
  BY ConstantsAssumption DEF StatusOf, Ending
<1>2. Recorded(task, Ended(task, StatusOf(r.outcome)))
  BY <1>1, EndedRecorded
<1>3. task.status \notin Terminal /\ task.status # "absent"
  BY DEF Terminal
<1>4. \A status \in Terminal :
        GoodNext(task, Finish(task, status, r.outcome,
                              Ended(task, StatusOf(r.outcome))))
  BY <1>1, <1>2, <1>3, FinishGoodNext
<1>5. {"succeeded", "cancelled", "failed"} \subseteq Terminal
  BY DEF Terminal
<1>6. CASE r.outcome = "failed" /\ r.retryable /\ AttemptsLeft(task)
  <2>1. Concluded(task, r) = Requeue(task, Ended(task, StatusOf(r.outcome)))
    BY <1>6 DEF Concluded, StatusOf
  <2> QED BY <1>1, <1>6, <2>1, RequeueGoodNext
<1>7. CASE ~(r.outcome = "failed" /\ r.retryable /\ AttemptsLeft(task))
  <2>1. \E status \in {"succeeded", "cancelled", "failed"} :
          Concluded(task, r) = Finish(task, status, r.outcome,
                                      Ended(task, StatusOf(r.outcome)))
    BY <1>1, <1>7 DEF Concluded
  <2> QED BY <1>4, <1>5, <2>1
<1> QED BY <1>6, <1>7

\* cancel_task on a task that is not finished.
LEMMA CancelGoodNext ==
  ASSUME NEW task \in TaskRecord, GoodTask(task),
         task.status \in {"queued", "running"},
         NEW status \in Terminal, NEW cause \in CancelCause
  PROVE  GoodNext(task, Finish(task, status, cause,
                    IF task.status = "running"
                    THEN Ended(task, "coordinator_terminated_lease")
                    ELSE task.history))
<1>1. cause \in TerminationCause
  BY DEF CancelCause, TerminationCause
<1>2. task.status \notin Terminal /\ task.status # "absent"
  BY DEF Terminal
<1>3. CASE task.status = "running"
  <2>1. Recorded(task, Ended(task, "coordinator_terminated_lease"))
    BY <1>3, EndedRecorded DEF Ending
  <2> QED BY <1>1, <1>2, <1>3, <2>1, FinishGoodNext
<1>4. CASE task.status = "queued"
  <2>1. Recorded(task, task.history)
    BY <1>4 DEF GoodTask, HistoryComplete, Recorded, TaskRecord
  <2> QED BY <1>1, <1>2, <1>4, <2>1, FinishGoodNext
<1> QED BY <1>3, <1>4

\* renew_lease on the current lease.
LEMMA RenewedGoodNext ==
  ASSUME NEW task \in TaskRecord, GoodTask(task), task.status = "running",
         NEW at \in Nat
  PROVE  GoodNext(task, [task EXCEPT !.lease.expires_at = at])
<1> DEFINE new == [task EXCEPT !.lease.expires_at = at]
<1>1. task.lease \in Lease
  BY DEF GoodTask, LeaseAgrees, TaskRecord
<1>2. /\ new.lease \in Lease
      /\ new.lease.worker = task.lease.worker
      /\ new.lease.lease_id = task.lease.lease_id
      /\ new.lease.generation = task.lease.generation
      /\ new.lease.attempt = task.lease.attempt
  BY <1>1 DEF TaskRecord, Lease
<1>3. new.lease # NoLease
  BY <1>2, NoLeaseAssumption
<1>4. /\ new.submission = task.submission /\ new.attempt = task.attempt
      /\ new.lease_generation = task.lease_generation
      /\ new.status = "running" /\ new.history = task.history
      /\ new.result = task.result
      /\ new.idempotency_key = task.idempotency_key
  BY DEF TaskRecord
<1>5. new \in TaskRecord
  BY <1>2 DEF TaskRecord
<1>6. GoodTask(new)
  BY <1>2, <1>3, <1>4
  DEF GoodTask, LeaseAgrees, BudgetKept, HistoryComplete, AttemptsLeft
<1> QED BY <1>2, <1>4, <1>5, <1>6 DEF GoodNext, TaskKept, Terminal

\* claim_task on the task it leases.
LEMMA LeasedGood ==
  ASSUME NEW m \in Memory, NEW t \in Task, NEW w \in Worker,
         GoodTask(m.tasks[t]), m.tasks[t].status = "queued",
         m.workers[w].registration \in Registration,
         now \in Nat, boot \in Nat
  PROVE  LET new == Leased(m, t, w).tasks[t] IN
         /\ new \in TaskRecord
         /\ GoodTask(new)
         /\ new.status = "running"
         /\ new.lease_generation = m.tasks[t].lease_generation + 1
         /\ new.lease.generation = new.lease_generation
         /\ new.lease.lease_id = <<boot, new.lease_generation>>
         /\ new.lease.worker = w
         /\ new.submission = m.tasks[t].submission
         /\ new.idempotency_key = m.tasks[t].idempotency_key
<1> DEFINE task == m.tasks[t]
           new  == Leased(m, t, w).tasks[t]
<1>1. /\ task \in TaskRecord
      /\ m.tasks \in [Task -> TaskRecord]
      /\ task.lease_generation \in Nat
      /\ task.attempt \in Nat
      /\ task.submission \in Submission
      /\ task.attempt = task.lease_generation
      /\ task.attempt < task.submission.max_attempts
      /\ task.submission.max_attempts \in Nat
  BY ConstantsAssumption
  DEF Memory, TaskRecord, GoodTask, LeaseAgrees, BudgetKept, AttemptsLeft
<1>2. m.workers[w].registration.lease_seconds \in Nat
  BY ConstantsAssumption
<1> DEFINE lease == [worker |-> w,
                     lease_id |-> <<boot, task.lease_generation + 1>>,
                     generation |-> task.lease_generation + 1,
                     attempt |-> task.attempt + 1,
                     expires_at |->
                       now + m.workers[w].registration.lease_seconds]
<1>3. lease \in Lease
  BY <1>1, <1>2 DEF Lease, LeaseId
<1>4. new = [task EXCEPT !.status = "running", !.attempt = task.attempt + 1,
                         !.lease_generation = task.lease_generation + 1,
                         !.lease = lease]
  BY <1>1 DEF Leased, WithTask, Memory
<1> HIDE DEF lease, new, task
<1>5. /\ new.submission = task.submission
      /\ new.attempt = task.attempt + 1
      /\ new.lease_generation = task.lease_generation + 1
      /\ new.status = "running" /\ new.lease = lease
      /\ new.history = task.history /\ new.result = task.result
      /\ new.idempotency_key = task.idempotency_key
      /\ new \in TaskRecord
  <2>1. lease \in Lease \cup {NoLease} /\ "running" \in TaskStatus
        /\ task.attempt + 1 \in Nat /\ task.lease_generation + 1 \in Nat
    BY <1>1, <1>3 DEF TaskStatus
  <2> QED BY <1>1, <1>4, <2>1 DEF TaskRecord
<1>6. LeaseAgrees(new)
  BY <1>1, <1>3, <1>5, NoLeaseAssumption DEF LeaseAgrees, lease
<1>7. BudgetKept(new)
  BY <1>1, <1>5 DEF BudgetKept
<1>8. HistoryComplete(new)
  <2>1. task.history \in Seq(Attempt) /\ Len(task.history) \in Nat
    BY <1>1 DEF TaskRecord
  <2>2. task.attempt - Len(task.history) = 0
    BY <1>1, <2>1 DEF GoodTask, HistoryComplete, task
  <2>3. \A i \in DOMAIN task.history :
          task.history[i].generation = i /\ task.history[i].attempt = i
    BY DEF GoodTask, HistoryComplete, task
  <2> QED BY <1>1, <1>5, <2>1, <2>2, <2>3 DEF HistoryComplete
<1> QED BY <1>5, <1>6, <1>7, <1>8 DEF GoodTask, lease, new, task

\* _restore_snapshot on one task: no lease survives.
LEMMA RestoreTaskGood ==
  ASSUME NEW task \in TaskRecord, GoodTask(task)
  PROVE  /\ GoodNext(task, RestoreTask(task))
         /\ RestoreTask(task).status # "running"
<1>1. /\ "failed" \in Terminal
      /\ {"attempts_exhausted", "deadline_exceeded"} \subseteq TerminationCause
      /\ "coordinator_restart_lease_invalidated" \in Ending
  BY DEF Terminal, TerminationCause, Ending
<1> DEFINE ended == Ended(task, "coordinator_restart_lease_invalidated")
<1>2. CASE task.status = "running"
  <2>1. Recorded(task, ended)
    BY <1>1, <1>2, EndedRecorded
  <2>2. \A cause \in TerminationCause : GoodNext(task, Finish(task, "failed", cause, ended))
    BY <1>1, <1>2, <2>1, FinishGoodNext DEF Terminal
  <2>3. \A cause \in TerminationCause : Finish(task, "failed", cause, ended).status = "failed"
    BY DEF Finish, TaskRecord
  <2>4. CASE DeadlineExpired(task, now)
    <3>1. RestoreTask(task) = Finish(task, "failed", "deadline_exceeded", ended)
      BY <1>2, <2>4 DEF RestoreTask
    <3> QED BY <1>1, <2>2, <2>3, <3>1
  <2>5. CASE ~DeadlineExpired(task, now) /\ AttemptsLeft(task)
    <3>1. RestoreTask(task) = Requeue(task, ended)
      BY <1>2, <2>5 DEF RestoreTask
    <3>2. Requeue(task, ended).status = "queued"
      BY DEF Requeue, TaskRecord
    <3> QED BY <1>1, <1>2, <2>5, <3>1, <3>2, RequeueGoodNext
  <2>6. CASE ~DeadlineExpired(task, now) /\ ~AttemptsLeft(task)
    <3>1. RestoreTask(task) = Finish(task, "failed", "attempts_exhausted", ended)
      BY <1>2, <2>6 DEF RestoreTask
    <3> QED BY <1>1, <2>2, <2>3, <3>1
  <2> QED BY <2>4, <2>5, <2>6
<1>3. CASE task.status = "queued" /\ DeadlineExpired(task, now)
  <2>1. RestoreTask(task) = FinishDeadline(task)
    BY <1>3 DEF RestoreTask, FinishDeadline
  <2>2. FinishDeadline(task).status = "failed"
    BY DEF FinishDeadline, Finish, TaskRecord
  <2> QED BY <1>3, <2>1, <2>2, FinishDeadlineGoodNext
<1>4. CASE ~(\/ task.status = "running"
             \/ task.status = "queued" /\ DeadlineExpired(task, now))
  <2>1. RestoreTask(task) = [task EXCEPT !.lease = NoLease]
    BY <1>4 DEF RestoreTask
  <2>2. task.lease = NoLease
    BY <1>4 DEF GoodTask, LeaseAgrees
  <2>3. RestoreTask(task) = task
    BY <2>1, <2>2 DEF TaskRecord
  <2> QED BY <1>4, <2>3, SameIsGoodNext
<1> QED BY <1>2, <1>3, <1>4

LEMMA GoodNextTransitive ==
  ASSUME NEW a \in TaskRecord, NEW b, NEW c, GoodNext(a, b), GoodNext(b, c),
         a.status = "absent" => b.status = "absent"
  PROVE  GoodNext(a, c)
BY DEF GoodNext, TaskKept, DeadlineExpired, Terminal

-----------------------------------------------------------------------------
(* The whole memory.                                                       *)

GoodStep(m, n) ==
  /\ n \in Memory
  /\ UniqueKeys(n)
  /\ \A t \in Task : GoodNext(m.tasks[t], n.tasks[t])
  /\ \A w \in Worker : GoodWorker(n.workers[w])

\* Only submit_task gives a task a key.
LEMMA SameKeys ==
  ASSUME NEW m, NEW n, GoodMemory(m),
         \A t \in Task : GoodNext(m.tasks[t], n.tasks[t]),
         \A t \in Task : m.tasks[t].status = "absent" => n.tasks[t] = m.tasks[t]
  PROVE  UniqueKeys(n)
<1>1. \A t \in Task : n.tasks[t].idempotency_key = m.tasks[t].idempotency_key
  BY DEF GoodNext, TaskKept
<1> QED BY <1>1 DEF UniqueKeys, GoodMemory

LEMMA GoodStepGood ==
  ASSUME NEW m, NEW n, GoodStep(m, n)
  PROVE  n \in Memory /\ GoodMemory(n)
BY DEF GoodStep, GoodMemory, GoodNext

LEMMA SameGoodStep ==
  ASSUME NEW m \in Memory, GoodMemory(m)
  PROVE  GoodStep(m, m)
<1>1. \A t \in Task : m.tasks[t] \in TaskRecord
  BY DEF Memory
<1> QED BY <1>1, SameIsGoodNext DEF GoodStep, GoodMemory

LEMMA GoodStepTransitive ==
  ASSUME NEW k \in Memory, NEW m, NEW n, GoodStep(k, m), GoodStep(m, n),
         \A t \in Task : k.tasks[t].status = "absent" =>
                         m.tasks[t].status = "absent"
  PROVE  GoodStep(k, n)
<1>1. \A t \in Task : k.tasks[t] \in TaskRecord
  BY DEF Memory
<1> QED BY <1>1, GoodNextTransitive DEF GoodStep

LEMMA WithTaskGoodStep ==
  ASSUME NEW m \in Memory, GoodMemory(m), NEW t \in Task, NEW task,
         GoodNext(m.tasks[t], task),
         m.tasks[t].status # "absent" \/ UniqueKeys(WithTask(m, t, task))
  PROVE  GoodStep(m, WithTask(m, t, task))
<1> DEFINE n == WithTask(m, t, task)
<1>1. /\ n.workers = m.workers
      /\ n.tasks = [m.tasks EXCEPT ![t] = task]
      /\ n \in Memory
  BY DEF WithTask, Memory, GoodNext
<1>2. \A u \in Task : GoodNext(m.tasks[u], n.tasks[u])
  <2> TAKE u \in Task
  <2>1. m.tasks[u] \in TaskRecord /\ GoodTask(m.tasks[u])
    BY DEF Memory, GoodMemory
  <2>2. n.tasks[u] = IF u = t THEN task ELSE m.tasks[u]
    BY <1>1 DEF Memory
  <2> QED BY <2>1, <2>2, SameIsGoodNext
<1>3. UniqueKeys(n)
  <2>1. \A u \in Task : u # t => n.tasks[u] = m.tasks[u]
    BY <1>1 DEF Memory
  <2> QED BY <1>2, <2>1, SameKeys
<1> QED BY <1>1, <1>2, <1>3 DEF GoodStep, GoodMemory

LEMMA WithWorkerGoodStep ==
  ASSUME NEW m, NEW n, GoodStep(m, n), NEW w \in Worker,
         NEW worker \in WorkerRecord, GoodWorker(worker)
  PROVE  GoodStep(m, WithWorker(n, w, worker))
<1>1. /\ WithWorker(n, w, worker).tasks = n.tasks
      /\ WithWorker(n, w, worker).workers = [n.workers EXCEPT ![w] = worker]
      /\ WithWorker(n, w, worker) \in Memory
  BY DEF WithWorker, Memory, GoodStep
<1>2. n.workers \in [Worker -> WorkerRecord]
  BY DEF GoodStep, Memory
<1> QED BY <1>1, <1>2 DEF GoodStep, UniqueKeys

LEMMA ExpiredGoodStep ==
  ASSUME NEW m \in Memory, GoodMemory(m), NEW at
  PROVE  GoodStep(m, Expired(m, at))
<1> DEFINE n == Expired(m, at)
<1>1. \A t \in Task : GoodNext(m.tasks[t], ExpireTask(m.tasks[t], at))
  BY ExpireTaskGoodNext DEF Memory, GoodMemory
<1>2. \A w \in Worker : /\ ExpireWorker(m.workers[w], at) \in WorkerRecord
                        /\ GoodWorker(ExpireWorker(m.workers[w], at))
  <2> TAKE w \in Worker
  <2>1. m.workers[w] \in WorkerRecord /\ GoodWorker(m.workers[w])
    BY DEF Memory, GoodMemory
  <2> QED BY <2>1 DEF ExpireWorker, WorkerRecord, GoodWorker, Lifecycle
<1>3. n \in Memory
  BY <1>1, <1>2 DEF Expired, Memory, GoodNext
<1>4. \A t \in Task : m.tasks[t].status = "absent" => n.tasks[t] = m.tasks[t]
  BY DEF Expired, ExpireTask
<1>5. \A t \in Task : GoodNext(m.tasks[t], n.tasks[t])
  BY <1>1 DEF Expired
<1>6. UniqueKeys(n)
  BY <1>4, <1>5, SameKeys
<1> QED BY <1>2, <1>3, <1>5, <1>6 DEF GoodStep, Expired

\* The tasks that claim_task finishes on its way are tasks in the queue.
LEMMA FinishedDeadlinesGoodStep ==
  ASSUME NEW m \in Memory, GoodMemory(m), NEW T \in SUBSET Task,
         \A t \in T : m.tasks[t].status = "queued" /\ DeadlineExpired(m.tasks[t], now)
  PROVE  GoodStep(m, FinishedDeadlines(m, T))
<1> DEFINE n == FinishedDeadlines(m, T)
<1>1. /\ n.workers = m.workers
      /\ n.tasks = [t \in Task |->
           IF t \in T THEN FinishDeadline(m.tasks[t]) ELSE m.tasks[t]]
  BY DEF FinishedDeadlines, Memory
<1>2. \A t \in Task : GoodNext(m.tasks[t], n.tasks[t])
  <2> TAKE t \in Task
  <2>1. m.tasks[t] \in TaskRecord /\ GoodTask(m.tasks[t])
    BY DEF Memory, GoodMemory
  <2>2. CASE t \in T
    BY <1>1, <2>1, <2>2, FinishDeadlineGoodNext
  <2>3. CASE t \notin T
    BY <1>1, <2>1, <2>3, SameIsGoodNext
  <2> QED BY <2>2, <2>3
<1>3. n \in Memory
  <2>1. n.tasks \in [Task -> TaskRecord]
    BY <1>1, <1>2 DEF GoodNext
  <2> QED BY <2>1 DEF FinishedDeadlines, Memory
<1>4. UniqueKeys(n)
  <2>1. \A t \in Task : m.tasks[t].status = "absent" => n.tasks[t] = m.tasks[t]
    BY <1>1
  <2> QED BY <1>2, <2>1, SameKeys
<1> QED BY <1>1, <1>2, <1>3, <1>4 DEF GoodStep, GoodMemory

-----------------------------------------------------------------------------
(* Steps that hand out no lease.                                           *)

\* The coordinator goes to a good memory and, if it was not fail-stopped, may
\* store a good one; when it is still up, the same one.
QuietStep ==
  /\ mode # "down"
  /\ GoodStep(memory, memory')
  /\ \/ stored' = stored
     \/ mode = "up" /\ GoodStep(memory, stored')
  /\ mode' \in {"up", "failed"}
  /\ mode' = "up" => mode = "up" /\ stored' = memory'
  /\ UNCHANGED <<now, boot, started, issued>>
  /\ reported' \in [Task -> SUBSET Terminal]

LEMMA PersistQuiet ==
  ASSUME IInv, mode # "down", NEW n, GoodStep(memory, n), Persist(n),
         UNCHANGED <<now, boot, started, issued>>,
         reported' \in [Task -> SUBSET Terminal]
  PROVE  QuietStep
<1>1. mode \in {"up", "failed"}
  BY DEF IInv, TypeOK
<1> QED BY <1>1 DEF QuietStep, Persist, Saved, NotSaved, SaveRaised, SaveRefused

\* The same for a handler that only answers.
LEMMA AnswerQuiet ==
  ASSUME IInv, mode # "down", UNCHANGED <<mode, memory, stored>>,
         UNCHANGED <<now, boot, started, issued>>,
         reported' \in [Task -> SUBSET Terminal]
  PROVE  QuietStep
<1>1. mode \in {"up", "failed"} /\ (mode = "up" => stored = memory)
  BY DEF IInv, TypeOK, UpIsDurable
<1>2. GoodStep(memory, memory)
  BY SameGoodStep DEF IInv, TypeOK
<1> QED BY <1>1, <1>2 DEF QuietStep

LEMMA TellTyped ==
  ASSUME TypeOK, NEW t \in Task, NEW status, Tell(t, status)
  PROVE  reported' \in [Task -> SUBSET Terminal]
<1>1. \A s \in SUBSET Terminal : s \cup ({status} \cap Terminal) \in SUBSET Terminal
  OBVIOUS
<1> QED BY <1>1 DEF Tell, TypeOK

LEMMA RegisterQuiet ==
  ASSUME IInv, NEW w \in Worker, NEW r \in Registration, Register(w, r)
  PROVE  QuietStep
<1>1. PICK at \in Earlier :
        Persist(WithWorker(memory, w,
          [registration |-> r, lifecycle |-> "ready", last_heartbeat_at |-> at]))
  BY DEF Register
<1>2. at \in Nat
  BY DEF Earlier, IInv, TypeOK
<1>3. GoodStep(memory, memory)
  BY SameGoodStep DEF IInv, TypeOK
<1>4. GoodStep(memory, WithWorker(memory, w,
        [registration |-> r, lifecycle |-> "ready", last_heartbeat_at |-> at]))
  BY <1>2, <1>3, WithWorkerGoodStep DEF WorkerRecord, GoodWorker, Lifecycle
<1> QED BY <1>1, <1>4, PersistQuiet DEF Register, Silent, IInv, TypeOK

\* heartbeat, drain_worker and stop_worker change one registered worker.
LEMMA WorkerChangeQuiet ==
  ASSUME IInv, mode # "down", NEW w \in Worker,
         memory.workers[w].lifecycle # "unregistered",
         NEW worker \in WorkerRecord,
         worker.registration = memory.workers[w].registration,
         Persist(WithWorker(memory, w, worker)), Silent
  PROVE  QuietStep
<1>1. GoodWorker(worker)
  BY DEF IInv, GoodMemory, GoodWorker
<1>2. GoodStep(memory, WithWorker(memory, w, worker))
  BY <1>1, SameGoodStep, WithWorkerGoodStep DEF IInv, TypeOK
<1> QED BY <1>2, PersistQuiet DEF Silent, IInv, TypeOK

LEMMA HeartbeatQuiet ==
  ASSUME IInv, NEW w \in Worker, Heartbeat(w)
  PROVE  QuietStep
<1> DEFINE worker == [memory.workers[w] EXCEPT !.last_heartbeat_at = now]
<1>1. /\ worker \in WorkerRecord
      /\ worker.registration = memory.workers[w].registration
  BY DEF IInv, TypeOK, Memory, WorkerRecord
<1> QED BY <1>1, WorkerChangeQuiet DEF Heartbeat

LEMMA SetLifecycleQuiet ==
  ASSUME IInv, NEW w \in Worker, NEW lifecycle \in Lifecycle,
         SetLifecycle(w, lifecycle)
  PROVE  QuietStep
<1> DEFINE worker == [memory.workers[w] EXCEPT !.lifecycle = lifecycle,
                                               !.last_heartbeat_at = now]
<1>1. /\ worker \in WorkerRecord
      /\ worker.registration = memory.workers[w].registration
  BY DEF IInv, TypeOK, Memory, WorkerRecord
<1> QED BY <1>1, WorkerChangeQuiet DEF SetLifecycle

LEMMA SubmitQuiet ==
  ASSUME IInv, NEW t \in Task, NEW k \in Key \cup {NoKey}, NEW s \in Submission,
         Submit(t, k, s)
  PROVE  QuietStep
<1> DEFINE new == [EmptyTask EXCEPT
              !.submission = s, !.idempotency_key = IF k = NoKey THEN t ELSE k,
              !.submitted_at = now, !.status = "queued"]
<1>1. memory.tasks[t] = EmptyTask
  BY DEF Submit, IInv, GoodMemory, GoodTask, LeaseAgrees
<1>2. new \in TaskRecord
  <2>1. <<>> \in Seq(Attempt)
    OBVIOUS
  <2> QED BY <2>1 DEF EmptyTask, TaskRecord, TaskStatus, IInv, TypeOK
<1>3. /\ s.max_attempts \in Nat /\ 0 < s.max_attempts
  BY ConstantsAssumption
<1>4. GoodTask(new)
  <2>1. LeaseAgrees(new)
    BY DEF LeaseAgrees, EmptyTask
  <2>2. BudgetKept(new)
    BY <1>3 DEF BudgetKept, EmptyTask, AttemptsLeft
  <2>3. HistoryComplete(new)
    BY DEF HistoryComplete, EmptyTask
  <2> QED BY <2>1, <2>2, <2>3 DEF GoodTask
<1>5. TaskKept(memory.tasks[t], new)
  BY <1>1 DEF TaskKept, EmptyTask, Terminal
<1>6. UniqueKeys(WithTask(memory, t, new))
  <2> DEFINE n == WithTask(memory, t, new)
  <2>1. \A u \in Task : n.tasks[u] = IF u = t THEN new ELSE memory.tasks[u]
    BY DEF WithTask, IInv, TypeOK, Memory
  <2>2. new.idempotency_key = IF k = NoKey THEN t ELSE k
    BY DEF EmptyTask
  <2>3. new.idempotency_key \in Key =>
          \A u \in Task : memory.tasks[u].idempotency_key # new.idempotency_key
    BY <2>2, KeyAssumption DEF Submit
  <2> HIDE DEF new, n
  <2> QED BY <2>1, <2>3 DEF UniqueKeys, IInv, GoodMemory, n
<1>7. GoodStep(memory, WithTask(memory, t, new))
  BY <1>2, <1>4, <1>5, <1>6, WithTaskGoodStep DEF IInv, TypeOK, GoodNext
<1> QED BY <1>7, PersistQuiet DEF Submit, Silent, IInv, TypeOK

\* A task of the coordinator's memory, for the lemmas about one task.
LEMMA TaskInMemory ==
  ASSUME IInv, NEW t \in Task
  PROVE  memory.tasks[t] \in TaskRecord /\ GoodTask(memory.tasks[t])
BY DEF IInv, TypeOK, Memory, GoodMemory

LEMMA TaskChangeGoodStep ==
  ASSUME IInv, NEW t \in Task, memory.tasks[t].status # "absent",
         NEW task, GoodNext(memory.tasks[t], task)
  PROVE  GoodStep(memory, WithTask(memory, t, task))
BY WithTaskGoodStep DEF IInv, TypeOK

LEMMA ExpiryGoodStep ==
  ASSUME IInv, NEW at
  PROVE  GoodStep(memory, Expired(memory, at))
BY ExpiredGoodStep DEF IInv, TypeOK

LEMMA RenewQuiet ==
  ASSUME IInv, NEW l \in issued, Renew(l)
  PROVE  QuietStep
<1> DEFINE t      == l.task
           task   == memory.tasks[t]
           worker == memory.workers[l.worker]
<1>1. t \in Task /\ l.worker \in Worker
  BY DEF IInv, TypeOK, Issued
<1>2. task \in TaskRecord /\ GoodTask(task)
  BY <1>1, TaskInMemory
<1>3. worker \in WorkerRecord /\ GoodWorker(worker) /\ now \in Nat
  BY <1>1 DEF IInv, TypeOK, Memory, GoodMemory
<1>4. /\ mode # "down" /\ task.status # "absent"
      /\ UNCHANGED <<now, boot, started, issued>>
      /\ reported' \in [Task -> SUBSET Terminal]
  BY DEF Renew, Silent, IInv, TypeOK
<1>5. CASE DeadlineExpired(task, now)
  <2>1. GoodStep(memory, WithTask(memory, t, FinishDeadline(task)))
    BY <1>1, <1>2, <1>4, <1>5, FinishDeadlineGoodNext, TaskChangeGoodStep
  <2>2. Persist(WithTask(memory, t, FinishDeadline(task)))
    BY <1>5 DEF Renew
  <2> QED BY <1>4, <2>1, <2>2, PersistQuiet
<1>6. CASE ~DeadlineExpired(task, now) /\ ~Current(task, l)
  <2>1. Persist(Expired(memory, now))
    BY <1>6 DEF Renew
  <2> QED BY <1>4, <2>1, ExpiryGoodStep, PersistQuiet
<1>7. CASE ~DeadlineExpired(task, now) /\ Current(task, l)
  <2>1. worker.lifecycle = "ready"
    BY <1>7 DEF Renew
  <2>2. worker.registration \in Registration
    BY <1>3, <2>1 DEF GoodWorker
  <2>3. GoodStep(memory, memory)
    BY SameGoodStep DEF IInv, TypeOK
  <2>4. CASE HeartbeatExpired(worker, now)
    <3> DEFINE unhealthy == [worker EXCEPT !.lifecycle = "unhealthy"]
    <3>1. Persist(WithWorker(memory, l.worker, unhealthy))
      BY <1>7, <2>4 DEF Renew
    <3>2. unhealthy \in WorkerRecord /\ GoodWorker(unhealthy)
      BY <1>3, <2>2 DEF WorkerRecord, GoodWorker, Lifecycle
    <3> QED BY <1>1, <1>4, <2>3, <3>1, <3>2, WithWorkerGoodStep, PersistQuiet
  <2>5. CASE ~HeartbeatExpired(worker, now)
    <3> DEFINE until   == now + worker.registration.lease_seconds
               renewed == [task EXCEPT !.lease.expires_at = until]
               beaten  == [worker EXCEPT !.last_heartbeat_at = now]
    <3>1. Persist(WithWorker(WithTask(memory, t, renewed), l.worker, beaten))
      BY <1>7, <2>5 DEF Renew
    <3>2. until \in Nat
      BY <1>3, <2>2, ConstantsAssumption
    <3> HIDE DEF until
    <3>3. GoodNext(task, renewed)
      BY <1>2, <1>7, <3>2, RenewedGoodNext DEF Current
    <3>4. GoodStep(memory, WithTask(memory, t, renewed))
      BY <1>1, <1>4, <3>3, TaskChangeGoodStep
    <3>5. beaten \in WorkerRecord /\ GoodWorker(beaten)
      BY <1>3, <2>2 DEF WorkerRecord, GoodWorker
    <3>6. GoodStep(memory, WithWorker(WithTask(memory, t, renewed), l.worker, beaten))
      BY <1>1, <3>4, <3>5, WithWorkerGoodStep
    <3> QED BY <1>4, <3>1, <3>6, PersistQuiet
  <2> QED BY <2>4, <2>5
<1> QED BY <1>5, <1>6, <1>7

LEMMA ConcludeQuiet ==
  ASSUME IInv, NEW l, l.task \in Task, NEW r \in Result, Conclude(l, r)
  PROVE  QuietStep
<1> DEFINE t    == l.task
           task == memory.tasks[t]
           next == Concluded(task, r)
<1>1. task \in TaskRecord /\ GoodTask(task)
  BY TaskInMemory
<1>2. /\ mode # "down" /\ task.status # "absent"
      /\ UNCHANGED <<now, boot, started, issued>>
  BY DEF Conclude
<1>3. \/ Tell(t, task.status) \/ UNCHANGED reported \/ Tell(t, next.status)
  BY DEF Conclude
<1>4. reported' \in [Task -> SUBSET Terminal]
  BY <1>3, TellTyped DEF IInv, TypeOK
<1>5. CASE UNCHANGED <<mode, memory, stored>>
  BY <1>2, <1>4, <1>5, AnswerQuiet
<1>6. CASE /\ DeadlineExpired(task, now)
           /\ Persist(WithTask(memory, t, FinishDeadline(task)))
  <2>1. GoodStep(memory, WithTask(memory, t, FinishDeadline(task)))
    BY <1>1, <1>2, <1>6, FinishDeadlineGoodNext, TaskChangeGoodStep
  <2> QED BY <1>2, <1>4, <1>6, <2>1, PersistQuiet
<1>7. CASE Persist(Expired(memory, now))
  BY <1>2, <1>4, <1>7, ExpiryGoodStep, PersistQuiet
<1>8. CASE Current(task, l) /\ Persist(WithTask(memory, t, next))
  <2>1. GoodStep(memory, WithTask(memory, t, next))
    BY <1>1, <1>2, <1>8, ConcludedGoodNext, TaskChangeGoodStep DEF Current
  <2> QED BY <1>2, <1>4, <1>8, <2>1, PersistQuiet
<1> QED BY <1>5, <1>6, <1>7, <1>8 DEF Conclude, Persist

LEMMA ExpireLeasesQuiet ==
  ASSUME IInv, ExpireLeases
  PROVE  QuietStep
BY ExpiryGoodStep, PersistQuiet DEF ExpireLeases, Silent, IInv, TypeOK

LEMMA CancelQuiet ==
  ASSUME IInv, NEW t \in Task, NEW cause \in CancelCause, Cancel(t, cause)
  PROVE  QuietStep
<1> DEFINE task   == memory.tasks[t]
           status == IF cause = "cancelled" THEN "cancelled" ELSE "failed"
           next   == Finish(task, status, cause,
                       IF task.status = "running"
                       THEN Ended(task, "coordinator_terminated_lease")
                       ELSE task.history)
<1>1. task \in TaskRecord /\ GoodTask(task)
  BY TaskInMemory
<1>2. /\ mode # "down" /\ task.status # "absent"
      /\ UNCHANGED <<now, boot, started, issued>>
  BY DEF Cancel
<1>3. Tell(t, task.status) \/ UNCHANGED reported \/ Tell(t, status)
  BY DEF Cancel
<1>4. reported' \in [Task -> SUBSET Terminal]
  BY <1>3, TellTyped DEF IInv, TypeOK
<1>5. CASE UNCHANGED <<mode, memory, stored>>
  BY <1>2, <1>4, <1>5, AnswerQuiet
<1>6. CASE task.status \notin Terminal /\ Persist(WithTask(memory, t, next))
  <2>1. status \in Terminal /\ task.status \in {"queued", "running"}
    BY <1>1, <1>2, <1>6 DEF Terminal, TaskRecord, TaskStatus
  <2>2. GoodNext(task, next)
    BY <1>1, <2>1, CancelGoodNext
  <2> QED BY <1>2, <1>4, <1>6, <2>2, TaskChangeGoodStep, PersistQuiet
<1> QED BY <1>5, <1>6 DEF Cancel, Persist, Finished

LEMMA ObserveTaskQuiet ==
  ASSUME IInv, NEW t \in Task, ObserveTask(t)
  PROVE  QuietStep
BY TellTyped, AnswerQuiet DEF ObserveTask, IInv

-----------------------------------------------------------------------------
(* Claims.                                                                 *)

\* The one step that hands out a lease: of a queued task, under the next
\* generation, from a memory passed that a quiet step could have left.
Leases(w) ==
  \E t \in Task, passed \in Memory :
    /\ GoodStep(memory, passed)
    /\ memory.tasks[t].status # "absent"
    /\ passed.tasks[t].status = "queued"
    /\ passed.workers[w].registration \in Registration
    /\ Saved(Leased(passed, t, w))
    /\ issued' = issued \cup {Handed(Leased(passed, t, w), t)}
    /\ UNCHANGED <<now, boot, started, reported>>

LeaseStep == \E w \in Worker : Leases(w)

\* What claim_task stores before it hands out a lease.
LEMMA LeasedGoodMemory ==
  ASSUME NEW m \in Memory, GoodMemory(m), NEW t \in Task, NEW w \in Worker,
         m.tasks[t].status = "queued",
         m.workers[w].registration \in Registration, now \in Nat, boot \in Nat
  PROVE  /\ Leased(m, t, w) \in Memory
         /\ GoodMemory(Leased(m, t, w))
         /\ Leased(m, t, w).workers = m.workers
         /\ \A u \in Task \ {t} : Leased(m, t, w).tasks[u] = m.tasks[u]
<1> DEFINE n == Leased(m, t, w)
<1>1. n.tasks[t] \in TaskRecord /\ GoodTask(n.tasks[t])
  BY LeasedGood DEF GoodMemory
<1>2. PICK task : n = WithTask(m, t, task)
  BY DEF Leased
<1>3. /\ n.workers = m.workers
      /\ n.tasks = [m.tasks EXCEPT ![t] = task]
      /\ n.tasks[t] = task
  BY <1>2 DEF WithTask, Memory
<1>4. n \in Memory
  BY <1>1, <1>2, <1>3 DEF WithTask, Memory
<1>5. \A u \in Task \ {t} : n.tasks[u] = m.tasks[u]
  BY <1>3 DEF Memory
<1>6. \A u \in Task : GoodTask(n.tasks[u])
  BY <1>1, <1>5 DEF GoodMemory
<1>7. UniqueKeys(n)
  <2>1. n.tasks[t].idempotency_key = m.tasks[t].idempotency_key
    BY LeasedGood DEF GoodMemory
  <2> QED BY <1>5, <2>1 DEF GoodMemory, UniqueKeys
<1> HIDE DEF n
<1> QED BY <1>3, <1>4, <1>5, <1>6, <1>7 DEF GoodMemory, n

\* A lease that was saved by a save that raised is not handed out: such a step
\* of claim_task only leaves good states behind.
ClaimRaised ==
  /\ mode = "up"
  /\ mode' = "failed"
  /\ memory' \in Memory /\ GoodMemory(memory')
  /\ \/ GoodStep(memory, stored')
     \/ \E w \in Worker, t \in Task, passed \in Memory :
          /\ GoodStep(memory, passed)
          /\ memory.tasks[t].status # "absent"
          /\ passed.tasks[t].status = "queued"
          /\ passed.workers[w].registration \in Registration
          /\ stored' = Leased(passed, t, w)
  /\ UNCHANGED <<now, boot, started, issued, reported>>

LEMMA ClaimSteps ==
  ASSUME IInv, NEW w \in Worker, Claim(w)
  PROVE  QuietStep \/ ClaimRaised \/ Leases(w)
<1> DEFINE m       == Expired(memory, now)
           skipped == Skipped(m, w)
           passed  == FinishedDeadlines(m, skipped)
<1>1. GoodStep(memory, m) /\ m \in Memory /\ GoodMemory(m)
  BY ExpiryGoodStep, GoodStepGood
<1>2. ASSUME NEW T \in SUBSET skipped
      PROVE  GoodStep(memory, FinishedDeadlines(m, T))
  <2>1. /\ T \in SUBSET Task
        /\ \A t \in T : m.tasks[t].status = "queued"
                          /\ DeadlineExpired(m.tasks[t], now)
    BY DEF Skipped, Candidates
  <2>2. GoodStep(m, FinishedDeadlines(m, T))
    BY <1>1, <2>1, FinishedDeadlinesGoodStep
  <2>3. /\ memory \in Memory
        /\ \A t \in Task : memory.tasks[t].status = "absent" =>
                           m.tasks[t].status = "absent"
    BY DEF IInv, TypeOK, Expired, ExpireTask
  <2> QED BY <1>1, <2>2, <2>3, GoodStepTransitive
<1>3. GoodStep(memory, passed) /\ passed \in Memory /\ GoodMemory(passed)
  BY <1>2, GoodStepGood
<1>4. /\ mode # "down"
      /\ UNCHANGED <<now, boot, started, reported>>
      /\ reported' \in [Task -> SUBSET Terminal]
      /\ now \in Nat /\ boot \in Nat
  BY DEF Claim, IInv, TypeOK
<1>5. CASE (NotSaved(m) \/ Saved(m)) /\ UNCHANGED issued
  BY <1>1, <1>4, <1>5, PersistQuiet DEF Persist
<1>6. CASE Saved(passed) /\ UNCHANGED issued
  BY <1>3, <1>4, <1>6, PersistQuiet DEF Persist
<1>7. ASSUME NEW t \in skipped, UNCHANGED issued,
             SaveRaised(FinishedDeadlines(m, {u \in skipped : Before(m, u, t)}),
                        FinishedDeadlines(m,
                          {u \in skipped : Before(m, u, t)} \cup {t}))
      PROVE  QuietStep
  <2> DEFINE done == {u \in skipped : Before(m, u, t)}
  <2>1. /\ GoodStep(memory, FinishedDeadlines(m, done))
        /\ GoodStep(memory, FinishedDeadlines(m, done \cup {t}))
    <3>1. done \in SUBSET skipped /\ done \cup {t} \in SUBSET skipped
      OBVIOUS
    <3> HIDE DEF skipped, done, m
    <3> QED BY <1>2, <3>1
  <2> HIDE DEF m, skipped, done
  <2> QED BY <1>4, <1>7, <2>1 DEF SaveRaised, QuietStep, done
<1>8. ASSUME m.workers[w].lifecycle = "ready", NEW t \in Chosen(m, w)
      PROVE  /\ t \in Task
             /\ memory.tasks[t].status # "absent"
             /\ passed.tasks[t].status = "queued"
             /\ passed.workers[w].registration \in Registration
  <2>1. /\ t \in Task /\ m.tasks[t].status = "queued"
        /\ ~DeadlineExpired(m.tasks[t], now)
    BY DEF Chosen, Candidates
  <2>2. t \notin skipped
    BY <2>1 DEF Skipped
  <2>3. passed.tasks[t] = m.tasks[t] /\ passed.workers = m.workers
    BY <1>1, <2>1, <2>2 DEF FinishedDeadlines, Memory
  <2>4. m.workers[w].registration \in Registration
    BY <1>1, <1>8 DEF GoodMemory, GoodWorker
  <2>5. memory.tasks[t].status # "absent"
    BY <2>1 DEF Expired, ExpireTask
  <2> QED BY <2>1, <2>3, <2>4, <2>5
<1>9. ASSUME m.workers[w].lifecycle = "ready", NEW t \in Chosen(m, w),
             SaveRaised(passed, Leased(passed, t, w)), UNCHANGED issued
      PROVE  ClaimRaised
  <2>1. /\ t \in Task
        /\ memory.tasks[t].status # "absent"
        /\ passed.tasks[t].status = "queued"
        /\ passed.workers[w].registration \in Registration
    BY <1>8, <1>9
  <2> HIDE DEF passed
  <2>2. /\ Leased(passed, t, w) \in Memory
        /\ GoodMemory(Leased(passed, t, w))
    BY <1>3, <1>4, <2>1, LeasedGoodMemory
  <2> QED BY <1>3, <1>4, <1>9, <2>1, <2>2 DEF ClaimRaised, SaveRaised
<1>10. ASSUME m.workers[w].lifecycle = "ready", NEW t \in Chosen(m, w),
              Saved(Leased(passed, t, w)),
              issued' = issued \cup {Handed(Leased(passed, t, w), t)}
       PROVE  Leases(w)
  <2>1. /\ t \in Task
        /\ memory.tasks[t].status # "absent"
        /\ passed.tasks[t].status = "queued"
        /\ passed.workers[w].registration \in Registration
    BY <1>8, <1>10
  <2> HIDE DEF passed
  <2> QED BY <1>3, <1>4, <1>10, <2>1 DEF Leases
<1> HIDE DEF m, skipped, passed
<1> QED BY <1>5, <1>6, <1>7, <1>9, <1>10 DEF Claim, m, skipped, passed

-----------------------------------------------------------------------------
(* The invariant.                                                          *)

LEMMA EmptyGood == EmptyMemory \in Memory /\ GoodMemory(EmptyMemory)
<1>1. EmptyTask \in TaskRecord
  <2>1. <<>> \in Seq(Attempt)
    OBVIOUS
  <2> QED BY <2>1 DEF EmptyTask, TaskRecord, TaskStatus
<1>2. EmptyWorker \in WorkerRecord
  BY DEF EmptyWorker, WorkerRecord, Lifecycle
<1>3. GoodTask(EmptyTask)
  BY DEF EmptyTask, GoodTask, LeaseAgrees, BudgetKept, HistoryComplete
<1>4. EmptyMemory \in Memory
  BY <1>1, <1>2 DEF EmptyMemory, Memory
<1>5. GoodMemory(EmptyMemory)
  BY <1>3, KeyAssumption
  DEF EmptyMemory, GoodMemory, GoodWorker, EmptyWorker, UniqueKeys, EmptyTask
<1> QED BY <1>4, <1>5

LEMMA InitInv == Init => IInv
<1> SUFFICES ASSUME Init PROVE IInv
  OBVIOUS
<1>1. TypeOK
  BY EmptyGood DEF Init, TypeOK
<1>2. IssuedRecorded /\ FencingTokensUnique
  BY DEF Init, IssuedRecorded, FencingTokensUnique
<1>3. RunningIsHeld
  BY DEF Init, RunningIsHeld, EmptyMemory, EmptyTask
<1> QED BY <1>1, <1>2, <1>3, EmptyGood DEF Init, IInv, UpIsDurable

LEMMA QuietInv ==
  ASSUME IInv, QuietStep
  PROVE  IInv'
<1>1. /\ memory' \in Memory /\ GoodMemory(memory)'
  BY GoodStepGood DEF QuietStep, GoodMemory
<1>2. /\ stored' \in Memory /\ GoodMemory(stored)'
  BY GoodStepGood DEF QuietStep, GoodMemory, IInv, TypeOK
<1>3. TypeOK'
  BY <1>1, <1>2 DEF QuietStep, IInv, TypeOK
<1>4. UpIsDurable'
  BY DEF QuietStep, UpIsDurable
<1>5. IssuedRecorded'
  <2> SUFFICES ASSUME NEW l \in issued
               PROVE  l.generation <= stored'.tasks[l.task].lease_generation
    BY DEF IssuedRecorded, QuietStep
  <2>1. l.task \in Task
    BY DEF IInv, TypeOK, Issued
  <2>2. l.generation <= stored.tasks[l.task].lease_generation
    BY DEF IInv, IssuedRecorded
  <2>3. stored'.tasks[l.task].lease_generation
          = stored.tasks[l.task].lease_generation
    BY <2>1 DEF QuietStep, GoodStep, GoodNext, TaskKept, IInv, UpIsDurable
  <2> QED BY <2>2, <2>3
<1>6. FencingTokensUnique'
  BY DEF QuietStep, IInv, FencingTokensUnique
<1>7. RunningIsHeld'
  <2> SUFFICES ASSUME mode' = "up", NEW t \in Task,
                      memory'.tasks[t].status = "running"
               PROVE  /\ Handed(memory', t) \in issued
                      /\ memory'.tasks[t].lease.lease_id[1] = boot
    BY DEF RunningIsHeld, Handed, QuietStep
  <2>1. mode = "up" /\ TaskKept(memory.tasks[t], memory'.tasks[t])
    BY DEF QuietStep, GoodStep, GoodNext
  <2>2. /\ Handed(memory, t) \in issued
        /\ memory.tasks[t].lease.lease_id[1] = boot
    BY <2>1 DEF TaskKept, IInv, RunningIsHeld
  <2>3. Handed(memory', t) = Handed(memory, t)
    BY <2>1 DEF TaskKept, Handed
  <2> QED BY <2>1, <2>2, <2>3 DEF TaskKept
<1> QED BY <1>1, <1>2, <1>3, <1>4, <1>5, <1>6, <1>7 DEF IInv

\* The memory that a claim leases from, as the steps below use it.
LEMMA LeasedGeneration ==
  ASSUME IInv, mode = "up", NEW passed \in Memory, GoodStep(memory, passed),
         NEW w \in Worker, NEW t \in Task,
         passed.tasks[t].status = "queued",
         passed.workers[w].registration \in Registration
  PROVE  LET n == Leased(passed, t, w) IN
         /\ n \in Memory
         /\ GoodMemory(n)
         /\ \A u \in Task \ {t} : n.tasks[u] = passed.tasks[u]
         /\ \A u \in Task : /\ stored.tasks[u].lease_generation \in Nat
                            /\ passed.tasks[u].lease_generation
                                 = stored.tasks[u].lease_generation
         /\ n.tasks[t].status = "running"
         /\ n.tasks[t].lease_generation = stored.tasks[t].lease_generation + 1
         /\ n.tasks[t].lease.worker = w
         /\ n.tasks[t].lease.generation = n.tasks[t].lease_generation
         /\ n.tasks[t].lease.lease_id = <<boot, n.tasks[t].lease_generation>>
<1>1. /\ now \in Nat /\ boot \in Nat /\ stored = memory
      /\ \A u \in Task : stored.tasks[u] \in TaskRecord
  BY DEF IInv, TypeOK, UpIsDurable, Memory
<1>2. GoodMemory(passed)
  BY GoodStepGood
<1>3. GoodTask(passed.tasks[t])
  BY <1>2 DEF GoodMemory
<1>4. \A u \in Task : passed.tasks[u].lease_generation
                        = stored.tasks[u].lease_generation
  BY <1>1 DEF GoodStep, GoodNext, TaskKept
<1>5. \A u \in Task : stored.tasks[u].lease_generation \in Nat
  BY <1>1 DEF TaskRecord
<1> DEFINE n == Leased(passed, t, w)
<1>6. /\ n \in Memory
      /\ GoodMemory(n)
      /\ \A u \in Task \ {t} : n.tasks[u] = passed.tasks[u]
  BY <1>1, <1>2, LeasedGoodMemory
<1>7. /\ n.tasks[t].status = "running"
      /\ n.tasks[t].lease_generation = passed.tasks[t].lease_generation + 1
      /\ n.tasks[t].lease.worker = w
      /\ n.tasks[t].lease.generation = n.tasks[t].lease_generation
      /\ n.tasks[t].lease.lease_id = <<boot, n.tasks[t].lease_generation>>
  BY <1>1, <1>3, LeasedGood
<1> HIDE DEF n
<1> QED BY <1>4, <1>5, <1>6, <1>7 DEF n

LEMMA ClaimRaisedInv ==
  ASSUME IInv, ClaimRaised
  PROVE  IInv'
<1>1. /\ stored' \in Memory /\ GoodMemory(stored')
      /\ \A u \in Task :
           /\ stored.tasks[u].lease_generation \in Nat
           /\ stored'.tasks[u].lease_generation
                \in {stored.tasks[u].lease_generation,
                     stored.tasks[u].lease_generation + 1}
  <2>1. CASE GoodStep(memory, stored')
    <3>1. stored' \in Memory /\ GoodMemory(stored')
      BY <2>1, GoodStepGood
    <3>2. \A u \in Task : stored.tasks[u].lease_generation \in Nat
      BY DEF IInv, TypeOK, Memory, TaskRecord
    <3>3. \A u \in Task : stored'.tasks[u].lease_generation
                            = stored.tasks[u].lease_generation
      BY <2>1 DEF GoodStep, GoodNext, TaskKept, IInv, UpIsDurable, ClaimRaised
    <3> QED BY <3>1, <3>2, <3>3
  <2>2. CASE \E w \in Worker, t \in Task, passed \in Memory :
               /\ GoodStep(memory, passed)
               /\ passed.tasks[t].status = "queued"
               /\ passed.workers[w].registration \in Registration
               /\ stored' = Leased(passed, t, w)
    <3>1. PICK w \in Worker, t \in Task, passed \in Memory :
               /\ GoodStep(memory, passed)
               /\ passed.tasks[t].status = "queued"
               /\ passed.workers[w].registration \in Registration
               /\ stored' = Leased(passed, t, w)
      BY <2>2
    <3>2. mode = "up"
      BY DEF ClaimRaised
    <3>3. /\ stored' \in Memory
          /\ GoodMemory(stored')
          /\ \A u \in Task \ {t} : stored'.tasks[u] = passed.tasks[u]
          /\ \A u \in Task : /\ stored.tasks[u].lease_generation \in Nat
                             /\ passed.tasks[u].lease_generation
                                  = stored.tasks[u].lease_generation
          /\ stored'.tasks[t].lease_generation
               = stored.tasks[t].lease_generation + 1
      BY <3>1, <3>2, LeasedGeneration
    <3> QED BY <3>3
  <2> QED BY <2>1, <2>2 DEF ClaimRaised
<1>2. TypeOK'
  BY <1>1 DEF ClaimRaised, IInv, TypeOK
<1>3. IssuedRecorded'
  <2> SUFFICES ASSUME NEW l \in issued
               PROVE  l.generation <= stored'.tasks[l.task].lease_generation
    BY DEF IssuedRecorded, ClaimRaised
  <2>1. l.task \in Task /\ l.generation \in Nat
    BY DEF IInv, TypeOK, Issued
  <2>2. l.generation <= stored.tasks[l.task].lease_generation
    BY DEF IInv, IssuedRecorded
  <2> QED BY <1>1, <2>1, <2>2
<1>4. UpIsDurable' /\ RunningIsHeld' /\ FencingTokensUnique'
  BY DEF ClaimRaised, UpIsDurable, RunningIsHeld, IInv, FencingTokensUnique
<1>5. GoodMemory(memory)' /\ GoodMemory(stored)'
  BY <1>1 DEF ClaimRaised, GoodMemory
<1> QED BY <1>2, <1>3, <1>4, <1>5 DEF IInv

LEMMA LeaseInv ==
  ASSUME IInv, LeaseStep
  PROVE  IInv'
<1>1. PICK w \in Worker, t \in Task, passed \in Memory :
        /\ GoodStep(memory, passed)
        /\ passed.tasks[t].status = "queued"
        /\ passed.workers[w].registration \in Registration
        /\ Saved(Leased(passed, t, w))
        /\ issued' = issued \cup {Handed(Leased(passed, t, w), t)}
        /\ UNCHANGED <<now, boot, started, reported>>
  BY DEF LeaseStep, Leases
<1> DEFINE n == Leased(passed, t, w)
           new == Handed(n, t)
<1>2. mode = "up" /\ mode' = "up" /\ memory' = n /\ stored' = n
  BY <1>1 DEF Saved
<1>3. /\ n \in Memory
      /\ GoodMemory(n)
      /\ \A u \in Task \ {t} : n.tasks[u] = passed.tasks[u]
      /\ \A u \in Task : /\ stored.tasks[u].lease_generation \in Nat
                         /\ passed.tasks[u].lease_generation
                              = stored.tasks[u].lease_generation
      /\ n.tasks[t].status = "running"
      /\ n.tasks[t].lease_generation = stored.tasks[t].lease_generation + 1
      /\ n.tasks[t].lease.worker = w
      /\ n.tasks[t].lease.generation = n.tasks[t].lease_generation
      /\ n.tasks[t].lease.lease_id = <<boot, n.tasks[t].lease_generation>>
  BY <1>1, <1>2, LeasedGeneration
<1>4. boot \in Nat /\ now \in Nat
  BY DEF IInv, TypeOK
<1> HIDE DEF n
<1>5. /\ new \in Issued
      /\ new.task = t
      /\ new.generation = stored.tasks[t].lease_generation + 1
  BY <1>3, <1>4 DEF Handed, Issued, LeaseId
<1>6. \A l \in issued : /\ l \in Issued
                        /\ l.generation <= stored.tasks[l.task].lease_generation
  BY DEF IInv, TypeOK, IssuedRecorded
<1>7. issued' = issued \cup {new}
  BY <1>1 DEF n
<1> HIDE DEF new
<1>8. TypeOK'
  BY <1>1, <1>2, <1>3, <1>5, <1>7 DEF IInv, TypeOK
<1>9. IssuedRecorded'
  <2> SUFFICES ASSUME NEW l \in issued'
               PROVE  l.generation <= n.tasks[l.task].lease_generation
    BY <1>2 DEF IssuedRecorded
  <2>1. CASE l = new
    BY <1>3, <1>5, <2>1
  <2>2. CASE l \in issued
    <3>1. l.task \in Task /\ l.generation \in Nat
      BY <1>6, <2>2 DEF Issued
    <3> QED BY <1>3, <1>6, <2>2, <3>1
  <2> QED BY <1>7, <2>1, <2>2
<1>10. FencingTokensUnique'
  <2> SUFFICES ASSUME NEW a \in issued', NEW b \in issued',
                      a.task = b.task, a.generation = b.generation
               PROVE  a = b
    BY DEF FencingTokensUnique
  <2>1. \A l \in issued : l.task = t => l.generation # new.generation
    BY <1>3, <1>5, <1>6 DEF Issued
  <2> QED BY <1>5, <1>7, <2>1 DEF IInv, FencingTokensUnique
<1>11. RunningIsHeld'
  <2> SUFFICES ASSUME NEW u \in Task, n.tasks[u].status = "running"
               PROVE  /\ Handed(n, u) \in issued'
                      /\ n.tasks[u].lease.lease_id[1] = boot
    BY <1>1, <1>2 DEF RunningIsHeld, Handed
  <2>1. CASE u = t
    BY <1>3, <1>7, <2>1 DEF new
  <2>2. CASE u # t
    <3>1. n.tasks[u] = passed.tasks[u] /\ TaskKept(memory.tasks[u], passed.tasks[u])
      BY <1>1, <1>3, <2>2 DEF GoodStep, GoodNext
    <3>2. /\ Handed(memory, u) \in issued
          /\ memory.tasks[u].lease.lease_id[1] = boot
      BY <1>2, <3>1 DEF TaskKept, IInv, RunningIsHeld
    <3>3. Handed(n, u) = Handed(memory, u)
      BY <3>1 DEF TaskKept, Handed
    <3> QED BY <1>7, <3>1, <3>2, <3>3 DEF TaskKept
  <2> QED BY <2>1, <2>2
<1>12. UpIsDurable' /\ GoodMemory(memory)' /\ GoodMemory(stored)'
  BY <1>2, <1>3 DEF UpIsDurable, GoodMemory
<1> QED BY <1>8, <1>9, <1>10, <1>11, <1>12 DEF IInv

-----------------------------------------------------------------------------
(* The process.                                                            *)

\* The restored snapshot: every task as it was or moved on, and none running.
LEMMA RestoredGood ==
  ASSUME IInv
  PROVE  /\ GoodStep(stored, Restored)
         /\ \A t \in Task : Restored.tasks[t].status # "running"
<1>1. stored \in Memory /\ now \in Nat
  BY DEF IInv, TypeOK
<1>2. \A t \in Task : /\ stored.tasks[t] \in TaskRecord
                      /\ GoodTask(stored.tasks[t])
  BY <1>1 DEF Memory, IInv, GoodMemory
<1>3. \A t \in Task : /\ GoodNext(stored.tasks[t], RestoreTask(stored.tasks[t]))
                      /\ RestoreTask(stored.tasks[t]).status # "running"
  BY <1>2, RestoreTaskGood
<1>4. \A w \in Worker : /\ RestoreWorker(stored.workers[w]) \in WorkerRecord
                        /\ GoodWorker(RestoreWorker(stored.workers[w]))
  <2> TAKE w \in Worker
  <2>1. stored.workers[w] \in WorkerRecord /\ GoodWorker(stored.workers[w])
    BY <1>1 DEF Memory, IInv, GoodMemory
  <2> QED BY <1>1, <2>1 DEF RestoreWorker, WorkerRecord, GoodWorker, Lifecycle
<1>5. Restored \in Memory
  BY <1>3, <1>4 DEF Restored, Memory, GoodNext
<1>6. UniqueKeys(Restored)
  <2>1. \A t \in Task : stored.tasks[t].status = "absent" =>
                       RestoreTask(stored.tasks[t]) = stored.tasks[t]
    <3> TAKE t \in Task
    <3>1. stored.tasks[t].status = "absent" =>
            RestoreTask(stored.tasks[t]) = [stored.tasks[t] EXCEPT !.lease = NoLease]
      BY DEF RestoreTask
    <3> QED BY <1>2, <3>1 DEF GoodTask, LeaseAgrees, TaskRecord
  <2> QED BY <1>3, <2>1, SameKeys DEF Restored, IInv
<1> QED BY <1>3, <1>4, <1>5, <1>6 DEF GoodStep, Restored

LEMMA RestartInv ==
  ASSUME IInv, Restart
  PROVE  IInv'
<1>1. /\ GoodStep(stored, Restored)
      /\ \A t \in Task : Restored.tasks[t].status # "running"
      /\ Restored \in Memory /\ GoodMemory(Restored)
  BY RestoredGood, GoodStepGood
<1>2. /\ stored' = Restored /\ issued' = issued /\ reported' = reported
      /\ now' = now
      /\ \/ /\ memory' = Restored /\ mode' = "up" /\ boot' = boot + 1
            /\ started' = now
         \/ memory' = memory /\ mode' = "down" /\ boot' = boot
              /\ started' = started
  BY DEF Restart
<1>3. TypeOK'
  BY <1>1, <1>2 DEF IInv, TypeOK
<1>4. UpIsDurable' /\ FencingTokensUnique'
  BY <1>2 DEF IInv, UpIsDurable, FencingTokensUnique
<1>5. RunningIsHeld'
  BY <1>1, <1>2 DEF RunningIsHeld
<1>6. IssuedRecorded'
  <2>1. \A l \in issued : l.task \in Task
    BY DEF IInv, TypeOK, Issued
  <2>2. \A t \in Task : Restored.tasks[t].lease_generation
                          = stored.tasks[t].lease_generation
    BY <1>1 DEF GoodStep, GoodNext, TaskKept
  <2> QED BY <1>2, <2>1, <2>2 DEF IInv, IssuedRecorded
<1>7. GoodMemory(memory)' /\ GoodMemory(stored)'
  BY <1>1, <1>2 DEF IInv, GoodMemory
<1> QED BY <1>3, <1>4, <1>5, <1>6, <1>7 DEF IInv

LEMMA CrashInv ==
  ASSUME IInv, Crash
  PROVE  IInv'
<1>1. TypeOK' /\ GoodMemory(memory)'
  BY EmptyGood DEF Crash, IInv, TypeOK, GoodMemory
<1> QED BY <1>1 DEF Crash, IInv, GoodMemory, UpIsDurable, IssuedRecorded,
                    FencingTokensUnique, RunningIsHeld

\* A step that moves the clock, or nothing.
LEMMA TickInv ==
  ASSUME IInv, Tick \/ UNCHANGED vars
  PROVE  IInv'
<1>1. /\ UNCHANGED <<mode, boot, started, memory, stored, issued, reported>>
      /\ now' \in Nat
  BY DEF Tick, vars, IInv, TypeOK
<1> QED BY <1>1 DEF IInv, TypeOK, GoodMemory, UpIsDurable, IssuedRecorded,
                    FencingTokensUnique, RunningIsHeld, Handed

-----------------------------------------------------------------------------
(* The specification.                                                      *)

LEMMA StepKinds ==
  ASSUME IInv, [Next]_vars
  PROVE  \/ \E w \in Worker : Claim(w)
         \/ QuietStep \/ Crash \/ Restart \/ Tick \/ UNCHANGED vars
<1>1. CASE \E w \in Worker, r \in Registration : Register(w, r)
  BY <1>1, RegisterQuiet
<1>2. CASE \E w \in Worker : Heartbeat(w)
  BY <1>2, HeartbeatQuiet
<1>3. CASE \E w \in Worker : Drain(w) \/ Stop(w)
  BY <1>3, SetLifecycleQuiet DEF Drain, Stop, Lifecycle
<1>4. CASE \E t \in Task, k \in Key \cup {NoKey}, s \in Submission : Submit(t, k, s)
  BY <1>4, SubmitQuiet
<1>5. CASE \E w \in Worker : Claim(w)
  BY <1>5
<1>6. CASE \E l \in issued : Renew(l)
  BY <1>6, RenewQuiet
<1>7. CASE \E l \in issued, r \in Result : SubmitResult(l, r)
  <2>1. \A l \in issued : l.task \in Task
    BY DEF IInv, TypeOK, Issued
  <2> QED BY <1>7, <2>1, ConcludeQuiet DEF SubmitResult
<1>8. CASE \E t \in Task, r \in Result : ExecuteClaimedTask(t, r)
  <2>1. \A t \in Task : Handed(memory, t).task = t
    BY DEF Handed
  <2> QED BY <1>8, <2>1, ConcludeQuiet DEF ExecuteClaimedTask
<1>9. CASE ExpireLeases
  BY <1>9, ExpireLeasesQuiet
<1>10. CASE \E t \in Task, cause \in CancelCause : Cancel(t, cause)
  BY <1>10, CancelQuiet
<1>11. CASE \E t \in Task : ObserveTask(t)
  BY <1>11, ObserveTaskQuiet
<1> QED BY <1>1, <1>2, <1>3, <1>4, <1>5, <1>6, <1>7, <1>8, <1>9, <1>10, <1>11
        DEF Next

LEMMA NextSteps ==
  ASSUME IInv, [Next]_vars
  PROVE  \/ QuietStep \/ ClaimRaised \/ LeaseStep
         \/ Crash \/ Restart \/ Tick \/ UNCHANGED vars
BY StepKinds, ClaimSteps DEF LeaseStep

LEMMA NextInv == IInv /\ [Next]_vars => IInv'
<1> SUFFICES ASSUME IInv, [Next]_vars PROVE IInv'
  OBVIOUS
<1> QED BY NextSteps, QuietInv, ClaimRaisedInv, LeaseInv, CrashInv, RestartInv,
           TickInv

\* The inductive invariant holds in every reachable state: whatever the workers,
\* clients, store and process do, memory and snapshot stay consistent.
THEOREM Invariance == Spec => []IInv
<1> QED BY InitInv, NextInv, PTL DEF Spec

\* Type correctness.
THEOREM TypeCorrect == Spec => []TypeOK
<1>1. IInv => TypeOK
  BY DEF IInv
<1> QED BY <1>1, Invariance, PTL

\* No task is ever attempted more often than its submitter allowed.
THEOREM BudgetTheorem == Spec => []RetryBudget
<1>1. IInv => RetryBudget
  BY DEF IInv, GoodMemory, GoodTask, RetryBudget
<1> QED BY <1>1, Invariance, PTL

\* The attempt history has an entry for every attempt that ended.
THEOREM HistoryTheorem == Spec => []AttemptsAccountedFor
<1>1. IInv => AttemptsAccountedFor
  BY DEF IInv, GoodMemory, GoodTask, AttemptsAccountedFor
<1> QED BY <1>1, Invariance, PTL

\* Submissions that name the same key are one task, while the task is queued,
\* running or finished, and after a restart.
THEOREM KeyTheorem == Spec => []OneTaskPerKey
<1>1. IInv => OneTaskPerKey
  BY DEF IInv, GoodMemory, OneTaskPerKey
<1> QED BY <1>1, Invariance, PTL

\* The lease generation is a fencing token, over failed saves and restarts.
THEOREM FencingTheorem == Spec => []FencingTokensUnique
<1>1. IInv => FencingTokensUnique
  BY DEF IInv
<1> QED BY <1>1, Invariance, PTL

\* A coordinator that is up has nothing that is not stored, and leases every
\* running task to a worker that this process told so.
THEOREM DurableTheorem == Spec => [](UpIsDurable /\ RunningIsHeld)
<1>1. IInv => UpIsDurable /\ RunningIsHeld
  BY DEF IInv
<1> QED BY <1>1, Invariance, PTL

-----------------------------------------------------------------------------
(* Action properties.                                                      *)

LEMMA NewLeases ==
  ASSUME IInv, [Next]_vars, NEW l \in issued' \ issued, NEW k \in issued,
         k.task = l.task
  PROVE  k.generation < l.generation
<1>1. LeaseStep
  BY NextSteps DEF QuietStep, ClaimRaised, Crash, Restart, Tick, vars
<1>2. PICK w \in Worker, t \in Task, passed \in Memory :
        /\ GoodStep(memory, passed)
        /\ passed.tasks[t].status = "queued"
        /\ passed.workers[w].registration \in Registration
        /\ Saved(Leased(passed, t, w))
        /\ issued' = issued \cup {Handed(Leased(passed, t, w), t)}
  BY <1>1 DEF LeaseStep, Leases
<1>3. mode = "up"
  BY <1>2 DEF Saved
<1> DEFINE n == Leased(passed, t, w)
<1>4. /\ stored.tasks[t].lease_generation \in Nat
      /\ n.tasks[t].lease.generation = stored.tasks[t].lease_generation + 1
  BY <1>2, <1>3, LeasedGeneration
<1>5. l.task = t /\ l.generation = n.tasks[t].lease.generation
  BY <1>2 DEF Handed
<1>6. k.generation \in Nat /\ k.generation <= stored.tasks[t].lease_generation
  BY <1>5 DEF IInv, TypeOK, Issued, IssuedRecorded
<1> HIDE DEF n
<1> QED BY <1>4, <1>5, <1>6

\* Leases leave the coordinator with increasing generations.
THEOREM GenerationsTheorem == Spec => GenerationsIncrease
<1>1. IInv /\ [Next]_vars =>
        [\A l \in issued' \ issued, k \in issued :
           k.task = l.task => k.generation < l.generation]_vars
  BY NewLeases
<1> QED BY <1>1, Invariance, PTL DEF Spec, GenerationsIncrease

LEMMA StoredTerminal ==
  ASSUME IInv, [Next]_vars, NEW t \in Task, stored.tasks[t].status \in Terminal
  PROVE  \/ stored'.tasks[t] = stored.tasks[t]
         \/ /\ stored'.tasks[t].status = "failed"
            /\ stored'.tasks[t].result = "deadline_exceeded"
            /\ DeadlineExpired(stored.tasks[t], now)
<1>1. CASE UNCHANGED stored
  BY <1>1
<1>2. ASSUME mode = "up", GoodStep(memory, stored')
      PROVE  \/ stored'.tasks[t] = stored.tasks[t]
             \/ /\ stored'.tasks[t].status = "failed"
                /\ stored'.tasks[t].result = "deadline_exceeded"
                /\ DeadlineExpired(stored.tasks[t], now)
  BY <1>2 DEF GoodStep, GoodNext, TaskKept, IInv, UpIsDurable
<1>3. ASSUME mode = "up", NEW w \in Worker, NEW u \in Task, NEW passed \in Memory,
             GoodStep(memory, passed), passed.tasks[u].status = "queued",
             passed.workers[w].registration \in Registration,
             stored' = Leased(passed, u, w)
      PROVE  \/ stored'.tasks[t] = stored.tasks[t]
             \/ /\ stored'.tasks[t].status = "failed"
                /\ stored'.tasks[t].result = "deadline_exceeded"
                /\ DeadlineExpired(stored.tasks[t], now)
  <2>1. TaskKept(stored.tasks[t], passed.tasks[t])
    BY <1>3 DEF GoodStep, GoodNext, IInv, UpIsDurable
  <2>2. t # u
    BY <1>3, <2>1 DEF TaskKept, Terminal
  <2>3. stored'.tasks[t] = passed.tasks[t]
    BY <1>3, <2>2, LeasedGeneration
  <2> QED BY <2>1, <2>3 DEF TaskKept
<1>4. CASE QuietStep
  BY <1>1, <1>2, <1>4 DEF QuietStep
<1>5. CASE ClaimRaised
  BY <1>2, <1>3, <1>5 DEF ClaimRaised
<1>6. CASE LeaseStep
  BY <1>3, <1>6 DEF LeaseStep, Leases, Saved
<1>7. CASE Restart
  <2>1. stored' = Restored /\ GoodStep(stored, Restored)
    BY <1>7, RestoredGood DEF Restart
  <2> QED BY <2>1 DEF GoodStep, GoodNext, TaskKept
<1>8. CASE Crash \/ Tick \/ UNCHANGED vars
  BY <1>1, <1>8 DEF Crash, Tick, vars
<1> QED BY <1>4, <1>5, <1>6, <1>7, <1>8, NextSteps

\* What is stored of a finished task is final, save for its deadline.
THEOREM TerminalTheorem == Spec => TerminalChangesOnlyByDeadline
<1>1. IInv /\ [Next]_vars =>
        [\A t \in Task :
           stored.tasks[t].status \in Terminal =>
             \/ stored'.tasks[t] = stored.tasks[t]
             \/ /\ stored'.tasks[t].result = "deadline_exceeded"
                /\ DeadlineExpired(stored.tasks[t], now)]_vars
  BY StoredTerminal
<1> QED BY <1>1, Invariance, PTL DEF Spec, TerminalChangesOnlyByDeadline

-----------------------------------------------------------------------------
(* What callers are told, with a store whose saves do not raise.           *)

\* What was told of a task is stored, or its deadline has overwritten it.
ToldIsStored ==
  /\ mode # "failed"
  /\ \A t \in Task : \A status \in reported[t] :
       /\ stored.tasks[t].status \in Terminal
       /\ \/ stored.tasks[t].status = status
          \/ stored.tasks[t].result = "deadline_exceeded"

LEMMA AllSaved ==
  ASSUME SaveMayFail = FALSE, mode # "failed", NEW m, Persist(m)
  PROVE  mode' = mode /\ stored' = m
BY DEF Persist, Saved, NotSaved, SaveRaised, SaveRefused

LEMMA NeverFails ==
  ASSUME SaveMayFail = FALSE, mode # "failed", [Next]_vars
  PROVE  mode' # "failed"
<1> USE AllSaved
<1>1. CASE \E w \in Worker, r \in Registration : Register(w, r)
  BY <1>1 DEF Register
<1>2. CASE \E w \in Worker : Heartbeat(w)
  BY <1>2 DEF Heartbeat
<1>3. CASE \E w \in Worker : Drain(w) \/ Stop(w)
  BY <1>3 DEF Drain, Stop, SetLifecycle
<1>4. CASE \E t \in Task, k \in Key \cup {NoKey}, s \in Submission : Submit(t, k, s)
  BY <1>4 DEF Submit
<1>5. CASE \E w \in Worker : Claim(w)
  BY <1>5 DEF Claim, NotSaved, Saved, SaveRaised, SaveRefused
<1>6. CASE \E l \in issued : Renew(l)
  BY <1>6 DEF Renew
<1>7. CASE \E l, r : Conclude(l, r)
  BY <1>7 DEF Conclude, Persist, Saved, NotSaved, SaveRaised, SaveRefused
<1>8. CASE ExpireLeases
  BY <1>8 DEF ExpireLeases
<1>9. CASE \E t \in Task, cause \in CancelCause : Cancel(t, cause)
  BY <1>9 DEF Cancel, Persist, Saved, NotSaved, SaveRaised, SaveRefused
<1>10. CASE Crash \/ Restart \/ Tick \/ (\E t \in Task : ObserveTask(t)) \/ UNCHANGED vars
  BY <1>10 DEF Crash, Restart, Tick, ObserveTask, vars
<1> QED BY <1>1, <1>2, <1>3, <1>4, <1>5, <1>6, <1>7, <1>8, <1>9, <1>10
        DEF Next, SubmitResult, ExecuteClaimedTask

LEMMA ToldStatus ==
  ASSUME TypeOK, NEW t \in Task, NEW status, Tell(t, status),
         NEW u \in Task, NEW s \in reported'[u], s \notin reported[u]
  PROVE  u = t /\ s = status /\ s \in Terminal
BY DEF Tell, TypeOK

\* A status that a caller is told in a step is stored when it is told.
LEMMA NewlyTold ==
  ASSUME IInv, SaveMayFail = FALSE, mode # "failed", [Next]_vars,
         NEW u \in Task, NEW s \in reported'[u], s \notin reported[u]
  PROVE  s \in Terminal /\ stored'.tasks[u].status = s
<1>1. TypeOK /\ (mode = "up" => stored = memory)
  BY DEF IInv, UpIsDurable
<1>2. ASSUME NEW l, l.task \in Task, NEW r \in Result, Conclude(l, r)
      PROVE  s \in Terminal /\ stored'.tasks[u].status = s
  <2> DEFINE t    == l.task
             task == memory.tasks[t]
             next == Concluded(task, r)
  <2>1. CASE Tell(t, task.status) /\ UNCHANGED stored /\ mode # "down"
    BY <1>1, <1>2, <2>1, ToldStatus DEF TypeOK
  <2>2. CASE Tell(t, next.status) /\ Saved(WithTask(memory, t, next))
    <3>1. WithTask(memory, t, next).tasks[t] = next
      BY <1>1, <1>2 DEF WithTask, TypeOK, Memory
    <3> HIDE DEF next
    <3> QED BY <1>1, <1>2, <2>2, <3>1, ToldStatus DEF Saved
  <2> QED BY <1>2, <2>1, <2>2 DEF Conclude
<1>3. ASSUME NEW t \in Task, NEW cause \in CancelCause, Cancel(t, cause)
      PROVE  s \in Terminal /\ stored'.tasks[u].status = s
  <2> DEFINE task   == memory.tasks[t]
             status == IF cause = "cancelled" THEN "cancelled" ELSE "failed"
             next   == Finish(task, status, cause,
                         IF task.status = "running"
                         THEN Ended(task, "coordinator_terminated_lease")
                         ELSE task.history)
  <2>1. CASE Tell(t, task.status) /\ UNCHANGED stored /\ mode # "down"
    BY <1>1, <2>1, ToldStatus DEF TypeOK
  <2>2. CASE Tell(t, status) /\ Saved(WithTask(memory, t, next))
    <3>1. /\ WithTask(memory, t, next).tasks[t] = next
          /\ next.status = status
      BY <1>1 DEF WithTask, TypeOK, Memory, Finish, TaskRecord
    <3> HIDE DEF next, status
    <3> QED BY <1>1, <2>2, <3>1, ToldStatus DEF Saved
  <2> QED BY <1>3, <2>1, <2>2 DEF Cancel
<1>4. ASSUME NEW t \in Task, ObserveTask(t)
      PROVE  s \in Terminal /\ stored'.tasks[u].status = s
  BY <1>1, <1>4, ToldStatus DEF ObserveTask, TypeOK
<1>5. /\ \A l \in issued : l.task \in Task
      /\ \A t \in Task : Handed(memory, t).task = t
  BY <1>1 DEF TypeOK, Issued, Handed
<1>6. CASE \E l \in issued, r \in Result : SubmitResult(l, r)
  BY <1>2, <1>5, <1>6 DEF SubmitResult
<1>7. CASE \E t \in Task, r \in Result : ExecuteClaimedTask(t, r)
  BY <1>2, <1>5, <1>7 DEF ExecuteClaimedTask
<1>8. reported' # reported
  OBVIOUS
<1> QED BY <1>3, <1>4, <1>6, <1>7, <1>8
        DEF Next, vars, Register, Heartbeat, Drain, Stop, SetLifecycle, Submit, Claim,
            Renew, ExpireLeases, Silent, Crash, Restart, Tick

LEMMA ToldInv ==
  ASSUME IInv, SaveMayFail = FALSE, ToldIsStored, [Next]_vars
  PROVE  ToldIsStored'
<1>1. mode' # "failed"
  BY NeverFails DEF ToldIsStored
<1>2. ASSUME NEW t \in Task, NEW status \in reported'[t]
      PROVE  /\ stored'.tasks[t].status \in Terminal
             /\ \/ stored'.tasks[t].status = status
                \/ stored'.tasks[t].result = "deadline_exceeded"
  <2>1. CASE status \notin reported[t]
    BY <2>1, NewlyTold DEF ToldIsStored
  <2>2. CASE status \in reported[t]
    BY <2>2, StoredTerminal DEF ToldIsStored, Terminal
  <2> QED BY <2>1, <2>2
<1> QED BY <1>1, <1>2 DEF ToldIsStored

\* With a store whose saves do not raise, what a caller was told of a finished
\* task holds for good, unless a late renewal makes it a missed deadline.
THEOREM ReportsTheorem ==
  ASSUME SaveMayFail = FALSE
  PROVE  Spec => []ReportedStands
<1>1. Init => ToldIsStored
  BY DEF Init, ToldIsStored
<1>2. IInv /\ ToldIsStored /\ [Next]_vars => ToldIsStored'
  BY ToldInv
<1>3. ToldIsStored => ReportedStands
  BY DEF ToldIsStored, ReportedStands
<1> QED BY <1>1, <1>2, <1>3, Invariance, PTL DEF Spec

-----------------------------------------------------------------------------
(* Whose outcome counts, and who is served first.                          *)

\* Expiry, deadlines and leases make no task succeed.
LEMMA OthersSucceedNot ==
  ASSUME NEW m \in Memory, NEW t \in Task, m.tasks[t].status # "succeeded"
  PROVE  /\ \A at : Expired(m, at).tasks[t].status # "succeeded"
         /\ \A T : FinishedDeadlines(m, T).tasks[t].status # "succeeded"
         /\ \A w : \A u \in Task : Leased(m, u, w).tasks[t].status # "succeeded"
         /\ \A w \in Worker : \A worker : WithWorker(m, w, worker).tasks = m.tasks
         /\ \A u \in Task : \A task :
              /\ u # t => WithTask(m, u, task).tasks[t] = m.tasks[t]
              /\ WithTask(m, u, task).tasks[u] = task
              /\ task.status # "succeeded" =>
                   WithTask(m, u, task).tasks[t].status # "succeeded"
<1>1. m.tasks[t] \in TaskRecord
  BY DEF Memory
<1>2. FinishDeadline(m.tasks[t]).status = "failed"
  BY <1>1 DEF FinishDeadline, Finish, TaskRecord
<1>3. \A at : ExpireTask(m.tasks[t], at).status # "succeeded"
  BY <1>1 DEF ExpireTask, Finish, Requeue, TaskRecord
<1>4. \A u \in Task : \A task :
        /\ u # t => WithTask(m, u, task).tasks[t] = m.tasks[t]
        /\ WithTask(m, u, task).tasks[u] = task
        /\ task.status # "succeeded" =>
             WithTask(m, u, task).tasks[t].status # "succeeded"
  BY DEF WithTask, Memory
<1>5. \A w : \A u \in Task : Leased(m, u, w).tasks[t].status # "succeeded"
  <2> TAKE w
  <2> TAKE u \in Task
  <2> DEFINE leased ==
        [m.tasks[u] EXCEPT
           !.status = "running", !.attempt = m.tasks[u].attempt + 1,
           !.lease_generation = m.tasks[u].lease_generation + 1,
           !.lease = [worker |-> w,
                      lease_id |-> <<boot, m.tasks[u].lease_generation + 1>>,
                      generation |-> m.tasks[u].lease_generation + 1,
                      attempt |-> m.tasks[u].attempt + 1,
                      expires_at |-> now + m.workers[w].registration.lease_seconds]]
  <2>1. m.tasks[u] \in TaskRecord
    BY DEF Memory
  <2>2. leased.status = "running"
    BY <2>1 DEF TaskRecord
  <2>3. Leased(m, u, w) = WithTask(m, u, leased)
    BY DEF Leased
  <2> HIDE DEF leased
  <2> QED BY <1>4, <2>2, <2>3
<1>6. \A w \in Worker : \A worker : WithWorker(m, w, worker).tasks = m.tasks
  BY DEF WithWorker, Memory
<1>7. \A at : Expired(m, at).tasks[t].status # "succeeded"
  BY <1>3 DEF Expired
<1>8. \A T : FinishedDeadlines(m, T).tasks[t].status # "succeeded"
  BY <1>1, <1>2 DEF FinishedDeadlines, Memory
<1> QED BY <1>4, <1>5, <1>6, <1>7, <1>8

\* What Persist leaves in memory.
LEMMA Persisted ==
  ASSUME NEW m, Persist(m)
  PROVE  memory' = m
BY DEF Persist, Saved, NotSaved, SaveRaised, SaveRefused

\* claim_task leaves in memory what is expired, finished for its deadline, or
\* leased.
LEMMA ClaimLeaves ==
  ASSUME IInv, NEW w \in Worker, Claim(w)
  PROVE  LET m      == Expired(memory, now)
             passed == FinishedDeadlines(m, Skipped(m, w))
         IN  \/ memory' = m
             \/ \E T : memory' = FinishedDeadlines(m, T)
             \/ /\ m.workers[w].lifecycle = "ready"
                /\ \E t \in Chosen(m, w) : memory' = Leased(passed, t, w)
BY DEF Claim, Saved, NotSaved, SaveRaised, SaveRefused

LEMMA CommitIsHeld ==
  ASSUME IInv, [Next]_vars, NEW t \in Task, WorkerCommits(t)
  PROVE  /\ memory.tasks[t].status = "running"
         /\ now < memory.tasks[t].lease.expires_at
         /\ ~DeadlineExpired(memory.tasks[t], now)
<1>1. /\ memory \in Memory /\ memory.tasks[t].status # "succeeded"
      /\ memory'.tasks[t].status = "succeeded" /\ mode # "down"
  BY DEF WorkerCommits, IInv, TypeOK
<1>2. Expired(memory, now) \in Memory
  BY ExpiryGoodStep DEF GoodStep
<1>3. ASSUME NEW l, l.task \in Task, NEW r \in Result, Conclude(l, r)
      PROVE  /\ memory.tasks[t].status = "running"
             /\ now < memory.tasks[t].lease.expires_at
             /\ ~DeadlineExpired(memory.tasks[t], now)
  <2> DEFINE task == memory.tasks[l.task]
             next == Concluded(task, r)
  <2>1. task \in TaskRecord
    BY <1>1, <1>3 DEF Memory
  <2>2. FinishDeadline(task).status = "failed"
    BY <2>1 DEF FinishDeadline, Finish, TaskRecord
  <2>3. memory' # memory
    BY <1>1
  <2>4. memory' # Expired(memory, now)
    BY <1>1, OthersSucceedNot
  <2>5. memory' # WithTask(memory, l.task, FinishDeadline(task))
    BY <1>1, <1>3, <2>2, OthersSucceedNot
  <2>6. \/ memory' = memory
        \/ memory' = WithTask(memory, l.task, FinishDeadline(task))
        \/ memory' = Expired(memory, now)
        \/ /\ ~DeadlineExpired(task, now) /\ Current(task, l)
           /\ memory' = WithTask(memory, l.task, next)
    <3> HIDE DEF next
    <3> QED BY <1>3 DEF Conclude, Persist, Saved, NotSaved, SaveRaised, SaveRefused, next
  <2>7. /\ ~DeadlineExpired(task, now) /\ Current(task, l)
        /\ memory' = WithTask(memory, l.task, next)
    BY <2>3, <2>4, <2>5, <2>6
  <2>8. l.task = t
    BY <1>1, <1>3, <2>7, OthersSucceedNot
  <2> QED BY <2>7, <2>8 DEF Current
<1>4. CASE \E w \in Worker, r \in Registration : Register(w, r)
  BY <1>1, <1>4, Persisted, OthersSucceedNot DEF Register
<1>5. CASE \E w \in Worker : Heartbeat(w) \/ Drain(w) \/ Stop(w)
  BY <1>1, <1>5, Persisted, OthersSucceedNot DEF Heartbeat, Drain, Stop, SetLifecycle
<1>6. CASE \E u \in Task, k \in Key \cup {NoKey}, s \in Submission : Submit(u, k, s)
  <2>1. PICK u \in Task, k \in Key \cup {NoKey}, s \in Submission : Submit(u, k, s)
    BY <1>6
  <2> DEFINE new == [EmptyTask EXCEPT
               !.submission = s, !.idempotency_key = IF k = NoKey THEN u ELSE k,
               !.submitted_at = now, !.status = "queued"]
  <2>2. new.status = "queued"
    BY DEF EmptyTask
  <2>3. memory' = WithTask(memory, u, new)
    BY <2>1, Persisted DEF Submit
  <2> HIDE DEF new
  <2> QED BY <1>1, <2>2, <2>3, OthersSucceedNot
<1>7. CASE \E w \in Worker : Claim(w)
  <2>1. PICK w \in Worker : Claim(w)
    BY <1>7
  <2> DEFINE m      == Expired(memory, now)
             passed == FinishedDeadlines(m, Skipped(m, w))
  <2>2. m \in Memory /\ m.tasks[t].status # "succeeded"
    BY <1>1, <1>2, OthersSucceedNot
  <2>3. passed \in Memory /\ passed.tasks[t].status # "succeeded"
    <3>1. GoodMemory(m)
      BY ExpiryGoodStep, GoodStepGood
    <3>2. /\ Skipped(m, w) \in SUBSET Task
          /\ \A u \in Skipped(m, w) : m.tasks[u].status = "queued"
                                        /\ DeadlineExpired(m.tasks[u], now)
      BY DEF Skipped, Candidates
    <3>3. GoodStep(m, passed)
      <4> HIDE DEF m
      <4> QED BY <2>2, <3>1, <3>2, FinishedDeadlinesGoodStep
    <3> HIDE DEF m
    <3> QED BY <2>2, <3>3, OthersSucceedNot DEF GoodStep
  <2>4. \A u \in Chosen(m, w) : u \in Task
    BY DEF Chosen, Candidates
  <2>5. \/ memory' = m
        \/ \E T : memory' = FinishedDeadlines(m, T)
        \/ \E u \in Chosen(m, w) : memory' = Leased(passed, u, w)
    BY <2>1, ClaimLeaves
  <2> HIDE DEF m, passed
  <2>6. \A T : memory' # FinishedDeadlines(m, T)
    BY <1>1, <2>2, OthersSucceedNot
  <2>7. \A u \in Chosen(m, w) : memory' # Leased(passed, u, w)
    <3> TAKE u \in Chosen(m, w)
    <3>1. u \in Task
      BY <2>4
    <3> QED BY <1>1, <2>3, <3>1, OthersSucceedNot
  <2> QED BY <1>1, <2>2, <2>5, <2>6, <2>7
<1>8. CASE \E l \in issued : Renew(l)
  <2>1. PICK l \in issued : Renew(l)
    BY <1>8
  <2> DEFINE task   == memory.tasks[l.task]
             worker == memory.workers[l.worker]
             renewed == [task EXCEPT !.lease.expires_at =
                                       now + worker.registration.lease_seconds]
  <2>2. l.task \in Task /\ l.worker \in Worker /\ task \in TaskRecord
    BY <1>1 DEF IInv, TypeOK, Issued, Memory
  <2>3. FinishDeadline(task).status = "failed" /\ renewed.status = task.status
    BY <2>2 DEF FinishDeadline, Finish, TaskRecord
  <2>4. \/ memory' = WithTask(memory, l.task, FinishDeadline(task))
        \/ memory' = Expired(memory, now)
        \/ \E changed : memory' = WithWorker(memory, l.worker, changed)
        \/ /\ task.status = "running"
           /\ \E changed :
                memory' = WithWorker(WithTask(memory, l.task, renewed), l.worker, changed)
    BY <2>1, Persisted DEF Renew, Current
  <2> HIDE DEF renewed
  <2>5. \A changed :
          WithWorker(WithTask(memory, l.task, renewed), l.worker, changed).tasks
            = WithTask(memory, l.task, renewed).tasks
    BY DEF WithWorker, WithTask
  <2>6. memory' # WithTask(memory, l.task, FinishDeadline(task))
    BY <1>1, <2>2, <2>3, OthersSucceedNot
  <2>7. memory' # Expired(memory, now)
    BY <1>1, OthersSucceedNot
  <2>8. \A changed : memory' # WithWorker(memory, l.worker, changed)
    BY <1>1, <2>2, OthersSucceedNot
  <2>9. renewed.status # "succeeded" =>
          WithTask(memory, l.task, renewed).tasks[t].status # "succeeded"
    BY <1>1, <2>2, OthersSucceedNot
  <2> QED BY <1>1, <2>3, <2>4, <2>5, <2>6, <2>7, <2>8, <2>9
<1>9. CASE \E l \in issued, r \in Result : SubmitResult(l, r)
  BY <1>3, <1>9 DEF SubmitResult, IInv, TypeOK, Issued
<1>10. CASE \E u \in Task, r \in Result : ExecuteClaimedTask(u, r)
  <2>1. \A u \in Task : Handed(memory, u).task = u
    BY DEF Handed
  <2> QED BY <1>3, <1>10, <2>1 DEF ExecuteClaimedTask
<1>11. CASE ExpireLeases
  BY <1>1, <1>11, Persisted, OthersSucceedNot DEF ExpireLeases
<1>12. CASE \E u \in Task, cause \in CancelCause : Cancel(u, cause)
  <2>1. PICK u \in Task, cause \in CancelCause : Cancel(u, cause)
    BY <1>12
  <2> DEFINE task == memory.tasks[u]
             status == IF cause = "cancelled" THEN "cancelled" ELSE "failed"
             next   == Finish(task, status, cause,
                         IF task.status = "running"
                         THEN Ended(task, "coordinator_terminated_lease")
                         ELSE task.history)
  <2>2. next.status # "succeeded"
    BY <1>1 DEF Finish, TaskRecord, Memory
  <2>3. memory' = memory \/ memory' = WithTask(memory, u, next)
    <3> HIDE DEF next
    <3> QED BY <2>1 DEF Cancel, Saved, NotSaved, SaveRaised, SaveRefused, next
  <2> HIDE DEF next
  <2> QED BY <1>1, <2>2, <2>3, OthersSucceedNot
<1>13. CASE Crash
  BY <1>1, <1>13 DEF Crash, EmptyMemory, EmptyTask
<1>14. CASE Restart \/ Tick \/ (\E u \in Task : ObserveTask(u)) \/ UNCHANGED vars
  BY <1>1, <1>14 DEF Restart, Tick, ObserveTask, vars
<1> QED BY <1>4, <1>5, <1>6, <1>7, <1>8, <1>9, <1>10, <1>11, <1>12, <1>13, <1>14
        DEF Next

\* A success is a task's result only if it came from the holder of its current
\* lease, before the lease and the deadline ran out.
THEOREM HolderTheorem == Spec => OnlyHolderCommits
<1>1. IInv /\ [Next]_vars =>
        [\A t \in Task : WorkerCommits(t) =>
           /\ memory.tasks[t].status = "running"
           /\ now < memory.tasks[t].lease.expires_at
           /\ ~DeadlineExpired(memory.tasks[t], now)]_vars
  BY CommitIsHeld
<1> QED BY <1>1, Invariance, PTL DEF Spec, OnlyHolderCommits

\* The task that is leased is the first whose deadline has not passed.
LEMMA ChosenIsFirst ==
  ASSUME NEW m, m.tasks \in [Task -> TaskRecord], NEW w,
         NEW t \in Chosen(m, w), NEW u \in Candidates(m, w) \ Skipped(m, w)
  PROVE  ~Before(m, u, t)
<1>1. Task \subseteq Nat /\ \A v \in Task : m.tasks[v].submitted_at \in Nat
  BY ConstantsAssumption DEF TaskRecord
<1>2. t \in Task /\ u \in Task
  BY DEF Chosen, Candidates
<1>3. CASE ~DeadlineExpired(m.tasks[u], now)
  BY <1>3 DEF Chosen
<1>4. CASE DeadlineExpired(m.tasks[u], now)
  <2>1. PICK v \in Chosen(m, w) : ~Before(m, u, v)
    BY <1>4 DEF Skipped
  <2>2. v \in Task /\ ~Before(m, v, t) /\ ~Before(m, t, v)
    BY <2>1 DEF Chosen, Candidates
  <2>3. v = t
    BY <1>1, <1>2, <2>2 DEF Before
  <2> QED BY <2>1, <2>3
<1> QED BY <1>3, <1>4

LEMMA LeasedIsOldest ==
  ASSUME IInv, [Next]_vars, NEW t \in Task, NEW u \in Task, Claimed(t),
         u \in Candidates(memory', memory'.tasks[t].lease.worker)
  PROVE  ~Before(memory', u, t)
<1>1. /\ memory \in Memory
      /\ memory.tasks[t].status # "running" /\ memory'.tasks[t].status = "running"
      /\ memory'.tasks[u].status = "queued"
  BY DEF Claimed, Candidates, IInv, TypeOK
<1>2. PICK w \in Worker : Claim(w)
  <2>1. ~QuietStep
    BY <1>1 DEF QuietStep, GoodStep, GoodNext, TaskKept
  <2>2. ~Restart
    BY <1>1, RestoredGood DEF Restart
  <2>3. ~Crash
    BY <1>1 DEF Crash, EmptyMemory, EmptyTask
  <2> QED BY <1>1, <2>1, <2>2, <2>3, StepKinds DEF Tick, vars
<1> DEFINE m       == Expired(memory, now)
           skipped == Skipped(m, w)
           passed  == FinishedDeadlines(m, skipped)
<1>3. m \in Memory /\ m.tasks[t].status # "running"
  BY <1>1, ExpiryGoodStep DEF GoodStep, GoodNext, TaskKept
<1> HIDE DEF m
<1>4. /\ \A T : FinishedDeadlines(m, T).tasks[t].status # "running"
      /\ \A v \in Task : passed.tasks[v] =
           IF v \in skipped THEN FinishDeadline(m.tasks[v]) ELSE m.tasks[v]
      /\ passed = [workers |-> m.workers, tasks |-> passed.tasks]
      /\ DOMAIN passed.tasks = Task
  <2>1. \A v \in Task : FinishDeadline(m.tasks[v]).status = "failed"
    BY <1>3 DEF FinishDeadline, Finish, TaskRecord, Memory
  <2> QED BY <1>3, <2>1 DEF FinishedDeadlines, Memory
<1>5. PICK v \in Chosen(m, w) : memory' = Leased(passed, v, w)
  BY <1>1, <1>2, <1>3, <1>4, ClaimLeaves DEF m
<1>6. /\ v \in Task /\ m.tasks[v].status = "queued" /\ v \notin skipped
  BY DEF Chosen, Candidates, Skipped
<1> HIDE DEF passed, skipped
<1>7. /\ \A x \in Task \ {v} : memory'.tasks[x] = passed.tasks[x]
      /\ memory'.tasks[v].lease.worker = w
      /\ memory'.tasks[v].submitted_at = passed.tasks[v].submitted_at
      /\ memory'.workers = m.workers
  <2>1. passed.tasks[v] \in TaskRecord
    BY <1>3, <1>4, <1>6 DEF Memory
  <2> QED BY <1>4, <1>5, <1>6, <2>1 DEF Leased, WithTask, TaskRecord
<1>8. v = t
  BY <1>1, <1>4, <1>7 DEF passed
<1>9. /\ u # t
      /\ memory'.tasks[u] = m.tasks[u]
      /\ u \in Candidates(m, w) \ skipped
  <2>1. u # t
    BY <1>1
  <2>2. memory'.tasks[u] = passed.tasks[u]
    BY <1>7, <1>8, <2>1
  <2>3. u \notin skipped
    BY <1>1, <1>3, <1>4, <2>2 DEF FinishDeadline, Finish, Memory, TaskRecord
  <2>4. memory'.tasks[u] = m.tasks[u]
    BY <1>4, <2>2, <2>3
  <2> QED BY <1>7, <1>8, <2>1, <2>3, <2>4 DEF Candidates
<1>10. ~Before(m, u, t)
  BY <1>3, <1>8, <1>9, ChosenIsFirst DEF Memory, skipped
<1>11. /\ memory'.tasks[t].submitted_at = m.tasks[t].submitted_at
       /\ memory'.tasks[u].submitted_at = m.tasks[u].submitted_at
  BY <1>4, <1>6, <1>7, <1>8, <1>9
<1> QED BY <1>10, <1>11 DEF Before

\* A claim leases the oldest task that its worker can run.
THEOREM OrderTheorem == Spec => OldestFirst
<1>1. IInv /\ [Next]_vars =>
        [\A t, u \in Task :
           Claimed(t) /\ u \in Candidates(memory', memory'.tasks[t].lease.worker)
             => ~Before(memory', u, t)]_vars
  BY LeasedIsOldest
<1> QED BY <1>1, Invariance, PTL DEF Spec, OldestFirst

-----------------------------------------------------------------------------
(* What a claim does for the tasks whose deadline has passed.              *)

\* The time of t is up and nobody holds it.
Overdue(t) ==
  /\ DeadlineExpired(memory.tasks[t], now)
  /\ \/ memory.tasks[t].status = "queued"
     \/ /\ memory.tasks[t].status = "running"
        /\ now >= memory.tasks[t].lease.expires_at

\* An attempt of u is started.
Started(u) ==
  /\ memory'.tasks[u].status = "running"
  /\ memory'.tasks[u].attempt = memory.tasks[u].attempt + 1

\* A claim by a worker that could run an overdue task ends it, or spends an
\* attempt of an older one.
ClaimServes ==
  [][\A w \in Worker, t \in Task :
       Claim(w) /\ Overdue(t) /\ CanRun(w, t)' =>
         \/ memory'.tasks[t].status \in Terminal
         \/ \E u \in Task : Before(memory, u, t) /\ Started(u)]_vars

\* The sweep leaves an overdue task ended or queued, and no task's place in the
\* order of submission or number of attempts changed.
LEMMA SweepOverdue ==
  ASSUME IInv, NEW t \in Task, Overdue(t)
  PROVE  LET m == Expired(memory, now) IN
         /\ m.tasks[t].status \in Terminal \cup {"queued"}
         /\ DeadlineExpired(m.tasks[t], now)
         /\ \A u \in Task : /\ m.tasks[u].submitted_at = memory.tasks[u].submitted_at
                            /\ m.tasks[u].attempt = memory.tasks[u].attempt
<1>1. memory \in Memory /\ GoodMemory(memory)
  BY DEF IInv, TypeOK
<1> DEFINE m == Expired(memory, now)
<1>2. \A u \in Task :
        /\ memory.tasks[u] \in TaskRecord
        /\ m.tasks[u] = ExpireTask(memory.tasks[u], now)
  BY <1>1 DEF Expired, Memory
<1>3. \A u \in Task : /\ m.tasks[u].submitted_at = memory.tasks[u].submitted_at
                      /\ m.tasks[u].attempt = memory.tasks[u].attempt
                      /\ m.tasks[u].submission = memory.tasks[u].submission
  BY <1>2 DEF ExpireTask, Requeue, Finish, TaskRecord
<1>4. m.tasks[t].status \in Terminal \cup {"queued"}
  <2>1. CASE memory.tasks[t].status = "queued"
    BY <1>2, <2>1 DEF ExpireTask
  <2>2. CASE memory.tasks[t].status = "running"
    <3>1. memory.tasks[t].lease # NoLease
      BY <1>1, <2>2 DEF GoodMemory, GoodTask, LeaseAgrees
    <3>2. m.tasks[t] = Finish(memory.tasks[t], "failed", "lease_expired",
                              Ended(memory.tasks[t], "lease_expired"))
      <4>1. memory.tasks[t].lease.expires_at \in Nat /\ now \in Nat
        BY <1>2, <3>1 DEF TaskRecord, Lease, IInv, TypeOK
      <4> QED BY <1>2, <2>2, <3>1, <4>1 DEF Overdue, ExpireTask
    <3> QED BY <1>2, <3>2 DEF Finish, TaskRecord, Terminal
  <2> QED BY <2>1, <2>2 DEF Overdue
<1> HIDE DEF m
<1>5. DeadlineExpired(m.tasks[t], now)
  BY <1>3 DEF Overdue, DeadlineExpired
<1> QED BY <1>3, <1>4, <1>5 DEF m

\* Of the tasks that are queued after the sweep, the claim ends those it meets
\* overdue; it meets all but those behind the task it leases.
LEMMA ClaimEnds ==
  ASSUME SaveMayFail = FALSE, mode # "failed", IInv,
         NEW w \in Worker, NEW t \in Task, Claim(w), Overdue(t), CanRun(w, t)'
  PROVE  \/ memory'.tasks[t].status \in Terminal
         \/ \E u \in Task : Before(memory, u, t) /\ Started(u)
<1> DEFINE m       == Expired(memory, now)
           skipped == Skipped(m, w)
           passed  == FinishedDeadlines(m, skipped)
<1>1. m \in Memory
  BY ExpiryGoodStep, GoodStepGood
<1>2. /\ m.tasks[t].status \in Terminal \cup {"queued"}
      /\ DeadlineExpired(m.tasks[t], now)
      /\ \A u \in Task : /\ m.tasks[u].submitted_at = memory.tasks[u].submitted_at
                         /\ m.tasks[u].attempt = memory.tasks[u].attempt
  BY SweepOverdue
<1>3. \/ memory' = m /\ m.workers[w].lifecycle # "ready"
      \/ Chosen(m, w) = {} /\ memory' = passed
      \/ \E u \in Chosen(m, w) : memory' = Leased(passed, u, w)
  BY DEF Claim, NotSaved, Saved, SaveRaised, SaveRefused
<1> HIDE DEF m
<1>4. /\ \A u \in Task :
           /\ m.tasks[u] \in TaskRecord
           /\ passed.tasks[u] =
                IF u \in skipped THEN FinishDeadline(m.tasks[u]) ELSE m.tasks[u]
      /\ passed = [workers |-> m.workers, tasks |-> passed.tasks]
      /\ DOMAIN passed.tasks = Task
  BY <1>1 DEF FinishedDeadlines, Memory
<1>5. t \in skipped => passed.tasks[t].status \in Terminal
  BY <1>4 DEF FinishDeadline, Finish, TaskRecord, Terminal
<1>6. \A u \in Chosen(m, w) :
        u \in Task /\ u \notin skipped /\ ~DeadlineExpired(m.tasks[u], now)
  BY DEF Chosen, Candidates, Skipped
<1>7. ASSUME m.tasks[t].status = "queued",
             m.tasks[t].submission.requires
               \subseteq m.workers[w].registration.capabilities
      PROVE  /\ t \in skipped \/ Chosen(m, w) # {}
             /\ t \in skipped \/ \A u \in Chosen(m, w) : Before(memory, u, t)
  <2>1. t \in Candidates(m, w)
    BY <1>7 DEF Candidates
  <2>2. \A u \in Chosen(m, w) : t \notin skipped => Before(m, u, t)
    <3> SUFFICES ASSUME NEW u \in Chosen(m, w), t \notin skipped
                 PROVE  Before(m, u, t)
      OBVIOUS
    <3>1. u \in Task /\ u # t
      BY <1>2, <1>6
    <3>2. /\ u \in Nat /\ t \in Nat
          /\ m.tasks[u].submitted_at \in Nat /\ m.tasks[t].submitted_at \in Nat
      BY <1>4, <3>1, ConstantsAssumption DEF TaskRecord
    <3>3. ~Before(m, t, u)
      BY <1>1, <2>1, ChosenIsFirst DEF Memory
    <3> QED BY <3>1, <3>2, <3>3 DEF Before
  <2>3. \A u \in Chosen(m, w) : Before(m, u, t) => Before(memory, u, t)
    BY <1>2, <1>6 DEF Before
  <2> QED BY <1>2, <2>1, <2>2, <2>3 DEF Skipped
<1> HIDE DEF passed, skipped
<1>8. ASSUME NEW u \in Chosen(m, w), memory' = Leased(passed, u, w)
      PROVE  /\ memory'.tasks[u].status = "running"
             /\ memory'.tasks[u].attempt = memory.tasks[u].attempt + 1
             /\ memory'.tasks[u].submission = m.tasks[u].submission
             /\ \A v \in Task \ {u} : memory'.tasks[v] = passed.tasks[v]
             /\ memory'.workers = m.workers
  <2>1. u \in Task /\ passed.tasks[u] = m.tasks[u] /\ m.tasks[u] \in TaskRecord
    BY <1>4, <1>6
  <2> QED BY <1>2, <1>4, <1>8, <2>1 DEF Leased, WithTask, TaskRecord
<1>9. CASE m.tasks[t].status \in Terminal
  <2>1. t \notin Chosen(m, w)
    BY <1>2, <1>6
  <2>2. passed.tasks[t].status \in Terminal
    BY <1>4, <1>5, <1>9
  <2> QED BY <1>3, <1>8, <1>9, <2>1, <2>2
<1>10. CASE m.tasks[t].status = "queued"
  <2>1. /\ memory'.workers = m.workers
        /\ memory'.tasks[t].submission = m.tasks[t].submission
    <3>1. passed.tasks[t].submission = m.tasks[t].submission
      BY <1>4 DEF FinishDeadline, Finish, TaskRecord
    <3> QED BY <1>3, <1>4, <1>8, <3>1
  <2>2. /\ m.workers[w].lifecycle = "ready"
        /\ t \in skipped \/ Chosen(m, w) # {}
        /\ t \in skipped \/ \A u \in Chosen(m, w) : Before(memory, u, t)
    BY <1>7, <1>10, <2>1 DEF CanRun
  <2>3. CASE Chosen(m, w) = {} /\ memory' = passed
    BY <1>5, <2>2, <2>3
  <2>4. ASSUME NEW u \in Chosen(m, w), memory' = Leased(passed, u, w)
        PROVE  \/ memory'.tasks[t].status \in Terminal
               \/ \E v \in Task : Before(memory, v, t) /\ Started(v)
    <3>1. u \in Task /\ Started(u) /\ u # t
      BY <1>2, <1>6, <1>8, <2>4 DEF Started
    <3>2. t \notin skipped => Before(memory, u, t)
      BY <2>2, <2>4
    <3> QED BY <1>5, <1>8, <2>4, <3>1, <3>2
  <2> QED BY <1>3, <2>2, <2>3, <2>4
<1> QED BY <1>2, <1>9, <1>10

\* With saves that do not raise, a claim by a worker that could run a task whose
\* time is up, and that nobody holds, ends the task or spends an attempt of an
\* older one.  As attempts are bounded, it cannot go on passing over the task:
\* this is why DeadlineTasksEnd holds.
THEOREM ClaimTheorem ==
  ASSUME SaveMayFail = FALSE
  PROVE  Spec => ClaimServes
<1>1. Init => mode # "failed"
  BY DEF Init
<1>2. (mode # "failed") /\ [Next]_vars => (mode # "failed")'
  BY NeverFails
<1>3. IInv /\ (mode # "failed") =>
        [\A w \in Worker, t \in Task :
           Claim(w) /\ Overdue(t) /\ CanRun(w, t)' =>
             \/ memory'.tasks[t].status \in Terminal
             \/ \E u \in Task : Before(memory, u, t) /\ Started(u)]_vars
  BY ClaimEnds
<1> QED BY <1>1, <1>2, <1>3, Invariance, PTL DEF Spec, ClaimServes

-----------------------------------------------------------------------------
(* Who overwrites a finished task.                                         *)

\* A renewal of one of t's leases that comes after t's deadline.
LateRenewal(t) ==
  \E l \in issued :
    /\ l.task = t
    /\ Renew(l)
    /\ DeadlineExpired(memory.tasks[t], now)

\* What is done to the other tasks, or to the open ones, leaves t alone.
LEMMA OthersLeave ==
  ASSUME NEW m \in Memory, NEW t \in Task
  PROVE  /\ m.tasks[t].status # "running" =>
              \A at : Expired(m, at).tasks[t] = m.tasks[t]
         /\ \A T : t \notin T => FinishedDeadlines(m, T).tasks[t] = m.tasks[t]
         /\ \A w : \A u \in Task \ {t} : Leased(m, u, w).tasks[t] = m.tasks[t]
         /\ \A w \in Worker : \A worker : WithWorker(m, w, worker).tasks = m.tasks
         /\ \A u \in Task \ {t} : \A task : WithTask(m, u, task).tasks[t] = m.tasks[t]
<1>1. \A u \in Task \ {t} : \A task : WithTask(m, u, task).tasks[t] = m.tasks[t]
  BY DEF WithTask, Memory
<1>2. \A w : \A u \in Task \ {t} : Leased(m, u, w).tasks[t] = m.tasks[t]
  BY <1>1 DEF Leased
<1>3. \A w \in Worker : \A worker : WithWorker(m, w, worker).tasks = m.tasks
  BY DEF WithWorker, Memory
<1>4. m.tasks[t].status # "running" =>
        \A at : Expired(m, at).tasks[t] = m.tasks[t]
  BY DEF Expired, ExpireTask
<1>5. \A T : t \notin T => FinishedDeadlines(m, T).tasks[t] = m.tasks[t]
  BY DEF FinishedDeadlines, Memory
<1> QED BY <1>1, <1>2, <1>3, <1>4, <1>5

\* Every step but a submission.
CreatesNoTask ==
  \/ \E w \in Worker, r \in Registration : Register(w, r)
  \/ \E w \in Worker : Heartbeat(w) \/ Drain(w) \/ Stop(w) \/ Claim(w)
  \/ \E l \in issued : Renew(l)
  \/ \E l \in issued, r \in Result : SubmitResult(l, r)
  \/ \E t \in Task, r \in Result : ExecuteClaimedTask(t, r)
  \/ ExpireLeases
  \/ \E t \in Task, cause \in CancelCause : Cancel(t, cause)
  \/ \E t \in Task : ObserveTask(t)
  \/ Crash \/ Restart \/ Tick \/ UNCHANGED vars

\* The tasks that are neither queued nor running are only touched by those who
\* create and by those who overwrite them.
LEMMA OthersUntouched ==
  ASSUME IInv, CreatesNoTask, NEW t \in Task, mode # "down", mode' # "down",
         memory.tasks[t].status \notin {"queued", "running"}
  PROVE  memory'.tasks[t] = memory.tasks[t] \/ LateRenewal(t)
<1>1. memory \in Memory /\ memory.tasks[t].status \notin {"queued", "running"}
  BY DEF IInv, TypeOK
<1>2. ASSUME NEW l, l.task \in Task, NEW r \in Result, Conclude(l, r)
      PROVE  memory'.tasks[t] = memory.tasks[t]
  <2> DEFINE task == memory.tasks[l.task]
             next == Concluded(task, r)
  <2>1. \/ memory' = memory
        \/ memory' = Expired(memory, now)
        \/ /\ ~Finished(task) /\ task.status # "absent"
           /\ \E x : memory' = WithTask(memory, l.task, x)
    <3> HIDE DEF next
    <3>1. Current(task, l) => ~Finished(task)
      BY DEF Current, Finished, Terminal
    <3> QED BY <1>2, <3>1
            DEF Conclude, Persist, Saved, NotSaved, SaveRaised, SaveRefused, next
  <2>2. ~Finished(task) /\ task.status # "absent" => l.task # t
    BY <1>1, <1>2 DEF IInv, TypeOK, Memory, TaskRecord, TaskStatus, Finished
  <2> QED BY <1>1, <1>2, <2>1, <2>2, OthersLeave
<1>3. CASE \E w \in Worker, r \in Registration : Register(w, r)
  BY <1>1, <1>3, Persisted, OthersLeave DEF Register
<1>4. CASE \E w \in Worker : Heartbeat(w) \/ Drain(w) \/ Stop(w)
  BY <1>1, <1>4, Persisted, OthersLeave DEF Heartbeat, Drain, Stop, SetLifecycle
<1>5. CASE \E w \in Worker : Claim(w)
  <2>1. PICK w \in Worker : Claim(w)
    BY <1>5
  <2> DEFINE m       == Expired(memory, now)
             skipped == Skipped(m, w)
             passed  == FinishedDeadlines(m, skipped)
  <2>2. m \in Memory /\ m.tasks[t] = memory.tasks[t]
    BY <1>1, ExpiryGoodStep, OthersLeave DEF GoodStep
  <2>3. t \notin skipped /\ \A u \in Chosen(m, w) : u \in Task /\ u # t
    BY <1>1, <2>2 DEF Skipped, Chosen, Candidates
  <2>4. \/ memory' = m
        \/ \E T \in SUBSET skipped : memory' = FinishedDeadlines(m, T)
        \/ \E u \in Chosen(m, w) : memory' = Leased(passed, u, w)
    <3> HIDE DEF m
    <3> QED BY <2>1 DEF Claim, Saved, NotSaved, SaveRaised, SaveRefused, m
  <2>5. \A T \in SUBSET skipped : FinishedDeadlines(m, T).tasks[t] = memory.tasks[t]
    <3> HIDE DEF m, skipped
    <3> QED BY <2>2, <2>3, OthersLeave
  <2>6. passed \in Memory
    <3>1. GoodMemory(m)
      BY ExpiryGoodStep, GoodStepGood
    <3>2. /\ skipped \in SUBSET Task
          /\ \A u \in skipped : m.tasks[u].status = "queued"
                                  /\ DeadlineExpired(m.tasks[u], now)
      BY DEF Skipped, Candidates
    <3> HIDE DEF m, skipped
    <3> QED BY <2>2, <3>1, <3>2, FinishedDeadlinesGoodStep DEF GoodStep
  <2>7. passed.tasks[t] = memory.tasks[t]
    BY <2>5
  <2> HIDE DEF m, skipped, passed
  <2> QED BY <2>2, <2>3, <2>4, <2>5, <2>6, <2>7, OthersLeave
<1>6. CASE \E l \in issued : Renew(l)
  <2>1. PICK l \in issued : Renew(l)
    BY <1>6
  <2>2. l.task \in Task /\ l.worker \in Worker
    BY DEF IInv, TypeOK, Issued
  <2>3. CASE l.task = t /\ DeadlineExpired(memory.tasks[t], now)
    BY <2>1, <2>3 DEF LateRenewal
  <2>4. CASE l.task # t \/ ~DeadlineExpired(memory.tasks[t], now)
    <3> DEFINE task   == memory.tasks[l.task]
               worker == memory.workers[l.worker]
               renewed == [task EXCEPT !.lease.expires_at =
                                         now + worker.registration.lease_seconds]
    <3>1. \/ /\ DeadlineExpired(task, now)
             /\ memory' = WithTask(memory, l.task, FinishDeadline(task))
          \/ memory' = Expired(memory, now)
          \/ \E changed : memory' = WithWorker(memory, l.worker, changed)
          \/ /\ task.status = "running"
             /\ \E changed :
                  memory' = WithWorker(WithTask(memory, l.task, renewed), l.worker, changed)
      BY <2>1, Persisted DEF Renew, Current
    <3> HIDE DEF renewed
    <3>2. \A changed :
            WithWorker(WithTask(memory, l.task, renewed), l.worker, changed).tasks
              = WithTask(memory, l.task, renewed).tasks
      BY DEF WithWorker, WithTask
    <3>3. task.status = "running" => l.task # t
      BY <1>1
    <3>4. \A x : l.task # t => WithTask(memory, l.task, x).tasks[t] = memory.tasks[t]
      BY <1>1, <2>2, OthersLeave
    <3>5. /\ Expired(memory, now).tasks[t] = memory.tasks[t]
          /\ \A changed : WithWorker(memory, l.worker, changed).tasks = memory.tasks
      BY <1>1, <2>2, OthersLeave
    <3> QED BY <2>4, <3>1, <3>2, <3>3, <3>4, <3>5
  <2> QED BY <2>3, <2>4
<1>7. CASE \E l \in issued, r \in Result : SubmitResult(l, r)
  BY <1>2, <1>7 DEF SubmitResult, IInv, TypeOK, Issued
<1>8. CASE \E u \in Task, r \in Result : ExecuteClaimedTask(u, r)
  <2>1. \A u \in Task : Handed(memory, u).task = u
    BY DEF Handed
  <2> QED BY <1>2, <1>8, <2>1 DEF ExecuteClaimedTask
<1>9. CASE ExpireLeases
  BY <1>1, <1>9, Persisted, OthersLeave DEF ExpireLeases
<1>10. CASE \E u \in Task, cause \in CancelCause : Cancel(u, cause)
  <2>1. PICK u \in Task, cause \in CancelCause : Cancel(u, cause)
    BY <1>10
  <2>2. \/ memory' = memory
        \/ /\ ~Finished(memory.tasks[u]) /\ memory.tasks[u].status # "absent"
           /\ \E x : memory' = WithTask(memory, u, x)
    BY <2>1 DEF Cancel, Saved, NotSaved, SaveRaised, SaveRefused
  <2>3. ~Finished(memory.tasks[u]) /\ memory.tasks[u].status # "absent" => u # t
    BY <1>1 DEF IInv, TypeOK, Memory, TaskRecord, TaskStatus, Finished
  <2> QED BY <1>1, <2>2, <2>3, OthersLeave
<1>11. CASE Crash \/ Restart
  BY <1>11 DEF Crash, Restart
<1>12. CASE Tick \/ (\E u \in Task : ObserveTask(u)) \/ UNCHANGED vars
  BY <1>12 DEF Tick, ObserveTask, vars
<1> QED BY <1>3, <1>4, <1>5, <1>6, <1>7, <1>8, <1>9, <1>10, <1>11, <1>12
        DEF CreatesNoTask

LEMMA FinishedUntouched ==
  ASSUME IInv, [Next]_vars, NEW t \in Task, mode # "down", mode' # "down",
         memory.tasks[t].status \in Terminal
  PROVE  memory'.tasks[t] = memory.tasks[t] \/ LateRenewal(t)
<1>1. memory \in Memory /\ memory.tasks[t].status \notin {"absent", "queued", "running"}
  BY DEF IInv, TypeOK, Terminal
<1>2. CASE \E u \in Task, k \in Key \cup {NoKey}, s \in Submission : Submit(u, k, s)
  <2>1. PICK u \in Task : /\ memory.tasks[u].status = "absent"
                          /\ \E x : memory' = WithTask(memory, u, x)
    BY <1>2, Persisted DEF Submit
  <2> QED BY <1>1, <2>1, OthersLeave
<1>3. CASE CreatesNoTask
  BY <1>1, <1>3, OthersUntouched
<1> QED BY <1>2, <1>3 DEF Next, CreatesNoTask

\* Only renew_lease overwrites a finished task: no result, claim, sweep,
\* cancellation or submission does, whatever becomes of the saves, and the
\* renewal only once the deadline has passed, of which it does not first ask
\* whether the task is over.
THEOREM OverwriteTheorem ==
  Spec => [][\A t \in Task :
               mode # "down" /\ memory.tasks[t].status \in Terminal /\ mode' # "down" =>
                 memory'.tasks[t] = memory.tasks[t] \/ LateRenewal(t)]_vars
<1>1. IInv /\ [Next]_vars =>
        [\A t \in Task :
           mode # "down" /\ memory.tasks[t].status \in Terminal /\ mode' # "down" =>
             memory'.tasks[t] = memory.tasks[t] \/ LateRenewal(t)]_vars
  BY FinishedUntouched
<1> QED BY <1>1, Invariance, PTL DEF Spec

\* No caller of submit_task gives a deadline.
NobodyHurries == \A s \in Submission : s.deadline = NoDeadline

LEMMA NeverLate ==
  ASSUME IInv, NobodyHurries, NEW t \in Task, memory.tasks[t].status # "absent"
  PROVE  ~DeadlineExpired(memory.tasks[t], now)
BY TaskInMemory DEF GoodTask, LeaseAgrees, NobodyHurries, DeadlineExpired

\* Where no task has a deadline, the class docstring is right: a committed
\* terminal result is immutable.
THEOREM ImmutableTheorem ==
  ASSUME NobodyHurries
  PROVE  Spec => CommittedResultImmutable
<1>1. ASSUME IInv, [Next]_vars
      PROVE  [\A t \in Task :
                mode = "up" /\ memory.tasks[t].status \in Terminal /\ mode' = "up" =>
                  memory'.tasks[t] = memory.tasks[t]]_vars
  <2>1. \A t \in Task : memory.tasks[t].status \in Terminal => ~LateRenewal(t)
    BY <1>1, NeverLate DEF LateRenewal, Terminal
  <2> QED BY <1>1, <2>1, FinishedUntouched
<1> QED BY <1>1, Invariance, PTL DEF Spec, CommittedResultImmutable

\* What a caller was told of a task is what is stored of it.
ToldStays ==
  /\ mode # "failed"
  /\ \A t \in Task : \A status \in reported[t] :
       stored.tasks[t].status = status /\ status \in Terminal

LEMMA ToldStaysInv ==
  ASSUME IInv, SaveMayFail = FALSE, NobodyHurries, ToldStays, [Next]_vars
  PROVE  ToldStays'
<1>1. mode' # "failed"
  BY NeverFails DEF ToldStays
<1>2. ASSUME NEW t \in Task, NEW status \in reported'[t]
      PROVE  stored'.tasks[t].status = status /\ status \in Terminal
  <2>1. CASE status \notin reported[t]
    BY <2>1, NewlyTold DEF ToldStays
  <2>2. CASE status \in reported[t]
    <3>1. stored.tasks[t].status = status /\ status \in Terminal
      BY <2>2 DEF ToldStays
    <3>2. stored.tasks[t].submission \in Submission
      BY <3>1 DEF IInv, GoodMemory, GoodTask, LeaseAgrees, Terminal
    <3>3. ~DeadlineExpired(stored.tasks[t], now)
      BY <3>2 DEF NobodyHurries, DeadlineExpired
    <3> QED BY <3>1, <3>3, StoredTerminal
  <2> QED BY <2>1, <2>2
<1> QED BY <1>1, <1>2 DEF ToldStays

\* Where no task has a deadline and no save raises, nobody is told of an
\* outcome that the coordinator, or a restart of it, takes back.
THEOREM ToldTheorem ==
  ASSUME SaveMayFail = FALSE, NobodyHurries
  PROVE  Spec => []ToldOutcomeIsDurable
<1>1. Init => ToldStays
  BY DEF Init, ToldStays
<1>2. IInv /\ ToldStays /\ [Next]_vars => ToldStays'
  BY ToldStaysInv
<1>3. IInv /\ ToldStays => ToldOutcomeIsDurable
  BY DEF ToldStays, ToldOutcomeIsDurable, IInv, UpIsDurable
<1> QED BY <1>1, <1>2, <1>3, Invariance, PTL DEF Spec
=============================================================================
