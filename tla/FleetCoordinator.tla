-------------------------- MODULE FleetCoordinator --------------------------
(***************************************************************************)
(* The fleet coordinator of loom_ai/fleet.py: worker registrations, tasks, *)
(* fenced leases, retries, deadlines, and the snapshot it saves after      *)
(* every change and restores after a restart.                              *)
(*                                                                         *)
(* Every handler runs under one re-entrant lock, changes memory first and  *)
(* saves the whole snapshot afterwards, so a handler is one action whose   *)
(* alternatives are what its save may do: succeed, raise with the new      *)
(* snapshot stored or not, or be refused because an earlier save raised.   *)
(* A call that only raises or returns what is recorded is a stuttering     *)
(* step and has no action.                                                 *)
(***************************************************************************)
EXTENDS Integers, Sequences, FiniteSets

CONSTANTS
  Worker,           \* worker identities
  Task,             \* task identities; numbers, so that they are ordered
  Key,              \* idempotency keys a submitter names itself
  Registration,     \* what register_worker may be called with
  Submission,       \* what submit_task may be called with
  Result,           \* what a worker may report
  HeartbeatTimeout, \* heartbeat_timeout_seconds
  SaveMayFail,      \* may FleetStateStore.save raise?
  MaxTime,          \* bound on the clock
  MaxStall,         \* bound on how old a time read before the lock may be
  MaxRestarts,      \* bound on crashes of the coordinator process
  NoDeadline, NoLease, NoRegistration, NoSubmission, NoKey, NoResult

Outcome == {"succeeded", "partially_succeeded", "failed", "policy_denied",
            "cancelled", "deadline_exceeded"}

\* Why the coordinator itself ended a task (metadata.termination_cause).
TerminationCause == {"cancelled", "deadline_exceeded", "worker_timeout",
                     "lease_expired", "attempts_exhausted"}

ASSUME ConstantsAssumption ==
  /\ Task \subseteq Nat
  /\ Registration \subseteq
       [implementation : STRING, capabilities : SUBSET STRING,
        lease_seconds : Nat \ {0}]
  /\ Submission \subseteq
       [execution : STRING, requires : SUBSET STRING,
        max_attempts : Nat \ {0}, deadline : Nat \cup {NoDeadline}]
  /\ Result \subseteq [outcome : Outcome, retryable : BOOLEAN]
  /\ HeartbeatTimeout \in Nat \ {0}
  /\ SaveMayFail \in BOOLEAN
  /\ MaxTime \in Nat /\ MaxStall \in Nat /\ MaxRestarts \in Nat

Lifecycle  == {"unregistered", "ready", "draining", "stopped", "unhealthy"}
Terminal   == {"succeeded", "failed", "cancelled"}
TaskStatus == {"absent", "queued", "running"} \cup Terminal

LeaseId == Nat \X Nat
Lease   == [worker : Worker, lease_id : LeaseId, generation : Nat,
            attempt : Nat, expires_at : Nat]

ASSUME NoLeaseAssumption == NoLease \notin Lease

\* A submitter names no key that a task without one is given.
ASSUME KeyAssumption == NoKey \notin Key /\ Key \cap Task = {}

Ending  == {"coordinator_restart_lease_invalidated", "lease_expired",
            "coordinator_terminated_lease", "success", "failed", "cancelled"}
Attempt == [attempt : Nat, worker : Worker, generation : Nat, status : Ending]

WorkerRecord ==
  [registration : Registration \cup {NoRegistration},
   lifecycle : Lifecycle, last_heartbeat_at : Nat]

TaskRecord ==
  [submission : Submission \cup {NoSubmission},
   idempotency_key : Key \cup Task \cup {NoKey}, submitted_at : Nat,
   status : TaskStatus, attempt : Nat, lease_generation : Nat,
   lease : Lease \cup {NoLease},
   result : Outcome \cup TerminationCause \cup {NoResult},
   history : Seq(Attempt)]

Memory == [workers : [Worker -> WorkerRecord], tasks : [Task -> TaskRecord]]

VARIABLES
  now,      \* what the coordinator's clock reads
  mode,     \* "up", "failed" (fail-stopped by a save) or "down"
  boot,     \* how often the process has been restarted
  started,  \* what the clock read when the process last started
  memory,   \* self._workers and self._tasks
  stored,   \* the snapshot the state store holds
  issued,   \* leases that left the coordinator in a response
  reported  \* terminal statuses callers have been told, per task

vars == <<now, mode, boot, started, memory, stored, issued, reported>>

Issued == [task : Task, worker : Worker, lease_id : LeaseId, generation : Nat]

TypeOK ==
  /\ now \in Nat
  /\ mode \in {"up", "failed", "down"}
  /\ boot \in Nat
  /\ started \in Nat
  /\ memory \in Memory
  /\ stored \in Memory
  /\ issued \subseteq Issued
  /\ reported \in [Task -> SUBSET Terminal]

-----------------------------------------------------------------------------
EmptyWorker ==
  [registration |-> NoRegistration, lifecycle |-> "unregistered",
   last_heartbeat_at |-> 0]

EmptyTask ==
  [submission |-> NoSubmission, idempotency_key |-> NoKey, submitted_at |-> 0,
   status |-> "absent", attempt |-> 0, lease_generation |-> 0,
   lease |-> NoLease, result |-> NoResult, history |-> <<>>]

EmptyMemory ==
  [workers |-> [w \in Worker |-> EmptyWorker],
   tasks   |-> [t \in Task |-> EmptyTask]]

Init ==
  /\ now = 0
  /\ mode = "up"
  /\ boot = 0
  /\ started = 0
  /\ memory = EmptyMemory
  /\ stored = EmptyMemory
  /\ issued = {}
  /\ reported = [t \in Task |-> {}]

-----------------------------------------------------------------------------
(* Saving.  The state in memory has become m before the save is tried.     *)

\* Slip: a handler that forgets to save.
SavedSlip(m) == mode = "up" /\ memory' = m /\ UNCHANGED <<stored, mode>>

Saved(m) ==
  /\ mode = "up"
  /\ memory' = m
  /\ stored' = m
  /\ UNCHANGED mode

\* The save raised when the store held the snapshot before: m may be there.
SaveRaised(before, m) ==
  /\ mode = "up"
  /\ SaveMayFail
  /\ memory' = m
  /\ stored' \in {before, m}
  /\ mode' = "failed"

\* An earlier save raised: nothing is written any more.
SaveRefused(m) ==
  /\ mode = "failed"
  /\ memory' = m
  /\ UNCHANGED <<stored, mode>>

NotSaved(m) == SaveRaised(stored, m) \/ SaveRefused(m)

Persist(m) == Saved(m) \/ NotSaved(m)

\* Nothing but the coordinator's own state, and what it answers, changes.
Silent == UNCHANGED <<now, boot, started, issued, reported>>

WithTask(m, t, task) == [m EXCEPT !.tasks[t] = task]
WithWorker(m, w, worker) == [m EXCEPT !.workers[w] = worker]

-----------------------------------------------------------------------------
(* What the handlers do to one task.                                       *)

DeadlineExpired(task, at) ==
  /\ task.submission.deadline # NoDeadline
  /\ at >= task.submission.deadline

\* Slip: the budget is compared after the attempt instead of before it.
AttemptsLeftSlip(task) == task.attempt <= task.submission.max_attempts

AttemptsLeft(task) == task.attempt < task.submission.max_attempts

\* Slip: _TERMINAL_TASK_STATES without CANCELLED.
FinishedSlip(task) == task.status \in {"succeeded", "failed"}

Finished(task) == task.status \in Terminal

\* The history once the running attempt has ended as how.
Ended(task, how) ==
  Append(task.history,
         [attempt |-> task.attempt, worker |-> task.lease.worker,
          generation |-> task.lease.generation, status |-> how])

\* Slips: the retried task forgets how its attempt ended, or its generation.
RequeueUnrecorded(task, history) ==
  [task EXCEPT !.status = "queued", !.lease = NoLease, !.result = NoResult]

RequeueAfresh(task, history) ==
  [task EXCEPT !.status = "queued", !.lease = NoLease, !.result = NoResult,
               !.lease_generation = 0, !.history = history]

Requeue(task, history) ==
  [task EXCEPT !.status = "queued", !.lease = NoLease, !.result = NoResult,
               !.history = history]

\* Slip: the finished task keeps its lease.
FinishLeased(task, status, result, history) ==
  [task EXCEPT !.status = status, !.result = result, !.history = history]

Finish(task, status, result, history) ==
  [task EXCEPT !.status = status, !.lease = NoLease, !.result = result,
               !.history = history]

FinishDeadline(task) == Finish(task, "failed", "deadline_exceeded", task.history)

\* Slip: every expired lease leads to a retry.
ExpireTaskSlip(task, at) ==
  IF task.status = "running" /\ at >= task.lease.expires_at
  THEN Requeue(task, Ended(task, "lease_expired"))
  ELSE task

ExpireTask(task, at) ==
  IF task.status # "running" \/ task.lease = NoLease \/ at < task.lease.expires_at
  THEN task
  ELSE IF AttemptsLeft(task) /\ ~DeadlineExpired(task, at)
       THEN Requeue(task, Ended(task, "lease_expired"))
       ELSE Finish(task, "failed", "lease_expired", Ended(task, "lease_expired"))

HeartbeatExpired(worker, at) == at - worker.last_heartbeat_at > HeartbeatTimeout

ExpireWorker(worker, at) ==
  IF worker.lifecycle = "ready" /\ HeartbeatExpired(worker, at)
  THEN [worker EXCEPT !.lifecycle = "unhealthy"]
  ELSE worker

\* The state in memory after the loops of expire_leases.
Expired(m, at) ==
  [workers |-> [w \in Worker |-> ExpireWorker(m.workers[w], at)],
   tasks   |-> [t \in Task |-> ExpireTask(m.tasks[t], at)]]

\* Slip: an expired lease counts until it is swept.
CurrentSlip(task, l) ==
  /\ task.status = "running"
  /\ task.lease.worker = l.worker
  /\ task.lease.lease_id = l.lease_id
  /\ task.lease.generation = l.generation

\* Slip: any lease of the task will do, as long as there is a current one.
UnfencedSlip(task, l) ==
  /\ task.status = "running"
  /\ now < task.lease.expires_at

\* The lease a caller presents is the task's current, unexpired one.
Current(task, l) ==
  /\ task.status = "running"
  /\ task.lease # NoLease
  /\ task.lease.worker = l.worker
  /\ task.lease.lease_id = l.lease_id
  /\ task.lease.generation = l.generation
  /\ now < task.lease.expires_at

-----------------------------------------------------------------------------
(* Workers.                                                                *)

\* Instants at which a thread now in the lock may have read the clock before.
Earlier == {at \in started .. now : now - at <= MaxStall}

Register(w, r) ==
  LET worker == memory.workers[w] IN
  /\ mode # "down"
  /\ worker.lifecycle # "unregistered" =>
       worker.registration.implementation = r.implementation
  /\ \E at \in Earlier :
       Persist(WithWorker(memory, w,
         [registration |-> r, lifecycle |-> "ready", last_heartbeat_at |-> at]))
  /\ Silent

\* A draining worker stays draining; the others that may beat are ready.
Heartbeat(w) ==
  /\ mode # "down"
  /\ memory.workers[w].lifecycle \in {"ready", "draining"}
  /\ Persist(WithWorker(memory, w,
       [memory.workers[w] EXCEPT !.last_heartbeat_at = now]))
  /\ Silent

SetLifecycle(w, lifecycle) ==
  /\ mode # "down"
  /\ memory.workers[w].lifecycle # "unregistered"
  /\ Persist(WithWorker(memory, w,
       [memory.workers[w] EXCEPT !.lifecycle = lifecycle,
                                 !.last_heartbeat_at = now]))
  /\ Silent

Drain(w) == SetLifecycle(w, "draining")
Stop(w)  == SetLifecycle(w, "stopped")

-----------------------------------------------------------------------------
(* Submissions and claims.                                                 *)

\* Slip: no look at the idempotency key.
SubmitSlip(t, k, s) ==
  /\ mode # "down"
  /\ memory.tasks[t].status = "absent"
  /\ Persist(WithTask(memory, t,
       [EmptyTask EXCEPT
          !.submission = s, !.idempotency_key = IF k = NoKey THEN t ELSE k,
          !.submitted_at = now, !.status = "queued"]))
  /\ Silent

\* submit_task creates t.  With k = NoKey the task identity is the key and no
\* task is looked up by key.
Submit(t, k, s) ==
  /\ mode # "down"
  /\ k = NoKey \/ \A u \in Task : memory.tasks[u].idempotency_key # k
  /\ memory.tasks[t].status = "absent"
  /\ Persist(WithTask(memory, t,
       [EmptyTask EXCEPT
          !.submission = s, !.idempotency_key = IF k = NoKey THEN t ELSE k,
          !.submitted_at = now, !.status = "queued"]))
  /\ Silent

\* claim_task's order: by submission time, then by task identity.
Before(m, t, u) ==
  \/ m.tasks[t].submitted_at < m.tasks[u].submitted_at
  \/ m.tasks[t].submitted_at = m.tasks[u].submitted_at /\ t < u

Candidates(m, w) ==
  {t \in Task :
     /\ m.tasks[t].status = "queued"
     /\ m.tasks[t].submission.requires
          \subseteq m.workers[w].registration.capabilities}

\* Slip: the candidates are not sorted.
ChosenSlip(m, w) ==
  {t \in Candidates(m, w) : ~DeadlineExpired(m.tasks[t], now)}

\* The candidate that is leased: the first whose deadline has not passed.
Chosen(m, w) ==
  {t \in Candidates(m, w) :
     /\ ~DeadlineExpired(m.tasks[t], now)
     /\ \A u \in Candidates(m, w) :
          ~DeadlineExpired(m.tasks[u], now) => ~Before(m, u, t)}

\* Slip: candidates whose deadline has passed are only finished on the way to a
\* task that is leased.
SkippedSlip(m, w) ==
  {t \in Candidates(m, w) :
     /\ DeadlineExpired(m.tasks[t], now)
     /\ \E u \in Chosen(m, w) : Before(m, t, u)}

\* The candidates whose deadline has passed that the loop meets before it.
Skipped(m, w) ==
  {t \in Candidates(m, w) :
     /\ DeadlineExpired(m.tasks[t], now)
     /\ \A u \in Chosen(m, w) : Before(m, t, u)}

FinishedDeadlines(m, T) ==
  [m EXCEPT !.tasks = [t \in Task |->
     IF t \in T THEN FinishDeadline(m.tasks[t]) ELSE m.tasks[t]]]

\* Slip: a retry is leased under the generation of the lease before.
LeasedSlip(m, t, w) ==
  WithTask(m, t,
    LET task == m.tasks[t] IN
    [task EXCEPT
       !.status = "running", !.attempt = task.attempt + 1,
       !.lease = [worker |-> w, lease_id |-> <<boot, task.attempt + 1>>,
                  generation |-> task.lease_generation,
                  attempt |-> task.attempt + 1,
                  expires_at |-> now + m.workers[w].registration.lease_seconds]])

Leased(m, t, w) ==
  WithTask(m, t,
    LET task == m.tasks[t] IN
    [task EXCEPT
       !.status = "running", !.attempt = task.attempt + 1,
       !.lease_generation = task.lease_generation + 1,
       !.lease = [worker |-> w,
                  lease_id |-> <<boot, task.lease_generation + 1>>,
                  generation |-> task.lease_generation + 1,
                  attempt |-> task.attempt + 1,
                  expires_at |-> now + m.workers[w].registration.lease_seconds]])

Handed(m, t) ==
  LET lease == m.tasks[t].lease IN
  [task |-> t, worker |-> lease.worker, lease_id |-> lease.lease_id,
   generation |-> lease.generation]

\* claim_task saves after expire_leases, after each task it finishes because
\* of its deadline, and after the lease; the first save that raises ends it.
Claim(w) ==
  LET m       == Expired(memory, now)
      skipped == Skipped(m, w)
      passed  == FinishedDeadlines(m, skipped)
  IN
  /\ mode # "down"
  /\ UNCHANGED <<now, boot, started, reported>>
  /\ \/ NotSaved(m) /\ UNCHANGED issued
     \/ /\ m.workers[w].lifecycle # "ready" \* raises, or nothing to claim
        /\ Saved(m)
        /\ UNCHANGED issued
     \/ /\ m.workers[w].lifecycle = "ready"
        /\ \/ /\ \E t \in skipped :
                   LET done == {u \in skipped : Before(m, u, t)} IN
                   SaveRaised(FinishedDeadlines(m, done),
                              FinishedDeadlines(m, done \cup {t}))
              /\ UNCHANGED issued
           \/ Chosen(m, w) = {} /\ Saved(passed) /\ UNCHANGED issued
           \/ \E t \in Chosen(m, w) :
                \/ /\ SaveRaised(passed, Leased(passed, t, w))
                   /\ UNCHANGED issued
                \/ /\ Saved(Leased(passed, t, w))
                   /\ issued' = issued \cup {Handed(Leased(passed, t, w), t)}

-----------------------------------------------------------------------------
(* Lease holders.  l is any lease that ever left the coordinator, so every *)
(* late, repeated or reordered call is among these steps.                  *)

\* renew_lease looks at the deadline before it looks at the task's status.
Renew(l) ==
  LET t      == l.task
      task   == memory.tasks[t]
      worker == memory.workers[l.worker]
  IN
  /\ mode # "down"
  /\ task.status # "absent"
  /\ IF DeadlineExpired(task, now)
     THEN Persist(WithTask(memory, t, FinishDeadline(task)))
     ELSE IF ~Current(task, l)
     THEN Persist(Expired(memory, now))
     ELSE /\ worker.lifecycle = "ready"
          /\ IF HeartbeatExpired(worker, now)
             THEN Persist(WithWorker(memory, l.worker,
                            [worker EXCEPT !.lifecycle = "unhealthy"]))
             ELSE Persist(WithWorker(
                    WithTask(memory, t,
                      [task EXCEPT !.lease.expires_at =
                                     now + worker.registration.lease_seconds]),
                    l.worker, [worker EXCEPT !.last_heartbeat_at = now]))
  /\ Silent

StatusOf(outcome) ==
  CASE outcome \in {"succeeded", "partially_succeeded"} -> "success"
    [] outcome = "cancelled" -> "cancelled"
    [] OTHER -> "failed"

\* The task once the result r of its current lease has been recorded.
Concluded(task, r) ==
  LET history == Ended(task, StatusOf(r.outcome)) IN
  CASE StatusOf(r.outcome) = "success" ->
         Finish(task, "succeeded", r.outcome, history)
    [] StatusOf(r.outcome) = "cancelled" ->
         Finish(task, "cancelled", r.outcome, history)
    [] r.outcome = "failed" /\ r.retryable /\ AttemptsLeft(task) ->
         Requeue(task, history)
    [] OTHER ->
         Finish(task, "failed", r.outcome, history)

\* Slip: a retried task is reported as an outcome.
TellSlip(t, status) == reported' = [reported EXCEPT ![t] = @ \cup {status}]

\* A caller is told the status of t, if it is terminal.
Tell(t, status) ==
  reported' = [reported EXCEPT ![t] = @ \cup ({status} \cap Terminal)]

\* What submit_result does with a result presented under the lease l.
Conclude(l, r) ==
  LET t    == l.task
      task == memory.tasks[t]
      next == Concluded(task, r)
  IN
  /\ mode # "down"
  /\ task.status # "absent"
  /\ UNCHANGED <<now, boot, started, issued>>
  /\ \/ /\ Finished(task)
        /\ Tell(t, task.status)
        /\ UNCHANGED <<mode, memory, stored>>
     \/ /\ ~Finished(task)
        /\ DeadlineExpired(task, now) \/ ~Current(task, l)
        /\ Persist(IF DeadlineExpired(task, now)
                   THEN WithTask(memory, t, FinishDeadline(task))
                   ELSE Expired(memory, now))
        /\ UNCHANGED reported
     \/ /\ ~DeadlineExpired(task, now)
        /\ Current(task, l)
        /\ \/ Saved(WithTask(memory, t, next)) /\ Tell(t, next.status)
           \/ NotSaved(WithTask(memory, t, next)) /\ UNCHANGED reported

SubmitResult(l, r) == l \in issued /\ Conclude(l, r)

\* execute_claimed_task presents the lease it reads from the task in memory;
\* an execution that takes longer is SubmitResult with the lease it read.
ExecuteClaimedTask(t, r) ==
  /\ memory.tasks[t].status = "running"
  /\ Conclude(Handed(memory, t), r)

-----------------------------------------------------------------------------
(* Expiry, cancellation, observation.                                      *)

\* Slip: saved only when a task lease expired.
ExpireLeasesSlip ==
  /\ mode # "down"
  /\ \E at \in Earlier :
       IF Expired(memory, at).tasks = memory.tasks
       THEN memory' = Expired(memory, at) /\ UNCHANGED <<mode, stored>>
       ELSE Persist(Expired(memory, at))
  /\ Silent

\* expire_leases called on its own: the clock is read before the lock.
ExpireLeases ==
  /\ mode # "down"
  /\ \E at \in Earlier : Persist(Expired(memory, at))
  /\ Silent

\* The causes cancel_task accepts.
CancelCause == {"cancelled", "deadline_exceeded", "worker_timeout"}

Cancel(t, cause) ==
  LET task   == memory.tasks[t]
      status == IF cause = "cancelled" THEN "cancelled" ELSE "failed"
      next   == Finish(task, status, cause,
                  IF task.status = "running"
                  THEN Ended(task, "coordinator_terminated_lease")
                  ELSE task.history)
  IN
  /\ mode # "down"
  /\ task.status # "absent"
  /\ UNCHANGED <<now, boot, started, issued>>
  /\ \/ /\ Finished(task)
        /\ Tell(t, task.status)
        /\ UNCHANGED <<mode, memory, stored>>
     \/ /\ ~Finished(task)
        /\ \/ Saved(WithTask(memory, t, next)) /\ Tell(t, status)
           \/ NotSaved(WithTask(memory, t, next)) /\ UNCHANGED reported

\* observe_task reads memory, whatever became of the last save.
ObserveTask(t) ==
  /\ mode # "down"
  /\ memory.tasks[t].status \in Terminal
  /\ Tell(t, memory.tasks[t].status)
  /\ UNCHANGED <<now, mode, boot, started, memory, stored, issued>>

-----------------------------------------------------------------------------
(* The process and its clock.                                              *)

Crash ==
  /\ mode # "down"
  /\ boot < MaxRestarts
  /\ mode' = "down"
  /\ memory' = EmptyMemory
  /\ UNCHANGED <<now, boot, started, stored, issued, reported>>

\* Slip: leases survive a restart.
RestoreTaskSlip(task) ==
  IF task.status = "queued" /\ DeadlineExpired(task, now)
  THEN FinishDeadline(task)
  ELSE task

\* _restore_snapshot on one task: a lease never outlives the process.
RestoreTask(task) ==
  LET history == IF task.status = "running"
                 THEN Ended(task, "coordinator_restart_lease_invalidated")
                 ELSE task.history
  IN
  CASE task.status \in {"running", "queued"} /\ DeadlineExpired(task, now) ->
         Finish(task, "failed", "deadline_exceeded", history)
    [] task.status = "running" /\ ~DeadlineExpired(task, now) ->
         IF AttemptsLeft(task)
         THEN Requeue(task, history)
         ELSE Finish(task, "failed", "attempts_exhausted", history)
    [] OTHER -> [task EXCEPT !.lease = NoLease]

RestoreWorker(worker) ==
  IF worker.lifecycle = "unregistered" THEN worker
  ELSE [worker EXCEPT !.lifecycle = "unhealthy", !.last_heartbeat_at = now]

Restored ==
  [workers |-> [w \in Worker |-> RestoreWorker(stored.workers[w])],
   tasks   |-> [t \in Task |-> RestoreTask(stored.tasks[t])]]

\* The constructor loads, restores and saves; when the save raises there is
\* no coordinator, and the restored snapshot may have been stored all the same.
Restart ==
  /\ mode = "down"
  /\ stored' = Restored
  /\ \/ /\ memory' = Restored
        /\ mode' = "up"
        /\ boot' = boot + 1
        /\ started' = now
     \/ /\ SaveMayFail
        /\ UNCHANGED <<memory, mode, boot, started>>
  /\ UNCHANGED <<now, issued, reported>>

Tick ==
  /\ now < MaxTime
  /\ now' = now + 1
  /\ UNCHANGED <<mode, boot, started, memory, stored, issued, reported>>

-----------------------------------------------------------------------------
Next ==
  \/ \E w \in Worker, r \in Registration : Register(w, r)
  \/ \E w \in Worker : Heartbeat(w)
  \/ \E w \in Worker : Drain(w)
  \/ \E w \in Worker : Stop(w)
  \/ \E t \in Task, k \in Key \cup {NoKey}, s \in Submission : Submit(t, k, s)
  \/ \E w \in Worker : Claim(w)
  \/ \E l \in issued : Renew(l)
  \/ \E l \in issued, r \in Result : SubmitResult(l, r)
  \/ \E t \in Task, r \in Result : ExecuteClaimedTask(t, r)
  \/ ExpireLeases
  \/ \E t \in Task, cause \in CancelCause : Cancel(t, cause)
  \/ \E t \in Task : ObserveTask(t)
  \/ Crash
  \/ Restart
  \/ Tick

Spec == Init /\ [][Next]_vars

\* The clock runs and every worker keeps polling: an agent's run_forever claims
\* again and again, whatever came of the previous claim.
Fairness == WF_vars(Tick) /\ \A w \in Worker : WF_vars(Claim(w))

FairSpec == Spec /\ Fairness

-----------------------------------------------------------------------------
(* Invariants.                                                             *)

\* The retry budget: a queued task has an attempt left, so claim_task, which
\* does not look at max_attempts, never starts one too many; and every attempt
\* has a lease generation of its own.
BudgetKept(task) ==
  task.status # "absent" =>
    /\ task.attempt = task.lease_generation
    /\ task.attempt <= task.submission.max_attempts
    /\ task.status = "queued" => AttemptsLeft(task)

RetryBudget == \A t \in Task : BudgetKept(memory.tasks[t])

\* attempt_history has one entry per attempt, in order, through expiry, retry,
\* cancellation and restart.  Only the attempt that is running, or that a
\* passed deadline ended (_finish_deadline records none), has no entry.
HistoryComplete(task) ==
  LET unrecorded == task.attempt - Len(task.history) IN
  /\ \A i \in DOMAIN task.history :
       task.history[i].generation = i /\ task.history[i].attempt = i
  /\ unrecorded \in {0, 1}
  /\ unrecorded = 1 =>
       task.status = "running" \/ task.result = "deadline_exceeded"
  /\ task.status = "running" => unrecorded = 1
  /\ task.status = "queued" => unrecorded = 0

AttemptsAccountedFor == \A t \in Task : HistoryComplete(memory.tasks[t])

\* A coordinator that is not fail-stopped has nothing in memory that a restart
\* would not find: every handler saves all that it changed, heartbeat expiry
\* included.
UpIsDurable == mode = "up" => stored = memory

\* The generation is a fencing token: no two leases of a task that ever left
\* the coordinator share one, across expiry, retry, restart and failed saves.
FencingTokensUnique ==
  \A a, b \in issued :
    a.task = b.task /\ a.generation = b.generation => a = b

\* A running task is leased to a worker that was told so, by this process: no
\* lease outlives the process that granted it, and none is granted to nobody.
RunningIsHeld ==
  mode = "up" =>
    \A t \in Task :
      memory.tasks[t].status = "running" =>
        /\ Handed(memory, t) \in issued
        /\ memory.tasks[t].lease.lease_id[1] = boot

\* Two tasks never share an idempotency key that a submitter chose.
UniqueKeys(m) ==
  \A t, u \in Task :
    m.tasks[t].idempotency_key \in Key
      /\ m.tasks[t].idempotency_key = m.tasks[u].idempotency_key
      => t = u

OneTaskPerKey == UniqueKeys(memory)

\* The inductive invariant behind these.  Memory and snapshot hold tasks whose
\* lease, attempt counters and history agree, and no lease ever left the
\* coordinator with a generation that the snapshot does not record.
LeaseAgrees(task) ==
  /\ task.status = "absent" => task = EmptyTask
  /\ task.status # "absent" => task.submission \in Submission
  /\ task.status = "running" <=> task.lease # NoLease
  /\ task.status = "running" =>
       /\ task.lease.generation = task.lease_generation
       /\ task.lease.attempt = task.attempt

GoodTask(task) == LeaseAgrees(task) /\ BudgetKept(task) /\ HistoryComplete(task)

GoodWorker(worker) ==
  worker.lifecycle # "unregistered" => worker.registration \in Registration

GoodMemory(m) ==
  /\ UniqueKeys(m)
  /\ \A t \in Task : GoodTask(m.tasks[t])
  /\ \A w \in Worker : GoodWorker(m.workers[w])

IssuedRecorded ==
  \A l \in issued : l.generation <= stored.tasks[l.task].lease_generation

IInv ==
  /\ TypeOK
  /\ GoodMemory(memory)
  /\ GoodMemory(stored)
  /\ UpIsDurable
  /\ IssuedRecorded
  /\ FencingTokensUnique
  /\ RunningIsHeld

\* What a caller was told of a finished task is what the coordinator still
\* says, and would say after a restart, unless a late renewal has turned the
\* task into a deadline failure.  It needs a store whose saves do not raise.
ReportedStands ==
  \A t \in Task : \A status \in reported[t] :
    \/ stored.tasks[t].status = status
    \/ stored.tasks[t].result = "deadline_exceeded"

-----------------------------------------------------------------------------
(* Action properties.                                                      *)

\* A worker's outcome becomes the task's result only while the lease it was
\* obtained under is current, unexpired and inside the deadline: never from a
\* fenced holder, a queued or an already finished task.
WorkerCommits(t) ==
  /\ memory'.tasks[t].status = "succeeded"
  /\ memory.tasks[t].status # "succeeded"
  /\ mode # "down"

OnlyHolderCommits ==
  [][\A t \in Task : WorkerCommits(t) =>
       /\ memory.tasks[t].status = "running"
       /\ now < memory.tasks[t].lease.expires_at
       /\ ~DeadlineExpired(memory.tasks[t], now)]_vars

\* A stored terminal task is never queued or leased again, and keeps its
\* result unless the deadline overwrites it; save failures and crashes included.
TerminalChangesOnlyByDeadline ==
  [][\A t \in Task :
       stored.tasks[t].status \in Terminal =>
         \/ stored'.tasks[t] = stored.tasks[t]
         \/ /\ stored'.tasks[t].result = "deadline_exceeded"
            /\ DeadlineExpired(stored.tasks[t], now)]_vars

\* Leases of a task leave the coordinator with increasing generations, so a
\* holder that compares generations can tell the newer lease.
GenerationsIncrease ==
  [][\A l \in issued' \ issued, k \in issued :
       k.task = l.task => k.generation < l.generation]_vars

\* claim_task leases the oldest task the worker can run: none that precedes
\* the leased one in (submitted_at, task_id) is left queued for that worker.
Claimed(t) == memory.tasks[t].status # "running"
                /\ memory'.tasks[t].status = "running"

OldestFirst ==
  [][\A t, u \in Task :
       Claimed(t) /\ u \in Candidates(memory', memory'.tasks[t].lease.worker)
         => ~Before(memory', u, t)]_vars

-----------------------------------------------------------------------------
(* Liveness.                                                               *)

\* A submitted task with a deadline comes to an end, whatever its holders do,
\* if from some time on a worker that could run it stays ready: nothing but a
\* claim looks at the deadline of a queued task or at a lost lease.
CanRun(w, t) ==
  /\ memory.workers[w].lifecycle = "ready"
  /\ memory.tasks[t].submission.requires
       \subseteq memory.workers[w].registration.capabilities

Open(t) ==
  /\ memory.tasks[t].status \in {"queued", "running"}
  /\ memory.tasks[t].submission.deadline # NoDeadline

DeadlineTasksEnd ==
  \A t \in Task :
    (\E w \in Worker : <>[](Open(t) => CanRun(w, t)))
      => (Open(t) ~> memory.tasks[t].status \in Terminal)

-----------------------------------------------------------------------------
(* What the code's text promises, and the model does not keep.             *)

\* "a committed terminal result is immutable" (class docstring).
CommittedResultImmutable ==
  [][\A t \in Task :
       mode = "up" /\ memory.tasks[t].status \in Terminal /\ mode' = "up" =>
         memory'.tasks[t] = memory.tasks[t]]_vars

\* "Persist state or fail-stop after an uncertain durability outcome": no
\* caller is told of an outcome that a restart then takes back.
ToldOutcomeIsDurable ==
  \A t \in Task : \A status \in reported[t] :
    mode = "up" => memory.tasks[t].status = status

=============================================================================
