----------------------------- MODULE FleetAgents ----------------------------
(***************************************************************************)
(* The worker agents of loom_ai/fleet_http.py (FleetWorkerAgent), each a   *)
(* process of its own, their requests, and the server that hands them to   *)
(* the coordinator.                                                        *)
(*                                                                         *)
(* A request that is answered is one step.  One that fails at its agent    *)
(* (FleetHTTPError: no connection, no answer in time) may never have       *)
(* arrived, may have been handled with only the answer lost, or may still  *)
(* be on its way: then it is handled, if ever, by a later step, unless the *)
(* coordinator's process ends before.                                      *)
(***************************************************************************)
EXTENDS FleetCoordinator

CONSTANTS
  Offer,   \* what each agent registers with
  MaxLate  \* bound on the failed requests that may still be handled

ASSUME AgentsAssumption ==
  /\ Offer \in [Worker -> Registration]
  /\ MaxLate \in Nat
  /\ NoLease \notin Issued
  /\ NoResult \notin Result

VARIABLES
  agents,
  late,     \* failed requests the coordinator may still handle
  begun,    \* executions agents began, per task
  produced  \* results the agents' Workers came to, with the lease they ran under

agentVars == <<agents, late, begun, produced>>

\* There is no agent process, or it is about to send a heartbeat, to claim,
\* executes its Worker, is about to report the result, or to drain.
AgentPhase == {"gone", "beating", "claiming", "executing", "reporting", "ending"}

\* lost is lease_lost; renewing tells that the renewal thread is alive.
Agent ==
  [pc : AgentPhase, lease : Issued \cup {NoLease}, lost : BOOLEAN,
   renewing : BOOLEAN, result : Result \cup {NoResult}]

Request ==
  [kind : {"register", "heartbeat", "claim", "renew", "result", "drain"},
   worker : Worker, lease : Issued \cup {NoLease},
   result : Result \cup {NoResult}]

Product == [lease : Issued, result : Result]

AgentsTypeOK ==
  /\ agents \in [Worker -> Agent]
  /\ late \subseteq Request
  /\ begun \in [Task -> Nat]
  /\ produced \subseteq Product
  /\ \A w \in Worker :
       /\ agents[w].pc \in {"executing", "reporting"} => agents[w].lease # NoLease
       /\ agents[w].pc = "reporting" => agents[w].result # NoResult

\* The agent has no task in its hands.
Idle(pc) ==
  [pc |-> pc, lease |-> NoLease, lost |-> FALSE, renewing |-> FALSE,
   result |-> NoResult]

AgentsInit ==
  /\ agents = [w \in Worker |-> Idle("gone")]
  /\ late = {}
  /\ begun = [t \in Task |-> 0]
  /\ produced = {}

-----------------------------------------------------------------------------
(* Requests.                                                               *)

Asks(kind, w) ==
  [kind |-> kind, worker |-> w, lease |-> NoLease, result |-> NoResult]

AsksFor(kind, w) == [Asks(kind, w) EXCEPT !.lease = agents[w].lease]

Reports(w) == [AsksFor("result", w) EXCEPT !.result = agents[w].result]

\* The server's handler: what the coordinator does on a request.
Handles(request) ==
  LET w == request.worker IN
  CASE request.kind = "register"  -> Register(w, Offer[w])
    [] request.kind = "heartbeat" -> Heartbeat(w)
    [] request.kind = "claim"     -> Claim(w)
    [] request.kind = "renew"     -> Renew(request.lease)
    [] request.kind = "result"    -> SubmitResult(request.lease, request.result)
    [] request.kind = "drain"     -> Drain(w)

\* The handler's save was successful; after any other it raises, and the
\* server breaks the connection or answers with an error.
Acknowledged == mode = "up" /\ mode' = "up"

\* A request whose answer never comes may be handled later.
Strays(request) ==
  \/ UNCHANGED late
  \/ /\ mode # "down"
     /\ Cardinality(late) < MaxLate
     /\ late' = late \cup {request}

\* A stray request is handled, or comes to nothing; its agent is past it.
StrayHandled(request) ==
  /\ late' = late \ {request}
  /\ Handles(request) \/ UNCHANGED vars
  /\ UNCHANGED <<agents, begun, produced>>

Goes(w, pc) == agents' = [agents EXCEPT ![w] = Idle(pc)]

\* The agent gets no answer to a request, or one that is an error without
\* anything having been changed.
Fails(w, request) ==
  /\ Strays(request)
  /\ Goes(w, IF request.kind \in {"register", "drain"} THEN "gone" ELSE "ending")
  /\ UNCHANGED vars
  /\ UNCHANGED <<begun, produced>>

-----------------------------------------------------------------------------
(* run_forever and run_once.                                               *)

\* A process starts, also one after another with the same worker_id; that it
\* does not get any further is no step.
AgentRegisters(w) ==
  /\ agents[w].pc = "gone"
  /\ \/ /\ Register(w, Offer[w])
        /\ Goes(w, IF Acknowledged THEN "beating" ELSE "gone")
        /\ UNCHANGED <<late, begun, produced>>
     \/ Fails(w, Asks("register", w))

\* The heartbeat of a worker that is unhealthy or stopped is refused, and the
\* agent ends: after a restart of the coordinator they all do.
AgentBeats(w) ==
  /\ agents[w].pc = "beating"
  /\ \/ /\ Heartbeat(w)
        /\ Goes(w, IF Acknowledged THEN "claiming" ELSE "ending")
        /\ UNCHANGED <<late, begun, produced>>
     \/ Fails(w, Asks("heartbeat", w))

Executing(l) ==
  [pc |-> "executing", lease |-> l, lost |-> FALSE, renewing |-> TRUE,
   result |-> NoResult]

\* With a task the execution begins; without one the agent polls again.
AgentClaims(w) ==
  /\ agents[w].pc = "claiming"
  /\ \/ /\ Claim(w)
        /\ \/ /\ issued' = issued
              /\ Goes(w, IF Acknowledged /\ memory.workers[w].lifecycle # "unregistered"
                         THEN "beating" ELSE "ending")
              /\ UNCHANGED begun
           \/ \E l \in issued' \ issued :
                /\ agents' = [agents EXCEPT ![w] = Executing(l)]
                /\ begun' = [begun EXCEPT ![l.task] = @ + 1]
        /\ UNCHANGED <<late, produced>>
     \/ Fails(w, Asks("claim", w))

\* renew_lease would return the lease.
Renewable(l) ==
  LET task   == memory.tasks[l.task]
      worker == memory.workers[l.worker]
  IN
  /\ task.status # "absent" /\ ~DeadlineExpired(task, now)
  /\ Current(task, l)
  /\ worker.lifecycle = "ready" /\ ~HeartbeatExpired(worker, now)

Loses(w) == agents' = [agents EXCEPT ![w].lost = TRUE, ![w].renewing = FALSE]

\* The renewal thread.  The first renewal that fails is its last, and sets
\* lease_lost, unless it failed in a way that is no FleetHTTPError (an answer
\* that breaks off).
AgentRenews(w) ==
  /\ agents[w].pc = "executing" /\ agents[w].renewing
  /\ \/ /\ Renew(agents[w].lease)
        /\ IF Renewable(agents[w].lease) /\ Acknowledged
           THEN UNCHANGED agents ELSE Loses(w)
        /\ UNCHANGED late
     \/ /\ Strays(AsksFor("renew", w))
        /\ Loses(w) \/ agents' = [agents EXCEPT ![w].renewing = FALSE]
        /\ UNCHANGED vars
  /\ UNCHANGED <<begun, produced>>

\* The result is dropped when a renewal has failed.
Concludes(w, r) ==
  IF agents[w].lost THEN Idle("beating")
  ELSE [agents[w] EXCEPT !.pc = "reporting", !.renewing = FALSE, !.result = r]

\* The Worker returns, or raises, which is a failure that may be retried.  A
\* renewal that is still under way then is waited for, but not for as long as
\* a request may take.
AgentExecutes(w, r) ==
  /\ agents[w].pc = "executing"
  /\ agents' = [agents EXCEPT ![w] = Concludes(w, r)]
  /\ produced' = produced \cup {[lease |-> agents[w].lease, result |-> r]}
  /\ IF agents[w].renewing THEN Strays(AsksFor("renew", w)) ELSE UNCHANGED late
  /\ UNCHANGED vars
  /\ UNCHANGED begun

\* submit_result would return the task.
Accepted(l) ==
  LET task == memory.tasks[l.task] IN
  \/ Finished(task)
  \/ ~DeadlineExpired(task, now) /\ Current(task, l) /\ Acknowledged

\* A result that is refused because the lease is stale ends the agent, as does
\* one without a JSON form.
AgentReports(w) ==
  /\ agents[w].pc = "reporting"
  /\ \/ /\ SubmitResult(agents[w].lease, agents[w].result)
        /\ Goes(w, IF Accepted(agents[w].lease) THEN "beating" ELSE "ending")
        /\ UNCHANGED <<late, begun, produced>>
     \/ Fails(w, Reports(w))

\* The process is interrupted while the Worker executes.
AgentInterrupted(w) ==
  /\ agents[w].pc = "executing"
  /\ Goes(w, "ending")
  /\ UNCHANGED vars
  /\ UNCHANGED <<late, begun, produced>>

\* The end of run_forever; it may fail, and a killed process never gets here.
AgentDrains(w) ==
  /\ agents[w].pc = "ending"
  /\ \/ /\ Drain(w)
        /\ Goes(w, "gone")
        /\ UNCHANGED <<late, begun, produced>>
     \/ Fails(w, Asks("drain", w))

AgentStep(w) ==
  \/ AgentRegisters(w)
  \/ AgentBeats(w)
  \/ AgentClaims(w)
  \/ AgentRenews(w)
  \/ \E r \in Result : AgentExecutes(w, r)
  \/ AgentReports(w)
  \/ AgentInterrupted(w)
  \/ AgentDrains(w)
=============================================================================
