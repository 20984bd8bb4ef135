------------------------ MODULE FleetDispatchProofs ------------------------
(***************************************************************************)
(* Proofs about FleetDispatch, for every set of agents and tasks: the      *)
(* composition implements FleetCoordinator, so that all that is proved of  *)
(* the coordinator holds in it, and what it promises beyond that.          *)
(***************************************************************************)
EXTENDS FleetDispatch, FleetCoordinatorProofs

-----------------------------------------------------------------------------
(* The invariant of the agents.                                            *)

\* A request presents a lease that was handed out, and a result that a Worker
\* came to under it.
Genuine(request) ==
  /\ request.lease # NoLease => request.lease \in issued
  /\ request.kind \in {"renew", "result"} => request.lease # NoLease
  /\ request.kind = "result" =>
       /\ request.result \in Result
       /\ [lease |-> request.lease, result |-> request.result] \in produced

\* So does an agent, and it holds a lease when it executes or reports.
Honest(w) ==
  /\ agents[w].lease # NoLease => agents[w].lease \in issued
  /\ agents[w].pc \in {"executing", "reporting"} => agents[w].lease # NoLease
  /\ agents[w].pc = "reporting" =>
       /\ agents[w].result \in Result
       /\ [lease |-> agents[w].lease, result |-> agents[w].result] \in produced

\* Every execution of a task that began had a generation of its own.
BegunRecorded == \A t \in Task : begun[t] <= stored.tasks[t].lease_generation

AInv ==
  /\ IInv
  /\ AgentsTypeOK
  /\ \A request \in late : Genuine(request)
  /\ \A w \in Worker : Honest(w)
  /\ BegunRecorded

-----------------------------------------------------------------------------
(* The composition implements the coordinator.                             *)

LEMMA OfferedRegistration == \A w \in Worker : Offer[w] \in Registration
BY AgentsAssumption

LEMMA HandlesNext ==
  ASSUME NEW request \in Request, Genuine(request), Handles(request)
  PROVE  CreatesNoTask
<1>1. request.worker \in Worker /\ Offer[request.worker] \in Registration
  BY OfferedRegistration DEF Request
<1>2. request.kind \in {"register", "heartbeat", "claim", "renew", "result", "drain"}
  BY DEF Request
<1> QED BY <1>1, <1>2 DEF Handles, Genuine, CreatesNoTask

LEMMA CreatesNoTaskNext == CreatesNoTask => [Next]_vars
BY DEF CreatesNoTask, Next

LEMMA AgentStepNext ==
  ASSUME AInv, NEW w \in Worker, AgentStep(w)
  PROVE  CreatesNoTask /\ [Next]_vars
<1> SUFFICES CreatesNoTask
  BY CreatesNoTaskNext
<1>1. Honest(w) /\ Offer[w] \in Registration
  BY OfferedRegistration DEF AInv
<1>2. CASE AgentRegisters(w)
  BY <1>1, <1>2 DEF AgentRegisters, Fails, CreatesNoTask
<1>3. CASE AgentBeats(w)
  BY <1>3 DEF AgentBeats, Fails, CreatesNoTask
<1>4. CASE AgentClaims(w)
  BY <1>4 DEF AgentClaims, Fails, CreatesNoTask
<1>5. CASE AgentRenews(w)
  BY <1>1, <1>5 DEF AgentRenews, Honest, CreatesNoTask
<1>6. CASE \E r \in Result : AgentExecutes(w, r)
  BY <1>6 DEF AgentExecutes, CreatesNoTask
<1>7. CASE AgentReports(w)
  BY <1>1, <1>7 DEF AgentReports, Honest, Fails, CreatesNoTask
<1>8. CASE AgentInterrupted(w)
  BY <1>8 DEF AgentInterrupted, CreatesNoTask
<1>9. CASE AgentDrains(w)
  BY <1>9 DEF AgentDrains, Fails, CreatesNoTask
<1> QED BY <1>2, <1>3, <1>4, <1>5, <1>6, <1>7, <1>8, <1>9 DEF AgentStep

\* Only dispatchers create tasks.
LEMMA OtherSteps ==
  ASSUME AInv, [DispatchNext]_allVars,
         ~\E t \in Task, s \in Submission : Dispatch(t, s)
  PROVE  CreatesNoTask
<1>1. CASE \E t \in Task : CancelExecution(t)
  BY <1>1 DEF CancelExecution, CreatesNoTask
<1>2. CASE \E t \in Task : Waits(t)
  BY <1>2 DEF Waits, Returns, GiveUp, CreatesNoTask
<1>3. CASE \E w \in Worker : AgentStep(w)
  BY <1>3, AgentStepNext
<1>4. CASE \E request \in late : StrayHandled(request)
  <2>1. late \subseteq Request
    BY DEF AInv, AgentsTypeOK
  <2>2. UNCHANGED vars => CreatesNoTask
    BY DEF CreatesNoTask
  <2> QED BY <1>4, <2>1, <2>2, HandlesNext DEF StrayHandled, AInv
<1>5. CASE ProcessEnds \/ Others
  BY <1>5 DEF ProcessEnds, Others, CreatesNoTask
<1>6. CASE UNCHANGED allVars
  BY <1>6 DEF allVars, CreatesNoTask
<1> QED BY <1>1, <1>2, <1>3, <1>4, <1>5, <1>6 DEF DispatchNext

LEMMA DispatchNextNext ==
  ASSUME AInv, [DispatchNext]_allVars
  PROVE  [Next]_vars
<1>1. CASE \E t \in Task, s \in Submission : Dispatch(t, s)
  BY <1>1 DEF Dispatch, Next
<1> QED BY <1>1, OtherSteps, CreatesNoTaskNext

-----------------------------------------------------------------------------
(* What a step of the coordinator does to leases and generations.          *)

LEMMA NewGeneration ==
  ASSUME IInv, [Next]_vars, NEW l \in issued' \ issued
  PROVE  /\ LeaseStep
         /\ l.task \in Task
         /\ stored'.tasks[l.task].lease_generation
              = stored.tasks[l.task].lease_generation + 1
<1>1. LeaseStep
  BY NextSteps DEF QuietStep, ClaimRaised, Crash, Restart, Tick, vars
<1>2. PICK v \in Worker, t \in Task, passed \in Memory :
        /\ GoodStep(memory, passed)
        /\ passed.tasks[t].status = "queued"
        /\ passed.workers[v].registration \in Registration
        /\ Saved(Leased(passed, t, v))
        /\ issued' = issued \cup {Handed(Leased(passed, t, v), t)}
  BY <1>1 DEF LeaseStep, Leases
<1>3. mode = "up" /\ stored' = Leased(passed, t, v)
  BY <1>2 DEF Saved
<1> DEFINE n == Leased(passed, t, v)
<1>4. n.tasks[t].lease_generation = stored.tasks[t].lease_generation + 1
  BY <1>2, <1>3, LeasedGeneration
<1>5. l.task = t
  BY <1>2 DEF Handed
<1> HIDE DEF n
<1> QED BY <1>1, <1>3, <1>4, <1>5 DEF n

\* The stored generation never falls back.
LEMMA GenerationGrows ==
  ASSUME IInv, [Next]_vars, NEW t \in Task
  PROVE  /\ stored.tasks[t].lease_generation \in Nat
         /\ stored'.tasks[t].lease_generation \in Nat
         /\ stored.tasks[t].lease_generation <= stored'.tasks[t].lease_generation
<1>1. /\ stored.tasks[t].lease_generation \in Nat
      /\ stored'.tasks[t].lease_generation \in Nat
  BY NextInv DEF IInv, TypeOK, Memory, TaskRecord
<1>2. ASSUME mode = "up", GoodStep(memory, stored')
      PROVE  stored'.tasks[t].lease_generation = stored.tasks[t].lease_generation
  BY <1>2 DEF GoodStep, GoodNext, TaskKept, IInv, UpIsDurable
<1>3. ASSUME mode = "up", NEW w \in Worker, NEW u \in Task, NEW passed \in Memory,
             GoodStep(memory, passed), passed.tasks[u].status = "queued",
             passed.workers[w].registration \in Registration,
             stored' = Leased(passed, u, w)
      PROVE  stored'.tasks[t].lease_generation \in
               {stored.tasks[t].lease_generation,
                stored.tasks[t].lease_generation + 1}
  BY <1>3, LeasedGeneration
<1>4. CASE QuietStep
  BY <1>1, <1>2, <1>4 DEF QuietStep
<1>5. CASE ClaimRaised
  BY <1>1, <1>2, <1>3, <1>5 DEF ClaimRaised
<1>6. CASE LeaseStep
  BY <1>1, <1>3, <1>6 DEF LeaseStep, Leases, Saved
<1>7. CASE Restart
  <2>1. stored' = Restored /\ GoodStep(stored, Restored)
    BY <1>7, RestoredGood DEF Restart
  <2> QED BY <1>1, <2>1 DEF GoodStep, GoodNext, TaskKept
<1>8. CASE Crash \/ Tick \/ UNCHANGED vars
  BY <1>1, <1>8 DEF Crash, Tick, vars
<1> QED BY <1>1, <1>4, <1>5, <1>6, <1>7, <1>8, NextSteps

LEMMA IssuedGrows ==
  ASSUME IInv, [Next]_vars
  PROVE  issued \subseteq issued'
BY NextSteps DEF QuietStep, ClaimRaised, LeaseStep, Leases, Crash, Restart, Tick, vars

-----------------------------------------------------------------------------
(* The agents' invariant.                                                  *)

LEMMA BegunStays ==
  ASSUME AInv, [Next]_vars, begun' = begun
  PROVE  BegunRecorded'
<1>1. \A t \in Task : begun[t] \in Nat /\ begun[t] <= stored.tasks[t].lease_generation
  BY DEF AInv, AgentsTypeOK, BegunRecorded
<1> QED BY <1>1, GenerationGrows DEF AInv, BegunRecorded

\* Requests and agents stay genuine while leases and results are only added.
LEMMA StaysGenuine ==
  ASSUME NEW request, Genuine(request), issued \subseteq issued',
         produced \subseteq produced'
  PROVE  Genuine(request)'
BY DEF Genuine

LEMMA StraysInv ==
  ASSUME AInv, NEW request \in Request, Genuine(request), Strays(request),
         issued \subseteq issued', produced \subseteq produced'
  PROVE  late' \subseteq Request /\ \A q \in late' : Genuine(q)'
<1>1. late \subseteq Request /\ \A q \in late' : q \in late \/ q = request
  BY DEF AInv, AgentsTypeOK, Strays
<1>2. \A q \in late' : Genuine(q)
  BY <1>1 DEF AInv
<1>3. \A q \in late' : Genuine(q)'
  BY <1>2, StaysGenuine
<1> QED BY <1>1, <1>3

\* An agent that holds nothing.
LEMMA IdleHonest ==
  ASSUME NEW pc \in AgentPhase \ {"executing", "reporting"}
  PROVE  /\ Idle(pc) \in Agent
         /\ Idle(pc).pc = pc
         /\ Idle(pc).lease = NoLease
BY DEF Idle, Agent

\* A step in which one agent goes on and nothing begins.
LEMMA AgentMoves ==
  ASSUME AInv, [Next]_vars, NEW w \in Worker, NEW agent \in Agent,
         agents' = [agents EXCEPT ![w] = agent],
         agent.lease # NoLease => agent.lease \in issued',
         agent.pc \in {"executing", "reporting"} => agent.lease # NoLease,
         agent.pc = "reporting" =>
           /\ agent.result \in Result
           /\ [lease |-> agent.lease, result |-> agent.result] \in produced',
         produced \subseteq produced', produced' \subseteq Product,
         late' \subseteq Request, \A q \in late' : Genuine(q)',
         begun' \in [Task -> Nat], BegunRecorded'
  PROVE  AInv'
<1>1. IInv' /\ issued \subseteq issued'
  BY NextInv, IssuedGrows DEF AInv
<1>2. agents' \in [Worker -> Agent]
  BY DEF AInv, AgentsTypeOK
<1>3. \A v \in Worker : agents'[v] = IF v = w THEN agent ELSE agents[v]
  BY DEF AInv, AgentsTypeOK
<1>4. \A v \in Worker : Honest(v)'
  BY <1>1, <1>3 DEF AInv, Honest
<1>5. AgentsTypeOK'
  <2>1. \A v \in Worker : agents'[v].pc = "reporting" => agents'[v].result # NoResult
    BY <1>4, AgentsAssumption DEF Honest
  <2> QED BY <1>2, <1>4, <2>1 DEF AgentsTypeOK, Honest
<1> QED BY <1>1, <1>4, <1>5 DEF AInv

\* The same when the agent lets go of what it holds.
LEMMA AgentGoes ==
  ASSUME AInv, [Next]_vars, NEW w \in Worker,
         NEW pc \in AgentPhase \ {"executing", "reporting"}, Goes(w, pc),
         UNCHANGED <<begun, produced>>,
         late' \subseteq Request, \A q \in late' : Genuine(q)'
  PROVE  AInv'
<1>1. /\ Idle(pc) \in Agent
      /\ Idle(pc).pc \notin {"executing", "reporting"}
      /\ Idle(pc).lease = NoLease
  BY IdleHonest
<1>2. begun' \in [Task -> Nat] /\ BegunRecorded' /\ produced' \subseteq Product
  BY BegunStays DEF AInv, AgentsTypeOK
<1> QED BY <1>1, <1>2, AgentMoves DEF Goes

LEMMA LateStays ==
  ASSUME AInv, [Next]_vars, produced \subseteq produced', late' \subseteq late
  PROVE  late' \subseteq Request /\ \A q \in late' : Genuine(q)'
<1>1. issued \subseteq issued'
  BY IssuedGrows DEF AInv
<1> QED BY <1>1, StaysGenuine DEF AInv, AgentsTypeOK

\* The requests an agent makes are genuine.
LEMMA AsksGenuine ==
  ASSUME NEW w \in Worker, NEW kind \in {"register", "heartbeat", "claim", "drain"}
  PROVE  Asks(kind, w) \in Request /\ Genuine(Asks(kind, w))
BY DEF Asks, Request, Genuine

LEMMA AsksForGenuine ==
  ASSUME AInv, NEW w \in Worker, agents[w].pc = "executing"
  PROVE  AsksFor("renew", w) \in Request /\ Genuine(AsksFor("renew", w))
<1> DEFINE request == AsksFor("renew", w)
<1>1. agents[w].lease \in issued /\ agents[w].lease # NoLease
  BY DEF AInv, Honest
<1>2. agents[w].lease \in Issued
  BY <1>1 DEF AInv, IInv, TypeOK
<1>3. request = [kind |-> "renew", worker |-> w, lease |-> agents[w].lease,
                 result |-> NoResult]
  BY DEF AsksFor, Asks
<1> QED BY <1>1, <1>2, <1>3 DEF Request, Genuine

LEMMA ReportsGenuine ==
  ASSUME AInv, NEW w \in Worker, agents[w].pc = "reporting"
  PROVE  Reports(w) \in Request /\ Genuine(Reports(w))
<1> DEFINE request == Reports(w)
<1>1. /\ agents[w].lease \in issued /\ agents[w].lease # NoLease
      /\ agents[w].result \in Result
      /\ [lease |-> agents[w].lease, result |-> agents[w].result] \in produced
  BY DEF AInv, Honest
<1>2. agents[w].lease \in Issued
  BY <1>1 DEF AInv, IInv, TypeOK
<1>3. request = [kind |-> "result", worker |-> w, lease |-> agents[w].lease,
                 result |-> agents[w].result]
  <2>1. AsksFor("result", w) = [kind |-> "result", worker |-> w,
                                lease |-> agents[w].lease, result |-> NoResult]
    BY DEF AsksFor, Asks
  <2> QED BY <2>1 DEF Reports
<1> HIDE DEF request
<1>4. request \in Request
  BY <1>1, <1>2, <1>3 DEF Request
<1>5. /\ request.kind = "result" /\ request.lease = agents[w].lease
      /\ request.result = agents[w].result
  BY <1>3
<1>6. Genuine(request)
  BY <1>1, <1>5 DEF Genuine
<1> QED BY <1>4, <1>6 DEF request

\* A request that fails.
LEMMA FailsInv ==
  ASSUME AInv, NEW w \in Worker, NEW request \in Request, Genuine(request),
         Fails(w, request)
  PROVE  AInv'
<1>1. [Next]_vars /\ issued \subseteq issued' /\ produced \subseteq produced'
  BY DEF Fails, vars
<1>2. late' \subseteq Request /\ \A q \in late' : Genuine(q)'
  BY <1>1, StraysInv DEF Fails
<1> QED BY <1>1, <1>2, AgentGoes DEF Fails, AgentPhase

-----------------------------------------------------------------------------
(* One lemma for each step of an agent.                                    *)

LEMMA AgentRegistersInv ==
  ASSUME AInv, NEW w \in Worker, AgentRegisters(w)
  PROVE  AInv'
<1>1. CASE Fails(w, Asks("register", w))
  BY <1>1, AsksGenuine, FailsInv
<1>2. CASE /\ Register(w, Offer[w])
           /\ Goes(w, IF Acknowledged THEN "beating" ELSE "gone")
           /\ UNCHANGED <<late, begun, produced>>
  <2>1. [Next]_vars
    BY <1>2, OfferedRegistration DEF Next
  <2> QED BY <1>2, <2>1, AgentGoes, LateStays DEF AgentPhase
<1> QED BY <1>1, <1>2 DEF AgentRegisters

LEMMA AgentBeatsInv ==
  ASSUME AInv, NEW w \in Worker, AgentBeats(w)
  PROVE  AInv'
<1>1. CASE Fails(w, Asks("heartbeat", w))
  BY <1>1, AsksGenuine, FailsInv
<1>2. CASE /\ Heartbeat(w)
           /\ Goes(w, IF Acknowledged THEN "claiming" ELSE "ending")
           /\ UNCHANGED <<late, begun, produced>>
  <2>1. [Next]_vars
    BY <1>2 DEF Next
  <2> QED BY <1>2, <2>1, AgentGoes, LateStays DEF AgentPhase
<1> QED BY <1>1, <1>2 DEF AgentBeats

\* The execution that begins has a generation of its own, which is stored.
LEMMA AgentClaimsInv ==
  ASSUME AInv, NEW w \in Worker, AgentClaims(w)
  PROVE  AInv'
<1>1. CASE Fails(w, Asks("claim", w))
  BY <1>1, AsksGenuine, FailsInv
<1>2. ASSUME Claim(w), UNCHANGED <<late, produced, begun>>,
             \E pc \in {"beating", "ending"} : Goes(w, pc)
      PROVE  AInv'
  <2>1. [Next]_vars
    BY <1>2 DEF Next
  <2> QED BY <1>2, <2>1, AgentGoes, LateStays DEF AgentPhase
<1>3. ASSUME Claim(w), UNCHANGED <<late, produced>>, NEW l \in issued' \ issued,
             agents' = [agents EXCEPT ![w] = Executing(l)],
             begun' = [begun EXCEPT ![l.task] = @ + 1]
      PROVE  AInv'
  <2>1. [Next]_vars /\ IInv
    BY <1>3 DEF Next, AInv
  <2>2. /\ l.task \in Task
        /\ stored'.tasks[l.task].lease_generation
             = stored.tasks[l.task].lease_generation + 1
    BY <1>3, <2>1, NewGeneration
  <2>3. /\ begun \in [Task -> Nat]
        /\ begun' \in [Task -> Nat]
        /\ \A t \in Task : begun'[t] = IF t = l.task THEN begun[t] + 1 ELSE begun[t]
    BY <1>3, <2>2 DEF AInv, AgentsTypeOK
  <2>4. BegunRecorded'
    <3> SUFFICES ASSUME NEW t \in Task
                 PROVE  begun'[t] <= stored'.tasks[t].lease_generation
      BY DEF BegunRecorded
    <3>1. /\ begun[t] \in Nat /\ begun[t] <= stored.tasks[t].lease_generation
          /\ stored.tasks[t].lease_generation \in Nat
          /\ stored'.tasks[t].lease_generation \in Nat
          /\ stored.tasks[t].lease_generation <= stored'.tasks[t].lease_generation
      BY <2>1, <2>3, GenerationGrows DEF AInv, BegunRecorded
    <3> QED BY <2>2, <2>3, <3>1
  <2>5. l \in Issued /\ l # NoLease
    BY <1>3, <2>1, NextInv, AgentsAssumption DEF IInv, TypeOK
  <2>6. /\ Executing(l) \in Agent /\ Executing(l).pc = "executing"
        /\ Executing(l).lease = l
    BY <2>5 DEF Executing, Agent, AgentPhase
  <2>7. late' \subseteq Request /\ \A q \in late' : Genuine(q)'
    BY <1>3, <2>1, LateStays
  <2>8. produced \subseteq produced' /\ produced' \subseteq Product
    BY <1>3 DEF AInv, AgentsTypeOK
  <2> QED BY <1>3, <2>1, <2>3, <2>4, <2>5, <2>6, <2>7, <2>8, AgentMoves
<1> QED BY <1>1, <1>2, <1>3 DEF AgentClaims

LEMMA AgentRenewsInv ==
  ASSUME AInv, NEW w \in Worker, AgentRenews(w)
  PROVE  AInv'
<1> DEFINE request == AsksFor("renew", w)
<1>1. [Next]_vars
  BY AgentStepNext DEF AgentStep
<1>2. request \in Request /\ Genuine(request) /\ agents[w].pc = "executing"
  BY AsksForGenuine DEF AgentRenews
<1>3. UNCHANGED <<begun, produced>>
  BY DEF AgentRenews
<1>4. issued \subseteq issued'
  BY <1>1, IssuedGrows DEF AInv
<1>5. late' \subseteq Request /\ \A q \in late' : Genuine(q)'
  BY <1>1, <1>2, <1>3, <1>4, StraysInv, LateStays DEF AgentRenews
<1>6. \E lost, renewing \in BOOLEAN :
        agents' = [agents EXCEPT ![w] = [agents[w] EXCEPT !.lost = lost,
                                                          !.renewing = renewing]]
  <2>1. agents \in [Worker -> Agent]
    BY DEF AInv, AgentsTypeOK
  <2>2. agents[w].lost \in BOOLEAN /\ agents[w].renewing \in BOOLEAN
    BY <2>1 DEF Agent
  <2>3. agents[w] = [agents[w] EXCEPT !.lost = agents[w].lost,
                                      !.renewing = agents[w].renewing]
    BY <2>1 DEF Agent
  <2>4. UNCHANGED agents =>
          agents' = [agents EXCEPT ![w] = [agents[w] EXCEPT
                       !.lost = agents[w].lost, !.renewing = agents[w].renewing]]
    BY <2>1, <2>3
  <2>5. Loses(w) => agents' = [agents EXCEPT ![w] = [agents[w] EXCEPT
                                 !.lost = TRUE, !.renewing = FALSE]]
    BY <2>1 DEF Loses
  <2>6. agents' = [agents EXCEPT ![w].renewing = FALSE] =>
          agents' = [agents EXCEPT ![w] = [agents[w] EXCEPT
                       !.lost = agents[w].lost, !.renewing = FALSE]]
    BY <2>1 DEF Agent
  <2>7. UNCHANGED agents \/ Loses(w) \/ agents' = [agents EXCEPT ![w].renewing = FALSE]
    BY DEF AgentRenews
  <2> QED BY <2>2, <2>4, <2>5, <2>6, <2>7
<1>7. PICK lost \in BOOLEAN, renewing \in BOOLEAN :
        agents' = [agents EXCEPT ![w] = [agents[w] EXCEPT !.lost = lost,
                                                          !.renewing = renewing]]
  BY <1>6
<1> DEFINE agent == [agents[w] EXCEPT !.lost = lost, !.renewing = renewing]
<1>8. agent \in Agent /\ agent.lease = agents[w].lease /\ agent.pc = "executing"
  BY <1>2 DEF AInv, AgentsTypeOK, Agent
<1>9. begun' \in [Task -> Nat] /\ BegunRecorded' /\ produced' \subseteq Product
  BY <1>1, <1>3, BegunStays DEF AInv, AgentsTypeOK
<1>10. agents[w].lease \in issued' /\ agents[w].lease # NoLease
  BY <1>2, <1>4 DEF AInv, Honest
<1> HIDE DEF agent
<1>11. agents' = [agents EXCEPT ![w] = agent]
  BY <1>7 DEF agent
<1> QED BY <1>1, <1>3, <1>5, <1>8, <1>9, <1>10, <1>11, AgentMoves

\* What a Worker came to is kept with the lease it ran under.
LEMMA AgentExecutesInv ==
  ASSUME AInv, NEW w \in Worker, NEW r \in Result, AgentExecutes(w, r)
  PROVE  AInv'
<1> DEFINE request == AsksFor("renew", w)
           new     == [lease |-> agents[w].lease, result |-> r]
           agent   == Concludes(w, r)
<1>1. [Next]_vars /\ issued' = issued
  BY DEF AgentExecutes, vars
<1>2. request \in Request /\ Genuine(request) /\ agents[w].pc = "executing"
  BY AsksForGenuine DEF AgentExecutes
<1>3. /\ agents[w].lease \in issued /\ agents[w].lease # NoLease
      /\ agents[w].lease \in Issued
      /\ agents[w] \in Agent
  BY <1>2 DEF AInv, Honest, AgentsTypeOK, IInv, TypeOK
<1>4. produced' = produced \cup {new} /\ produced' \subseteq Product
  BY <1>3 DEF AgentExecutes, Product, AInv, AgentsTypeOK
<1>5. late' \subseteq Request /\ \A q \in late' : Genuine(q)'
  BY <1>1, <1>2, <1>4, StraysInv, LateStays DEF AgentExecutes
<1>6. begun' \in [Task -> Nat] /\ BegunRecorded'
  BY <1>1, BegunStays DEF AgentExecutes, AInv, AgentsTypeOK
<1>7. /\ agent \in Agent
      /\ \/ agent.pc = "beating" /\ agent.lease = NoLease
         \/ /\ agent.pc = "reporting"
            /\ agent.lease = agents[w].lease
            /\ agent.result = r
  <2>1. CASE agents[w].lost
    BY <2>1, IdleHonest DEF Concludes, AgentPhase
  <2>2. CASE ~agents[w].lost
    BY <1>3, <2>2 DEF Concludes, Agent, AgentPhase
  <2> QED BY <2>1, <2>2
<1>8. agents' = [agents EXCEPT ![w] = agent]
  BY DEF AgentExecutes
<1> HIDE DEF agent
<1> QED BY <1>1, <1>3, <1>4, <1>5, <1>6, <1>7, <1>8, AgentMoves

LEMMA AgentReportsInv ==
  ASSUME AInv, NEW w \in Worker, AgentReports(w)
  PROVE  AInv'
<1>1. agents[w].pc = "reporting"
  BY DEF AgentReports
<1>2. CASE Fails(w, Reports(w))
  BY <1>1, <1>2, ReportsGenuine, FailsInv
<1>3. CASE /\ SubmitResult(agents[w].lease, agents[w].result)
           /\ Goes(w, IF Accepted(agents[w].lease) THEN "beating" ELSE "ending")
           /\ UNCHANGED <<late, begun, produced>>
  <2>1. [Next]_vars
    BY AgentStepNext DEF AgentStep
  <2> QED BY <1>3, <2>1, AgentGoes, LateStays DEF AgentPhase
<1> QED BY <1>2, <1>3 DEF AgentReports

LEMMA AgentInterruptedInv ==
  ASSUME AInv, NEW w \in Worker, AgentInterrupted(w)
  PROVE  AInv'
<1>1. [Next]_vars
  BY DEF AgentInterrupted
<1> QED BY <1>1, AgentGoes, LateStays DEF AgentInterrupted, AgentPhase

LEMMA AgentDrainsInv ==
  ASSUME AInv, NEW w \in Worker, AgentDrains(w)
  PROVE  AInv'
<1>1. CASE Fails(w, Asks("drain", w))
  BY <1>1, AsksGenuine, FailsInv
<1>2. CASE Drain(w) /\ Goes(w, "gone") /\ UNCHANGED <<late, begun, produced>>
  <2>1. [Next]_vars
    BY <1>2 DEF Next
  <2> QED BY <1>2, <2>1, AgentGoes, LateStays DEF AgentPhase
<1> QED BY <1>1, <1>2 DEF AgentDrains

LEMMA AgentStepInv ==
  ASSUME AInv, NEW w \in Worker, AgentStep(w)
  PROVE  AInv'
BY AgentRegistersInv, AgentBeatsInv, AgentClaimsInv, AgentRenewsInv,
   AgentExecutesInv, AgentReportsInv, AgentInterruptedInv, AgentDrainsInv
DEF AgentStep

\* A step in which no agent has a part.
LEMMA NoAgentInv ==
  ASSUME AInv, [Next]_vars, UNCHANGED <<agents, begun, produced>>,
         late' \subseteq late
  PROVE  AInv'
<1>1. IInv' /\ issued \subseteq issued'
  BY NextInv, IssuedGrows DEF AInv
<1>2. late' \subseteq Request /\ \A q \in late' : Genuine(q)'
  BY LateStays
<1>3. AgentsTypeOK'
  BY <1>2 DEF AInv, AgentsTypeOK
<1>4. \A w \in Worker : Honest(w)'
  BY <1>1 DEF AInv, Honest
<1> QED BY <1>1, <1>2, <1>3, <1>4, BegunStays DEF AInv

LEMMA AgentsInitInv == DispatchInit => AInv
<1> SUFFICES ASSUME DispatchInit PROVE AInv
  OBVIOUS
<1>1. IInv
  BY InitInv DEF DispatchInit
<1>2. \A w \in Worker : /\ agents[w] \in Agent
                        /\ agents[w].pc = "gone"
                        /\ agents[w].lease = NoLease
  BY IdleHonest DEF DispatchInit, AgentsInit, AgentPhase
<1>3. AgentsTypeOK
  BY <1>2 DEF DispatchInit, AgentsInit, AgentsTypeOK
<1>4. (\A w \in Worker : Honest(w)) /\ \A q \in late : Genuine(q)
  BY <1>2 DEF Honest, DispatchInit, AgentsInit
<1>5. BegunRecorded
  BY DEF BegunRecorded, DispatchInit, AgentsInit, Init, EmptyMemory, EmptyTask
<1> QED BY <1>1, <1>3, <1>4, <1>5 DEF AInv

LEMMA AgentsNextInv ==
  ASSUME AInv, [DispatchNext]_allVars
  PROVE  AInv'
<1>1. [Next]_vars
  BY DispatchNextNext
<1>2. CASE \E w \in Worker : AgentStep(w)
  BY <1>2, AgentStepInv
<1>3. CASE ~\E w \in Worker : AgentStep(w)
  <2>1. UNCHANGED <<agents, begun, produced>> /\ late' \subseteq late
    BY <1>3 DEF DispatchNext, allVars, agentVars, Dispatch, CancelExecution,
                Waits, Returns, GiveUp, StrayHandled, ProcessEnds, Others
  <2> QED BY <1>1, <2>1, NoAgentInv
<1> QED BY <1>2, <1>3

-----------------------------------------------------------------------------
(* The first theorems.                                                     *)

\* The invariant of the coordinator and the agents together.
THEOREM AgentsInvariance == DispatchSpec => []AInv
<1> QED BY AgentsInitInv, AgentsNextInv, PTL DEF DispatchSpec

\* Agents, network and dispatchers do nothing to the coordinator that its own
\* specification does not allow: what is proved of it holds in the whole fleet.
THEOREM Implementation == DispatchSpec => Spec
<1>1. DispatchInit => Init
  BY DEF DispatchInit
<1>2. AInv /\ [DispatchNext]_allVars => [Next]_vars
  BY DispatchNextNext
<1> QED BY <1>1, <1>2, AgentsInvariance, PTL DEF DispatchSpec, Spec

\* However requests get lost and processes end: no more executions of a task
\* begin than its max_attempts.
THEOREM ExecutionsTheorem == DispatchSpec => []ExecutionsWithinBudget
<1>1. AInv => ExecutionsWithinBudget
  <2> SUFFICES ASSUME AInv, NEW t \in Task, begun[t] # 0
               PROVE  begun[t] <= stored.tasks[t].submission.max_attempts
    BY DEF ExecutionsWithinBudget
  <2> DEFINE task == stored.tasks[t]
  <2>1. /\ begun[t] \in Nat /\ begun[t] <= task.lease_generation
        /\ task \in TaskRecord /\ LeaseAgrees(task) /\ BudgetKept(task)
    BY DEF AInv, AgentsTypeOK, BegunRecorded, IInv, TypeOK, Memory, GoodMemory,
           GoodTask
  <2>2. task.lease_generation \in Nat /\ task.lease_generation # 0
    BY <2>1 DEF TaskRecord
  <2>3. task.status # "absent"
    BY <2>1, <2>2 DEF LeaseAgrees, EmptyTask
  <2>4. task.submission.max_attempts \in Nat
    BY <2>1, <2>3, ConstantsAssumption DEF LeaseAgrees
  <2> QED BY <2>1, <2>2, <2>3, <2>4 DEF BudgetKept
<1> QED BY <1>1, AgentsInvariance, PTL

-----------------------------------------------------------------------------
(* How a task ends.                                                        *)

\* A task ends without a result or a cancellation only because its last lease,
\* or its deadline, has passed.
EndsAlone(old, new) ==
  /\ old.status # "absent" => new.status # "absent"
  /\ old.status # "absent" /\ new.status \in Terminal =>
       \/ old.status \in Terminal /\ AnswerOf(new) = AnswerOf(old)
       \/ /\ new.result = "lease_expired"
          /\ \/ new.attempt = new.submission.max_attempts
             \/ DeadlineExpired(new, now)
       \/ new.result = "deadline_exceeded" /\ DeadlineExpired(new, now)

LEMMA EndsAloneTransitive ==
  ASSUME NEW a, NEW b, NEW c, EndsAlone(a, b), EndsAlone(b, c)
  PROVE  EndsAlone(a, c)
<1>1. AnswerOf(c) = AnswerOf(b) =>
        /\ c.result = b.result /\ c.attempt = b.attempt
        /\ c.submission = b.submission
  BY DEF AnswerOf
<1> QED BY <1>1 DEF EndsAlone, DeadlineExpired

LEMMA SameEndsAlone ==
  ASSUME NEW task
  PROVE  EndsAlone(task, task)
BY DEF EndsAlone

LEMMA DeadlineEndsAlone ==
  ASSUME NEW task \in TaskRecord, DeadlineExpired(task, now)
  PROVE  EndsAlone(task, FinishDeadline(task))
<1>1. /\ FinishDeadline(task).status = "failed"
      /\ FinishDeadline(task).result = "deadline_exceeded"
      /\ FinishDeadline(task).submission = task.submission
  BY DEF FinishDeadline, Finish, TaskRecord
<1> QED BY <1>1 DEF EndsAlone, DeadlineExpired

LEMMA ExpiryEndsAlone ==
  ASSUME NEW task \in TaskRecord, GoodTask(task)
  PROVE  EndsAlone(task, ExpireTask(task, now))
<1> DEFINE new     == ExpireTask(task, now)
           history == Ended(task, "lease_expired")
<1>1. CASE new = task
  BY <1>1, SameEndsAlone
<1>2. CASE new # task /\ AttemptsLeft(task) /\ ~DeadlineExpired(task, now)
  <2>1. new = Requeue(task, history)
    BY <1>2 DEF ExpireTask
  <2>2. new.status = "queued"
    BY <2>1 DEF Requeue, TaskRecord
  <2> QED BY <2>2 DEF EndsAlone, Terminal
<1>3. CASE new # task /\ ~(AttemptsLeft(task) /\ ~DeadlineExpired(task, now))
  <2>1. new = Finish(task, "failed", "lease_expired", history)
    BY <1>3 DEF ExpireTask
  <2>2. task.status = "running"
    BY <1>3 DEF ExpireTask
  <2>3. /\ new.status = "failed" /\ new.result = "lease_expired"
        /\ new.attempt = task.attempt /\ new.submission = task.submission
    BY <2>1 DEF Finish, TaskRecord
  <2>4. /\ task.attempt \in Nat /\ task.submission.max_attempts \in Nat
        /\ task.attempt <= task.submission.max_attempts
    BY <2>2, ConstantsAssumption DEF GoodTask, LeaseAgrees, BudgetKept, TaskRecord
  <2>5. task.attempt = task.submission.max_attempts \/ DeadlineExpired(task, now)
    BY <1>3, <2>4 DEF AttemptsLeft
  <2> QED BY <2>3, <2>5 DEF EndsAlone, DeadlineExpired
<1> QED BY <1>1, <1>2, <1>3

AloneStep(n) == \A t \in Task : EndsAlone(memory.tasks[t], n.tasks[t])

LEMMA MemoryTyped ==
  ASSUME IInv
  PROVE  /\ memory.tasks \in [Task -> TaskRecord]
         /\ memory.workers \in [Worker -> WorkerRecord]
         /\ \A t \in Task : memory.tasks[t] \in TaskRecord /\ GoodTask(memory.tasks[t])
         /\ now \in Nat /\ boot \in Nat
BY DEF IInv, TypeOK, Memory, GoodMemory

LEMMA SameAlone == AloneStep(memory)
BY SameEndsAlone DEF AloneStep

LEMMA WithWorkerAlone ==
  ASSUME NEW m, AloneStep(m), NEW w, NEW worker
  PROVE  AloneStep(WithWorker(m, w, worker))
<1>1. WithWorker(m, w, worker).tasks = m.tasks
  BY DEF WithWorker
<1> QED BY <1>1 DEF AloneStep

LEMMA WithTaskAlone ==
  ASSUME IInv, NEW t \in Task, NEW task, EndsAlone(memory.tasks[t], task)
  PROVE  AloneStep(WithTask(memory, t, task))
<1>1. \A u \in Task : WithTask(memory, t, task).tasks[u] =
                        IF u = t THEN task ELSE memory.tasks[u]
  BY MemoryTyped DEF WithTask
<1> QED BY <1>1, SameEndsAlone DEF AloneStep

LEMMA ExpiredAlone ==
  ASSUME IInv
  PROVE  AloneStep(Expired(memory, now))
BY MemoryTyped, ExpiryEndsAlone DEF AloneStep, Expired

\* The claims of agents.
LEMMA ClaimAlone ==
  ASSUME IInv, NEW w \in Worker, Claim(w)
  PROVE  AloneStep(memory')
<1> DEFINE m       == Expired(memory, now)
           skipped == Skipped(m, w)
           passed  == FinishedDeadlines(m, skipped)
<1>1. /\ AloneStep(m) /\ m \in Memory
      /\ \A t \in Task : m.tasks[t] \in TaskRecord
  BY ExpiredAlone, ExpiryGoodStep, GoodStepGood DEF Memory
<1>2. ASSUME NEW T \in SUBSET skipped
      PROVE  AloneStep(FinishedDeadlines(m, T))
  <2>1. \A t \in Task : FinishedDeadlines(m, T).tasks[t] =
                          IF t \in T THEN FinishDeadline(m.tasks[t]) ELSE m.tasks[t]
    BY <1>1 DEF FinishedDeadlines, Memory
  <2>2. \A t \in T : DeadlineExpired(m.tasks[t], now)
    BY DEF Skipped
  <2>3. \A t \in Task : EndsAlone(m.tasks[t], FinishedDeadlines(m, T).tasks[t])
    BY <1>1, <2>1, <2>2, DeadlineEndsAlone, SameEndsAlone
  <2> HIDE DEF m, skipped
  <2> QED BY <1>1, <2>3, EndsAloneTransitive DEF AloneStep
<1>3. AloneStep(passed) /\ passed.tasks \in [Task -> TaskRecord]
  <2>1. passed.tasks = [t \in Task |->
          IF t \in skipped THEN FinishDeadline(m.tasks[t]) ELSE m.tasks[t]]
    BY <1>1 DEF FinishedDeadlines, Memory
  <2>2. \A t \in Task : FinishDeadline(m.tasks[t]) \in TaskRecord
    BY <1>1 DEF FinishDeadline, Finish, TaskRecord, TaskStatus, Terminal,
                Outcome
  <2> QED BY <1>1, <1>2, <2>1, <2>2
<1>4. ASSUME NEW t \in Task
      PROVE  AloneStep(Leased(passed, t, w))
  <2>1. PICK task : /\ Leased(passed, t, w) = WithTask(passed, t, task)
                    /\ task.status = "running"
    <3> DEFINE old   == passed.tasks[t]
               lease == [worker |-> w, lease_id |-> <<boot, old.lease_generation + 1>>,
                         generation |-> old.lease_generation + 1,
                         attempt |-> old.attempt + 1,
                         expires_at |->
                           now + passed.workers[w].registration.lease_seconds]
               new   == [old EXCEPT !.status = "running",
                                    !.attempt = old.attempt + 1,
                                    !.lease_generation = old.lease_generation + 1,
                                    !.lease = lease]
    <3>1. Leased(passed, t, w) = WithTask(passed, t, new)
      BY DEF Leased
    <3>2. old \in TaskRecord
      BY <1>3
    <3> HIDE DEF old, lease
    <3>3. new.status = "running"
      BY <3>2 DEF TaskRecord
    <3> HIDE DEF new
    <3> QED BY <3>1, <3>3
  <2>2. \A u \in Task : WithTask(passed, t, task).tasks[u] =
                          IF u = t THEN task ELSE passed.tasks[u]
    BY <1>3 DEF WithTask
  <2>3. EndsAlone(memory.tasks[t], task)
    BY <2>1 DEF EndsAlone, Terminal
  <2> HIDE DEF passed
  <2> QED BY <1>3, <2>1, <2>2, <2>3 DEF AloneStep
<1>5. \/ memory' = m
      \/ \E T \in SUBSET skipped : memory' = FinishedDeadlines(m, T)
      \/ \E t \in Task : memory' = Leased(passed, t, w)
  <2>1. \A t \in skipped :
          {u \in skipped : Before(m, u, t)} \cup {t} \in SUBSET skipped
    OBVIOUS
  <2>2. Chosen(m, w) \subseteq Task
    BY DEF Chosen, Candidates
  <2> HIDE DEF m, skipped
  <2> QED BY <2>1, <2>2
      DEF Claim, NotSaved, Saved, SaveRaised, SaveRefused, m, skipped
<1> HIDE DEF m, skipped, passed
<1> QED BY <1>1, <1>2, <1>4, <1>5

\* The handlers that change a worker.
LEMMA WorkerAlone ==
  ASSUME NEW w \in Worker,
         Register(w, Offer[w]) \/ Heartbeat(w) \/ Drain(w)
  PROVE  AloneStep(memory')
<1>1. \E worker : Persist(WithWorker(memory, w, worker))
  BY DEF Register, Heartbeat, Drain, SetLifecycle
<1>2. \E worker : memory' = WithWorker(memory, w, worker)
  BY <1>1 DEF Persist, Saved, NotSaved, SaveRaised, SaveRefused
<1> QED BY <1>2, SameAlone, WithWorkerAlone

LEMMA PersistedMemory ==
  ASSUME NEW m, Persist(m)
  PROVE  memory' = m
BY DEF Persist, Saved, NotSaved, SaveRaised, SaveRefused

LEMMA RenewAlone ==
  ASSUME IInv, NEW l \in issued, Renew(l)
  PROVE  AloneStep(memory')
<1> DEFINE t    == l.task
           task == memory.tasks[t]
<1>1. t \in Task /\ task \in TaskRecord
  BY MemoryTyped DEF IInv, TypeOK, Issued
<1>2. CASE DeadlineExpired(task, now)
  <2>1. memory' = WithTask(memory, t, FinishDeadline(task))
    BY <1>2, PersistedMemory DEF Renew
  <2> QED BY <1>1, <1>2, <2>1, DeadlineEndsAlone, WithTaskAlone
<1>3. CASE ~DeadlineExpired(task, now) /\ ~Current(task, l)
  BY <1>3, PersistedMemory, ExpiredAlone DEF Renew
<1>4. CASE ~DeadlineExpired(task, now) /\ Current(task, l)
  <2>1. \E worker, until :
          \/ memory' = WithWorker(memory, l.worker, worker)
          \/ memory' = WithWorker(WithTask(memory, t,
                         [task EXCEPT !.lease.expires_at = until]), l.worker, worker)
    BY <1>4, PersistedMemory DEF Renew
  <2>2. ASSUME NEW until
        PROVE  AloneStep(WithTask(memory, t, [task EXCEPT !.lease.expires_at = until]))
    <3> DEFINE new == [task EXCEPT !.lease.expires_at = until]
    <3>1. new.status = "running"
      BY <1>1, <1>4 DEF Current, TaskRecord
    <3>2. EndsAlone(task, new)
      BY <3>1 DEF EndsAlone, Terminal
    <3> HIDE DEF new
    <3> QED BY <1>1, <3>2, WithTaskAlone DEF new
  <2> QED BY <2>1, <2>2, SameAlone, WithWorkerAlone
<1> QED BY <1>2, <1>3, <1>4

LEMMA SubmitAlone ==
  ASSUME IInv, NEW t \in Task, NEW k, NEW s, Submit(t, k, s)
  PROVE  /\ AloneStep(memory')
         /\ memory'.tasks[t].status = "queued"
<1> DEFINE new == [EmptyTask EXCEPT
              !.submission = s, !.idempotency_key = IF k = NoKey THEN t ELSE k,
              !.submitted_at = now, !.status = "queued"]
<1>1. memory' = WithTask(memory, t, new)
  BY PersistedMemory DEF Submit
<1>2. new.status = "queued"
  BY DEF EmptyTask
<1> HIDE DEF new
<1>3. EndsAlone(memory.tasks[t], new)
  BY <1>2 DEF EndsAlone, Terminal
<1>4. memory'.tasks[t] = new
  BY <1>1, MemoryTyped DEF WithTask
<1> QED BY <1>1, <1>2, <1>3, <1>4, WithTaskAlone

\* A task ends with a result that a Worker came to in that very attempt.
EndsWithResult(t, new) ==
  /\ new.status # "absent"
  /\ new.status \in Terminal =>
       \E p \in produced : /\ p.lease.task = t
                           /\ p.lease.generation = new.attempt
                           /\ p.result.outcome = new.result

\* The result is recorded under the lease it was obtained under.
LEMMA ConcludedResult ==
  ASSUME NEW task \in TaskRecord, NEW r \in Result
  PROVE  LET new == Concluded(task, r) IN
         /\ new.status # "absent"
         /\ new.status \in Terminal =>
              new.result = r.outcome /\ new.attempt = task.attempt
<1> DEFINE new     == Concluded(task, r)
           history == Ended(task, StatusOf(r.outcome))
<1>1. \/ new = Requeue(task, history)
      \/ \E status \in {"succeeded", "cancelled", "failed"} :
           new = Finish(task, status, r.outcome, history)
  BY DEF Concluded
<1>2. Requeue(task, history).status = "queued"
  BY DEF Requeue, TaskRecord
<1>3. \A status : /\ Finish(task, status, r.outcome, history).status = status
                  /\ Finish(task, status, r.outcome, history).result = r.outcome
                  /\ Finish(task, status, r.outcome, history).attempt = task.attempt
  BY DEF Finish, TaskRecord
<1> HIDE DEF new
<1> QED BY <1>1, <1>2, <1>3 DEF Terminal, new

LEMMA SubmitResultEnds ==
  ASSUME IInv, NEW l \in issued, NEW r \in Result, Conclude(l, r),
         [lease |-> l, result |-> r] \in produced, NEW u \in Task
  PROVE  \/ EndsAlone(memory.tasks[u], memory'.tasks[u])
         \/ EndsWithResult(u, memory'.tasks[u])
<1> DEFINE t    == l.task
           task == memory.tasks[t]
<1>1. /\ t \in Task /\ task \in TaskRecord /\ GoodTask(task)
      /\ task.status # "absent"
  BY MemoryTyped DEF IInv, TypeOK, Issued, Conclude
<1>2. CASE UNCHANGED memory
  BY <1>2, SameEndsAlone
<1>3. CASE memory' = WithTask(memory, t, FinishDeadline(task)) /\ DeadlineExpired(task, now)
  BY <1>1, <1>3, DeadlineEndsAlone, WithTaskAlone DEF AloneStep
<1>4. CASE memory' = Expired(memory, now)
  BY <1>4, ExpiredAlone DEF AloneStep
<1>5. CASE memory' = WithTask(memory, t, Concluded(task, r)) /\ Current(task, l)
  <2> DEFINE new == Concluded(task, r)
  <2>1. memory'.tasks[u] = IF u = t THEN new ELSE memory.tasks[u]
    BY <1>1, <1>5, MemoryTyped DEF WithTask
  <2>2. /\ new.status # "absent"
        /\ new.status \in Terminal =>
             new.result = r.outcome /\ new.attempt = task.attempt
    BY <1>1, ConcludedResult
  <2>3. task.attempt = l.generation
    BY <1>1, <1>5 DEF Current, GoodTask, LeaseAgrees, BudgetKept
  <2> DEFINE product == [lease |-> l, result |-> r]
  <2>4. product \in produced /\ product.lease = l /\ product.result = r
    OBVIOUS
  <2> HIDE DEF new, product
  <2>5. EndsWithResult(t, new)
    BY <2>2, <2>3, <2>4 DEF EndsWithResult
  <2> QED BY <2>1, <2>5, SameEndsAlone
<1> QED BY <1>2, <1>3, <1>4, <1>5, PersistedMemory DEF Conclude, Persist

\* A request is handled.
LEMMA HandledEnds ==
  ASSUME AInv, NEW request \in Request, Genuine(request), Handles(request),
         NEW t \in Task
  PROVE  \/ EndsAlone(memory.tasks[t], memory'.tasks[t])
         \/ EndsWithResult(t, memory'.tasks[t])
<1>1. request.worker \in Worker /\ IInv
  BY DEF Request, AInv
<1>2. CASE request.kind \in {"register", "heartbeat", "drain"}
  BY <1>1, <1>2, WorkerAlone DEF Handles, AloneStep
<1>3. CASE request.kind = "claim"
  BY <1>1, <1>3, ClaimAlone DEF Handles, AloneStep
<1>4. CASE request.kind = "renew"
  BY <1>1, <1>4, RenewAlone DEF Handles, AloneStep, Genuine
<1>5. CASE request.kind = "result"
  BY <1>1, <1>5, SubmitResultEnds DEF Handles, Genuine, SubmitResult
<1>6. request.kind \in {"register", "heartbeat", "claim", "renew", "result", "drain"}
  BY DEF Request
<1> QED BY <1>2, <1>3, <1>4, <1>5, <1>6

LEMMA AgentStepEnds ==
  ASSUME AInv, NEW w \in Worker, AgentStep(w), NEW t \in Task
  PROVE  \/ EndsAlone(memory.tasks[t], memory'.tasks[t])
         \/ EndsWithResult(t, memory'.tasks[t])
<1>1. Honest(w) /\ IInv
  BY DEF AInv
<1>2. CASE UNCHANGED vars
  BY <1>2, SameEndsAlone DEF vars
<1>3. CASE AgentRegisters(w) \/ AgentBeats(w) \/ AgentDrains(w)
  BY <1>2, <1>3, WorkerAlone
  DEF AgentRegisters, AgentBeats, AgentDrains, Fails, AloneStep
<1>4. CASE AgentClaims(w)
  BY <1>1, <1>2, <1>4, ClaimAlone DEF AgentClaims, Fails, AloneStep
<1>5. CASE AgentRenews(w)
  BY <1>1, <1>2, <1>5, RenewAlone DEF AgentRenews, AloneStep, Honest
<1>6. CASE AgentReports(w)
  BY <1>1, <1>2, <1>6, SubmitResultEnds DEF AgentReports, Fails, Honest, SubmitResult
<1>7. CASE (\E r \in Result : AgentExecutes(w, r)) \/ AgentInterrupted(w)
  BY <1>2, <1>7 DEF AgentExecutes, AgentInterrupted
<1> QED BY <1>3, <1>4, <1>5, <1>6, <1>7 DEF AgentStep

-----------------------------------------------------------------------------
(* What dispatchers answer.                                                *)

\* Earned, for values of the state it depends on.
Reasons(t, answer, products, at, dispatch) ==
  LET overdue == /\ answer.submission.deadline # NoDeadline
                 /\ at >= answer.submission.deadline
  IN
  \/ \E p \in products :
       /\ p.lease.task = t
       /\ p.lease.generation = answer.attempt
       /\ p.result.outcome = answer.result
  \/ answer.result = "cancelled" /\ dispatch.cancelled_at # Never
  \/ answer.result = "deadline_exceeded" /\ overdue
  \/ answer.result = "worker_timeout" /\ at >= dispatch.until
  \/ /\ answer.result = "lease_expired"
     /\ answer.attempt = answer.submission.max_attempts \/ overdue

\* Time passes and results are added; neither takes a reason away.
LEMMA ReasonsStay ==
  ASSUME NEW t, NEW answer, answer.submission \in Submission,
         NEW ps, NEW qs, ps \subseteq qs,
         NEW at \in Nat, NEW later \in Nat, at <= later,
         NEW d, NEW e, d.until \in Nat, e.until = d.until,
         d.cancelled_at # Never => e.cancelled_at # Never,
         Reasons(t, answer, ps, at, d)
  PROVE  Reasons(t, answer, qs, later, e)
<1>1. answer.submission.deadline \in Nat \cup {NoDeadline}
  BY ConstantsAssumption
<1> QED BY <1>1 DEF Reasons

\* While a dispatcher waits, the process is there and knows the task; if the
\* task has ended, its end has a reason.
WaitsFor(t) ==
  dispatches[t].pc = "waiting" =>
    /\ mode # "down"
    /\ memory.tasks[t].status # "absent"
    /\ memory.tasks[t].status \in Terminal =>
         Reasons(t, AnswerOf(memory.tasks[t]), produced, now, dispatches[t])

Answered(t) ==
  dispatches[t].pc = "returned" =>
    /\ dispatches[t].answer \in Answer
    /\ Reasons(t, dispatches[t].answer, produced, now, dispatches[t])

DInv ==
  /\ AInv
  /\ dispatches \in [Task -> Dispatcher]
  /\ \A t \in Task : WaitsFor(t) /\ Answered(t)

LEMMA AnswerTyped ==
  ASSUME IInv, NEW t \in Task, memory.tasks[t].status # "absent"
  PROVE  AnswerOf(memory.tasks[t]) \in Answer
<1>1. memory.tasks[t] \in TaskRecord /\ memory.tasks[t].submission \in Submission
  BY MemoryTyped DEF GoodTask, LeaseAgrees
<1> QED BY <1>1 DEF AnswerOf, Answer, TaskRecord

LEMMA TimeGrows ==
  ASSUME IInv, [Next]_vars
  PROVE  now \in Nat /\ now' \in Nat /\ now <= now'
<1>1. now \in Nat
  BY DEF IInv, TypeOK
<1> QED BY <1>1, NextSteps
        DEF QuietStep, ClaimRaised, LeaseStep, Leases, Crash, Restart, Tick, vars

\* Reasons for the end of a task that ends in a step.
LEMMA EndedForReason ==
  ASSUME NEW t, NEW new,
         \/ /\ new.result = "lease_expired"
            /\ new.attempt = new.submission.max_attempts \/ DeadlineExpired(new, now)
         \/ new.result = "deadline_exceeded" /\ DeadlineExpired(new, now)
         \/ \E p \in produced : /\ p.lease.task = t
                                /\ p.lease.generation = new.attempt
                                /\ p.result.outcome = new.result
  PROVE  Reasons(t, AnswerOf(new), produced, now, dispatches[t])
BY DEF Reasons, AnswerOf, DeadlineExpired

\* A dispatcher that stays where it is, in a step that is not its own.
LEMMA DispatcherStays ==
  ASSUME DInv, AInv', [Next]_vars, produced \subseteq produced', NEW t \in Task,
         dispatches'[t].pc = dispatches[t].pc,
         dispatches'[t].until = dispatches[t].until,
         dispatches'[t].answer = dispatches[t].answer,
         dispatches[t].cancelled_at # Never => dispatches'[t].cancelled_at # Never,
         dispatches[t].pc = "waiting" =>
           \/ EndsAlone(memory.tasks[t], memory'.tasks[t])
           \/ EndsWithResult(t, memory'.tasks[t])
  PROVE  WaitsFor(t)' /\ Answered(t)'
<1>1. now \in Nat /\ now' \in Nat /\ now <= now'
  BY TimeGrows DEF DInv, AInv
<1>2. dispatches[t].until \in Nat /\ IInv /\ IInv'
  BY DEF DInv, AInv, Dispatcher
<1>3. Answered(t)'
  <2> SUFFICES ASSUME dispatches[t].pc = "returned"
               PROVE  /\ dispatches[t].answer \in Answer
                      /\ Reasons(t, dispatches[t].answer, produced', now', dispatches'[t])
    BY DEF Answered
  <2>1. dispatches[t].answer \in Answer
    BY DEF DInv, Answered
  <2>2. dispatches[t].answer.submission \in Submission
    BY <2>1 DEF Answer
  <2> QED BY <1>1, <1>2, <2>1, <2>2, ReasonsStay DEF DInv, Answered
<1>4. ASSUME dispatches[t].pc = "waiting"
      PROVE  mode' # "down" /\ memory'.tasks[t].status # "absent"
  <2>1. mode # "down" /\ memory.tasks[t].status # "absent"
    BY <1>4 DEF DInv, WaitsFor
  <2>2. memory'.tasks[t].status # "absent"
    BY <1>4, <2>1 DEF EndsAlone, EndsWithResult
  <2>3. ~Crash
    BY <2>2 DEF Crash, EmptyMemory, EmptyTask
  <2>4. mode' # "down"
    BY <1>2, <2>1, <2>3, NextSteps
    DEF QuietStep, ClaimRaised, LeaseStep, Leases, Saved, Restart, Tick, vars
  <2> QED BY <2>2, <2>4
<1>5. ASSUME dispatches[t].pc = "waiting", memory'.tasks[t].status \in Terminal
      PROVE  Reasons(t, AnswerOf(memory'.tasks[t]), produced', now', dispatches'[t])
  <2> DEFINE old == memory.tasks[t]
             new == memory'.tasks[t]
  <2>1. old.status # "absent"
    BY <1>5 DEF DInv, WaitsFor
  <2>2. Reasons(t, AnswerOf(new), produced, now, dispatches[t])
    <3>1. CASE old.status \in Terminal /\ AnswerOf(new) = AnswerOf(old)
      BY <1>5, <3>1 DEF DInv, WaitsFor
    <3>2. CASE ~(old.status \in Terminal /\ AnswerOf(new) = AnswerOf(old))
      <4> HIDE DEF old, new
      <4>1. EndsAlone(old, new) \/ EndsWithResult(t, new)
        BY <1>5 DEF old, new
      <4>2. new.status \in Terminal
        BY <1>5 DEF new
      <4> QED BY <2>1, <3>2, <4>1, <4>2, EndedForReason DEF EndsAlone, EndsWithResult
    <3> QED BY <3>1, <3>2
  <2>3. new.submission \in Submission
    <3>1. GoodTask(new) /\ new.status # "absent"
      BY <1>2, <1>4, <1>5 DEF IInv, GoodMemory
    <3> QED BY <3>1 DEF GoodTask, LeaseAgrees
  <2>4. AnswerOf(new).submission = new.submission
    BY DEF AnswerOf
  <2> HIDE DEF new
  <2> QED BY <1>1, <1>2, <2>2, <2>3, <2>4, ReasonsStay DEF new
<1> QED BY <1>3, <1>4, <1>5 DEF WaitsFor

LEMMA DispatchersStay ==
  ASSUME DInv, AInv', [Next]_vars, UNCHANGED dispatches, produced \subseteq produced',
         \A t \in Task : \/ EndsAlone(memory.tasks[t], memory'.tasks[t])
                         \/ EndsWithResult(t, memory'.tasks[t])
  PROVE  DInv'
<1>1. dispatches' \in [Task -> Dispatcher]
  BY DEF DInv
<1>2. \A t \in Task : WaitsFor(t)' /\ Answered(t)'
  BY DispatcherStays
<1> QED BY <1>1, <1>2 DEF DInv

LEMMA DispatchInv ==
  ASSUME DInv, AInv', [Next]_vars, NEW t \in Task, NEW s \in Submission, Dispatch(t, s)
  PROVE  DInv'
<1>1. /\ IInv /\ dispatches[t] \in Dispatcher /\ now \in Nat /\ WaitTimeout \in Nat
      /\ now + WaitTimeout \in Nat
  BY DispatchAssumption DEF DInv, AInv, IInv, TypeOK
<1>2. AloneStep(memory') /\ memory'.tasks[t].status = "queued"
  BY <1>1, SubmitAlone DEF Dispatch
<1>3. PICK pc \in {"waiting", "raised"} :
        dispatches' = [dispatches EXCEPT ![t].pc = pc, ![t].until = now + WaitTimeout]
  BY DEF Dispatch
<1>4. /\ dispatches' \in [Task -> Dispatcher]
      /\ \A u \in Task \ {t} : dispatches'[u] = dispatches[u]
      /\ dispatches'[t].pc = pc
  BY <1>1, <1>3 DEF DInv, Dispatcher
<1>5. mode' # "down"
  BY DEF Dispatch, Submit, Persist, Saved, NotSaved, SaveRaised, SaveRefused
<1>6. \A u \in Task \ {t} : WaitsFor(u)' /\ Answered(u)'
  BY <1>2, <1>4, DispatcherStays DEF AloneStep, Dispatch, agentVars
<1>7. WaitsFor(t)' /\ Answered(t)'
  BY <1>2, <1>4, <1>5 DEF WaitsFor, Answered, Terminal
<1> QED BY <1>4, <1>6, <1>7 DEF DInv

LEMMA CancelExecutionInv ==
  ASSUME DInv, AInv', [Next]_vars, NEW t \in Task, CancelExecution(t)
  PROVE  DInv'
<1>1. now \in Nat
  BY DEF DInv, AInv, IInv, TypeOK
<1>2. dispatches' = [dispatches EXCEPT ![t].cancelled_at = now]
  BY DEF CancelExecution
<1>3. /\ dispatches' \in [Task -> Dispatcher]
      /\ \A u \in Task : /\ dispatches'[u].pc = dispatches[u].pc
                         /\ dispatches'[u].until = dispatches[u].until
                         /\ dispatches'[u].answer = dispatches[u].answer
                         /\ dispatches[u].cancelled_at # Never =>
                              dispatches'[u].cancelled_at # Never
  BY <1>1, <1>2, DispatchAssumption DEF DInv, Dispatcher
<1>4. memory' = memory /\ produced' = produced
  BY DEF CancelExecution, vars, agentVars
<1>5. \A u \in Task : WaitsFor(u)' /\ Answered(u)'
  BY <1>3, <1>4, DispatcherStays, SameEndsAlone
<1> QED BY <1>3, <1>5 DEF DInv

\* The answer is the terminal task's, whose end has a reason.
LEMMA ReturnsInv ==
  ASSUME DInv, AInv', [Next]_vars, NEW t \in Task, Returns(t)
  PROVE  DInv'
<1> DEFINE answer == AnswerOf(memory.tasks[t])
<1>1. /\ memory' = memory /\ produced' = produced /\ now' = now
      /\ memory.tasks[t].status \in Terminal
      /\ dispatches[t].pc = "waiting"
  BY DEF Returns, ObserveTask, agentVars
<1>2. answer \in Answer /\ Reasons(t, answer, produced, now, dispatches[t])
  BY <1>1, AnswerTyped DEF DInv, WaitsFor, AInv
<1>3. dispatches' = [dispatches EXCEPT ![t].pc = "returned", ![t].answer = answer]
  BY DEF Returns
<1> HIDE DEF answer
<1>4. /\ dispatches' \in [Task -> Dispatcher]
      /\ \A u \in Task \ {t} : dispatches'[u] = dispatches[u]
      /\ dispatches'[t].pc = "returned"
      /\ dispatches'[t].answer = answer
      /\ dispatches'[t].until = dispatches[t].until
      /\ dispatches'[t].cancelled_at = dispatches[t].cancelled_at
  BY <1>2, <1>3 DEF DInv, Dispatcher
<1>5. Reasons(t, answer, produced', now', dispatches'[t])
  BY <1>1, <1>2, <1>4 DEF Reasons
<1>6. WaitsFor(t)' /\ Answered(t)'
  BY <1>2, <1>4, <1>5 DEF WaitsFor, Answered
<1>7. \A u \in Task \ {t} : WaitsFor(u)' /\ Answered(u)'
  BY <1>1, <1>4, DispatcherStays, SameEndsAlone
<1> QED BY <1>4, <1>6, <1>7 DEF DInv

\* A task that the dispatcher cancels ends for the dispatcher's reason.
LEMMA GiveUpInv ==
  ASSUME DInv, AInv', [Next]_vars, NEW t \in Task, NEW cause \in CancelCause,
         GiveUp(t, cause)
  PROVE  DInv'
<1> DEFINE task   == memory.tasks[t]
           status == IF cause = "cancelled" THEN "cancelled" ELSE "failed"
           next   == Finish(task, status, cause,
                       IF task.status = "running"
                       THEN Ended(task, "coordinator_terminated_lease")
                       ELSE task.history)
<1>1. /\ IInv /\ task \in TaskRecord /\ dispatches[t].pc = "waiting"
      /\ GivesUp(t, cause) /\ produced' = produced /\ now' = now
      /\ task.status # "absent" /\ mode' # "down"
  BY MemoryTyped
  DEF DInv, AInv, GiveUp, agentVars, Cancel, Saved, NotSaved, SaveRaised, SaveRefused
<1>2. memory' = memory \/ memory' = WithTask(memory, t, next)
  BY PersistedMemory DEF GiveUp, Cancel, Persist
<1>3. /\ next.result = cause /\ next.submission = task.submission
      /\ next.status = status /\ status # "absent"
  BY <1>1 DEF Finish, TaskRecord
<1> HIDE DEF next, status
<1>4. Reasons(t, AnswerOf(next), produced, now, dispatches[t])
  <2>1. /\ AnswerOf(next).result = cause
        /\ AnswerOf(next).submission = task.submission
    BY <1>3 DEF AnswerOf
  <2> DEFINE answer == AnswerOf(next)
  <2> HIDE DEF answer
  <2>2. CASE cause = "cancelled"
    <3>1. dispatches[t].cancelled_at # Never
      BY <1>1, <2>2 DEF GivesUp
    <3> QED BY <2>1, <2>2, <3>1 DEF Reasons, answer
  <2>3. CASE cause = "deadline_exceeded"
    <3>1. DeadlineExpired(task, now)
      BY <1>1, <2>3 DEF GivesUp
    <3> QED BY <2>1, <2>3, <3>1 DEF Reasons, DeadlineExpired, answer
  <2>4. CASE cause = "worker_timeout"
    <3>1. now >= dispatches[t].until
      BY <1>1, <2>4 DEF GivesUp
    <3> QED BY <2>1, <2>4, <3>1 DEF Reasons, answer
  <2> QED BY <2>2, <2>3, <2>4 DEF CancelCause
<1>5. \A u \in Task : \/ memory'.tasks[u] = memory.tasks[u]
                      \/ u = t /\ memory'.tasks[u] = next
  <2>1. \A u \in Task : WithTask(memory, t, next).tasks[u] =
                          IF u = t THEN next ELSE memory.tasks[u]
    BY <1>1, MemoryTyped DEF WithTask
  <2> QED BY <1>2, <2>1
<1>6. \/ dispatches' = dispatches
      \/ dispatches' = [dispatches EXCEPT ![t].pc = "raised"]
  BY DEF GiveUp
<1>7. /\ dispatches' \in [Task -> Dispatcher]
      /\ \A u \in Task \ {t} : dispatches'[u] = dispatches[u]
      /\ dispatches'[t] = dispatches[t] \/ dispatches'[t].pc = "raised"
  BY <1>6 DEF DInv, Dispatcher
<1>8. \A u \in Task \ {t} : WaitsFor(u)' /\ Answered(u)'
  BY <1>1, <1>5, <1>7, DispatcherStays, SameEndsAlone
<1>9. WaitsFor(t)' /\ Answered(t)'
  <2>1. CASE dispatches'[t].pc = "raised"
    BY <2>1 DEF WaitsFor, Answered
  <2>2. CASE dispatches'[t] = dispatches[t] /\ memory'.tasks[t] = task
    BY <1>1, <2>2, DispatcherStays, SameEndsAlone
  <2>3. CASE dispatches'[t] = dispatches[t] /\ memory'.tasks[t] = next
    BY <1>1, <1>3, <1>4, <2>3 DEF WaitsFor, Answered
  <2> QED BY <1>5, <1>7, <2>1, <2>2, <2>3
<1> QED BY <1>7, <1>8, <1>9 DEF DInv

LEMMA ProcessEndsInv ==
  ASSUME DInv, AInv', [Next]_vars, ProcessEnds
  PROVE  DInv'
<1>1. /\ dispatches' \in [Task -> Dispatcher]
      /\ \A t \in Task : \/ dispatches'[t].pc = "gone"
                         \/ /\ dispatches'[t] = dispatches[t]
                            /\ dispatches[t].pc # "waiting"
  BY DEF ProcessEnds, DInv, Dispatcher
<1>2. produced' = produced
  BY DEF ProcessEnds
<1>3. ASSUME NEW t \in Task
      PROVE  WaitsFor(t)' /\ Answered(t)'
  <2>1. CASE dispatches'[t].pc = "gone"
    BY <2>1 DEF WaitsFor, Answered
  <2>2. CASE dispatches'[t] = dispatches[t] /\ dispatches[t].pc # "waiting"
    BY <1>2, <2>2, DispatcherStays
  <2> QED BY <1>1, <2>1, <2>2
<1> QED BY <1>1, <1>3 DEF DInv

\* The clock ticks, or a process starts for which no dispatcher waits yet.
LEMMA OthersInv ==
  ASSUME DInv, AInv', [Next]_vars, Others
  PROVE  DInv'
<1>1. UNCHANGED dispatches /\ produced' = produced
  BY DEF Others, agentVars
<1>2. CASE Tick
  BY <1>1, <1>2, DispatchersStay, SameEndsAlone DEF Tick
<1>3. CASE Restart
  <2>1. \A t \in Task : dispatches[t].pc # "waiting"
    BY <1>3 DEF Restart, DInv, WaitsFor
  <2>2. \A t \in Task : WaitsFor(t)' /\ Answered(t)'
    BY <1>1, <2>1, DispatcherStays
  <2> QED BY <1>1, <2>2 DEF DInv
<1> QED BY <1>2, <1>3 DEF Others

LEMMA DispatchInitInv == DispatchInit => DInv
<1> SUFFICES ASSUME DispatchInit PROVE DInv
  OBVIOUS
<1>1. AInv
  BY AgentsInitInv
<1>2. \A t \in Task : dispatches[t] = [pc |-> "idle", until |-> 0,
                                       cancelled_at |-> Never, answer |-> NoResult]
  BY DEF DispatchInit
<1>3. dispatches \in [Task -> Dispatcher]
  BY DEF DispatchInit, Dispatcher
<1> QED BY <1>1, <1>2, <1>3 DEF DInv, WaitsFor, Answered

LEMMA DispatchNextInv ==
  ASSUME DInv, [DispatchNext]_allVars
  PROVE  DInv'
<1>1. AInv' /\ [Next]_vars
  BY AgentsNextInv, DispatchNextNext DEF DInv
<1>2. CASE \E t \in Task, s \in Submission : Dispatch(t, s)
  BY <1>1, <1>2, DispatchInv
<1>3. CASE \E t \in Task : CancelExecution(t)
  BY <1>1, <1>3, CancelExecutionInv
<1>4. CASE \E t \in Task : Waits(t)
  BY <1>1, <1>4, ReturnsInv, GiveUpInv DEF Waits
<1>5. CASE \E w \in Worker : AgentStep(w) /\ UNCHANGED dispatches
  <2>1. PICK w \in Worker : AgentStep(w) /\ UNCHANGED dispatches
    BY <1>5
  <2>2. produced \subseteq produced'
    BY <2>1 DEF AgentStep, AgentRegisters, AgentBeats, AgentClaims, AgentRenews,
                AgentExecutes, AgentReports, AgentInterrupted, AgentDrains, Fails
  <2> QED BY <1>1, <2>1, <2>2, AgentStepEnds, DispatchersStay DEF DInv
<1>6. CASE \E request \in late : StrayHandled(request) /\ UNCHANGED dispatches
  <2>1. PICK request \in late : StrayHandled(request) /\ UNCHANGED dispatches
    BY <1>6
  <2>2. request \in Request /\ Genuine(request)
    BY DEF DInv, AInv, AgentsTypeOK
  <2>3. \A t \in Task : \/ EndsAlone(memory.tasks[t], memory'.tasks[t])
                        \/ EndsWithResult(t, memory'.tasks[t])
    BY <2>1, <2>2, HandledEnds, SameEndsAlone DEF StrayHandled, DInv, vars
  <2> QED BY <1>1, <2>1, <2>3, DispatchersStay DEF StrayHandled
<1>7. CASE ProcessEnds
  BY <1>1, <1>7, ProcessEndsInv
<1>8. CASE Others
  BY <1>1, <1>8, OthersInv
<1>9. CASE UNCHANGED allVars
  BY <1>1, <1>9, DispatchersStay, SameEndsAlone DEF allVars, vars, agentVars
<1> QED BY <1>2, <1>3, <1>4, <1>5, <1>6, <1>7, <1>8, <1>9 DEF DispatchNext

-----------------------------------------------------------------------------
(* The theorems about dispatchers.                                         *)

\* The inductive invariant of dispatchers, agents and coordinator holds in every
\* reachable state.
THEOREM DispatchInvariance == DispatchSpec => []DInv
<1> QED BY DispatchInitInv, DispatchNextInv, PTL DEF DispatchSpec

\* Every variable of the composition keeps its type.
THEOREM DispatchTypeCorrect == DispatchSpec => []DispatchTypeOK
<1>1. DInv => DispatchTypeOK
  BY DEF DInv, AInv, IInv, DispatchTypeOK
<1> QED BY <1>1, DispatchInvariance, PTL

\* What a dispatcher answers happened: the result of the attempt it names, its
\* own cancellation, a deadline, a wait or a last lease that had run out.
THEOREM AnswersTheorem == DispatchSpec => []AnswersAreEarned
<1>1. DInv => AnswersAreEarned
  BY DEF DInv, Answered, AnswersAreEarned, Reasons, Earned
<1> QED BY <1>1, DispatchInvariance, PTL

\* What is left of a task whose dispatcher has answered, in the snapshot.
NothingStored ==
  /\ mode # "failed"
  /\ \A t \in Task :
       dispatches[t].pc = "returned" =>
         /\ stored.tasks[t].status \in Terminal
         /\ stored.tasks[t].result \in {dispatches[t].answer.result, "deadline_exceeded"}

\* A dispatcher returns only so, and does nothing afterwards.
LEMMA ReturnsOnly ==
  ASSUME DInv, [DispatchNext]_allVars, NEW t \in Task,
         dispatches'[t].pc = "returned"
  PROVE  \/ dispatches[t].pc # "returned" /\ Returns(t)
         \/ dispatches'[t] = dispatches[t]
<1>1. \A u \in Task : dispatches[u] \in Dispatcher
  BY DEF DInv
<1>2. ASSUME NEW u \in Task, NEW s, Dispatch(u, s)
      PROVE  dispatches'[t] = dispatches[t]
  BY <1>1, <1>2 DEF Dispatch, DInv, Dispatcher
<1>3. ASSUME NEW u \in Task, CancelExecution(u)
      PROVE  dispatches'[t] = dispatches[t]
  BY <1>1, <1>3 DEF CancelExecution, DInv, Dispatcher
<1>4. ASSUME NEW u \in Task, Returns(u), u # t
      PROVE  dispatches'[t] = dispatches[t]
  BY <1>4 DEF Returns, DInv
<1>5. Returns(t) => dispatches[t].pc # "returned"
  BY DEF Returns
<1>6. ASSUME NEW u \in Task, NEW cause, GiveUp(u, cause)
      PROVE  dispatches'[t] = dispatches[t]
  BY <1>1, <1>6 DEF GiveUp, DInv, Dispatcher
<1>7. ProcessEnds => dispatches'[t] = dispatches[t]
  BY <1>1 DEF ProcessEnds, Dispatcher
<1>8. Others \/ UNCHANGED allVars => dispatches'[t] = dispatches[t]
  BY DEF Others, allVars
<1> QED BY <1>2, <1>3, <1>4, <1>5, <1>6, <1>7, <1>8 DEF DispatchNext, Waits

LEMMA NothingStoredInv ==
  ASSUME SaveMayFail = FALSE, DInv, NothingStored, [DispatchNext]_allVars
  PROVE  NothingStored'
<1>1. [Next]_vars /\ IInv /\ mode' # "failed"
  BY DispatchNextNext, NeverFails DEF DInv, AInv, NothingStored
<1>2. ASSUME NEW t \in Task, dispatches[t].pc = "returned",
             dispatches'[t] = dispatches[t]
      PROVE  /\ stored'.tasks[t].status \in Terminal
             /\ stored'.tasks[t].result \in
                  {dispatches'[t].answer.result, "deadline_exceeded"}
  BY <1>1, <1>2, StoredTerminal DEF NothingStored, Terminal
<1>3. ASSUME NEW t \in Task, dispatches'[t].pc = "returned",
             dispatches[t].pc # "returned"
      PROVE  /\ stored'.tasks[t].status \in Terminal
             /\ stored'.tasks[t].result = dispatches'[t].answer.result
  <2>1. Returns(t)
    BY <1>3, ReturnsOnly
  <2>2. mode = "up" /\ stored' = memory /\ memory.tasks[t].status \in Terminal
    BY <1>1, <2>1 DEF Returns, ObserveTask, NothingStored, IInv, TypeOK, UpIsDurable
  <2>3. dispatches'[t].answer = AnswerOf(memory.tasks[t])
    BY <2>1 DEF Returns, DInv, Dispatcher
  <2> QED BY <2>2, <2>3 DEF AnswerOf
<1>4. ASSUME NEW t \in Task, dispatches'[t].pc = "returned",
             dispatches[t].pc = "returned"
      PROVE  dispatches'[t] = dispatches[t]
  BY <1>4, ReturnsOnly
<1> QED BY <1>1, <1>2, <1>3, <1>4 DEF NothingStored

\* With a store whose saves do not raise, a dispatcher that has answered leaves
\* a finished task behind, in memory and for a restart.
THEOREM NothingLeftTheorem ==
  ASSUME SaveMayFail = FALSE
  PROVE  DispatchSpec => []NothingLeftBehind
<1>1. DispatchInit => NothingStored
  BY DEF DispatchInit, Init, NothingStored
<1>2. DInv /\ NothingStored /\ [DispatchNext]_allVars => NothingStored'
  BY NothingStoredInv
<1>3. DInv /\ NothingStored => NothingLeftBehind
  BY DEF DInv, AInv, IInv, UpIsDurable, NothingStored, NothingLeftBehind
<1> QED BY <1>1, <1>2, <1>3, DispatchInvariance, PTL DEF DispatchSpec

-----------------------------------------------------------------------------
(* Dispatchers come back, if the clock runs and they keep polling.         *)

\* What the dispatcher of t has to find when it looks, for its wait to go on.
Ready(t) ==
  /\ dispatches[t].pc = "waiting"
  /\ \/ memory.tasks[t].status \in Terminal
     \/ \E cause \in CancelCause : GivesUp(t, cause)

\* WF_allVars(Waits(t)), with Ready(t) in the place of its ENABLED.
KeepsPolling(t) == <>[]Ready(t) => []<><<Waits(t)>>_allVars

\* What fairness of the clock's ticks comes to.
ClockRuns == <>(now = MaxTime)

\* No wait goes on after the end of time.
WaitsEndInTime ==
  \A t \in Task : dispatches[t].pc = "waiting" => dispatches[t].until <= MaxTime

LEMMA WaitsEndInTimeInv ==
  ASSUME DInv, WaitsEndInTime, [DispatchNext]_allVars
  PROVE  WaitsEndInTime'
<1> SUFFICES ASSUME NEW t \in Task, dispatches'[t].pc = "waiting"
             PROVE  dispatches'[t].until <= MaxTime
  BY DEF WaitsEndInTime
<1>1. /\ \A u \in Task : dispatches[u] \in Dispatcher
      /\ dispatches \in [Task -> Dispatcher]
      /\ dispatches[t].pc = "waiting" => dispatches[t].until <= MaxTime
  BY DEF DInv, WaitsEndInTime
<1>2. ASSUME NEW u \in Task, NEW s, Dispatch(u, s)
      PROVE  dispatches'[t].until <= MaxTime
  <2>1. CASE u = t
    BY <1>1, <1>2, <2>1 DEF Dispatch, Dispatcher
  <2>2. CASE u # t
    BY <1>1, <1>2, <2>2 DEF Dispatch
  <2> QED BY <2>1, <2>2
<1>3. ASSUME NEW u \in Task, CancelExecution(u) \/ Waits(u)
      PROVE  dispatches'[t].until <= MaxTime
  <2>1. \/ dispatches' = dispatches
        \/ \E at : dispatches' = [dispatches EXCEPT ![u].cancelled_at = at]
        \/ \E pc \in {"returned", "raised"} : \E answer :
             dispatches' = [dispatches EXCEPT ![u].pc = pc, ![u].answer = answer]
        \/ dispatches' = [dispatches EXCEPT ![u].pc = "raised"]
    BY <1>3 DEF CancelExecution, Waits, Returns, GiveUp
  <2>2. dispatches[t].pc = "waiting" /\ dispatches'[t].until = dispatches[t].until
    <3>1. CASE u = t
      BY <1>1, <2>1, <3>1 DEF Dispatcher
    <3>2. CASE u # t
      BY <1>1, <2>1, <3>2
    <3> QED BY <3>1, <3>2
  <2> QED BY <1>1, <2>2
<1>4. CASE ProcessEnds
  BY <1>1, <1>4 DEF ProcessEnds, Dispatcher
<1>5. CASE UNCHANGED dispatches
  BY <1>1, <1>5
<1> QED BY <1>2, <1>3, <1>4, <1>5 DEF DispatchNext, StrayHandled, Others, allVars

\* At the end of time there is a reason to give up, if no other comes first.
LEMMA ReadyAtTheEnd ==
  ASSUME DInv, WaitsEndInTime, NEW t \in Task, dispatches[t].pc = "waiting",
         now = MaxTime
  PROVE  Ready(t)
<1>1. now >= dispatches[t].until
  <2>1. dispatches[t].until \in Nat /\ now \in Nat
    BY DEF DInv, AInv, IInv, TypeOK, Dispatcher
  <2> QED BY <2>1 DEF WaitsEndInTime
<1> DEFINE overdue   == DeadlineExpired(memory.tasks[t], now)
           cancelled ==
             /\ dispatches[t].cancelled_at # Never
             /\ overdue => dispatches[t].cancelled_at < memory.tasks[t].submission.deadline
<1>2. CASE cancelled
  BY <1>2 DEF Ready, GivesUp, CancelCause
<1>3. CASE ~cancelled /\ overdue
  BY <1>3 DEF Ready, GivesUp, CancelCause
<1>4. CASE ~cancelled /\ ~overdue
  BY <1>1, <1>4 DEF Ready, GivesUp, CancelCause
<1> QED BY <1>2, <1>3, <1>4

LEMMA TimeHasEnded ==
  ASSUME DInv, [DispatchNext]_allVars, now = MaxTime
  PROVE  now' = MaxTime
<1>1. IInv /\ [Next]_vars /\ now \in Nat
  BY DispatchNextNext DEF DInv, AInv, IInv, TypeOK
<1> QED BY <1>1, NextSteps
        DEF QuietStep, ClaimRaised, LeaseStep, Leases, Crash, Restart, Tick, vars

\* Nothing that callers were told is untold.
LEMMA ReportedGrows ==
  ASSUME IInv, [Next]_vars, NEW t \in Task
  PROVE  reported[t] \subseteq reported'[t]
<1>1. \A u, status : Tell(u, status) => reported[t] \subseteq reported'[t]
  BY DEF Tell, IInv, TypeOK
<1>2. CASE UNCHANGED reported
  BY <1>2
<1>3. ASSUME NEW l, NEW r, Conclude(l, r)
      PROVE  reported[t] \subseteq reported'[t]
  BY <1>1, <1>3 DEF Conclude
<1>4. ASSUME NEW u, NEW cause, Cancel(u, cause)
      PROVE  reported[t] \subseteq reported'[t]
  BY <1>1, <1>4 DEF Cancel
<1>5. ASSUME NEW u, ObserveTask(u)
      PROVE  reported[t] \subseteq reported'[t]
  BY <1>1, <1>5 DEF ObserveTask
<1> QED BY <1>2, <1>3, <1>4, <1>5
        DEF Next, vars, Register, Heartbeat, Drain, Stop, SetLifecycle, Submit, Claim,
            Renew, SubmitResult, ExecuteClaimedTask, ExpireLeases, Silent, Crash,
            Restart, Tick

\* While its dispatcher waits, a finished task stays as it is, or becomes a
\* missed deadline.
LEMMA WaitedForStays ==
  ASSUME DInv, DInv', [DispatchNext]_allVars, NEW t \in Task,
         dispatches[t].pc = "waiting", dispatches'[t].pc = "waiting",
         memory.tasks[t].status \in Terminal
  PROVE  memory'.tasks[t].status \in {memory.tasks[t].status, "failed"}
<1>1. IInv /\ [Next]_vars /\ mode # "down" /\ mode' # "down"
  BY DispatchNextNext DEF DInv, AInv, WaitsFor
<1>2. memory'.tasks[t] = memory.tasks[t] \/ LateRenewal(t)
  BY <1>1, FinishedUntouched
<1>3. CASE LateRenewal(t)
  <2>1. memory' = WithTask(memory, t, FinishDeadline(memory.tasks[t]))
    BY <1>3, Persisted DEF LateRenewal, Renew
  <2>2. WithTask(memory, t, FinishDeadline(memory.tasks[t])).tasks[t]
          = FinishDeadline(memory.tasks[t])
    BY <1>1 DEF WithTask, IInv, TypeOK, Memory
  <2>3. FinishDeadline(memory.tasks[t]).status = "failed"
    BY <1>1, TaskInMemory DEF FinishDeadline, Finish, TaskRecord
  <2> QED BY <2>1, <2>2, <2>3
<1> QED BY <1>2, <1>3

\* A poll that has a reason ends the wait, or the task; when the task has ended
\* already, it ends the wait, or has told the dispatcher so.
LEMMA PollHelps ==
  ASSUME DInv, NEW t \in Task, <<Waits(t)>>_allVars, dispatches'[t].pc = "waiting"
  PROVE  /\ memory.tasks[t].status \notin Terminal => memory'.tasks[t].status \in Terminal
         /\ memory.tasks[t].status \in Terminal =>
              /\ memory.tasks[t].status \notin reported[t]
              /\ memory'.tasks[t].status = memory.tasks[t].status
              /\ memory'.tasks[t].status \in reported'[t]
<1>1. PICK cause \in CancelCause : GiveUp(t, cause)
  <2>1. ~Returns(t)
    BY DEF Returns, DInv, Dispatcher
  <2> QED BY <2>1 DEF Waits
<1> DEFINE task   == memory.tasks[t]
           status == IF cause = "cancelled" THEN "cancelled" ELSE "failed"
           next   == Finish(task, status, cause,
                       IF task.status = "running"
                       THEN Ended(task, "coordinator_terminated_lease")
                       ELSE task.history)
<1>2. /\ memory \in Memory /\ task \in TaskRecord
      /\ reported \in [Task -> SUBSET Terminal]
      /\ dispatches \in [Task -> Dispatcher]
  BY DEF DInv, AInv, IInv, TypeOK, Memory
<1>3. CASE task.status \in Terminal
  <2>1. Tell(t, task.status) /\ UNCHANGED memory
    BY <1>1, <1>3 DEF GiveUp, Cancel, Finished
  <2>2. reported' = [reported EXCEPT ![t] = @ \cup {task.status}]
    BY <1>3, <2>1 DEF Tell
  <2>3. task.status \in reported'[t]
    BY <1>2, <2>2
  <2>4. task.status \notin reported[t]
    <3> SUFFICES ASSUME task.status \in reported[t] PROVE FALSE
      OBVIOUS
    <3>1. reported' = reported
      BY <1>2, <2>2
    <3>2. UNCHANGED allVars
      BY <1>1, <1>3, <3>1 DEF GiveUp, Cancel, Finished, allVars, vars
    <3> QED BY <3>2
  <2> QED BY <1>3, <2>1, <2>3, <2>4
<1>4. CASE task.status \notin Terminal
  <2>1. dispatches' = dispatches
    BY <1>1, <1>2 DEF GiveUp, Dispatcher
  <2>2. Acknowledged
    <3>1. CASE Acknowledged
      BY <3>1
    <3>2. CASE ~Acknowledged
      <4>1. dispatches' = [dispatches EXCEPT ![t].pc = "raised"]
        BY <1>1, <1>4, <3>2 DEF GiveUp, Finished
      <4>2. dispatches'[t].pc = "raised"
        BY <1>2, <4>1 DEF Dispatcher
      <4> QED BY <4>2
    <3> QED BY <3>1, <3>2
  <2>3. memory' = WithTask(memory, t, next)
    <3> HIDE DEF next
    <3> QED BY <1>1, <1>4 DEF GiveUp, Cancel, Finished, Saved, NotSaved, SaveRaised,
                SaveRefused, next
  <2>4. WithTask(memory, t, next).tasks[t] = next
    <3> HIDE DEF next
    <3> QED BY <1>2 DEF WithTask, Memory
  <2>5. next.status \in Terminal
    BY <1>2 DEF Finish, TaskRecord, Terminal
  <2> HIDE DEF next
  <2> QED BY <1>4, <2>3, <2>4, <2>5
<1> QED BY <1>3, <1>4

\* One dispatcher comes back, with the fairness of its polls.
LEMMA WaitEnds ==
  ASSUME NEW t \in Task
  PROVE  DispatchSpec /\ ClockRuns /\ KeepsPolling(t) =>
           (dispatches[t].pc = "waiting" ~> dispatches[t].pc # "waiting")
<1> DEFINE W == dispatches[t].pc = "waiting"
           F == memory.tasks[t].status \in Terminal
           L == memory.tasks[t].status = "failed"
           G == memory.tasks[t].status \in reported[t]
           I == DInv /\ WaitsEndInTime
<1>1. DispatchInit => WaitsEndInTime
  BY DEF DispatchInit, WaitsEndInTime
<1>2. I /\ [DispatchNext]_allVars => WaitsEndInTime'
  BY WaitsEndInTimeInv
<1>3. I /\ W /\ now = MaxTime => Ready(t)
  BY ReadyAtTheEnd
<1>4. I /\ now = MaxTime /\ [DispatchNext]_allVars => (now = MaxTime)'
  BY TimeHasEnded
<1>5. I /\ I' /\ W /\ W' /\ F /\ [DispatchNext]_allVars
        => F' /\ (L => L') /\ (G => G' \/ (~L /\ L'))
  <2> SUFFICES ASSUME I, I', W, W', F, [DispatchNext]_allVars
               PROVE  F' /\ (L => L') /\ (G => G' \/ (~L /\ L'))
    OBVIOUS
  <2>1. memory'.tasks[t].status \in {memory.tasks[t].status, "failed"}
    BY WaitedForStays
  <2>2. reported[t] \subseteq reported'[t]
    BY ReportedGrows, DispatchNextNext DEF DInv, AInv
  <2> QED BY <2>1, <2>2 DEF Terminal
<1>6. I /\ W' /\ ~F /\ <<Waits(t)>>_allVars => F'
  BY PollHelps
<1>7. I /\ W' /\ F /\ <<Waits(t)>>_allVars => ~G /\ G' /\ (L <=> L')
  BY PollHelps
<1>8. dispatches[t].pc # "waiting" <=> ~W
  OBVIOUS
<1> HIDE DEF W, F, L, G
<1> QED BY <1>1, <1>2, <1>3, <1>4, <1>5, <1>6, <1>7, <1>8, DispatchInvariance, PTL
        DEF DispatchSpec, ClockRuns, KeepsPolling

\* Every dispatching Worker comes back, however many there are and whatever the
\* agents, the network, the store and the process do, as long as the clock runs
\* and dispatchers keep polling.
THEOREM DispatchersReturn ==
  DispatchSpec /\ ClockRuns /\ (\A t \in Task : KeepsPolling(t)) => DispatchEnds
<1>1. \A t \in Task : DispatchSpec /\ ClockRuns /\ KeepsPolling(t) =>
        (dispatches[t].pc = "waiting" ~> dispatches[t].pc # "waiting")
  BY WaitEnds
<1> QED BY <1>1 DEF DispatchEnds
=============================================================================
