---------------------- MODULE DispatchRefinementProofs ----------------------
(***************************************************************************)
(* The fleet implements RemoteInvocation, for every set of agents and      *)
(* tasks, any bounds and any failing of the network, the agents and the    *)
(* coordinator's process, if only the saves of the store do not raise.     *)
(***************************************************************************)
EXTENDS DispatchRefinement, FleetDispatchProofs, FleetRefinementProofs

-----------------------------------------------------------------------------
(* The leases of agents.                                                   *)

\* An agent holds no lease that was granted to another one.
OwnLeases ==
  \A w \in Worker : agents[w].lease # NoLease => agents[w].lease.worker = w

\* What a claim hands out is for the claimer, of the generation that is stored
\* with it.
LEMMA HandedOut ==
  ASSUME IInv, NEW w \in Worker, Claim(w), NEW l \in issued' \ issued
  PROVE  /\ l.worker = w /\ l.task \in Task
         /\ l.generation = stored'.tasks[l.task].lease_generation
<1>1. Leases(w)
  BY ClaimSteps DEF QuietStep, ClaimRaised
<1>2. PICK t \in Task, passed \in Memory :
        /\ GoodStep(memory, passed)
        /\ passed.tasks[t].status = "queued"
        /\ passed.workers[w].registration \in Registration
        /\ Saved(Leased(passed, t, w))
        /\ issued' = issued \cup {Handed(Leased(passed, t, w), t)}
  BY <1>1 DEF Leases
<1> DEFINE n == Leased(passed, t, w)
<1>3. mode = "up" /\ stored' = n
  BY <1>2 DEF Saved
<1>4. /\ n.tasks[t].lease.worker = w
      /\ n.tasks[t].lease.generation = n.tasks[t].lease_generation
  BY <1>2, <1>3, LeasedGeneration
<1> HIDE DEF n
<1>5. l = Handed(n, t)
  BY <1>2 DEF n
<1>6. l.worker = w /\ l.task = t /\ l.generation = n.tasks[t].lease.generation
  BY <1>4, <1>5 DEF Handed
<1> QED BY <1>3, <1>4, <1>6

\* An agent's part in a step: it holds what it held, or nothing, or what it was
\* handed just now.
LEMMA AgentHolds ==
  ASSUME AInv, NEW w \in Worker, AgentStep(w)
  PROVE  /\ \A v \in Worker \ {w} : agents'[v] = agents[v]
         /\ \/ agents'[w].lease \in {agents[w].lease, NoLease}
            \/ agents'[w].lease.worker = w
<1>1. agents \in [Worker -> Agent]
  BY DEF AInv, AgentsTypeOK
<1>2. \A pc : Goes(w, pc) => /\ agents'[w].lease = NoLease
                             /\ \A v \in Worker \ {w} : agents'[v] = agents[v]
  BY <1>1 DEF Goes, Idle
<1>3. \A request : Fails(w, request) =>
        /\ agents'[w].lease = NoLease
        /\ \A v \in Worker \ {w} : agents'[v] = agents[v]
  BY <1>2 DEF Fails
<1>4. CASE AgentRegisters(w)
  BY <1>2, <1>3, <1>4 DEF AgentRegisters
<1>5. CASE AgentBeats(w)
  BY <1>2, <1>3, <1>5 DEF AgentBeats
<1>6. CASE AgentClaims(w)
  <2>1. ASSUME Claim(w), NEW l \in issued' \ issued,
               agents' = [agents EXCEPT ![w] = Executing(l)]
        PROVE  /\ \A v \in Worker \ {w} : agents'[v] = agents[v]
               /\ agents'[w].lease.worker = w
    BY <1>1, <2>1, HandedOut DEF AInv, Executing
  <2> QED BY <1>2, <1>3, <1>6, <2>1 DEF AgentClaims
<1>7. CASE AgentRenews(w)
  BY <1>1, <1>7 DEF AgentRenews, Loses, Agent
<1>8. CASE \E r \in Result : AgentExecutes(w, r)
  BY <1>1, <1>8 DEF AgentExecutes, Concludes, Idle, Agent
<1>9. CASE AgentReports(w)
  BY <1>2, <1>3, <1>9 DEF AgentReports
<1>10. CASE AgentInterrupted(w)
  BY <1>2, <1>10 DEF AgentInterrupted
<1>11. CASE AgentDrains(w)
  BY <1>2, <1>3, <1>11 DEF AgentDrains
<1> QED BY <1>4, <1>5, <1>6, <1>7, <1>8, <1>9, <1>10, <1>11 DEF AgentStep

\* What agents do not do leaves them as they are.
LEMMA AgentsStay ==
  ASSUME [DispatchNext]_allVars,
         ~\E w \in Worker : AgentStep(w) /\ UNCHANGED dispatches
  PROVE  UNCHANGED <<agents, produced>>
BY DEF DispatchNext, allVars, agentVars, Dispatch, CancelExecution, Waits, Returns,
       GiveUp, StrayHandled, ProcessEnds, Others

LEMMA OwnLeasesInv ==
  ASSUME AInv, OwnLeases, [DispatchNext]_allVars
  PROVE  OwnLeases'
<1>1. CASE \E w \in Worker : AgentStep(w)
  BY <1>1, AgentHolds DEF OwnLeases
<1>2. CASE ~\E w \in Worker : AgentStep(w)
  BY <1>2, AgentsStay DEF OwnLeases
<1> QED BY <1>1, <1>2

-----------------------------------------------------------------------------
(* The invariant of the refinement.                                        *)

RInv == DInv /\ NothingStored /\ OwnLeases

LEMMA RefinementInit == DispatchInit => RInv
<1> SUFFICES ASSUME DispatchInit PROVE RInv
  OBVIOUS
<1>1. DInv
  BY DispatchInitInv
<1>2. NothingStored
  BY DEF DispatchInit, Init, NothingStored
<1>3. OwnLeases
  BY DEF DispatchInit, AgentsInit, OwnLeases, Idle
<1> QED BY <1>1, <1>2, <1>3 DEF RInv

LEMMA RefinementInv ==
  ASSUME SaveMayFail = FALSE, RInv, [DispatchNext]_allVars
  PROVE  RInv'
BY DispatchNextInv, NothingStoredInv, OwnLeasesInv DEF RInv, DInv

\* A coordinator whose saves do not raise is up, with all of its memory stored,
\* or down.
LEMMA UpOrDown ==
  ASSUME RInv
  PROVE  /\ mode \in {"up", "down"}
         /\ mode = "up" => stored = memory
BY DEF RInv, NothingStored, DInv, AInv, IInv, TypeOK, UpIsDurable

\* Only a dispatcher's submission creates a task, in the snapshot too.
LEMMA AbsentStays ==
  ASSUME SaveMayFail = FALSE, RInv, [DispatchNext]_allVars, CreatesNoTask,
         NEW t \in Task, stored.tasks[t].status = "absent"
  PROVE  stored'.tasks[t].status = "absent"
<1>1. IInv /\ mode' \in {"up", "down"} /\ (mode' = "up" => stored' = memory')
  BY RefinementInv DEF RInv, NothingStored, DInv, AInv, IInv, TypeOK, UpIsDurable
<1>2. CASE Crash \/ Tick \/ UNCHANGED vars
  BY <1>2 DEF Crash, Tick, vars
<1>3. CASE Restart
  <2>1. stored'.tasks[t] = RestoreTask(stored.tasks[t])
    BY <1>3 DEF Restart, Restored
  <2>2. stored.tasks[t] \in TaskRecord
    BY <1>1 DEF IInv, TypeOK, Memory
  <2> QED BY <2>1, <2>2 DEF RestoreTask, TaskRecord
<1>4. CASE mode = "up" /\ mode' = "up"
  <2>1. memory.tasks[t].status = "absent" /\ stored' = memory'
    BY <1>1, <1>4, UpOrDown
  <2>2. ~LateRenewal(t)
    BY <2>1 DEF LateRenewal, Renew
  <2> QED BY <1>1, <1>4, <2>1, <2>2, OthersUntouched
<1>5. mode = "up" => mode' = "up" \/ Crash
  BY <1>1, UpOrDown, NextSteps, CreatesNoTaskNext
  DEF QuietStep, ClaimRaised, LeaseStep, Leases, Saved, Restart, Tick, vars
<1>6. mode = "down" => Crash \/ Restart \/ Tick \/ UNCHANGED vars
  BY <1>1, NextSteps, CreatesNoTaskNext
  DEF QuietStep, ClaimRaised, LeaseStep, Leases, Saved
<1> QED BY <1>1, <1>2, <1>3, <1>4, <1>5, <1>6, UpOrDown

-----------------------------------------------------------------------------
(* Steps that the caller and the running attempts of a task have no part   *)
(* in: nothing happens to it, or a claim hands it out.                     *)

SameParts(t) ==
  /\ CallerOf(dispatches'[t]) = CallerOf(dispatches[t])
  /\ AnswerGiven(dispatches'[t]) = AnswerGiven(dispatches[t])
  /\ ResultsOf(t)' = ResultsOf(t)

SameTask(t) ==
  /\ BudgetOf(stored'.tasks[t]) = BudgetOf(stored.tasks[t])
  /\ stored'.tasks[t].lease_generation = stored.tasks[t].lease_generation

\* The next attempt at t begins, unknown to its caller.
HandsOut(t) ==
  /\ dispatches[t].pc # "returned"
  /\ stored.tasks[t].lease_generation < BudgetOf(stored.tasks[t])
  /\ stored'.tasks[t].lease_generation = stored.tasks[t].lease_generation + 1
  /\ BudgetOf(stored'.tasks[t]) = BudgetOf(stored.tasks[t])

LEMMA StoredTasks ==
  ASSUME SaveMayFail = FALSE, RInv, [DispatchNext]_allVars, CreatesNoTask, NEW t \in Task
  PROVE  SameTask(t) \/ HandsOut(t)
<1>1. AbstractStep(t, stored.tasks[t], stored'.tasks[t])
  BY StoredSteps, CreatesNoTaskNext DEF AllSteps, RInv, DInv, AInv
<1>2. CASE stored.tasks[t].status = "absent"
  <2>1. stored'.tasks[t].status = "absent"
    BY <1>2, AbsentStays
  <2> QED BY <1>1, <1>2, <2>1 DEF AbstractStep, PhaseOf, SameTask, BudgetOf
<1>3. CASE stored.tasks[t].status # "absent"
  <2>1. dispatches[t].pc = "returned" => stored.tasks[t].status \in Terminal
    BY DEF RInv, NothingStored
  <2>2. stored.tasks[t].status \in TaskStatus
    BY DEF RInv, DInv, AInv, IInv, TypeOK, Memory, TaskRecord
  <2>3. PhaseOf(stored.tasks[t].status) # "absent"
    BY <1>3, <2>2 DEF PhaseOf, TaskStatus, Terminal
  <2>4. stored.tasks[t].status \in Terminal =>
          PhaseOf(stored.tasks[t].status) \notin {"waiting", "held"}
    BY DEF PhaseOf, Terminal
  <2> QED BY <1>1, <2>1, <2>3, <2>4 DEF AbstractStep, SameTask, HandsOut
<1> QED BY <1>2, <1>3

LEMMA CallerAnswered ==
  ASSUME RInv, NEW t \in Task
  PROVE  CallerOf(dispatches[t]) = "answered" <=> dispatches[t].pc = "returned"
<1>1. dispatches[t].pc \in {"idle", "waiting", "returned", "raised", "gone"}
  BY DEF RInv, DInv, Dispatcher
<1> QED BY <1>1 DEF CallerOf

LEMMA DeliverStep ==
  ASSUME RInv, NEW t \in Task, SameParts(t), HandsOut(t),
         Running(t)' \in {Running(t),
                          Running(t) \cup {stored'.tasks[t].lease_generation}}
  PROVE  Invocation!TaskStep(t)
<1>1. CallerOf(dispatches[t]) # "answered"
  BY CallerAnswered DEF HandsOut
<1>2. Invocation!Deliver(t)
  BY <1>1 DEF SameParts, HandsOut, Invocation!Deliver, Invocation!SameCaller,
              Invocation!SameBudget, Invocation!SameResults
<1> QED BY <1>2 DEF Invocation!TaskStep

LEMMA StayStep ==
  ASSUME NEW t \in Task, SameParts(t), SameTask(t), Running(t)' = Running(t)
  PROVE  Invocation!TaskStep(t)
<1>1. Invocation!Stay(t)
  BY DEF SameParts, SameTask, Invocation!Stay, Invocation!SameCaller,
         Invocation!SameBudget, Invocation!SameAttempts, Invocation!SameResults
<1> QED BY <1>1 DEF Invocation!TaskStep

LEMMA UnconcernedStep ==
  ASSUME SaveMayFail = FALSE, RInv, [DispatchNext]_allVars, CreatesNoTask,
         NEW t \in Task, SameParts(t), Running(t)' = Running(t)
  PROVE  Invocation!TaskStep(t)
BY StoredTasks, DeliverStep, StayStep

-----------------------------------------------------------------------------
(* The steps of agents.                                                    *)

LEMMA PartsStay ==
  ASSUME NEW t \in Task, dispatches'[t] = dispatches[t], produced' = produced
  PROVE  SameParts(t)
BY DEF SameParts, ResultsOf

LEMMA RunningStays ==
  ASSUME NEW t \in Task,
         \A v \in Worker :
           /\ agents'[v].pc = "executing" <=> agents[v].pc = "executing"
           /\ agents[v].pc = "executing" => agents'[v].lease = agents[v].lease
  PROVE  Running(t)' = Running(t)
<1>1. Executors(t)' = Executors(t)
  BY DEF Executors
<1>2. \A v \in Executors(t) : agents'[v].lease = agents[v].lease
  BY DEF Executors
<1> QED BY <1>1, <1>2 DEF Running

\* An agent begins to execute the lease it was handed.
LEMMA AgentBegins ==
  ASSUME RInv, NEW t \in Task, NEW w \in Worker, NEW l,
         agents[w].pc # "executing", agents' = [agents EXCEPT ![w] = Executing(l)]
  PROVE  Running(t)' = IF l.task = t THEN Running(t) \cup {l.generation} ELSE Running(t)
<1>1. agents \in [Worker -> Agent]
  BY DEF RInv, DInv, AInv, AgentsTypeOK
<1>2. /\ agents'[w].pc = "executing" /\ agents'[w].lease = l
      /\ \A v \in Worker \ {w} : agents'[v] = agents[v]
  BY <1>1 DEF Executing
<1>3. /\ w \notin Executors(t)
      /\ Executors(t)' = IF l.task = t THEN Executors(t) \cup {w} ELSE Executors(t)
  BY <1>2 DEF Executors
<1>4. \A v \in Executors(t) : v \in Worker \ {w}
  BY <1>3 DEF Executors
<1> QED BY <1>2, <1>3, <1>4 DEF Running

\* The agent that ends an execution was the only one in that attempt.
LEMMA AgentEnds ==
  ASSUME RInv, NEW t \in Task, NEW w \in Worker,
         agents[w].pc = "executing", agents'[w].pc # "executing",
         \A v \in Worker \ {w} : agents'[v] = agents[v]
  PROVE  LET l == agents[w].lease IN
         IF l.task = t
         THEN l.generation \in Running(t) /\ Running(t)' = Running(t) \ {l.generation}
         ELSE Running(t)' = Running(t)
<1> DEFINE l == agents[w].lease
<1>1. \A v \in Executors(t) :
        /\ v \in Worker /\ agents[v].lease \in issued
        /\ agents[v].lease.task = t /\ agents[v].lease.worker = v
  BY DEF Executors, RInv, DInv, AInv, Honest, OwnLeases
<1>2. Executors(t)' = Executors(t) \ {w}
  BY DEF Executors
<1>3. \A v \in Executors(t) \ {w} : agents'[v].lease = agents[v].lease
  BY <1>1
<1>4. CASE l.task = t
  <2>1. w \in Executors(t)
    BY <1>4 DEF Executors
  <2>2. \A v \in Executors(t) \ {w} : agents[v].lease.generation # l.generation
    BY <1>1, <2>1 DEF RInv, DInv, AInv, IInv, FencingTokensUnique
  <2> QED BY <1>2, <1>3, <1>4, <2>1, <2>2 DEF Running
<1>5. CASE l.task # t
  <2>1. w \notin Executors(t)
    BY <1>5 DEF Executors
  <2> QED BY <1>2, <1>3, <1>5, <2>1 DEF Running
<1> QED BY <1>4, <1>5

\* An attempt comes to a result, or its agent is interrupted.
LEMMA EndingStep ==
  ASSUME RInv, UNCHANGED <<vars, dispatches>>, NEW t \in Task, NEW w \in Worker,
         agents[w].pc = "executing", agents'[w].pc # "executing",
         \A v \in Worker \ {w} : agents'[v] = agents[v],
         \/ produced' = produced
         \/ \E r \in Result :
              produced' = produced \cup {[lease |-> agents[w].lease, result |-> r]}
  PROVE  Invocation!TaskStep(t)
<1> DEFINE l == agents[w].lease
<1>1. SameTask(t) /\ dispatches' = dispatches
  BY DEF SameTask, vars
<1>2. CASE l.task # t
  <2>1. ResultsOf(t)' = ResultsOf(t)
    <3>1. CASE produced' = produced
      BY <3>1 DEF ResultsOf
    <3>2. ASSUME NEW r \in Result,
                 produced' = produced \cup {[lease |-> l, result |-> r]}
          PROVE  ResultsOf(t)' = ResultsOf(t)
      <4>1. {q \in produced' : q.lease.task = t} = {q \in produced : q.lease.task = t}
        BY <1>2, <3>2
      <4> QED BY <4>1 DEF ResultsOf
    <3> QED BY <3>1, <3>2
  <2>2. Running(t)' = Running(t)
    BY <1>2, AgentEnds
  <2> QED BY <1>1, <2>1, <2>2, StayStep DEF SameParts
<1>3. CASE l.task = t
  <2>1. l.generation \in Running(t) /\ Running(t)' = Running(t) \ {l.generation}
    BY <1>3, AgentEnds
  <2>2. \/ ResultsOf(t)' = ResultsOf(t)
        \/ \E outcome \in Outcome :
             ResultsOf(t)' = ResultsOf(t) \cup
                               {[attempt |-> l.generation, outcome |-> outcome]}
    <3>1. CASE produced' = produced
      BY <3>1 DEF ResultsOf
    <3>2. ASSUME NEW r \in Result,
                 produced' = produced \cup {[lease |-> l, result |-> r]}
          PROVE  /\ r.outcome \in Outcome
                 /\ ResultsOf(t)' = ResultsOf(t) \cup
                      {[attempt |-> l.generation, outcome |-> r.outcome]}
      <4>1. {q \in produced' : q.lease.task = t} =
              {q \in produced : q.lease.task = t} \cup {[lease |-> l, result |-> r]}
        BY <1>3, <3>2
      <4>2. r.outcome \in Outcome
        BY ConstantsAssumption
      <4> DEFINE p == [lease |-> l, result |-> r]
      <4>3. p.lease.generation = l.generation /\ p.result.outcome = r.outcome
        OBVIOUS
      <4> HIDE DEF l, p
      <4>4. {q \in produced' : q.lease.task = t} =
              {q \in produced : q.lease.task = t} \cup {p}
        BY <4>1 DEF p
      <4> QED BY <4>2, <4>3, <4>4 DEF ResultsOf
    <3> QED BY <3>1, <3>2
  <2>3. Invocation!Finish(t)
    <3> HIDE DEF l
    <3> QED BY <1>1, <2>1, <2>2
            DEF SameTask, Invocation!Finish, Invocation!SameCaller,
                Invocation!SameBudget, Invocation!SameResults, Invocation!Came
  <2> QED BY <2>3 DEF Invocation!TaskStep
<1> QED BY <1>2, <1>3

\* A claim hands out a lease and its agent begins to execute it.
LEMMA BeginningStep ==
  ASSUME SaveMayFail = FALSE, RInv, [DispatchNext]_allVars, CreatesNoTask,
         UNCHANGED <<dispatches, produced>>, NEW t \in Task,
         NEW w \in Worker, agents[w].pc # "executing",
         Claim(w), NEW l \in issued' \ issued,
         agents' = [agents EXCEPT ![w] = Executing(l)]
  PROVE  Invocation!TaskStep(t)
<1>1. SameParts(t)
  BY PartsStay
<1>2. /\ l.generation = stored'.tasks[l.task].lease_generation
      /\ stored'.tasks[l.task].lease_generation
           = stored.tasks[l.task].lease_generation + 1
  BY HandedOut, NewGeneration, CreatesNoTaskNext DEF RInv, DInv, AInv
<1>3. CASE l.task # t
  <2>1. Running(t)' = Running(t)
    BY <1>3, AgentBegins
  <2> QED BY <1>1, <2>1, UnconcernedStep
<1>4. CASE l.task = t
  <2>1. Running(t)' = Running(t) \cup {stored'.tasks[t].lease_generation}
    BY <1>2, <1>4, AgentBegins
  <2>2. ~SameTask(t)
    <3>1. stored.tasks[t].lease_generation \in Nat
      BY DEF RInv, DInv, AInv, IInv, TypeOK, Memory, TaskRecord
    <3> QED BY <1>2, <1>4, <3>1 DEF SameTask
  <2> QED BY <1>1, <2>1, <2>2, StoredTasks, DeliverStep
<1> QED BY <1>3, <1>4

\* An agent's other steps.
LEMMA IdleStep ==
  ASSUME SaveMayFail = FALSE, RInv, [DispatchNext]_allVars, CreatesNoTask,
         UNCHANGED <<dispatches, produced>>, NEW t \in Task,
         \A v \in Worker :
           /\ agents'[v].pc = "executing" <=> agents[v].pc = "executing"
           /\ agents[v].pc = "executing" => agents'[v].lease = agents[v].lease
  PROVE  Invocation!TaskStep(t)
BY PartsStay, RunningStays, UnconcernedStep

LEMMA AgentsRefine ==
  ASSUME SaveMayFail = FALSE, RInv, [DispatchNext]_allVars, NEW t \in Task,
         NEW w \in Worker, AgentStep(w), UNCHANGED dispatches
  PROVE  Invocation!TaskStep(t)
<1>1. CreatesNoTask /\ agents \in [Worker -> Agent]
  BY AgentStepNext DEF RInv, DInv, AInv, AgentsTypeOK
<1>2. ASSUME NEW pc, pc # "executing", Goes(w, pc)
      PROVE  agents'[w].pc # "executing" /\ \A v \in Worker \ {w} : agents'[v] = agents[v]
  BY <1>1, <1>2 DEF Goes, Idle
<1>3. ASSUME NEW pc, pc # "executing", Goes(w, pc), agents[w].pc # "executing",
             UNCHANGED produced
      PROVE  Invocation!TaskStep(t)
  BY <1>1, <1>2, <1>3, IdleStep
<1>4. ASSUME NEW request, Fails(w, request), agents[w].pc # "executing"
      PROVE  Invocation!TaskStep(t)
  BY <1>3, <1>4 DEF Fails
<1>5. CASE AgentRegisters(w)
  BY <1>3, <1>4, <1>5 DEF AgentRegisters
<1>6. CASE AgentBeats(w)
  BY <1>3, <1>4, <1>6 DEF AgentBeats
<1>7. CASE AgentClaims(w)
  <2>1. agents[w].pc # "executing"
    BY <1>7 DEF AgentClaims
  <2>2. ASSUME Claim(w), UNCHANGED produced, NEW l \in issued' \ issued,
               agents' = [agents EXCEPT ![w] = Executing(l)]
        PROVE  Invocation!TaskStep(t)
    BY <1>1, <2>1, <2>2, BeginningStep
  <2> QED BY <1>3, <1>4, <1>7, <2>1, <2>2 DEF AgentClaims
<1>8. CASE AgentRenews(w)
  <2>1. \A v \in Worker : agents'[v].pc = agents[v].pc
                            /\ agents'[v].lease = agents[v].lease
    BY <1>1, <1>8 DEF AgentRenews, Loses, Agent
  <2> QED BY <1>1, <1>8, <2>1, IdleStep DEF AgentRenews
<1>9. ASSUME NEW r \in Result, AgentExecutes(w, r)
      PROVE  Invocation!TaskStep(t)
  <2>1. /\ agents'[w].pc # "executing"
        /\ \A v \in Worker \ {w} : agents'[v] = agents[v]
    BY <1>1, <1>9 DEF AgentExecutes, Concludes, Idle, Agent
  <2> QED BY <1>9, <2>1, EndingStep DEF AgentExecutes
<1>10. CASE AgentReports(w)
  BY <1>3, <1>4, <1>10 DEF AgentReports
<1>11. CASE AgentInterrupted(w)
  BY <1>2, <1>11, EndingStep DEF AgentInterrupted
<1>12. CASE AgentDrains(w)
  BY <1>3, <1>4, <1>12 DEF AgentDrains
<1> QED BY <1>5, <1>6, <1>7, <1>8, <1>9, <1>10, <1>11, <1>12 DEF AgentStep

-----------------------------------------------------------------------------
(* The steps of dispatchers, and of the process.                           *)

\* A submission, whose save does not raise: the caller waits.
LEMMA CallStep ==
  ASSUME SaveMayFail = FALSE, RInv, [DispatchNext]_allVars,
         NEW t \in Task, NEW s \in Submission, Dispatch(t, s), NEW u \in Task
  PROVE  Invocation!TaskStep(u)
<1>1. IInv /\ RInv' /\ Running(u)' = Running(u) /\ produced' = produced
  BY RefinementInv DEF RInv, DInv, AInv, Dispatch, agentVars, Running, Executors
<1>2. /\ mode = "up" /\ mode' = "up" /\ stored = memory /\ stored' = memory'
      /\ memory.tasks[t].status = "absent"
  BY UpOrDown, AllSaved
  DEF Dispatch, Submit, Persist, Saved, SaveRaised, SaveRefused, NotSaved
<1>3. CASE u # t
  <2>1. stored'.tasks[u] = stored.tasks[u] /\ dispatches'[u] = dispatches[u]
    <3>1. \E x : memory' = WithTask(memory, t, x)
      BY Persisted DEF Dispatch, Submit
    <3>2. memory'.tasks[u] = memory.tasks[u]
      BY <1>1, <1>3, <3>1, OthersLeave DEF IInv, TypeOK
    <3> QED BY <1>2, <1>3, <3>2 DEF Dispatch, RInv, DInv
  <2> QED BY <1>1, <2>1, PartsStay, StayStep DEF SameTask
<1>4. CASE u = t
  <2>1. /\ dispatches[t].pc = "idle" /\ dispatches'[t].pc = "waiting"
        /\ ResultsOf(t)' = ResultsOf(t)
    BY <1>1, <1>2 DEF Dispatch, Acknowledged, RInv, DInv, Dispatcher, ResultsOf
  <2>2. /\ stored.tasks[t].status = "absent" /\ stored'.tasks[t].status = "queued"
        /\ AbstractStep(t, stored.tasks[t], stored'.tasks[t])
    BY <1>1, <1>2, SubmitAlone, StoredSteps, DispatchNextNext
    DEF Dispatch, AllSteps, RInv, DInv
  <2>3. /\ stored'.tasks[t].lease_generation = stored.tasks[t].lease_generation
        /\ BudgetOf(stored'.tasks[t]) \in Nat \ {0}
    BY <2>2 DEF AbstractStep, PhaseOf, Terminal
  <2>4. Invocation!Call(t)
    BY <1>1, <1>4, <2>1, <2>3
    DEF CallerOf, AnswerGiven, Invocation!Call, Invocation!SameAttempts,
        Invocation!SameResults
  <2> QED BY <1>4, <2>4 DEF Invocation!TaskStep
<1> QED BY <1>3, <1>4

\* The answer is the terminal task's: a result of the attempt that it names, or
\* a reason why there is none.
LEMMA AnswerStep ==
  ASSUME RInv, NEW t \in Task, Returns(t), NEW u \in Task
  PROVE  Invocation!TaskStep(u)
<1> DEFINE task   == memory.tasks[t]
           answer == AnswerOf(task)
<1>1. /\ UNCHANGED <<memory, stored, agents, produced>>
      /\ task.status \in Terminal /\ dispatches[t].pc = "waiting" /\ mode # "down"
      /\ dispatches' = [dispatches EXCEPT ![t].pc = "returned", ![t].answer = answer]
  BY DEF Returns, ObserveTask, agentVars
<1>2. SameTask(u) /\ Running(u)' = Running(u) /\ ResultsOf(u)' = ResultsOf(u)
  BY <1>1 DEF SameTask, Running, Executors, ResultsOf
<1>3. CASE u # t
  <2>1. dispatches'[u] = dispatches[u]
    BY <1>1, <1>3 DEF RInv, DInv
  <2> QED BY <1>1, <1>2, <2>1, PartsStay, StayStep
<1>4. CASE u = t
  <2>1. /\ dispatches'[t].pc = "returned" /\ dispatches'[t].answer = answer
    BY <1>1 DEF RInv, DInv, Dispatcher
  <2>2. /\ answer.attempt = stored.tasks[t].lease_generation
        /\ answer.attempt \in Nat
    BY <1>1, UpOrDown, TaskInMemory
    DEF RInv, DInv, AInv, GoodTask, BudgetKept, TaskRecord, Terminal, AnswerOf
  <2>3. Reasons(t, answer, produced, now, dispatches[t])
    BY <1>1 DEF RInv, DInv, WaitsFor
  <2> HIDE DEF answer
  <2>4. \/ /\ [attempt |-> answer.attempt, outcome |-> answer.result] \in ResultsOf(t)
           /\ answer.result \in Outcome
        \/ answer.result \in TerminationCause \ {"attempts_exhausted"}
    <3>1. ASSUME NEW p \in produced, p.lease.task = t,
                 p.lease.generation = answer.attempt,
                 p.result.outcome = answer.result
          PROVE  /\ [attempt |-> answer.attempt, outcome |-> answer.result] \in ResultsOf(t)
                 /\ answer.result \in Outcome
      <4>1. p.result \in Result
        BY DEF RInv, DInv, AInv, AgentsTypeOK, Product
      <4> QED BY <3>1, <4>1, ConstantsAssumption DEF ResultsOf
    <3> QED BY <2>3, <3>1 DEF Reasons, TerminationCause
  <2>5. Invocation!Answer(t)
    <3>1. CallerOf(dispatches[t]) = "waiting" /\ CallerOf(dispatches'[t]) = "answered"
      BY <1>1, <2>1 DEF CallerOf
    <3>2. AnswerGiven(dispatches'[t]) =
            [attempt |-> answer.attempt, outcome |-> answer.result]
      BY <2>1 DEF AnswerGiven
    <3>3. answer.attempt \in 0 .. stored.tasks[t].lease_generation
      BY <2>2
    <3> QED BY <1>2, <1>4, <2>4, <3>1, <3>2, <3>3
            DEF SameTask, Invocation!Answer, Invocation!Came, Invocation!SameBudget,
                Invocation!SameAttempts, Invocation!SameResults
  <2> QED BY <1>4, <2>5 DEF Invocation!TaskStep
<1> QED BY <1>3, <1>4

\* Giving up ends the task, not yet the wait.
LEMMA GiveUpStep ==
  ASSUME SaveMayFail = FALSE, RInv, [DispatchNext]_allVars,
         NEW t \in Task, NEW cause \in CancelCause, GiveUp(t, cause), NEW u \in Task
  PROVE  Invocation!TaskStep(u)
<1>1. CreatesNoTask
  BY DEF GiveUp, CreatesNoTask
<1>2. mode' = mode /\ mode = "up"
  BY UpOrDown DEF GiveUp, Cancel, Saved, NotSaved, SaveRaised, SaveRefused
<1>3. dispatches' = dispatches
  <2>1. Finished(memory.tasks[t]) \/ Acknowledged
    BY <1>2 DEF Acknowledged
  <2> QED BY <2>1 DEF GiveUp
<1>4. Running(u)' = Running(u) /\ produced' = produced
  BY DEF GiveUp, agentVars, Running, Executors
<1> QED BY <1>1, <1>3, <1>4, PartsStay, UnconcernedStep

\* A caller does not survive its process.
LEMMA LossStep ==
  ASSUME RInv, ProcessEnds, NEW u \in Task
  PROVE  Invocation!TaskStep(u)
<1>1. SameTask(u) /\ Running(u)' = Running(u) /\ ResultsOf(u)' = ResultsOf(u)
  BY DEF ProcessEnds, Crash, SameTask, Running, Executors, ResultsOf
<1>2. CASE dispatches[u].pc # "waiting"
  BY <1>1, <1>2, StayStep DEF ProcessEnds, SameParts
<1>3. CASE dispatches[u].pc = "waiting"
  <2>1. dispatches'[u].pc = "gone"
    BY <1>3 DEF ProcessEnds, RInv, DInv, Dispatcher
  <2>2. Invocation!Lose(u)
    BY <1>1, <1>3, <2>1
    DEF SameTask, CallerOf, AnswerGiven, Invocation!Lose, Invocation!SameBudget,
        Invocation!SameAttempts, Invocation!SameResults
  <2> QED BY <2>2 DEF Invocation!TaskStep
<1> QED BY <1>2, <1>3

\* The clock, a restart, a late request and a cancellation.
LEMMA OtherStep ==
  ASSUME SaveMayFail = FALSE, RInv, [DispatchNext]_allVars, NEW u \in Task,
         CreatesNoTask, UNCHANGED <<agents, produced>>,
         \/ dispatches' = dispatches
         \/ \E t \in Task : CancelExecution(t)
  PROVE  Invocation!TaskStep(u)
<1>1. Running(u)' = Running(u) /\ ResultsOf(u)' = ResultsOf(u)
  BY DEF Running, Executors, ResultsOf
<1>2. /\ dispatches'[u].pc = dispatches[u].pc
      /\ dispatches'[u].answer = dispatches[u].answer
  BY DEF CancelExecution, RInv, DInv, Dispatcher
<1>3. SameParts(u)
  BY <1>1, <1>2 DEF SameParts, CallerOf, AnswerGiven
<1> QED BY <1>1, <1>3, UnconcernedStep

-----------------------------------------------------------------------------
(* The refinement.                                                         *)

LEMMA InvocationInit == DispatchInit => Invocation!Init
BY DEF DispatchInit, Init, AgentsInit, EmptyMemory, EmptyTask, Idle, CallerOf,
       AnswerGiven, Running, Executors, ResultsOf, BudgetOf, Invocation!Init

LEMMA InvocationNext ==
  ASSUME SaveMayFail = FALSE, RInv, [DispatchNext]_allVars
  PROVE  Invocation!Next
<1> SUFFICES ASSUME NEW u \in Task PROVE Invocation!TaskStep(u)
  BY DEF Invocation!Next
<1>1. CASE \E t \in Task, s \in Submission : Dispatch(t, s)
  BY <1>1, CallStep
<1>2. CASE \E w \in Worker : AgentStep(w) /\ UNCHANGED dispatches
  BY <1>2, AgentsRefine
<1>3. CASE \E t \in Task : Waits(t)
  BY <1>3, AnswerStep, GiveUpStep DEF Waits
<1>4. CASE ProcessEnds
  BY <1>4, LossStep
<1>5. ASSUME ~\E t \in Task, s \in Submission : Dispatch(t, s),
             ~\E w \in Worker : AgentStep(w) /\ UNCHANGED dispatches,
             ~\E t \in Task : Waits(t),
             ~ProcessEnds
      PROVE  Invocation!TaskStep(u)
  <2>1. CreatesNoTask /\ UNCHANGED <<agents, produced>>
    BY <1>5, OtherSteps, AgentsStay DEF RInv, DInv
  <2>2. dispatches' = dispatches \/ \E t \in Task : CancelExecution(t)
    BY <1>5 DEF DispatchNext, Others, allVars
  <2> QED BY <2>1, <2>2, OtherStep
<1> QED BY <1>1, <1>2, <1>3, <1>4, <1>5

\* With a store whose saves do not raise, and however requests are lost, delayed
\* and overtaken, agents interrupted and the coordinator restarted, whoever
\* dispatches a Worker to the fleet gets what RemoteInvocation promises: every
\* attempt runs at most once, max_attempts bounds them, the answer is what an
\* attempt came to or a reason why there is none, and no attempt is handed out
\* after the answer.
THEOREM InvocationTheorem ==
  ASSUME SaveMayFail = FALSE
  PROVE  DispatchSpec => ImplementsRemoteInvocation
<1>1. DispatchInit => RInv
  BY RefinementInit
<1>2. RInv /\ [DispatchNext]_allVars => RInv'
  BY RefinementInv
<1>3. RInv /\ [DispatchNext]_allVars => [Invocation!Next]_(Invocation!vars)
  BY InvocationNext
<1> QED BY <1>1, <1>2, <1>3, InvocationInit, PTL
        DEF DispatchSpec, ImplementsRemoteInvocation, Invocation!Spec

=============================================================================
