----------------------- MODULE FleetRefinementProofs ------------------------
(***************************************************************************)
(* Every behaviour of the coordinator is one of FencedDelivery, for every  *)
(* set of workers and tasks and every value of the bounds.                 *)
(***************************************************************************)
EXTENDS FleetRefinement, FleetCoordinatorProofs

AbstractStep(t, old, new) ==
  LET moves(from, to) == PhaseOf(old.status) \in from /\ PhaseOf(new.status) \in to
      same == /\ new.lease_generation = old.lease_generation
              /\ BudgetOf(new) = BudgetOf(old)
  IN
  \/ /\ moves({"absent"}, {"waiting"})
     /\ new.lease_generation = old.lease_generation
     /\ BudgetOf(new) \in Nat \ {0}
  \/ /\ moves({"waiting", "held"}, {"held"})
     /\ old.lease_generation < BudgetOf(old)
     /\ new.lease_generation = old.lease_generation + 1
     /\ BudgetOf(new) = BudgetOf(old)
  \/ /\ moves({"held"}, {"waiting"})
     /\ old.lease_generation < BudgetOf(old)
     /\ same
  \/ moves({"waiting", "held"}, Terminal) /\ same
  \/ moves(Terminal, {"failed"}) /\ same
  \/ PhaseOf(new.status) = PhaseOf(old.status) /\ same

\* A task that a quiet step moves, moves as FencedDelivery allows.
LEMMA KeptAbstractStep ==
  ASSUME NEW t, NEW old \in TaskRecord, GoodTask(old), NEW new, GoodNext(old, new)
  PROVE  AbstractStep(t, old, new)
<1>1. /\ new \in TaskRecord /\ GoodTask(new)
      /\ TaskKept(old, new)
      /\ new.lease_generation = old.lease_generation
  BY DEF GoodNext, TaskKept
<1>2. CASE old.status = "absent"
  <2>1. CASE new.status = "absent"
    BY <1>1, <1>2, <2>1 DEF AbstractStep, PhaseOf, BudgetOf
  <2>2. CASE new.status = "queued"
    <3>1. BudgetOf(new) \in Nat \ {0}
      BY <1>1, <2>2, ConstantsAssumption DEF BudgetOf, GoodTask, LeaseAgrees
    <3> QED BY <1>1, <1>2, <2>2, <3>1 DEF AbstractStep, PhaseOf
  <2> QED BY <1>1, <1>2, <2>1, <2>2 DEF TaskKept
<1>3. CASE old.status # "absent"
  <2>1. new.status # "absent" /\ BudgetOf(new) = BudgetOf(old)
    BY <1>1, <1>3 DEF TaskKept, BudgetOf
  <2>2. CASE new.status = "queued" /\ old.status = "running"
    <3>1. old.lease_generation < BudgetOf(old)
      BY <1>1, <1>3, <2>1, <2>2
      DEF GoodTask, BudgetKept, AttemptsLeft, BudgetOf
    <3> QED BY <1>1, <2>1, <2>2, <3>1 DEF AbstractStep, PhaseOf
  <2>3. CASE new.status = old.status
    BY <1>1, <2>1, <2>3 DEF AbstractStep, PhaseOf
  <2>4. CASE old.status \in {"queued", "running"} /\ new.status \in Terminal
    BY <1>1, <2>1, <2>4 DEF AbstractStep, PhaseOf, Terminal
  <2>5. CASE old.status \in Terminal /\ new.status # old.status
    <3>1. new.status = "failed"
      BY <1>1, <2>5 DEF TaskKept
    <3> QED BY <1>1, <2>1, <2>5, <3>1 DEF AbstractStep, PhaseOf, Terminal
  <2>6. /\ old.status \in TaskStatus /\ new.status \in TaskStatus
        /\ new.status = "running" => old.status = "running"
        /\ old.status \in Terminal => new.status \in Terminal
    BY <1>1 DEF TaskRecord, TaskKept, Terminal
  <2> QED BY <1>3, <2>1, <2>2, <2>3, <2>4, <2>5, <2>6 DEF TaskStatus
<1> QED BY <1>2, <1>3

\* So does the task that a claim leases, whether from the queue or in one save
\* from a holder whose lease had expired.
LEMMA LeasedAbstractStep ==
  ASSUME NEW m \in Memory, NEW t \in Task, NEW w \in Worker,
         NEW old \in TaskRecord, GoodTask(old),
         GoodNext(old, m.tasks[t]), m.tasks[t].status = "queued",
         old.status # "absent",
         m.workers[w].registration \in Registration, now \in Nat, boot \in Nat
  PROVE  AbstractStep(t, old, Leased(m, t, w).tasks[t])
<1> DEFINE mid == m.tasks[t]
           new == Leased(m, t, w).tasks[t]
<1>1. GoodTask(mid) /\ mid \in TaskRecord /\ TaskKept(old, mid)
  BY DEF GoodNext
<1>2. /\ new.status = "running"
      /\ new.lease_generation = mid.lease_generation + 1
      /\ new.submission = mid.submission
  BY <1>1, LeasedGood
<1> HIDE DEF new
<1>3. /\ mid.lease_generation = old.lease_generation
      /\ mid.submission = old.submission
      /\ old.status \notin Terminal
  BY <1>1 DEF TaskKept, Terminal
<1>4. old.status \in {"queued", "running"}
  BY <1>3 DEF TaskRecord, TaskStatus
<1>5. old.lease_generation < BudgetOf(old)
  BY <1>1, <1>3 DEF GoodTask, BudgetKept, AttemptsLeft, BudgetOf
<1>6. BudgetOf(new) = BudgetOf(old)
  BY <1>2, <1>3 DEF BudgetOf
<1> QED BY <1>2, <1>3, <1>4, <1>5, <1>6 DEF AbstractStep, PhaseOf, new

-----------------------------------------------------------------------------
AllSteps(m) == \A t \in Task : AbstractStep(t, stored.tasks[t], m.tasks[t])

LEMMA QuietAllSteps ==
  ASSUME NEW k \in Memory, GoodMemory(k), NEW n, GoodStep(k, n), stored = k
  PROVE  AllSteps(n)
<1>1. \A t \in Task : k.tasks[t] \in TaskRecord /\ GoodTask(k.tasks[t])
  BY DEF Memory, GoodMemory
<1> QED BY <1>1, KeptAbstractStep DEF GoodStep, AllSteps

LEMMA LeasedAllSteps ==
  ASSUME IInv, mode = "up", NEW passed \in Memory, GoodStep(memory, passed),
         NEW w \in Worker, NEW t \in Task,
         memory.tasks[t].status # "absent", passed.tasks[t].status = "queued",
         passed.workers[w].registration \in Registration
  PROVE  AllSteps(Leased(passed, t, w))
<1> DEFINE n == Leased(passed, t, w)
<1>1. stored = memory /\ now \in Nat /\ boot \in Nat
  BY DEF IInv, TypeOK, UpIsDurable
<1>2. \A u \in Task : /\ memory.tasks[u] \in TaskRecord
                      /\ GoodTask(memory.tasks[u])
                      /\ GoodNext(memory.tasks[u], passed.tasks[u])
  BY DEF IInv, TypeOK, Memory, GoodMemory, GoodStep
<1>3. AbstractStep(t, memory.tasks[t], n.tasks[t])
  BY <1>1, <1>2, LeasedAbstractStep
<1>4. \A u \in Task \ {t} : n.tasks[u] = passed.tasks[u]
  BY LeasedGeneration
<1> HIDE DEF n
<1>5. \A u \in Task \ {t} : AbstractStep(u, memory.tasks[u], n.tasks[u])
  BY <1>2, <1>4, KeptAbstractStep
<1> QED BY <1>1, <1>3, <1>5 DEF AllSteps, n

LEMMA StoredSteps ==
  ASSUME IInv, [Next]_vars
  PROVE  AllSteps(stored')
<1>1. /\ memory \in Memory /\ GoodMemory(memory)
      /\ stored \in Memory /\ GoodMemory(stored)
      /\ mode = "up" => stored = memory
  BY DEF IInv, TypeOK, UpIsDurable
<1>2. CASE UNCHANGED stored
  BY <1>1, <1>2, SameGoodStep, QuietAllSteps
<1>3. CASE QuietStep
  BY <1>1, <1>2, <1>3, QuietAllSteps DEF QuietStep
<1>4. CASE ClaimRaised
  BY <1>1, <1>4, QuietAllSteps, LeasedAllSteps DEF ClaimRaised
<1>5. CASE LeaseStep
  BY <1>5, LeasedAllSteps DEF LeaseStep, Leases, Saved
<1>6. CASE Restart
  BY <1>1, <1>6, RestoredGood, QuietAllSteps DEF Restart
<1>7. CASE Crash \/ Tick \/ UNCHANGED vars
  BY <1>2, <1>7 DEF Crash, Tick, vars
<1> QED BY <1>3, <1>4, <1>5, <1>6, <1>7, NextSteps

LEMMA RefinedInit == Init => Delivery!Init
BY DEF Init, Delivery!Init, EmptyMemory, EmptyTask, PhaseOf, BudgetOf

LEMMA RefinedNext == IInv /\ [Next]_vars => [Delivery!Next]_(Delivery!vars)
<1> SUFFICES ASSUME IInv, [Next]_vars PROVE Delivery!Next
  OBVIOUS
<1> SUFFICES ASSUME NEW t \in Task PROVE Delivery!TaskStep(t)
  BY DEF Delivery!Next
<1>1. AbstractStep(t, stored.tasks[t], stored'.tasks[t])
  BY StoredSteps DEF AllSteps
<1> QED BY <1>1
  DEF AbstractStep, Terminal, Delivery!TaskStep, Delivery!Submit,
      Delivery!HandOut, Delivery!TakeBack, Delivery!End, Delivery!Overrule,
      Delivery!Stay, Delivery!Moves, Delivery!SameBudget,
      Delivery!SameGeneration, Delivery!Outcomes

\* The coordinator implements at-least-once, budgeted, fenced delivery.
THEOREM Refinement == Spec => ImplementsFencedDelivery
<1> QED BY RefinedInit, RefinedNext, Invariance, PTL
        DEF Spec, ImplementsFencedDelivery, Delivery!Spec

=============================================================================
