------------------------- MODULE WorkflowDefinition -------------------------
(***************************************************************************)
(* An approved workflow definition (src/workflow/definition.js): the task  *)
(* graph, the review policy and the budget envelope.  A definition is a    *)
(* record                                                                  *)
(*                                                                         *)
(*   tasks       the tasks of the graph                                    *)
(*   deps        dependsOn of each task                                    *)
(*   order       the position of each task after validateTaskGraph         *)
(*   targeted    how many targeted verification commands a task has        *)
(*   reviewEach  checkpointPolicy.reviewerAfterEachTask                    *)
(*   finalReview reviewerPolicy.requiredForFinalize                        *)
(*   ops, alloc  modelOperations and its split into allocations            *)
(*   protected   protectedAllocations                                      *)
(*   reserve     thresholds.reservePercent                                 *)
(*   maxRepairs, maxWorkers, maxRuns                                       *)
(*               maxRepairsPerCheckpoint, maxConcurrentWorkers and         *)
(*               maxTargetedVerificationRuns                               *)
(*                                                                         *)
(* Left out: titles, scopes, stopping conditions and commands as text; the *)
(* full-run and output meters, which maxRuns stands for.                   *)
(***************************************************************************)
EXTENDS Integers, FiniteSets, FiniteSetsExt

CONSTANT Task

Allocation ==
  {"implementation", "repair", "completion", "reviewer", "finalization"}

AllocSum(f) ==
  f["implementation"] + f["repair"] + f["completion"] + f["reviewer"]
    + f["finalization"]

DefinitionShape ==
  [tasks : SUBSET Task, deps : [Task -> SUBSET Task], order : [Task -> Nat],
   targeted : [Task -> Nat], reviewEach : BOOLEAN, finalReview : BOOLEAN,
   ops : Nat, alloc : [Allocation -> Nat], protected : SUBSET Allocation,
   reserve : 2..99, maxRepairs : 0..20, maxWorkers : 1..16, maxRuns : Nat]

(* normalizeBudget: what the envelope itself must satisfy. *)
BudgetValid(d) ==
  /\ d.ops \in 1..10000
  /\ AllocSum(d.alloc) = d.ops
  /\ {"completion", "reviewer", "finalization"} \subseteq d.protected
  /\ \A a \in {"completion", "reviewer", "finalization"} : d.alloc[a] >= 1
  /\ d.maxRuns \in 1..10000

(* assertVerificationBudgetFits: one baseline, one first run and one run   *)
(* for each repair of every targeted command.                              *)
VerificationFits(d) ==
  MapThenSumSet(LAMBDA t : d.targeted[t], d.tasks) * (2 + d.maxRepairs)
    <= d.maxRuns

(* assertReviewerBudgetFits: an operation for each review the policy asks. *)
ReviewerFits(d) ==
  (IF d.reviewEach THEN Cardinality(d.tasks) ELSE 0)
    + (IF d.finalReview THEN 1 ELSE 0) <= d.alloc["reviewer"]

(* validateTaskGraph: the order it returns puts every task after its       *)
(* dependencies, which exist; that such an order exists is acyclicity.     *)
GraphValid(d) ==
  /\ d.tasks # {} /\ IsFiniteSet(d.tasks)
  /\ \A t \in d.tasks :
       /\ d.deps[t] \subseteq d.tasks
       /\ \A u \in d.tasks : d.order[u] = d.order[t] => u = t
       /\ \A u \in d.deps[t] : d.order[u] < d.order[t]

ValidDefinition(d) ==
  /\ d \in DefinitionShape
  /\ GraphValid(d)
  /\ BudgetValid(d)
  /\ VerificationFits(d)
  /\ ReviewerFits(d)
=============================================================================
