--------------------------- MODULE MCWorkflowRun ----------------------------
(***************************************************************************)
(* Instances of WorkflowRun for TLC: plans over two tasks, independent or  *)
(* in a chain.  Each set of plans below serves the runs named with it.     *)
(***************************************************************************)
EXTENDS WorkflowRunClaims, WorkflowRunGate

CONSTANTS t1, t2

MCTask == {t1, t2}

Chain == [t \in MCTask |-> IF t = t1 THEN {} ELSE {t1}]
Flat  == [t \in MCTask |-> {}]

(* Eight operations, of which three for attempts and two for reviews; one  *)
(* targeted command a task; a reserve threshold of half the envelope.      *)
Base ==
  [tasks |-> MCTask, deps |-> Flat,
   order |-> [t \in Task |-> IF t = t1 THEN 1 ELSE 2],
   targeted |-> [t \in Task |-> 1],
   reviewEach |-> FALSE, finalReview |-> TRUE,
   ops |-> 8,
   alloc |-> [implementation |-> 2, repair |-> 2, completion |-> 1,
              reviewer |-> 2, finalization |-> 1],
   protected |-> {"completion", "reviewer", "finalization"},
   reserve |-> 50, maxRepairs |-> 1, maxWorkers |-> 2, maxRuns |-> 8]

(* tasks: two workers or one on independent tasks, and two on a chain, so  *)
(* that neither the order nor the number of workers stands for the other.  *)
TaskPlans ==
  {Base, [Base EXCEPT !.maxWorkers = 1], [Base EXCEPT !.deps = Chain]}

(* budget: no repair, a reserve that one attempt at each task reaches. *)
BudgetPlans ==
  {[Base EXCEPT !.maxRepairs = 0, !.maxRuns = 4, !.reserve = 25]}

(* lifecycle: without a final review, and with every checkpoint and the    *)
(* whole run reviewed.                                                     *)
ReviewedPlan ==
  [Base EXCEPT !.reviewEach = TRUE, !.deps = Chain,
               !.alloc = [implementation |-> 2, repair |-> 1, completion |-> 1,
                          reviewer |-> 3, finalization |-> 1]]
ReviewedPlans == {ReviewedPlan}
LifecyclePlans == {[Base EXCEPT !.finalReview = FALSE], ReviewedPlan}

(* revision: a chain of two tasks, and its first task alone with smaller   *)
(* shares and a smaller verification ceiling.                              *)
RevisedPlans ==
  {[Base EXCEPT !.deps = Chain, !.maxRuns = 9],
   [Base EXCEPT !.tasks = {t1}, !.alloc["implementation"] = 1,
                !.alloc["completion"] = 2]}
=============================================================================
