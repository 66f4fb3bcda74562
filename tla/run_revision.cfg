SPECIFICATION Spec
CONSTANTS
  t1 = t1
  t2 = t2
  Task <- MCTask
  Definition <- RevisedPlans
  Signature = {s1}
  Worker = {}
  Observable = {"environment-failure"}
  TaskUsage = {1, 2}
  ReviewUsage = {1}
  Intervention = {"retry", "resume", "add-budget"}
  MaxAttempts = 2
  MaxOps = 9
  MaxRevision = 3
  MaxCrashes = 1
INVARIANTS
  TypeOK
  BudgetConserved
  BlockedTogether
CHECK_DEADLOCK FALSE
