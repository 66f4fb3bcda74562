SPECIFICATION Spec
CONSTANTS
  t1 = t1
  t2 = t2
  Task <- MCTask
  Definition <- RevisedPlans
  Signature = {s1}
  Worker = {}
  Observable = {"environment-failure"}
  TaskUsage = {1}
  ReviewUsage = {1}
  Intervention = {"pause-budget-safe", "resume"}
  MaxAttempts = 2
  MaxOps = 9
  MaxRevision = 2
  MaxCrashes = 0
INVARIANTS
  EvidenceGates
CHECK_DEADLOCK FALSE
