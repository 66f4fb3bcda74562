SPECIFICATION Spec
CONSTANTS
  t1 = t1
  t2 = t2
  Task <- MCTask
  Definition <- LifecyclePlans
  Signature = {s1}
  Worker = {}
  Observable = {"environment-failure"}
  TaskUsage = {1}
  ReviewUsage = {1}
  Intervention = {"cancel", "timeout", "rollback", "abandon", "retry", "resume", "interrupt"}
  MaxAttempts = 2
  MaxOps = 9
  MaxRevision = 1
  MaxCrashes = 1
INVARIANTS
  CompletedVerified
  EvidenceOnDisk
  PassCoversWork
PROPERTIES
  FinalizedFrozen
  GateKept
CHECK_DEADLOCK FALSE
