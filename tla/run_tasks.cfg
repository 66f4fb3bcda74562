SPECIFICATION Spec
CONSTANTS
  t1 = t1
  t2 = t2
  Task <- MCTask
  Definition <- TaskPlans
  Signature = {s1}
  Worker = {w1}
  Observable = {"environment-failure", "pre-existing-failure"}
  TaskUsage = {1}
  ReviewUsage = {1}
  Intervention = {"block", "retry", "reassign", "waive", "pause-host-limit"}
  MaxAttempts = 2
  MaxOps = 9
  MaxRevision = 1
  MaxCrashes = 0
INVARIANTS
  BlockedTogether
  WorkAdmissible
PROPERTIES
  EvidenceFrozen
CHECK_DEADLOCK FALSE
