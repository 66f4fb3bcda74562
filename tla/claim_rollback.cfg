SPECIFICATION Spec
CONSTANTS
  Proc = {p1}
  Profile <- PrototypeProfile
  Plan <- SmallPlans
  Signature = {s1}
  Intervention = {"rollback"}
  MaxNumber = 1
  MaxRevision = 2
  MaxOps = 6
  MaxRuns = 4
  MaxVersion = 3
  MaxCrashes = 0
INVARIANTS
  RolledBackNotDelivered
CHECK_DEADLOCK FALSE
