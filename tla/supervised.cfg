SPECIFICATION Spec
CONSTANTS
  Proc = {p1, p2}
  Profile <- PrototypeProfile
  Plan <- FullPlan
  Signature = {s1}
  Intervention = {"revise", "resume", "rollback", "block", "paused-host-limit", "reviewer"}
  MaxNumber = 1
  MaxRevision = 2
  MaxOps = 7
  MaxRuns = 4
  MaxVersion = 2
  MaxCrashes = 0
SYMMETRY Processes
INVARIANTS
  TypeOK
  CeilingsKept
  ApprovedPlanRuns
PROPERTIES
  LossNeedsOverlap
CHECK_DEADLOCK FALSE
