SPECIFICATION Spec
CONSTANTS
  Proc = {p1}
  Profile <- CriticalProfile
  Plan <- FullPlan
  Signature = {s1}
  Intervention = {"advance", "revise", "block", "resume", "rollback", "cancelled", "paused-budget-safe", "verification"}
  MaxNumber = 2
  MaxRevision = 2
  MaxOps = 15
  MaxRuns = 11
  MaxVersion = 3
  MaxCrashes = 1
INVARIANTS
  DeliveredIsReviewed
  WorkerOwnsWorktree
PROPERTIES
  HistoryKept
CHECK_DEADLOCK FALSE
