SPECIFICATION HostSpec
CONSTANTS
  t1 = t1
  t2 = t2
  Task <- MCTask
  Definition <- HostPlans
  Signature = {s1}
  Worker = {}
  Observable = {}
  TaskUsage = {1}
  ReviewUsage = {1}
  Intervention = {"resume", "pause-budget-safe"}
  MaxAttempts = 1
  MaxOps = 6
  MaxRevision = 1
  MaxCrashes = 0
  Event <- MCEvent
  Binding <- MCBinding
  Worktree = {"w1", "w2"}
  RivalWorktree = "w1"
  Owner = "native"
  MaxCuts = 1
INVARIANTS
  HostTypeOK
  HostLimitHolds
  LedgerAccounts
  StopHolds
  BoundWorktreeOwned
  ApprovedUntouched
PROPERTIES
  OwnershipExclusive
CHECK_DEADLOCK FALSE
