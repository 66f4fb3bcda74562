------------------------ MODULE WorkflowTransitions ------------------------
(***************************************************************************)
(* The three transition tables of src/workflow/transitions.js.             *)
(*                                                                         *)
(* In each table the next status depends on the event only, so a table is  *)
(* written by event: the statuses the event is legal from, and the status  *)
(* it leads to.  An event outside its sources makes the code throw.        *)
(***************************************************************************)

FailureClassification ==
  { "baseline-failure", "new-regression", "pre-existing-failure",
    "environment-failure", "dependency-failure", "flaky-result",
    "invalid-test", "ambiguous-requirement", "repeated-failure",
    "non-waivable-gate" }

Waivable == { "pre-existing-failure" }

RevisionRequired ==
  { "baseline-failure", "invalid-test", "ambiguous-requirement",
    "non-waivable-gate" }

TaskStatus ==
  { "pending", "ready", "running", "verifying", "review-pending", "blocked",
    "failed", "timed-out", "completed", "cancelled", "rolled-back",
    "abandoned" }

TaskEdge(e) ==
  CASE e = "dependencies-satisfied" ->
         [from |-> {"pending"}, to |-> "ready"]
    [] e = "start" -> [from |-> {"ready"}, to |-> "running"]
    [] e = "result-recorded" -> [from |-> {"running"}, to |-> "verifying"]
    [] e = "verification-passed" -> [from |-> {"verifying"}, to |-> "completed"]
    [] e = "verification-passed-review-required" ->
         [from |-> {"verifying"}, to |-> "review-pending"]
    [] e = "reviewer-pass" -> [from |-> {"review-pending"}, to |-> "completed"]
    [] e = "reviewer-block" ->
         [from |-> {"review-pending", "completed"}, to |-> "blocked"]
    [] e \in FailureClassification ->
         [from |-> {"running", "verifying"}, to |-> "blocked"]
    [] e = "block" ->
         [from |-> {"pending", "ready", "running", "verifying"},
          to |-> "blocked"]
    [] e = "retry" ->
         [from |-> {"blocked", "failed", "timed-out"}, to |-> "ready"]
    [] e = "revise" ->
         [from |-> {"ready", "blocked", "failed", "timed-out"}, to |-> "ready"]
    [] e = "reassign" -> [from |-> {"ready", "blocked"}, to |-> "ready"]
    [] e = "waive" -> [from |-> {"blocked"}, to |-> "ready"]
    [] e = "timeout" ->
         [from |-> {"running", "verifying", "review-pending"},
          to |-> "timed-out"]
    [] e = "cancel" ->
         [from |-> {"pending", "ready", "running", "verifying",
                    "review-pending", "blocked", "timed-out"},
          to |-> "cancelled"]
    [] e = "rollback" ->
         [from |-> TaskStatus \ {"rolled-back", "abandoned"},
          to |-> "rolled-back"]
    [] e = "abandon" ->
         [from |-> TaskStatus \ {"completed", "abandoned"},
          to |-> "abandoned"]

CheckpointStatus ==
  { "running", "result-recorded", "blocked", "timed-out", "verified",
    "cancelled", "rolled-back", "abandoned" }

CheckpointEdge(e) ==
  CASE e = "result-recorded" ->
         [from |-> {"running"}, to |-> "result-recorded"]
    [] e = "verification-passed" ->
         [from |-> {"result-recorded"}, to |-> "verified"]
    [] e \in FailureClassification \cup {"block"} ->
         [from |-> {"running", "result-recorded"}, to |-> "blocked"]
    [] e = "reviewer-block" -> [from |-> {"verified"}, to |-> "blocked"]
    [] e = "timeout" ->
         [from |-> {"running", "result-recorded"}, to |-> "timed-out"]
    [] e = "cancel" ->
         [from |-> {"running", "result-recorded", "blocked"},
          to |-> "cancelled"]
    [] e = "rollback" ->
         [from |-> CheckpointStatus \ {"rolled-back", "abandoned"},
          to |-> "rolled-back"]
    [] e = "abandon" ->
         [from |-> CheckpointStatus \ {"verified", "abandoned"},
          to |-> "abandoned"]

RunStatus ==
  { "approved", "active", "paused-budget-safe", "paused-budget-unverified",
    "paused-host-limit", "interrupted", "blocked", "timed-out",
    "review-pending", "completed", "cancelled", "rolled-back", "abandoned",
    "finalized" }

BudgetPauses == { "paused-budget-safe", "paused-budget-unverified" }
Pauses == BudgetPauses \cup { "paused-host-limit" }

RunEdge(e) ==
  CASE e = "task-started" -> [from |-> {"approved", "active"}, to |-> "active"]
    [] e = "pause-budget-safe" ->
         [from |-> {"approved", "active", "review-pending"},
          to |-> "paused-budget-safe"]
    [] e = "pause-budget-unverified" ->
         [from |-> {"active"}, to |-> "paused-budget-unverified"]
    [] e = "pause-host-limit" ->
         [from |-> {"active", "review-pending"}, to |-> "paused-host-limit"]
    [] e = "interrupt" ->
         [from |-> {"active", "review-pending"}, to |-> "interrupted"]
    [] e = "block" -> [from |-> {"active"}, to |-> "blocked"]
    [] e = "tasks-completed" -> [from |-> {"active"}, to |-> "review-pending"]
    [] e = "tasks-completed-no-review" ->
         [from |-> {"active"}, to |-> "completed"]
    [] e = "resume" ->
         [from |-> Pauses \cup {"interrupted", "timed-out"}, to |-> "active"]
    [] e \in {"add-budget", "reduce-scope"} ->
         [from |-> BudgetPauses, to |-> "active"]
    [] e = "retry" ->
         [from |-> {"interrupted", "blocked", "timed-out"}, to |-> "active"]
    [] e \in {"revise", "reassign", "waive"} ->
         [from |-> {"blocked"}, to |-> "active"]
    [] e = "reviewer-pass" ->
         [from |-> {"review-pending"}, to |-> "completed"]
    [] e = "reviewer-block" ->
         [from |-> {"review-pending"}, to |-> "blocked"]
    [] e = "timeout" ->
         [from |-> {"active", "interrupted"}, to |-> "timed-out"]
    [] e = "finalize" -> [from |-> {"completed"}, to |-> "finalized"]
    [] e = "cancel" ->
         [from |-> Pauses \cup {"approved", "active", "interrupted",
                                "blocked", "timed-out", "review-pending"},
          to |-> "cancelled"]
    [] e = "rollback" ->
         [from |-> Pauses \cup {"interrupted", "blocked", "timed-out",
                                "completed", "cancelled"},
          to |-> "rolled-back"]
    [] e = "abandon" ->
         [from |-> RunStatus \ {"completed", "abandoned", "finalized"},
          to |-> "abandoned"]

CanTask(s, e) == s \in TaskEdge(e).from
CanCheckpoint(s, e) == s \in CheckpointEdge(e).from
CanRunOrAbandon(s, e) == s \in RunEdge(e).from \/ e = "abandon"
CanRun(s, e) == s \in RunEdge(e).from

(* transitionIfSupported: an event a status does not know leaves it alone. *)
TaskIfSupported(s, e) == IF CanTask(s, e) THEN TaskEdge(e).to ELSE s
CheckpointIfSupported(s, e) ==
  IF CanCheckpoint(s, e) THEN CheckpointEdge(e).to ELSE s
=============================================================================
