---------------------------- MODULE WorkflowRun -----------------------------
(***************************************************************************)
(* One workflow run, as the commands of `cewp workflow` change it          *)
(* (src/workflow/state.js, budget.js, scheduler.js, revision.js).          *)
(*                                                                         *)
(* All state is on disk.  A command loads run.json, checks its guards,     *)
(* writes the attempt's result file, the attempt's checkpoint file and     *)
(* run.json in that order, each by an atomic rename, and ends.  Nothing    *)
(* spans the files: a command killed between two writes leaves the earlier *)
(* ones, and so does one that throws at a transition it evaluates late.    *)
(*                                                                         *)
(* A helper takes the run record r it reads; an action passes it run.json  *)
(* as loaded and writes what the helpers compute from it.                  *)
(*                                                                         *)
(* An operator named as a variation of the one it stands before            *)
(* (StartableUnordered before Startable) is a deliberate error that shows  *)
(* which property depends on the definition; nothing else refers to it.    *)
(***************************************************************************)
EXTENDS WorkflowDefinition, WorkflowTransitions

CONSTANTS
  Definition,    \* the definitions that can be approved
  Signature,     \* failure signatures
  Worker,        \* worker ids
  Observable,    \* the failure classifications the inputs carry
  TaskUsage,     \* observed managed operations of a task result
  ReviewUsage,   \* observed managed operations of a review
  Intervention,  \* the operator events that occur
  MaxAttempts,   \* no definition allows more attempts at a task
  MaxOps,        \* bound on what add-budget raises the ceiling to
  MaxRevision,   \* bound on the number of revisions
  MaxCrashes     \* bound on the commands killed half way

ASSUME DefinitionAssumption ==
  \A d \in Definition : ValidDefinition(d) /\ d.maxRepairs < MaxAttempts

ASSUME InputAssumption ==
  /\ "none" \notin Signature \cup Worker
  /\ Observable \subseteq FailureClassification
  /\ TaskUsage \subseteq Nat
  /\ ReviewUsage \subseteq Nat \ {0}

ASSUME BoundAssumption ==
  /\ MaxAttempts \in Nat /\ MaxOps \in Nat /\ MaxCrashes \in Nat
  /\ MaxRevision \in Nat \ {0}

VARIABLES
  run,         \* run.json
  checkpoint,  \* checkpoints/<task>/attempt-<n>.json
  result,      \* results/<task>/attempt-<n>.json: the outcome it records
  staged,      \* definitions/revision-<n>.json and the backup taken with it
  expired,     \* maxElapsedMinutes have passed since the approval
  crashes      \* how many commands were killed half way

vars == <<run, checkpoint, result, staged, expired, crashes>>

Attempt == 1..MaxAttempts
Resumable == {"approved", "active", "review-pending"}
Busy == {"running", "verifying"}
ReviewStatus == {"not-required", "pending", "passed", "blocked"}

TaskRecord ==
  [status : TaskStatus \cup {"absent"}, attempts : 0..MaxAttempts,
   active : 0..MaxAttempts, resultOf : 0..MaxAttempts,
   verification : {"none", "passed", "failed"},
   blocker : FailureClassification \cup {"none"},
   signatures : SUBSET Signature, worker : Worker \cup {"none"}]

CheckpointRecord ==
  [status : CheckpointStatus \cup {"absent"},
   allocation : {"implementation", "repair"}, reviewer : ReviewStatus]

RunRecord ==
  [status : RunStatus, revision : 1..MaxRevision, defn : Definition,
   task : [Task -> TaskRecord], ops : Nat, alloc : [Allocation -> Nat],
   used : Nat, usedAlloc : [Allocation -> Nat], runs : Nat,
   hostLimit : BOOLEAN, resumeStatus : Resumable \cup {"none"},
   interruption : Resumable \cup {"none"}, reviewer : ReviewStatus]

TypeOK ==
  /\ run \in RunRecord
  /\ checkpoint \in [Task -> [Attempt -> CheckpointRecord]]
  /\ result \in [Task -> [Attempt -> {"none", "succeeded", "failed"}]]
  /\ staged \in [1..MaxRevision ->
                   [defn : SUBSET Definition, backup : BOOLEAN]]
  /\ expired \in BOOLEAN
  /\ crashes \in 0..MaxCrashes

-----------------------------------------------------------------------------
(* Derived state of a loaded run. *)

Members(r) == r.defn.tasks

BusyTasks(r) == {t \in Members(r) : r.task[t].status \in Busy}

DepsCompleted(r, t) ==
  \A u \in r.defn.deps[t] : r.task[u].status = "completed"

AllCompleteOrInReview(r) ==
  \A t \in Members(r) : r.task[t].status \in {"completed", "review-pending"}

AllComplete(r) == \A t \in Members(r) : r.task[t].status = "completed"
SomeBlocked(r) == \E t \in Members(r) : r.task[t].status = "blocked"

(* deriveSchedule: the first free-capacity many ready tasks, in definition *)
(* order, of those whose dependencies completed.                           *)
StartableUnordered(r) == {t \in Members(r) : r.task[t].status = "ready"}

Startable(r) ==
  {t \in Members(r) : r.task[t].status = "ready" /\ DepsCompleted(r, t)}

ReadyTasks(r) ==
  {t \in Startable(r) :
     Cardinality({u \in Startable(r) : r.defn.order[u] < r.defn.order[t]})
       + Cardinality(BusyTasks(r)) < r.defn.maxWorkers}

(* evaluateWorkflowOperation: "allowed", or the pause event of the         *)
(* refusal; late says that the elapsed-time ceiling has passed.            *)
PauseEvent(r) ==
  IF BusyTasks(r) = {} THEN "pause-budget-safe" ELSE "pause-budget-unverified"

BudgetExhausted(r, a, late) ==
  \/ r.used >= r.ops
  \/ late
  \/ r.usedAlloc[a] >= r.alloc[a]
  \/ r.used * 100 >= r.defn.reserve * r.ops /\ a \notin r.defn.protected

BudgetDecisionWithWindow(r, a, late) ==
  IF r.hostLimit /\ a \notin r.defn.protected THEN "pause-host-limit"
  ELSE IF BudgetExhausted(r, a, late) THEN PauseEvent(r)
  ELSE "allowed"

BudgetDecision(r, a, late) ==
  IF r.hostLimit THEN "pause-host-limit"
  ELSE IF BudgetExhausted(r, a, late) THEN PauseEvent(r)
  ELSE "allowed"

Consume(r, a, u) ==
  [r EXCEPT !.used = @ + u, !.usedAlloc[a] = @ + u]

OverTotal(r, a, u) == r.used + u > r.ops

OverCeiling(r, a, u) ==
  r.used + u > r.ops \/ r.usedAlloc[a] + u > r.alloc[a]

(* pending tasks whose dependencies are all completed become ready. *)
Promote(r) ==
  [r EXCEPT !.task =
     [t \in Task |->
        IF t \in Members(r) /\ r.task[t].status = "pending"
           /\ DepsCompleted(r, t)
        THEN [r.task[t] EXCEPT !.status = "ready"]
        ELSE r.task[t]]]

CompletionEvent(r) ==
  IF r.defn.finalReview THEN "tasks-completed" ELSE "tasks-completed-no-review"

-----------------------------------------------------------------------------
(* Writing the files. *)

PersistRunFirst(newResult, newCheckpoint, partial, newRun) ==
  /\ UNCHANGED <<staged, expired>> /\ run' = newRun
  /\ \/ checkpoint' = newCheckpoint /\ result' = newResult /\ UNCHANGED crashes
     \/ /\ crashes < MaxCrashes /\ crashes' = crashes + 1
        /\ UNCHANGED <<checkpoint, result>>

(* The files are written in order; a kill leaves the result and one of the *)
(* checkpoint-file states in partial.                                      *)
Persist(newResult, newCheckpoint, partial, newRun) ==
  /\ UNCHANGED <<staged, expired>>
  /\ result' = newResult
  /\ \/ checkpoint' = newCheckpoint /\ run' = newRun /\ UNCHANGED crashes
     \/ /\ crashes < MaxCrashes /\ crashes' = crashes + 1
        /\ checkpoint' \in partial /\ UNCHANGED run

(* The evidence is on disk when a later transition of the command throws. *)
ThrowAfter(newResult, newCheckpoint) ==
  /\ result' = newResult /\ checkpoint' = newCheckpoint
  /\ UNCHANGED <<run, staged, expired, crashes>>

WriteRun(newRun) ==
  run' = newRun /\ UNCHANGED <<checkpoint, result, staged, expired, crashes>>

(* pauseForWorkflowBudget: throws, writing nothing, if the run cannot      *)
(* take the pause event.                                                   *)
Paused(r, e) == [r EXCEPT !.status = RunEdge(e).to, !.resumeStatus = r.status]

PauseForBudget(e) == CanRun(run.status, e) /\ WriteRun(Paused(run, e))

(* getActiveCheckpoint finds a file that names the active checkpoint. *)
ActiveCheckpointReadable(r, t) ==
  r.task[t].active # 0 =>
    /\ r.task[t].active = r.task[t].attempts
    /\ checkpoint[t][r.task[t].active].status # "absent"

-----------------------------------------------------------------------------
(* createApprovedRun *)

InitialTask(status) ==
  [status |-> status, attempts |-> 0, active |-> 0, resultOf |-> 0,
   verification |-> "none", blocker |-> "none", signatures |-> {},
   worker |-> "none"]

ReviewerGate(d) == IF d.finalReview THEN "pending" ELSE "not-required"

ApprovedRun(d) ==
  [status |-> "approved", revision |-> 1, defn |-> d,
   task |-> [t \in Task |->
               InitialTask(IF t \notin d.tasks THEN "absent"
                           ELSE IF d.deps[t] = {} THEN "ready"
                           ELSE "pending")],
   ops |-> d.ops, alloc |-> d.alloc,
   used |-> 0, usedAlloc |-> [a \in Allocation |-> 0], runs |-> 0,
   hostLimit |-> FALSE, resumeStatus |-> "none", interruption |-> "none",
   reviewer |-> ReviewerGate(d)]

NoCheckpoint ==
  [status |-> "absent", allocation |-> "implementation",
   reviewer |-> "not-required"]

Init ==
  /\ \E d \in Definition :
       /\ run = ApprovedRun(d)
       /\ staged = [n \in 1..MaxRevision |->
                      [defn |-> IF n = 1 THEN {d} ELSE {}, backup |-> FALSE]]
  /\ checkpoint = [t \in Task |-> [n \in Attempt |-> NoCheckpoint]]
  /\ result = [t \in Task |-> [n \in Attempt |-> "none"]]
  /\ expired = FALSE
  /\ crashes = 0

-----------------------------------------------------------------------------
(* startWorkflowTask *)

StartAllocation(r, t) ==
  IF r.task[t].attempts = 0 THEN "implementation" ELSE "repair"

StartWithoutRepairLimit(r, t, w) ==
  /\ r.status \in {"approved", "active"}
  /\ t \in ReadyTasks(r)
  /\ "none" \in {r.task[t].worker, w} \/ r.task[t].worker = w

StartRequested(r, t, w) ==
  /\ r.status \in {"approved", "active"}
  /\ t \in ReadyTasks(r)
  /\ "none" \in {r.task[t].worker, w} \/ r.task[t].worker = w
  /\ r.task[t].attempts = 0 \/ r.task[t].attempts <= r.defn.maxRepairs

StartedCheckpoint(r, t) ==
  [status |-> "running", allocation |-> StartAllocation(r, t),
   reviewer |-> IF r.defn.reviewEach THEN "pending" ELSE "not-required"]

StartedTask(record, w) ==
  [record EXCEPT !.status = TaskEdge("start").to,
                 !.attempts = @ + 1,
                 !.active = record.attempts + 1,
                 !.worker = IF @ = "none" THEN w ELSE @]

StartedRun(r, t, w) ==
  [r EXCEPT !.status = RunEdge("task-started").to,
            !.task[t] = StartedTask(r.task[t], w)]

StartTask(t, w) ==
  /\ StartRequested(run, t, w)
  /\ BudgetDecision(run, StartAllocation(run, t), expired) = "allowed"
  /\ LET n     == run.task[t].attempts + 1
         files == [checkpoint EXCEPT ![t][n] = StartedCheckpoint(run, t)]
     IN  Persist(result, files, {files}, StartedRun(run, t, w))

RefuseStart(t, w) ==
  /\ StartRequested(run, t, w)
  /\ LET decision == BudgetDecision(run, StartAllocation(run, t), expired)
     IN  decision # "allowed" /\ PauseForBudget(decision)

-----------------------------------------------------------------------------
(* recordWorkflowResult *)

AcceptsResult(r, t) ==
  /\ t \in Members(r)
  /\ r.task[t].status = "running" /\ r.task[t].active # 0
  /\ ActiveCheckpointReadable(r, t)
  /\ checkpoint[t][r.task[t].attempts].status = "running"

ActiveAllocation(r, t) == checkpoint[t][r.task[t].attempts].allocation

ResultOverBudget(r, t, u, n) ==
  OverCeiling(r, ActiveAllocation(r, t), u) \/ r.runs + n > r.defn.maxRuns

(* A success carries baseline and targeted evidence for every scheduled    *)
(* command and needs some baseline evidence; a failure may carry less.     *)
SuccessRuns(r, t) == 2 * r.defn.targeted[t]

WriteResult(t, n, outcome) == [result EXCEPT ![t][n] = outcome]

RefuseResult(t, u) ==
  /\ AcceptsResult(run, t)
  /\ \E n \in 0..SuccessRuns(run, t) : ResultOverBudget(run, t, u, n)
  /\ PauseForBudget("pause-budget-unverified")

SucceededTask(record, reviewed) ==
  [record EXCEPT
     !.status = IF reviewed THEN "review-pending" ELSE "completed",
     !.active = IF reviewed THEN @ ELSE 0,
     !.resultOf = record.attempts,
     !.verification = "passed"]

ReviewRequired(r, t) ==
  checkpoint[t][r.task[t].attempts].reviewer # "not-required"

CountedRun(r, t, u, n) ==
  [Consume(r, ActiveAllocation(r, t), u) EXCEPT !.runs = @ + n]

SucceededUnreviewed(r, t, u) ==
  Promote([CountedRun(r, t, u, SuccessRuns(r, t)) EXCEPT
             !.task[t] = SucceededTask(r.task[t], FALSE)])

SucceededRun(r, t, u) ==
  Promote([CountedRun(r, t, u, SuccessRuns(r, t)) EXCEPT
             !.task[t] = SucceededTask(r.task[t], ReviewRequired(r, t))])

RecordSuccess(t, u) ==
  LET n     == run.task[t].attempts
      next  == SucceededRun(run, t, u)
      files == [checkpoint EXCEPT ![t][n].status = "verified"]
      newResult == WriteResult(t, n, "succeeded")
  IN  /\ AcceptsResult(run, t)
      /\ SuccessRuns(run, t) > 0
      /\ ~ResultOverBudget(run, t, u, SuccessRuns(run, t))
      /\ \/ /\ AllComplete(next) /\ CanRun(run.status, CompletionEvent(run))
            /\ Persist(newResult, files, {checkpoint, files},
                 [next EXCEPT !.status = RunEdge(CompletionEvent(run)).to])
         \/ /\ AllComplete(next) /\ ~CanRun(run.status, CompletionEvent(run))
            /\ ThrowAfter(newResult, files)
         \/ /\ ~AllComplete(next)
            /\ Persist(newResult, files, {checkpoint, files},
                 [next EXCEPT
                    !.status = IF SomeBlocked(next) THEN @ ELSE "active"])

FailedTask(record, class, s) ==
  [record EXCEPT !.status = TaskEdge(class).to,
                 !.resultOf = record.attempts,
                 !.verification = "failed",
                 !.blocker = class,
                 !.signatures = @ \cup {s}]

FailedRun(r, t, u, n, class, s) ==
  [CountedRun(r, t, u, n) EXCEPT
     !.status = RunEdge("block").to,
     !.task[t] = FailedTask(r.task[t], class, s)]

(* A signature seen before makes the failure a repeated one. *)
Classify(r, t, c, s) ==
  IF s \in r.task[t].signatures THEN "repeated-failure" ELSE c

RecordFailure(t, u, c, s) ==
  LET k     == run.task[t].attempts
      class == Classify(run, t, c, s)
      files == [checkpoint EXCEPT ![t][k].status = CheckpointEdge(class).to]
      newResult == WriteResult(t, k, "failed")
  IN  /\ AcceptsResult(run, t)
      /\ c # "repeated-failure"
      /\ \E n \in 0..SuccessRuns(run, t) :
           /\ ~ResultOverBudget(run, t, u, n)
           /\ \/ /\ CanRun(run.status, "block")
                 /\ Persist(newResult, files, {checkpoint, files},
                      FailedRun(run, t, u, n, class, s))
              \/ /\ ~CanRun(run.status, "block")
                 /\ ThrowAfter(newResult, files)

-----------------------------------------------------------------------------
(* recordWorkflowReview.  A review carries its own completedAt, against    *)
(* which the elapsed-time ceiling is evaluated: late may be FALSE after    *)
(* the ceiling has passed.                                                 *)

InTime(late) == late => expired

ReviewOverBudget(r, u) == OverCeiling(r, "reviewer", u)

(* consumeWorkflowReviewBudget refuses: by the decision on the operation,  *)
(* or, once the operation is seen to exceed a ceiling, as budget-safe.     *)
RefuseReview(u, late) ==
  LET decision == BudgetDecision(run, "reviewer", late)
  IN  \/ decision # "allowed" /\ PauseForBudget(decision)
      \/ /\ decision = "allowed" /\ ReviewOverBudget(run, u)
         /\ PauseForBudget("pause-budget-safe")

ReviewAffordable(r, u, late) ==
  /\ BudgetDecision(r, "reviewer", late) = "allowed"
  /\ ~ReviewOverBudget(r, u)

AwaitsFinalReview(r) == r.status = "review-pending" /\ r.defn.finalReview

RefuseFinalReview(u, late) ==
  AwaitsFinalReview(run) /\ InTime(late) /\ RefuseReview(u, late)

PassFinalReview(u, late) ==
  /\ AwaitsFinalReview(run)
  /\ ReviewAffordable(run, u, late)
  /\ WriteRun([Consume(run, "reviewer", u) EXCEPT
                 !.status = RunEdge("reviewer-pass").to,
                 !.reviewer = "passed"])

RejectedTask(record, c) ==
  [record EXCEPT !.status = TaskEdge("reviewer-block").to, !.blocker = c]

(* class gives the findings: a classification for each affected task. *)
BlockFinalReview(u, late, class) ==
  /\ AwaitsFinalReview(run)
  /\ ReviewAffordable(run, u, late)
  /\ DOMAIN class \subseteq Members(run) /\ DOMAIN class # {}
  /\ \A t \in DOMAIN class : CanTask(run.task[t].status, "reviewer-block")
  /\ WriteRun([Consume(run, "reviewer", u) EXCEPT
                 !.status = RunEdge("reviewer-block").to,
                 !.reviewer = "blocked",
                 !.task = [t \in Task |->
                   IF t \in DOMAIN class
                   THEN RejectedTask(run.task[t], class[t])
                   ELSE run.task[t]]])

AwaitsCheckpointReview(r, t) ==
  /\ r.status = "active"
  /\ t \in Members(r)
  /\ r.task[t].status = "review-pending" /\ r.task[t].active # 0
  /\ ActiveCheckpointReadable(r, t)
  /\ checkpoint[t][r.task[t].active].status = "verified"
  /\ checkpoint[t][r.task[t].active].reviewer = "pending"

RefuseCheckpointReview(t, u, late) ==
  AwaitsCheckpointReview(run, t) /\ InTime(late) /\ RefuseReview(u, late)

ReviewedTask(record) ==
  [record EXCEPT !.status = TaskEdge("reviewer-pass").to,
                 !.active = 0, !.blocker = "none"]

ReviewedRun(r, t, u) ==
  Promote([Consume(r, "reviewer", u) EXCEPT
             !.task[t] = ReviewedTask(r.task[t])])

PassCheckpointReview(t, u, late) ==
  LET n     == run.task[t].active
      next  == ReviewedRun(run, t, u)
      files == [checkpoint EXCEPT ![t][n].reviewer = "passed"]
  IN  /\ AwaitsCheckpointReview(run, t)
      /\ ReviewAffordable(run, u, late)
      /\ Persist(result, files, {files},
           [next EXCEPT
              !.status = IF AllComplete(next)
                         THEN RunEdge(CompletionEvent(run)).to ELSE @])

BlockCheckpointReview(t, u, late, c) ==
  LET n     == run.task[t].active
      files == [checkpoint EXCEPT
                  ![t][n].status = CheckpointEdge("reviewer-block").to,
                  ![t][n].reviewer = "blocked"]
  IN  /\ AwaitsCheckpointReview(run, t)
      /\ ReviewAffordable(run, u, late)
      /\ Persist(result, files, {files},
           [Consume(run, "reviewer", u) EXCEPT
              !.status = RunEdge("block").to,
              !.task[t] = RejectedTask(run.task[t], c)])

-----------------------------------------------------------------------------
(* finalizeWorkflowRun *)

Finalize ==
  /\ \A t \in Members(run) :
       /\ run.task[t].status = "completed"
       /\ run.task[t].resultOf # 0
       /\ run.task[t].verification = "passed"
  /\ run.defn.finalReview => run.reviewer = "passed"
  /\ CanRun(run.status, "finalize")
  /\ WriteRun([run EXCEPT !.status = RunEdge("finalize").to])

-----------------------------------------------------------------------------
(* interveneWorkflowRun *)

Orelse(status, fallback) == IF status = "none" THEN fallback ELSE status

Interrupt ==
  /\ CanRun(run.status, "interrupt")
  /\ WriteRun([run EXCEPT !.status = RunEdge("interrupt").to,
                          !.interruption = run.status])

AddBudget(a, n) ==
  /\ CanRun(run.status, "add-budget")
  /\ run.ops + n <= MaxOps
  /\ WriteRun([run EXCEPT !.status = Orelse(run.resumeStatus, "active"),
                          !.ops = @ + n, !.alloc[a] = @ + n,
                          !.resumeStatus = "none"])

PauseHostLimit ==
  /\ CanRun(run.status, "pause-host-limit")
  /\ WriteRun([Paused(run, "pause-host-limit") EXCEPT !.hostLimit = TRUE])

BudgetPauseEvent == {"pause-budget-safe", "pause-budget-unverified"}

PauseByOperator(e) == CanRun(run.status, e) /\ WriteRun(Paused(run, e))

ResumedStatus ==
  Orelse(IF run.status = "interrupted" THEN run.interruption
         ELSE run.resumeStatus, "active")

ResumeKeepingStatus ==
  /\ CanRun(run.status, "resume")
  /\ WriteRun([run EXCEPT
       !.status = ResumedStatus,
       !.hostLimit = @ /\ run.status # "paused-host-limit",
       !.interruption = IF run.status = "interrupted" THEN "none" ELSE @])

Resume ==
  /\ CanRun(run.status, "resume")
  /\ WriteRun([run EXCEPT
       !.status = ResumedStatus,
       !.hostLimit = @ /\ run.status # "paused-host-limit",
       !.resumeStatus = "none",
       !.interruption = IF run.status = "interrupted" THEN "none" ELSE @])

-----------------------------------------------------------------------------
(* interveneWorkflowLifecycle: "continue" changes nothing modelled here.   *)
(* The checkpoint files are rewritten task by task, in definition order.   *)

LifecycleEvent == {"cancel", "timeout", "rollback", "abandon"}

UpTo(r, t) == {u \in Members(r) : r.defn.order[u] <= r.defn.order[t]}

LifecycleFiles(r, e, tasks) ==
  [t \in Task |-> [n \in Attempt |->
     IF t \in tasks /\ n = r.task[t].active
     THEN [checkpoint[t][n] EXCEPT !.status = CheckpointIfSupported(@, e)]
     ELSE checkpoint[t][n]]]

Lifecycle(e) ==
  /\ CanRun(run.status, e)
  /\ \A t \in Members(run) : ActiveCheckpointReadable(run, t)
  /\ Persist(result, LifecycleFiles(run, e, Members(run)),
       {LifecycleFiles(run, e, UpTo(run, t)) : t \in Members(run)},
       [run EXCEPT !.status = RunEdge(e).to,
                   !.task = [t \in Task |->
                     IF t \in Members(run)
                     THEN [run.task[t] EXCEPT !.status = TaskIfSupported(@, e)]
                     ELSE run.task[t]]])

-----------------------------------------------------------------------------
(* interveneWorkflow on a task.  Whatever the event did to the run status, *)
(* the run is blocked while one of its tasks is.                           *)

IntervenedAlone(r, t, record, status) ==
  [r EXCEPT !.task[t] = record, !.status = status]

Intervened(r, t, record, status) ==
  LET next == [r EXCEPT !.task[t] = record]
  IN  [next EXCEPT !.status = IF SomeBlocked(next) THEN "blocked" ELSE status]

BlockedTask(record, event, class, s) ==
  [record EXCEPT !.status = TaskEdge(event).to,
                 !.blocker = class,
                 !.signatures = @ \cup ({s} \ {"none"})]

(* s is the signature given, or "none". *)
BlockTask(t, c, s) ==
  LET class == Classify(run, t, c, s)
      event == IF run.task[t].status \in Busy THEN class ELSE "block"
      k     == run.task[t].active
      files == IF k = 0 THEN checkpoint
               ELSE [checkpoint EXCEPT
                       ![t][k].status = CheckpointEdge(class).to]
  IN  /\ t \in Members(run) /\ ActiveCheckpointReadable(run, t)
      /\ c = "repeated-failure" => s \in run.task[t].signatures
      /\ CanTask(run.task[t].status, event)
      /\ CanRun(run.status, "block")
      /\ k # 0 => CanCheckpoint(checkpoint[t][k].status, class)
      /\ Persist(result, files, {files},
           Intervened(run, t, BlockedTask(run.task[t], event, class, s),
             RunEdge("block").to))

UnblockedAfresh(record) ==
  [record EXCEPT !.status = "ready", !.active = 0, !.blocker = "none",
                 !.attempts = 0]

Unblocked(record) ==
  [record EXCEPT !.status = "ready", !.active = 0, !.blocker = "none"]

RetryTask(t) ==
  /\ t \in Members(run) /\ ActiveCheckpointReadable(run, t)
  /\ run.task[t].blocker \notin {"repeated-failure"} \cup RevisionRequired
  /\ run.task[t].attempts <= run.defn.maxRepairs
  /\ CanTask(run.task[t].status, "retry")
  /\ CanRun(run.status, "retry")
  /\ WriteRun(Intervened(run, t, Unblocked(run.task[t]), RunEdge("retry").to))

ReassignTask(t, w) ==
  /\ t \in Members(run) /\ ActiveCheckpointReadable(run, t)
  /\ CanTask(run.task[t].status, "reassign")
  /\ WriteRun(Intervened(run, t,
       [Unblocked(run.task[t]) EXCEPT !.worker = w],
       IF run.status = "blocked" THEN RunEdge("reassign").to ELSE run.status))

(* given is the --classification of the command, or "none"; the blocker's *)
(* own classification counts only when none is given.                     *)
WaiveTask(t, given) ==
  /\ t \in Members(run) /\ ActiveCheckpointReadable(run, t)
  /\ Orelse(given, run.task[t].blocker) \in Waivable
  /\ CanTask(run.task[t].status, "waive")
  /\ CanRun(run.status, "waive")
  /\ WriteRun(Intervened(run, t, Unblocked(run.task[t]), RunEdge("waive").to))

-----------------------------------------------------------------------------
(* applyWorkflowRevision *)

Revisable == Pauses \cup {"approved", "active", "blocked", "timed-out"}

SameTask(d, e, t) == d.deps[t] = e.deps[t] /\ d.targeted[t] = e.targeted[t]

RevisionValidByTotal(r, d) ==
  /\ r.status \in Revisable
  /\ BusyTasks(r) = {}
  /\ \A t \in Members(r) :
       IF r.task[t].status = "completed"
       THEN t \in d.tasks /\ SameTask(r.defn, d, t)
       ELSE t \in d.tasks => r.task[t].attempts - 1 <= d.maxRepairs
  /\ r.used <= d.ops /\ r.runs <= d.maxRuns

RevisionValid(r, d) ==
  /\ r.status \in Revisable
  /\ BusyTasks(r) = {}
  /\ \A t \in Members(r) :
       IF r.task[t].status = "completed"
       THEN t \in d.tasks /\ SameTask(r.defn, d, t)
       ELSE t \in d.tasks => r.task[t].attempts - 1 <= d.maxRepairs
  /\ r.used <= d.ops
  /\ \A a \in Allocation : r.usedAlloc[a] <= d.alloc[a]
  /\ r.runs <= d.maxRuns

(* A completed task is kept; another one starts over, keeping its attempts,*)
(* its failure history and its worker only if the current definition has it*)
RevisedTask(r, d, t) ==
  LET old  == r.task[t]
      kept == {u \in Members(r) : r.task[u].status = "completed"}
      status == IF d.deps[t] \subseteq kept THEN "ready" ELSE "pending"
  IN  IF t \notin d.tasks THEN InitialTask("absent")
      ELSE IF t \in kept THEN old
      ELSE IF t \in Members(r)
      THEN [InitialTask(status) EXCEPT !.attempts = old.attempts,
                                       !.signatures = old.signatures,
                                       !.worker = old.worker]
      ELSE InitialTask(status)

RevisedStatusKeepingBlock(r, d, complete) ==
  IF r.status \in Pauses \cup {"blocked"} THEN r.status
  ELSE IF complete
  THEN (IF d.finalReview THEN "review-pending" ELSE "completed")
  ELSE IF r.status = "approved" THEN "approved" ELSE "active"

RevisedStatus(r, d, complete) ==
  IF r.status \in Pauses THEN r.status
  ELSE IF complete
  THEN (IF d.finalReview THEN "review-pending" ELSE "completed")
  ELSE IF r.status = "approved" THEN "approved" ELSE "active"

RevisedRun(r, d) ==
  LET next == [r EXCEPT
        !.revision = @ + 1,
        !.defn = d,
        !.task = [t \in Task |-> RevisedTask(r, d, t)],
        !.ops = d.ops, !.alloc = d.alloc,
        !.reviewer = ReviewerGate(d)]
  IN  [next EXCEPT !.status = RevisedStatus(r, d, AllComplete(next))]

(* The definition file and the backup are written before run.json; the     *)
(* backup must not exist, a definition file must hold the same definition. *)
ApplyRevision(d) ==
  LET n == run.revision + 1
  IN  /\ n <= MaxRevision
      /\ RevisionValid(run, d)
      /\ staged[n].defn \subseteq {d} /\ ~staged[n].backup
      /\ UNCHANGED <<checkpoint, result>>
      /\ \/ /\ staged' = [staged EXCEPT ![n] = [defn |-> {d}, backup |-> TRUE]]
            /\ run' = RevisedRun(run, d) /\ expired' = FALSE
            /\ UNCHANGED crashes
         \/ /\ crashes < MaxCrashes /\ crashes' = crashes + 1
            /\ \E b \in BOOLEAN :
                 staged' = [staged EXCEPT ![n] = [defn |-> {d}, backup |-> b]]
            /\ UNCHANGED <<run, expired>>

-----------------------------------------------------------------------------
(* The clock: the elapsed-time ceiling of the approval passes. *)
Elapse ==
  /\ ~expired /\ expired' = TRUE
  /\ UNCHANGED <<run, checkpoint, result, staged, crashes>>

TaskCommand ==
  \E t \in Task :
    \/ \E w \in Worker \cup {"none"} : StartTask(t, w) \/ RefuseStart(t, w)
    \/ \E u \in TaskUsage :
         \/ RecordSuccess(t, u)
         \/ RefuseResult(t, u)
         \/ \E c \in Observable, s \in Signature : RecordFailure(t, u, c, s)

Findings == UNION {[F -> Observable] : F \in SUBSET Task}

ReviewCommand ==
  \E u \in ReviewUsage, late \in BOOLEAN :
    \/ RefuseFinalReview(u, late)
    \/ PassFinalReview(u, late)
    \/ \E class \in Findings : BlockFinalReview(u, late, class)
    \/ \E t \in Task :
         \/ RefuseCheckpointReview(t, u, late)
         \/ PassCheckpointReview(t, u, late)
         \/ \E c \in Observable : BlockCheckpointReview(t, u, late, c)

RunIntervention ==
  \/ "interrupt" \in Intervention /\ Interrupt
  \/ "pause-host-limit" \in Intervention /\ PauseHostLimit
  \/ "resume" \in Intervention /\ Resume
  \/ \E e \in BudgetPauseEvent \cap Intervention : PauseByOperator(e)
  \/ \E e \in LifecycleEvent \cap Intervention : Lifecycle(e)
  \/ "add-budget" \in Intervention
     /\ \E a \in Allocation, n \in 1..MaxOps : AddBudget(a, n)

TaskIntervention ==
  \E t \in Task :
    \/ "retry" \in Intervention /\ RetryTask(t)
    \/ "reassign" \in Intervention /\ \E w \in Worker : ReassignTask(t, w)
    \/ "waive" \in Intervention
       /\ \E given \in Observable \cup {"none"} : WaiveTask(t, given)
    \/ "block" \in Intervention
       /\ \E c \in Observable, s \in Signature \cup {"none"} :
            BlockTask(t, c, s)

Next ==
  \/ Elapse
  \/ TaskCommand
  \/ ReviewCommand
  \/ Finalize
  \/ RunIntervention
  \/ TaskIntervention
  \/ \E d \in Definition : ApplyRevision(d)

Spec == Init /\ [][Next]_vars
-----------------------------------------------------------------------------
(* Properties. *)

(* The budget adds up: what the run consumed is what its allocations       *)
(* consumed, none of them beyond its share, the shares make up the         *)
(* ceiling, and the verification meter stays below its own.  Results,      *)
(* reviews, add-budget and revisions all rewrite these counters.           *)
BudgetConserved ==
  /\ run.used = AllocSum(run.usedAlloc)
  /\ run.ops = AllocSum(run.alloc)
  /\ \A a \in Allocation : run.usedAlloc[a] <= run.alloc[a]
  /\ run.runs <= run.defn.maxRuns

(* A task counts as completed only on evidence that is on disk: the result *)
(* it names succeeded, that attempt's checkpoint is verified, and its      *)
(* reviewer, if the checkpoint asked for one, passed it.                   *)
CompletedVerified ==
  \A t \in Members(run) :
    LET n == run.task[t].resultOf
    IN  run.task[t].status = "completed" =>
          /\ n # 0 /\ run.task[t].verification = "passed"
          /\ result[t][n] = "succeeded"
          /\ checkpoint[t][n].status = "verified"
          /\ checkpoint[t][n].reviewer \in {"not-required", "passed"}

(* run.json never names evidence that is not there, whatever write a       *)
(* command is killed at: an active checkpoint is the last attempt's file,  *)
(* and a recorded result has its file.                                     *)
EvidenceOnDisk ==
  \A t \in Members(run) :
    /\ ActiveCheckpointReadable(run, t)
    /\ run.task[t].resultOf # 0 => result[t][run.task[t].resultOf] # "none"
    /\ run.task[t].status \in Busy \cup {"review-pending"} =>
         run.task[t].active # 0

(* The run is blocked exactly while one of its tasks is: no intervention   *)
(* on another task, pause or resume separates the two.                     *)
BlockedTogether == (run.status = "blocked") <=> SomeBlocked(run)

(* Work in progress never exceeds the approved number of workers, and      *)
(* never rests on a dependency that is not completed, even when tasks were *)
(* made ready by a retry, a reassignment or a waiver.                      *)
WorkAdmissible ==
  /\ Cardinality(BusyTasks(run)) <= run.defn.maxWorkers
  /\ \A t \in BusyTasks(run) : DepsCompleted(run, t)

(* A run that reads as approved has done no work: no pause and resume      *)
(* brings back that status once a task was started.                        *)
ApprovedUntouched ==
  "approved" \in {run.status, run.resumeStatus} =>
    run.used = 0 /\ \A t \in Members(run) : run.task[t].attempts = 0

(* A reviewer PASS stands only on a run whose every task is completed, and *)
(* a finalized run has it: no block, retry, timeout or resume lets open    *)
(* work in behind the reviewer.                                            *)
PassCoversWork ==
  /\ run.reviewer = "passed" \/ run.status = "finalized" =>
       \A t \in Members(run) :
         run.task[t].status \in {"completed", "rolled-back", "abandoned"}
  /\ run.status = "finalized" /\ run.defn.finalReview =>
       run.reviewer = "passed"

(* A closed attempt stays closed and its counted result stays what it was: *)
(* no checkpoint file returns to running once it recorded an outcome, and  *)
(* no result that run.json names is replaced.                              *)
EvidenceFrozen ==
  [][\A t \in Task :
       /\ \A n \in Attempt :
            checkpoint[t][n].status \notin {"absent", "running"} =>
              checkpoint'[t][n].status \notin {"absent", "running"}
       /\ run.task[t].resultOf # 0 =>
            result'[t][run.task[t].resultOf]
              = result[t][run.task[t].resultOf]]_vars

(* A finalized run is final. *)
FinalizedFrozen ==
  [][run.status = "finalized" => UNCHANGED <<run, checkpoint, result>>]_vars

=============================================================================
