----------------------- MODULE WorkflowRunStatusProofs -----------------------
(***************************************************************************)
(* Theorems about the status of a run and the statuses of its tasks: the   *)
(* run is blocked when a task is, work in progress is within the approved  *)
(* limits, an approved run is untouched, and a reviewer's PASS covers the  *)
(* whole run.                                                              *)
(*                                                                         *)
(* A task keeps its status while the run is paused, interrupted, resumed   *)
(* or rejected, so that each of these says what the remembered statuses    *)
(* (resumeStatus, interruption) may be as well.                            *)
(***************************************************************************)
EXTENDS WorkflowRunEvidenceProofs, FiniteSetTheorems

-----------------------------------------------------------------------------
(* A step as a change of the statuses. *)

KeepsTasks ==
  SameTasks(run, run') /\ run'.reviewer = run.reviewer /\ run'.used = run.used

OthersStay(t) == \A v \in Task \ {t} : run'.task[v] = run.task[v]
OthersPromoted(t) == \A v \in Task \ {t} : Promoted(run.task[v], run'.task[v])

PauseStep ==
  /\ KeepsTasks /\ run.status \in Resumable /\ run'.status \in Pauses
  /\ run'.resumeStatus = run.status /\ run'.interruption = run.interruption
  /\ run'.status = "paused-host-limit" => run'.hostLimit
  /\ run'.hostLimit =>
       run.hostLimit \/ run.status \in {"active", "review-pending"}

InterruptStep ==
  /\ KeepsTasks /\ run.status \in {"active", "review-pending"}
  /\ run'.status = "interrupted" /\ run'.interruption = run.status
  /\ run'.resumeStatus = run.resumeStatus /\ run'.hostLimit = run.hostLimit

ResumeStep ==
  /\ KeepsTasks /\ run.status \in Pauses \cup {"interrupted", "timed-out"}
  /\ run'.status = ResumedStatus /\ run'.resumeStatus = "none"
  /\ run'.interruption \in {"none", run.interruption}
  /\ run'.hostLimit => run.hostLimit

StartStep(t) ==
  /\ t \in ReadyTasks(run) /\ run.status \in {"approved", "active"}
  /\ run'.status = "active" /\ run'.task[t].status = "running"
  /\ OthersStay(t) /\ Steady(run, run')

(* A task succeeds or passes its review. *)
AdvanceStep(t) ==
  /\ t \in Members(run) /\ run.task[t].attempts # 0
  /\ \/ run.task[t].status = "running"
     \/ run.task[t].status = "review-pending" /\ run.status = "active"
  /\ run'.task[t].status \in {"completed", "review-pending"}
  /\ OthersPromoted(t) /\ Steady(run, run')
  /\ \/ /\ AllComplete(run') /\ run.status = "active"
        /\ run'.status = IF run.defn.finalReview THEN "review-pending"
                         ELSE "completed"
     \/ /\ ~AllComplete(run')
        /\ run'.status = IF SomeBlocked(run') THEN run.status ELSE "active"

(* A task fails, is rejected by its review or is blocked by the operator. *)
BlockStep(t) ==
  /\ t \in Members(run) /\ run.task[t].status # "completed"
  /\ run.status = "active" /\ run'.status = "blocked"
  /\ run'.task[t].status = "blocked"
  /\ OthersStay(t) /\ Steady(run, run')

FinalPassStep ==
  /\ run.status = "review-pending" /\ run'.status = "completed"
  /\ run.defn.finalReview /\ run'.reviewer = "passed" /\ SameTasks(run, run')
  /\ run'.resumeStatus = run.resumeStatus
  /\ run'.interruption = run.interruption
  /\ ~run.hostLimit /\ ~run'.hostLimit

FinalBlockStep(F) ==
  /\ run.status = "review-pending" /\ run'.status = "blocked"
  /\ run.defn.finalReview
  /\ F \subseteq Members(run) /\ F # {}
  /\ \A t \in F : run'.task[t].status = "blocked"
  /\ \A t \in Task \ F : run'.task[t] = run.task[t]
  /\ SamePlan /\ run'.reviewer = "blocked"
  /\ run'.resumeStatus = run.resumeStatus
  /\ run'.interruption = run.interruption /\ run'.hostLimit = run.hostLimit

FinalizeStep ==
  /\ run.status = "completed" /\ run'.status = "finalized" /\ AllComplete(run)
  /\ run'.task = run.task /\ Steady(run, run')
  /\ run.defn.finalReview => run.reviewer = "passed"

CloseStep(e) ==
  /\ CanRun(run.status, e) /\ run'.status = RunEdge(e).to
  /\ run'.used = run.used /\ Steady(run, run')
  /\ \A t \in Members(run) : run'.task[t] = ClosedTask(run.task[t], e)

ReopenStep(t, s) ==
  /\ t \in Members(run) /\ run.task[t].status \in ReopensFrom
  /\ run'.task[t].status = "ready"
  /\ run'.task[t].attempts = run.task[t].attempts
  /\ OthersStay(t) /\ run'.used = run.used /\ Steady(run, run')
  /\ run'.status = IF SomeBlocked(run') THEN "blocked" ELSE s
  /\ s = run.status \/ s = "active"
  /\ s = "active" \/ run.status # "blocked"
  /\ s = run.status \/ run.status \in {"blocked", "interrupted", "timed-out"}

ReviseStep(d) ==
  /\ RevisionValid(run, d)
  /\ \A t \in Task : run'.task[t] = RevisedTask(run, d, t)
  /\ run'.defn = d /\ run'.revision = run.revision + 1
  /\ run'.resumeStatus = run.resumeStatus
  /\ run'.interruption = run.interruption /\ run'.used = run.used
  /\ run'.hostLimit = run.hostLimit /\ run'.reviewer = ReviewerGate(d)
  /\ run'.status = RevisedStatus(run, d, AllComplete(run'))

RunStep ==
  \/ run' = run
  \/ PauseStep
  \/ InterruptStep
  \/ ResumeStep
  \/ \E t \in Task : StartStep(t) \/ AdvanceStep(t) \/ BlockStep(t)
  \/ FinalPassStep
  \/ \E F \in SUBSET Task : FinalBlockStep(F)
  \/ FinalizeStep
  \/ \E e \in LifecycleEvent : CloseStep(e)
  \/ \E t \in Task, s \in RunStatus : ReopenStep(t, s)
  \/ \E d \in Definition : ReviseStep(d)

LEMMA PausesRun ==
  ASSUME TypeOK, NEW e \in BudgetPauseEvent \cup {"pause-host-limit"},
         PauseForBudget(e), e = "pause-host-limit" => run.hostLimit
  PROVE  PauseStep
BY RefusalEffect DEF PauseWritten, PauseStep, KeepsTasks

LEMMA OneTaskWritten ==
  ASSUME TypeOK, NEW t \in Task, NEW y, run'.task = [run.task EXCEPT ![t] = y]
  PROVE  run'.task[t] = y /\ OthersStay(t)
BY DEF TypeOK, RunRecord, OthersStay

LEMMA StartsRun ==
  ASSUME TypeOK, NEW t \in Task, NEW w \in Worker \cup {"none"},
         StartTask(t, w)
  PROVE  run' = run \/ StartStep(t)
<1>1. /\ t \in ReadyTasks(run) /\ run.status \in {"approved", "active"}
      /\ \/ run' = run
         \/ Wrote(run, run', "active",
                  [run.task EXCEPT ![t] = StartedTask(run.task[t], w)])
  BY StartEffect
<1>2. CASE Wrote(run, run', "active",
                 [run.task EXCEPT ![t] = StartedTask(run.task[t], w)])
  <2>1. run'.task[t] = StartedTask(run.task[t], w) /\ OthersStay(t)
    BY <1>2, OneTaskWritten DEF Wrote
  <2>2. run'.task[t].status = "running" BY <2>1, RowTypes, StartFields
  <2> QED BY <1>1, <1>2, <2>1, <2>2 DEF StartStep, Wrote
<1> QED BY <1>1, <1>2

LEMMA AdvancesRun ==
  ASSUME TypeOK, NEW t \in Task, NEW u \in Nat, NEW late,
         RecordSuccess(t, u) \/ PassCheckpointReview(t, u, late)
  PROVE  run' = run \/ AdvanceStep(t)
<1>1. ASSUME NEW next, NEW y,
             t \in Members(run), run.task[t].attempts # 0,
             \/ run.task[t].status = "running"
             \/ run.task[t].status = "review-pending" /\ run.status = "active",
             next.task[t] = y, y.status \in {"completed", "review-pending"},
             next.defn = run.defn,
             \A v \in Task \ {t} : Promoted(run.task[v], next.task[v]),
             \/ run' = run
             \/ /\ AllComplete(next) /\ run.status = "active"
                /\ Wrote(run, run', RunEdge(CompletionEvent(run)).to, next.task)
             \/ /\ ~AllComplete(next)
                /\ Wrote(run, run',
                     IF SomeBlocked(next) THEN run.status ELSE "active",
                     next.task)
      PROVE  run' = run \/ AdvanceStep(t)
  <2>1. RunEdge(CompletionEvent(run)).to
          = IF run.defn.finalReview THEN "review-pending" ELSE "completed"
    BY RunEdges DEF CompletionEvent
  <2>2. CASE run'.task = next.task /\ Steady(run, run')
    <3>1. /\ AllComplete(run') <=> AllComplete(next)
          /\ SomeBlocked(run') <=> SomeBlocked(next)
      BY <1>1, <2>2 DEF Steady, AllComplete, SomeBlocked, Members
    <3> QED BY <1>1, <2>1, <2>2, <3>1 DEF AdvanceStep, OthersPromoted, Wrote
  <2> QED BY <1>1, <2>2 DEF Wrote
<1>2. CASE RecordSuccess(t, u)
  <2>1. DEFINE x == run.task[t]
               b == ReviewRequired(run, t)
               y == SucceededTask(x, b)
               next == SucceededRun(run, t, u)
  <2>2. /\ AcceptsResult(run, t)
        /\ next.task[t] = y /\ next.defn = run.defn
        /\ \A v \in Task \ {t} : Promoted(run.task[v], next.task[v])
        /\ \/ run' = run
           \/ /\ AllComplete(next) /\ run.status = "active"
              /\ Wrote(run, run', RunEdge(CompletionEvent(run)).to, next.task)
           \/ /\ ~AllComplete(next)
              /\ Wrote(run, run',
                   IF SomeBlocked(next) THEN run.status ELSE "active",
                   next.task)
    BY <1>2, SuccessEffect, Zenon
  <2>3. /\ t \in Members(run) /\ x.status = "running" /\ x.attempts # 0
    BY <2>2, AcceptedAttempt DEF AcceptsResult, Attempt
  <2>4. y.status \in {"completed", "review-pending"}
    BY RowTypes, SuccessFields
  <2> HIDE DEF y, next
  <2> QED BY <1>1, <2>2, <2>3, <2>4
<1>3. CASE PassCheckpointReview(t, u, late)
  <2>1. DEFINE x == run.task[t]
               y == ReviewedTask(x)
               next == ReviewedRun(run, t, u)
  <2>2. /\ AwaitsCheckpointReview(run, t)
        /\ next.task[t] = y /\ next.defn = run.defn
        /\ \A v \in Task \ {t} : Promoted(run.task[v], next.task[v])
        /\ \/ run' = run
           \/ Wrote(run, run',
                IF AllComplete(next) THEN RunEdge(CompletionEvent(run)).to
                ELSE "active", next.task)
    BY <1>3, PassCheckpointEffect, Zenon
  <2>3. /\ t \in Members(run) /\ run.status = "active"
        /\ x.status = "review-pending"
        /\ x.active # 0 /\ ActiveCheckpointReadable(run, t)
    BY <2>2 DEF AwaitsCheckpointReview
  <2>4. x.attempts # 0 BY <2>3 DEF ActiveCheckpointReadable
  <2>5. y.status \in {"completed", "review-pending"}
    BY RowTypes, ReviewFields
  <2> HIDE DEF y, next
  <2>6. \/ run' = run
        \/ /\ AllComplete(next) /\ run.status = "active"
           /\ Wrote(run, run', RunEdge(CompletionEvent(run)).to, next.task)
        \/ /\ ~AllComplete(next)
           /\ Wrote(run, run',
                IF SomeBlocked(next) THEN run.status ELSE "active",
                next.task)
    BY <2>2, <2>3
  <2> QED BY <1>1, <2>2, <2>3, <2>4, <2>5, <2>6
<1> QED BY <1>2, <1>3

LEMMA BlocksRun ==
  ASSUME TypeOK, NEW t \in Task, NEW y,
         t \in Members(run), run.task[t].status # "completed",
         y.status = "blocked", run.status = "active",
         Wrote(run, run', "blocked", [run.task EXCEPT ![t] = y])
  PROVE  BlockStep(t)
<1>1. run'.task[t] = y /\ OthersStay(t) BY OneTaskWritten DEF Wrote
<1> QED BY <1>1 DEF BlockStep, Wrote

LEMMA FailsRun ==
  ASSUME TypeOK, NEW t \in Task, NEW u \in Nat,
         NEW c \in FailureClassification, NEW s \in Signature,
         RecordFailure(t, u, c, s)
  PROVE  run' = run \/ BlockStep(t)
<1>1. DEFINE y == FailedTask(run.task[t], Classify(run, t, c, s), s)
<1>2. /\ AcceptsResult(run, t)
      /\ \/ run' = run
         \/ /\ run.status = "active"
            /\ Wrote(run, run', "blocked", [run.task EXCEPT ![t] = y])
  BY FailureEffect, Zenon
<1>3. y.status = "blocked" BY RowTypes, ClassifyType, FailureFields
<1>4. t \in Members(run) /\ run.task[t].status # "completed"
  BY <1>2 DEF AcceptsResult
<1> HIDE DEF y
<1> QED BY <1>2, <1>3, <1>4, BlocksRun

LEMMA RejectsRun ==
  ASSUME TypeOK, NEW t \in Task, NEW u \in Nat, NEW late, NEW f,
         BlockCheckpointReview(t, u, late, f)
  PROVE  run' = run \/ BlockStep(t)
<1>1. DEFINE y == RejectedTask(run.task[t], f)
<1>2. /\ AwaitsCheckpointReview(run, t)
      /\ \/ run' = run
         \/ Wrote(run, run', "blocked", [run.task EXCEPT ![t] = y])
  BY BlockCheckpointEffect, Zenon
<1>3. y.status = "blocked" BY RowTypes, ReviewFields
<1>4. /\ t \in Members(run) /\ run.task[t].status # "completed"
      /\ run.status = "active"
  BY <1>2 DEF AwaitsCheckpointReview
<1> HIDE DEF y
<1> QED BY <1>2, <1>3, <1>4, BlocksRun

LEMMA FinalBlocksRun ==
  ASSUME TypeOK, NEW u \in Nat, NEW late, NEW class \in Findings,
         BlockFinalReview(u, late, class)
  PROVE  FinalBlockStep(DOMAIN class)
<1>1. DEFINE f == [t \in Task |-> IF t \in DOMAIN class
                                  THEN RejectedTask(run.task[t], class[t])
                                  ELSE run.task[t]]
<1>2. /\ run.status = "review-pending" /\ run'.status = "blocked"
      /\ DOMAIN class \subseteq Members(run) /\ DOMAIN class # {}
      /\ run'.task = f /\ SamePlan /\ run'.reviewer = "blocked"
      /\ run'.resumeStatus = run.resumeStatus
      /\ run'.interruption = run.interruption
      /\ run'.hostLimit = run.hostLimit
  <2> HIDE DEF f
  <2>1. /\ run.status = "review-pending" /\ run'.status = "blocked"
        /\ DOMAIN class \subseteq Members(run) /\ DOMAIN class # {}
        /\ run'.task = [t \in Task |-> IF t \in DOMAIN class
                                       THEN RejectedTask(run.task[t], class[t])
                                       ELSE run.task[t]]
        /\ run'.defn = run.defn /\ run'.revision = run.revision
        /\ run'.reviewer = "blocked"
        /\ run'.resumeStatus = run.resumeStatus
        /\ run'.interruption = run.interruption
        /\ run'.hostLimit = run.hostLimit
    BY BlockFinalEffect
  <2>2. run'.task = f BY <2>1 DEF f
  <2> QED BY <2>1, <2>2 DEF SamePlan
<1>3. Members(run) \subseteq Task BY MemberTypes DEF TypeOK
<1>4. ASSUME NEW t \in DOMAIN class
      PROVE  f[t].status = "blocked"
  <2>1. t \in Task BY <1>2, <1>3
  <2>2. f[t] = RejectedTask(run.task[t], class[t]) BY <2>1
  <2> HIDE DEF f
  <2> QED BY <2>1, <2>2, RowTypes, ReviewFields
<1>5. \A t \in Task \ DOMAIN class : f[t] = run.task[t] OBVIOUS
<1> HIDE DEF f
<1>6. run.defn.finalReview BY DEF BlockFinalReview, AwaitsFinalReview
<1> QED BY <1>2, <1>4, <1>5, <1>6 DEF FinalBlockStep

LEMMA ClosesRun ==
  ASSUME TypeOK, NEW e \in LifecycleEvent, Lifecycle(e)
  PROVE  run' = run \/ CloseStep(e)
<1>1. DEFINE f == [t \in Task |-> IF t \in Members(run)
                                  THEN ClosedTask(run.task[t], e)
                                  ELSE run.task[t]]
<1>2. /\ CanRun(run.status, e)
      /\ \/ run' = run
         \/ run'.used = run.used /\ Wrote(run, run', RunEdge(e).to, f)
  BY LifecycleEffect, Zenon
<1>3. \A t \in Members(run) : f[t] = ClosedTask(run.task[t], e)
  BY MemberTypes DEF TypeOK
<1> HIDE DEF f
<1> QED BY <1>2, <1>3 DEF CloseStep, Wrote

LEMMA IntervenesRun ==
  ASSUME TypeOK, TaskIntervention
  PROVE  \/ run' = run
         \/ \E t \in Task : BlockStep(t)
         \/ \E t \in Task, s \in RunStatus : ReopenStep(t, s)
<1>1. PICK t \in Task :
        \/ \E c \in FailureClassification, s \in Signature \cup {"none"} :
             BlockTask(t, c, s)
        \/ RetryTask(t)
        \/ \E w \in Worker : ReassignTask(t, w)
        \/ \E given : WaiveTask(t, given)
  BY InputAssumption DEF TaskIntervention
<1>2. ASSUME NEW c \in FailureClassification,
             NEW s \in Signature \cup {"none"}, BlockTask(t, c, s)
      PROVE  run' = run \/ BlockStep(t)
  <2>1. PICK y \in TaskRecord :
           /\ y.status = "blocked"
           /\ run.task[t].status \in {"pending", "ready", "running", "verifying"}
           /\ run.status = "active" /\ t \in Members(run)
           /\ run' = run \/ IntervenedOn(t, y, "blocked")
    BY <1>2, BlockTaskEffect, Zenon
  <2>2. CASE IntervenedOn(t, y, "blocked")
    <3>1. /\ run'.task = [run.task EXCEPT ![t] = y] /\ Steady(run, run')
          /\ run'.status = "blocked"
      BY <2>2 DEF IntervenedOn
    <3>2. run'.task[t] = y /\ OthersStay(t) BY <3>1, OneTaskWritten
    <3> QED BY <2>1, <3>1, <3>2 DEF BlockStep
  <2> QED BY <2>1, <2>2
<1>3. ASSUME \/ RetryTask(t)
             \/ \E w \in Worker : ReassignTask(t, w)
             \/ \E given : WaiveTask(t, given)
      PROVE  \E s \in RunStatus : ReopenStep(t, s)
  <2>1. PICK y \in TaskRecord, s \in RunStatus :
           /\ \E w : y = [Unblocked(run.task[t]) EXCEPT !.worker = w]
           /\ run.task[t].status \in ReopensFrom /\ t \in Members(run)
           /\ IntervenedOn(t, y, s)
           /\ s = run.status \/ s = "active"
           /\ s = "active" \/ run.status # "blocked"
           /\ s = run.status \/ run.status \in {"blocked", "interrupted", "timed-out"}
    BY <1>3, ReopenEffect, Zenon
  <2>2. PICK w : y = [Unblocked(run.task[t]) EXCEPT !.worker = w]
    BY <2>1, Zenon
  <2>3. run.task[t] \in TaskRecord BY RowTypes
  <2>4. y.status = "ready" /\ y.attempts = run.task[t].attempts
    BY <2>2, <2>3, Zenon DEF Unblocked, TaskRecord
  <2>5. /\ run'.task = [run.task EXCEPT ![t] = y] /\ Steady(run, run')
        /\ run'.used = run.used
        /\ run'.status = IF SomeBlocked(run') THEN "blocked" ELSE s
    BY <2>1 DEF IntervenedOn
  <2>6. run'.task[t] = y /\ OthersStay(t) BY <2>5, OneTaskWritten
  <2> QED BY <2>1, <2>4, <2>5, <2>6 DEF ReopenStep
<1> QED BY <1>1, <1>2, <1>3

LEMMA RevisesRun ==
  ASSUME TypeOK, NEW d \in Definition, ApplyRevision(d)
  PROVE  run' = run \/ ReviseStep(d)
<1>1. /\ RevisionValid(run, d)
      /\ \/ run' = run
         \/ /\ run'.task = [t \in Task |-> RevisedTask(run, d, t)]
            /\ run'.defn = d /\ run'.revision = run.revision + 1
            /\ run'.resumeStatus = run.resumeStatus
            /\ run'.interruption = run.interruption
            /\ run'.used = run.used /\ run'.hostLimit = run.hostLimit
            /\ run'.reviewer = ReviewerGate(d)
            /\ run'.status = RevisedStatus(run, d, AllComplete(run'))
  BY RevisionEffect
<1> QED BY <1>1 DEF ReviseStep

(* An intervention on the run, whether or not an operator's. *)
LEMMA OperatorSteps ==
  ASSUME TypeOK,
         \/ Interrupt
         \/ Resume
         \/ PauseHostLimit
         \/ \E e \in BudgetPauseEvent : PauseByOperator(e)
         \/ \E e \in LifecycleEvent : Lifecycle(e)
  PROVE  RunStep
<1> USE DEF RunStep
<1>1. CASE Interrupt BY <1>1, InterruptEffect DEF InterruptStep, KeepsTasks
<1>2. CASE Resume BY <1>2, ResumeEffect DEF ResumeStep, KeepsTasks
<1>3. CASE PauseHostLimit \/ \E e \in BudgetPauseEvent : PauseByOperator(e)
  <2>1. PICK e : /\ PauseWritten(e) /\ run'.status \in Pauses
                 /\ run'.status = "paused-host-limit" => run'.hostLimit
                 /\ run.status \in Resumable
    BY <1>3, OperatorPauseEffect
  <2> QED BY <2>1 DEF PauseWritten, PauseStep, KeepsTasks
<1>4. ASSUME NEW e \in LifecycleEvent, Lifecycle(e)
      PROVE  run' = run \/ CloseStep(e)
  BY <1>4, ClosesRun
<1> QED BY <1>1, <1>2, <1>3, <1>4

(* Every step of a run. *)
LEMMA RunSteps ==
  ASSUME TypeOK, [Next]_vars
  PROVE  RunStep
<1> USE DEF RunStep
<1>1. CASE Elapse \/ UNCHANGED vars BY <1>1 DEF Elapse, vars
<1>2. CASE TaskCommand
  <2>1. ASSUME NEW t \in Task, NEW w \in Worker \cup {"none"}, RefuseStart(t, w)
        PROVE  PauseStep
    BY <2>1, PausesRun, DecisionType, LimitRefuses DEF RefuseStart
  <2>2. ASSUME NEW t \in Task, NEW u, RefuseResult(t, u)
        PROVE  PauseStep
    BY <2>2, PausesRun DEF RefuseResult, BudgetPauseEvent
  <2>3. ASSUME NEW t \in Task, NEW u \in TaskUsage, RecordSuccess(t, u)
        PROVE  run' = run \/ AdvanceStep(t)
    BY <2>3, AdvancesRun, InputAssumption
  <2> QED
    BY <1>2, <2>1, <2>2, <2>3, StartsRun, FailsRun, InputAssumption
    DEF TaskCommand
<1>3. CASE ReviewCommand
  <2>1. PICK u \in ReviewUsage, late \in BOOLEAN :
          \/ RefuseReview(u, late)
          \/ PassFinalReview(u, late)
          \/ \E class \in Findings : BlockFinalReview(u, late, class)
          \/ \E t \in Task :
               \/ PassCheckpointReview(t, u, late)
               \/ \E f : BlockCheckpointReview(t, u, late, f)
    BY <1>3, Zenon DEF ReviewCommand, RefuseFinalReview, RefuseCheckpointReview
  <2>2. u \in Nat BY InputAssumption
  <2>3. CASE RefuseReview(u, late)
    BY <2>3, PausesRun, DecisionType, LimitRefuses
    DEF RefuseReview, BudgetPauseEvent
  <2>4. CASE PassFinalReview(u, late)
    BY <2>2, <2>4, PassFinalEffect
    DEF FinalPassStep, PassFinalReview, AwaitsFinalReview
  <2>5. ASSUME NEW class \in Findings, BlockFinalReview(u, late, class)
        PROVE  \E F \in SUBSET Task : FinalBlockStep(F)
    <3>1. FinalBlockStep(DOMAIN class) BY <2>2, <2>5, FinalBlocksRun
    <3>2. DOMAIN class \in SUBSET Task BY DEF Findings
    <3> QED BY <3>1, <3>2
  <2>6. ASSUME NEW t \in Task, PassCheckpointReview(t, u, late)
        PROVE  run' = run \/ AdvanceStep(t)
    BY <2>2, <2>6, AdvancesRun
  <2>7. ASSUME NEW t \in Task, NEW f, BlockCheckpointReview(t, u, late, f)
        PROVE  run' = run \/ BlockStep(t)
    BY <2>2, <2>7, RejectsRun
  <2> QED BY <2>1, <2>3, <2>4, <2>5, <2>6, <2>7
<1>4. CASE Finalize BY <1>4, FinalizeEffect DEF FinalizeStep, Wrote
<1>5. CASE RunIntervention
  <2>1. ASSUME NEW a, NEW n, AddBudget(a, n)
        PROVE  ResumeStep
    <3>1. "interrupted" \notin Pauses BY DEF Pauses, BudgetPauses
    <3>2. run.resumeStatus = "none" \/ run.resumeStatus # "none" OBVIOUS
    <3> QED
      BY <2>1, <3>1, AddBudgetEffect
      DEF ResumeStep, KeepsTasks, ResumedStatus
  <2> QED BY <1>5, <2>1, OperatorSteps DEF RunIntervention, RunStep
<1>6. CASE TaskIntervention BY <1>6, IntervenesRun
<1>7. CASE \E d \in Definition : ApplyRevision(d) BY <1>7, RevisesRun
<1> QED BY <1>1, <1>2, <1>3, <1>4, <1>5, <1>6, <1>7 DEF Next

-----------------------------------------------------------------------------
(* What the steps do to a status. *)

LEMMA StatusTypes ==
  ASSUME TypeOK
  PROVE  /\ run.status \in RunStatus
         /\ run.resumeStatus \in Resumable \cup {"none"}
         /\ run.interruption \in Resumable \cup {"none"}
         /\ ResumedStatus \in Resumable
<1>1. /\ run.status \in RunStatus
      /\ run.resumeStatus \in Resumable \cup {"none"}
      /\ run.interruption \in Resumable \cup {"none"}
  BY DEF TypeOK, RunRecord
<1>2. "active" \in Resumable BY DEF Resumable
<1> QED BY <1>1, <1>2 DEF ResumedStatus, Orelse

LEMMA PromotedFields ==
  ASSUME NEW x \in TaskRecord, NEW y, Promoted(x, y)
  PROVE  /\ y.attempts = x.attempts
         /\ \/ y.status = x.status
            \/ x.status = "pending" /\ y.status = "ready"
<1>1. [x EXCEPT !.status = "ready"].attempts = x.attempts
  BY Zenon DEF TaskRecord
<1>2. [x EXCEPT !.status = "ready"].status = "ready" BY StatusFields
<1> QED BY <1>1, <1>2 DEF Promoted

LEMMA RevisedTaskFields ==
  ASSUME TypeOK, NEW d \in Definition, NEW t \in Task
  PROVE  LET y == RevisedTask(run, d, t)
         IN  /\ y.status \in {"absent", "completed", "ready", "pending"}
             /\ \/ y.attempts = 0
                \/ t \in Members(run) /\ y.attempts = run.task[t].attempts
<1>1. DEFINE x == run.task[t]
             y == RevisedTask(run, d, t)
             k(s) == [InitialTask(s) EXCEPT !.attempts = x.attempts,
                                            !.signatures = x.signatures,
                                            !.worker = x.worker]
<1>2. \A s : InitialTask(s).status = s /\ InitialTask(s).attempts = 0
  BY Zenon DEF InitialTask
<1>3. \A s : k(s).status = s /\ k(s).attempts = x.attempts
  BY Zenon DEF InitialTask
<1>4. \/ y = InitialTask("absent")
      \/ t \in Members(run) /\ x.status = "completed" /\ y = x
      \/ \E s \in {"ready", "pending"} :
           y = InitialTask(s) \/ (t \in Members(run) /\ y = k(s))
  BY Zenon DEF RevisedTask
<1> HIDE DEF k, x, y
<1>5. CASE y = InitialTask("absent") BY <1>2, <1>5 DEF y
<1>6. CASE t \in Members(run) /\ x.status = "completed" /\ y = x
  BY <1>6 DEF y, x
<1>7. ASSUME NEW s \in {"ready", "pending"},
             y = InitialTask(s) \/ (t \in Members(run) /\ y = k(s))
      PROVE  /\ y.status \in {"absent", "completed", "ready", "pending"}
             /\ \/ y.attempts = 0
                \/ t \in Members(run) /\ y.attempts = run.task[t].attempts
  BY <1>2, <1>3, <1>7 DEF x
<1> QED BY <1>4, <1>5, <1>6, <1>7 DEF y

(* The run statuses that the lifecycle events are legal from. *)
LEMMA LifecycleSources ==
  /\ RunEdge("timeout").from = {"active", "interrupted"}
  /\ RunEdge("cancel").from
       = Pauses \cup {"approved", "active", "interrupted", "blocked",
                      "timed-out", "review-pending"}
  /\ RunEdge("rollback").from
       = Pauses \cup {"interrupted", "blocked", "timed-out", "completed",
                      "cancelled"}
  /\ RunEdge("abandon").from
       = RunStatus \ {"completed", "abandoned", "finalized"}
<1>1. RunEdge("timeout").from = {"active", "interrupted"}
  BY Zenon DEF RunEdge
<1>2. RunEdge("cancel").from
        = Pauses \cup {"approved", "active", "interrupted", "blocked",
                       "timed-out", "review-pending"}
  BY Zenon DEF RunEdge
<1>3. RunEdge("rollback").from
        = Pauses \cup {"interrupted", "blocked", "timed-out", "completed",
                       "cancelled"}
  BY Zenon DEF RunEdge
<1>4. RunEdge("abandon").from
        = RunStatus \ {"completed", "abandoned", "finalized"}
  BY Zenon DEF RunEdge
<1> QED BY <1>1, <1>2, <1>3, <1>4

(* A closed task is not busy; only a timeout leaves a blocked one, and no  *)
(* lifecycle event makes one.                                              *)
LEMMA ClosedStatus ==
  ASSUME NEW x \in TaskRecord, NEW e \in LifecycleEvent
  PROVE  LET y == ClosedTask(x, e)
         IN  /\ y.status = TaskIfSupported(x.status, e)
             /\ y.attempts = x.attempts /\ y.status \notin Busy
             /\ y.status = "blocked" => e = "timeout" /\ x.status = "blocked"
<1>1. LET y == ClosedTask(x, e)
      IN  y.status = TaskIfSupported(x.status, e) /\ y.attempts = x.attempts
  BY Zenon DEF ClosedTask, TaskRecord
<1>2. TaskEdge(e).to \in {"timed-out", "cancelled", "rolled-back", "abandoned"}
  BY LifecycleTargets
<1>3. /\ {"running", "verifying"} \subseteq TaskEdge(e).from
      /\ e # "timeout" => "blocked" \in TaskEdge(e).from
  <2>1. TaskEdge("timeout").from = {"running", "verifying", "review-pending"}
    BY Zenon DEF TaskEdge, FailureClassification
  <2>2. TaskEdge("cancel").from
          = {"pending", "ready", "running", "verifying", "review-pending",
             "blocked", "timed-out"}
    BY Zenon DEF TaskEdge, FailureClassification
  <2>3. TaskEdge("rollback").from = TaskStatus \ {"rolled-back", "abandoned"}
    BY Zenon DEF TaskEdge, FailureClassification
  <2>4. TaskEdge("abandon").from = TaskStatus \ {"completed", "abandoned"}
    BY Zenon DEF TaskEdge, FailureClassification
  <2> QED BY <2>1, <2>2, <2>3, <2>4 DEF LifecycleEvent, TaskStatus
<1> QED BY <1>1, <1>2, <1>3 DEF TaskIfSupported, CanTask, Busy

-----------------------------------------------------------------------------
(* The run is blocked exactly while a task is. *)

LEMMA BlockedInit ==
  ASSUME Init
  PROVE  BlockedTogether
<1>1. PICK d \in Definition : run = ApprovedRun(d) BY DEF Init
<1>2. /\ run.status = "approved" /\ run.defn = d
      /\ run.task = [t \in Task |->
                       InitialTask(IF t \notin d.tasks THEN "absent"
                                   ELSE IF d.deps[t] = {} THEN "ready"
                                   ELSE "pending")]
  BY <1>1, Zenon DEF ApprovedRun
<1>3. \A s : InitialTask(s).status = s BY Zenon DEF InitialTask
<1>4. Members(run) \subseteq Task BY InitType, MemberTypes DEF TypeOK
<1>5. \A t \in Members(run) : run.task[t].status \in {"absent", "ready", "pending"}
  BY <1>2, <1>3, <1>4
<1> QED BY <1>2, <1>5 DEF BlockedTogether, SomeBlocked

LEMMA BlockedStep ==
  ASSUME TypeOK, TypeOK', BlockedTogether, RunStep
  PROVE  BlockedTogether'
<1> USE DEF BlockedTogether, SomeBlocked
<1>1. RunStep OBVIOUS
<1>2. /\ Members(run) \subseteq Task /\ \A t \in Task : run.task[t] \in TaskRecord
  BY MemberTypes, RowTypes DEF TypeOK
<1>3. SamePlan => Members(run') = Members(run) BY DEF SamePlan, Members
<1>4. ASSUME KeepsTasks
      PROVE  /\ SomeBlocked(run') <=> SomeBlocked(run)
  BY <1>4 DEF KeepsTasks, SameTasks, Members
<1>5. CASE run' = run BY <1>5 DEF Members
<1>6. CASE PauseStep
  BY <1>4, <1>6 DEF PauseStep, Resumable, Pauses, BudgetPauses
<1>7. CASE InterruptStep BY <1>4, <1>7 DEF InterruptStep
<1>8. CASE ResumeStep
  BY <1>4, <1>8, StatusTypes DEF ResumeStep, Resumable, Pauses, BudgetPauses
<1>9. ASSUME NEW t \in Task, StartStep(t)
      PROVE  BlockedTogether'
  BY <1>2, <1>9 DEF StartStep, OthersStay, Steady, Members
<1>10. ASSUME NEW t \in Task, AdvanceStep(t)
       PROVE  BlockedTogether'
  <2>1. Members(run') = Members(run) BY <1>10 DEF AdvanceStep, Steady, Members
  <2>2. \A v \in Members(run) \ {t} :
          run'.task[v].status = "blocked" <=> run.task[v].status = "blocked"
    BY <1>2, <1>10, PromotedFields DEF AdvanceStep, OthersPromoted
  <2>3. run.task[t].status # "blocked" /\ run'.task[t].status # "blocked"
    BY <1>10 DEF AdvanceStep
  <2>4. SomeBlocked(run') <=> SomeBlocked(run) BY <2>1, <2>2, <2>3
  <2> QED BY <1>10, <2>4 DEF AdvanceStep
<1>11. ASSUME NEW t \in Task, BlockStep(t)
       PROVE  BlockedTogether'
  BY <1>11 DEF BlockStep, Steady, Members
<1>12. CASE FinalPassStep
  BY <1>12 DEF FinalPassStep, SameTasks, Members
<1>13. ASSUME NEW F \in SUBSET Task, FinalBlockStep(F)
       PROVE  BlockedTogether'
  BY <1>3, <1>13 DEF FinalBlockStep
<1>14. CASE FinalizeStep BY <1>14 DEF FinalizeStep, Steady, Members
<1>15. ASSUME NEW e \in LifecycleEvent, CloseStep(e)
       PROVE  BlockedTogether'
  <2>1. run'.status # "blocked" BY <1>15, LifecycleTargets DEF CloseStep
  <2>2. \A t \in Members(run) : run'.task[t].status # "blocked"
    BY <1>2, <1>15, ClosedStatus, LifecycleSources DEF CloseStep, CanRun
  <2> QED BY <1>15, <2>1, <2>2 DEF CloseStep, Steady, Members
<1>16. ASSUME NEW t \in Task, NEW s \in RunStatus, ReopenStep(t, s)
       PROVE  BlockedTogether'
  BY <1>16 DEF ReopenStep, Steady, Members
<1>17. ASSUME NEW d \in Definition, ReviseStep(d)
       PROVE  BlockedTogether'
  <2>1. \A t \in Task : run'.task[t].status # "blocked"
    BY <1>17, RevisedTaskFields DEF ReviseStep
  <2>2. Members(run') \subseteq Task BY MemberTypes DEF TypeOK
  <2>3. run'.status # "blocked"
    BY <1>17 DEF ReviseStep, RevisedStatus, Pauses, BudgetPauses
  <2> QED BY <2>1, <2>2, <2>3
<1> QED
  BY <1>1, <1>5, <1>6, <1>7, <1>8, <1>9, <1>10, <1>11, <1>12, <1>13, <1>14,
    <1>15, <1>16, <1>17 DEF RunStep

(* No command separates the two: the run is blocked exactly while one of   *)
(* its tasks is, for every definition and every bound (state.js,           *)
(* recordWorkflowResult and interveneWorkflow).                            *)
THEOREM BlockedIsTogether == Spec => []BlockedTogether
BY TypeCorrect, RunSteps, BlockedInit, BlockedStep, PTL DEF Spec

-----------------------------------------------------------------------------
(* Work in progress is admissible.  A task is at work only in a run that   *)
(* is active, or was when it was blocked, paused or interrupted: a run     *)
(* that resumes as approved or as review-pending has none.                 *)

BusyOpen ==
  BusyTasks(run) # {} =>
    /\ run.status \in {"active", "blocked", "interrupted"} \cup Pauses
    /\ run.status \in Pauses => run.resumeStatus = "active"
    /\ run.status = "interrupted" => run.interruption = "active"

Work == BusyOpen /\ WorkAdmissible

LEMMA BusyFinite ==
  ASSUME TypeOK
  PROVE  /\ IsFiniteSet(BusyTasks(run)) /\ Cardinality(BusyTasks(run)) \in Nat
         /\ run.defn.maxWorkers \in 1..16
<1>1. IsFiniteSet(Members(run)) /\ run.defn.maxWorkers \in 1..16
  BY MemberTypes
  DEF TypeOK, ValidDefinition, GraphValid, DefinitionShape, Members
<1>2. BusyTasks(run) \subseteq Members(run) BY DEF BusyTasks
<1> QED BY <1>1, <1>2, FS_Subset, FS_CardinalityType

LEMMA NoWork ==
  ASSUME TypeOK, BusyTasks(run) = {}
  PROVE  Work
BY FS_EmptySet, BusyFinite DEF Work, BusyOpen, WorkAdmissible

(* A step that makes no task busy and keeps the completed ones keeps the   *)
(* work admissible.                                                        *)
LEMMA LessWork ==
  ASSUME TypeOK, TypeOK', WorkAdmissible, run'.defn = run.defn,
         \A t \in Members(run) : run'.task[t].status \in Busy =>
                                   run.task[t].status \in Busy,
         \A t \in BusyTasks(run) : \A u \in run.defn.deps[t] :
           run.task[u].status = "completed" => run'.task[u].status = "completed"
  PROVE  WorkAdmissible' /\ BusyTasks(run') \subseteq BusyTasks(run)
<1>1. BusyTasks(run') \subseteq BusyTasks(run) BY DEF BusyTasks, Members
<1>2. Cardinality(BusyTasks(run')) <= Cardinality(BusyTasks(run))
  BY <1>1, BusyFinite, FS_Subset
<1>3. Cardinality(BusyTasks(run')) \in Nat
  BY <1>1, BusyFinite, FS_Subset, FS_CardinalityType
<1>4. Cardinality(BusyTasks(run')) <= run'.defn.maxWorkers
  BY <1>2, <1>3, BusyFinite DEF WorkAdmissible
<1>5. \A t \in BusyTasks(run') : DepsCompleted(run', t)
  BY <1>1 DEF WorkAdmissible, DepsCompleted
<1> QED BY <1>1, <1>4, <1>5 DEF WorkAdmissible

(* A start takes one of the free places, for a task whose dependencies     *)
(* are completed.                                                          *)
LEMMA StartIsAdmissible ==
  ASSUME TypeOK, TypeOK', Work, NEW t \in Task, StartStep(t)
  PROVE  Work'
<1>1. /\ t \in Members(run) /\ run.task[t].status = "ready"
      /\ DepsCompleted(run, t) /\ Members(run') = Members(run)
      /\ run'.defn = run.defn /\ run'.status = "active"
      /\ run'.task[t].status = "running"
      /\ \A v \in Task \ {t} : run'.task[v] = run.task[v]
  BY DEF StartStep, ReadyTasks, Startable, Steady, Members, OthersStay
<1>2. BusyTasks(run') = BusyTasks(run) \cup {t} /\ t \notin BusyTasks(run)
  BY <1>1, MemberTypes DEF TypeOK, BusyTasks, Busy
<1>3. Cardinality(BusyTasks(run)) + 1 <= run.defn.maxWorkers
  <2>1. DEFINE B == {u \in Startable(run) :
                       run.defn.order[u] < run.defn.order[t]}
  <2>2. Cardinality(B) + Cardinality(BusyTasks(run)) < run.defn.maxWorkers
    BY DEF StartStep, ReadyTasks
  <2>3. Cardinality(B) \in Nat
    <3>1. B \subseteq Members(run) BY DEF Startable
    <3>2. IsFiniteSet(Members(run))
      BY MemberTypes DEF TypeOK, ValidDefinition, GraphValid, Members
    <3> QED BY <3>1, <3>2, FS_Subset, FS_CardinalityType
  <2> HIDE DEF B
  <2> QED BY <2>2, <2>3, BusyFinite
<1>4. Cardinality(BusyTasks(run')) <= run'.defn.maxWorkers
  BY <1>1, <1>2, <1>3, BusyFinite, FS_AddElement
<1>5. ASSUME NEW v \in BusyTasks(run')
      PROVE  DepsCompleted(run', v)
  <2>1. DepsCompleted(run, v)
    BY <1>1, <1>2 DEF Work, WorkAdmissible
  <2>2. run.defn.deps[v] \subseteq Members(run)
    <3>1. v \in Members(run) BY <1>1 DEF BusyTasks
    <3> QED
      BY <3>1, MemberTypes DEF TypeOK, ValidDefinition, GraphValid, Members
  <2>3. Members(run) \subseteq Task BY MemberTypes DEF TypeOK
  <2> QED BY <1>1, <2>1, <2>2, <2>3 DEF DepsCompleted
<1>6. BusyOpen' BY <1>1 DEF BusyOpen, Pauses, BudgetPauses
<1> QED BY <1>4, <1>5, <1>6 DEF Work, WorkAdmissible

LEMMA WorkInit ==
  ASSUME Init
  PROVE  Work
<1>1. PICK d \in Definition : run = ApprovedRun(d) BY DEF Init
<1>2. run.task = [t \in Task |->
                    InitialTask(IF t \notin d.tasks THEN "absent"
                                ELSE IF d.deps[t] = {} THEN "ready"
                                ELSE "pending")]
  BY <1>1, Zenon DEF ApprovedRun
<1>3. \A s : InitialTask(s).status = s BY Zenon DEF InitialTask
<1>4. Members(run) \subseteq Task BY InitType, MemberTypes DEF TypeOK
<1>5. \A t \in Members(run) : run.task[t].status \in {"absent", "ready", "pending"}
  BY <1>2, <1>3, <1>4
<1>6. BusyTasks(run) = {} BY <1>5 DEF BusyTasks, Busy
<1> QED BY <1>6, InitType, NoWork

LEMMA WorkStep ==
  ASSUME TypeOK, TypeOK', Work, RunStep
  PROVE  Work'
<1> USE DEF BusyOpen
<1>1. RunStep /\ TypeOK' OBVIOUS
<1>2. /\ Members(run) \subseteq Task /\ \A t \in Task : run.task[t] \in TaskRecord
      /\ \A t \in Members(run) : run.defn.deps[t] \subseteq Members(run)
      /\ WorkAdmissible
  BY MemberTypes, RowTypes
  DEF TypeOK, Work, ValidDefinition, GraphValid, Members
<1>3. ASSUME SameTasks(run, run')
      PROVE  WorkAdmissible' /\ BusyTasks(run') = BusyTasks(run)
  <2>1. BusyTasks(run') = BusyTasks(run)
    BY <1>3 DEF SameTasks, BusyTasks, Members
  <2>2. WorkAdmissible'
    BY <1>1, <1>2, <1>3, LessWork DEF SameTasks
  <2> QED BY <2>1, <2>2
<1>4. ASSUME BusyTasks(run') = {}
      PROVE  Work'
  <2>1. run'.defn.maxWorkers \in 1..16
    BY <1>1, MemberTypes DEF TypeOK, ValidDefinition, DefinitionShape
  <2>2. Cardinality(BusyTasks(run')) = 0 BY <1>4, FS_EmptySet
  <2> QED BY <1>4, <2>1, <2>2 DEF Work, WorkAdmissible
<1>5. CASE run' = run BY <1>3, <1>5 DEF Work, SameTasks
<1>6. CASE PauseStep
  <2>1. WorkAdmissible' /\ BusyTasks(run') = BusyTasks(run)
    BY <1>3, <1>6 DEF PauseStep, KeepsTasks
  <2> QED
    BY <1>6, <2>1
    DEF Work, PauseStep, Resumable, Pauses, BudgetPauses
<1>7. CASE InterruptStep
  <2>1. WorkAdmissible' /\ BusyTasks(run') = BusyTasks(run)
    BY <1>3, <1>7 DEF InterruptStep, KeepsTasks
  <2> QED
    BY <1>7, <2>1 DEF Work, InterruptStep, Pauses, BudgetPauses
<1>8. CASE ResumeStep
  <2>1. WorkAdmissible' /\ BusyTasks(run') = BusyTasks(run)
    BY <1>3, <1>8 DEF ResumeStep, KeepsTasks
  <2>2. BusyTasks(run) # {} => ResumedStatus = "active"
    BY <1>8 DEF Work, ResumeStep, ResumedStatus, Orelse, Pauses, BudgetPauses
  <2> QED
    BY <1>8, <2>1, <2>2 DEF Work, ResumeStep, Pauses, BudgetPauses
<1>9. ASSUME NEW t \in Task, StartStep(t)
      PROVE  Work'
  BY <1>1, <1>9, StartIsAdmissible
<1>10. ASSUME NEW t \in Task, AdvanceStep(t)
       PROVE  Work'
  <2>1. Members(run') = Members(run) /\ run'.defn = run.defn
    BY <1>10 DEF AdvanceStep, Steady, Members
  <2>2. /\ \A v \in Task \ {t} :
             /\ run'.task[v].status \in Busy => run.task[v].status \in Busy
             /\ run.task[v].status = "completed" =>
                  run'.task[v].status = "completed"
        /\ run.task[t].status # "completed" /\ run'.task[t].status \notin Busy
    BY <1>2, <1>10, PromotedFields DEF AdvanceStep, OthersPromoted, Busy
  <2>3. WorkAdmissible' /\ BusyTasks(run') \subseteq BusyTasks(run)
    <3>1. \A v \in BusyTasks(run) : \A u \in run.defn.deps[v] : u \in Task
      BY <1>2 DEF BusyTasks
    <3> QED BY <1>1, <1>2, <2>1, <2>2, <3>1, LessWork
  <2>4. CASE AllComplete(run')
    BY <1>4, <2>4 DEF AllComplete, BusyTasks, Busy
  <2>5. CASE run'.status = "active"
    BY <2>3, <2>5 DEF Work, Pauses, BudgetPauses
  <2>6. CASE run'.status = run.status
    BY <1>10, <2>3, <2>6 DEF Work, AdvanceStep, Steady
  <2> QED BY <1>10, <2>4, <2>5, <2>6 DEF AdvanceStep
<1>11. ASSUME NEW t \in Task, BlockStep(t)
       PROVE  Work'
  <2>1. /\ \A v \in Task \ {t} : run'.task[v] = run.task[v]
        /\ run.task[t].status # "completed" /\ run'.task[t].status \notin Busy
        /\ run'.defn = run.defn /\ run'.status = "blocked"
    BY <1>11 DEF BlockStep, OthersStay, Busy, Steady
  <2>2. \A v \in BusyTasks(run) : \A u \in run.defn.deps[v] : u \in Task
    BY <1>2 DEF BusyTasks
  <2>3. WorkAdmissible' BY <1>1, <1>2, <2>1, <2>2, LessWork
  <2> QED BY <2>1, <2>3 DEF Work, Pauses, BudgetPauses
<1>12. CASE FinalPassStep
  <2>1. BusyTasks(run) = {}
    BY <1>12 DEF Work, FinalPassStep, Pauses, BudgetPauses
  <2>2. BusyTasks(run') = BusyTasks(run)
    BY <1>3, <1>12 DEF FinalPassStep
  <2> QED BY <1>4, <2>1, <2>2
<1>13. ASSUME NEW F \in SUBSET Task, FinalBlockStep(F)
       PROVE  Work'
  <2>1. BusyTasks(run) = {}
    BY <1>13 DEF Work, FinalBlockStep, Pauses, BudgetPauses
  <2>2. BusyTasks(run') \subseteq BusyTasks(run)
    BY <1>2, <1>13 DEF FinalBlockStep, SamePlan, BusyTasks, Members, Busy
  <2> QED BY <1>4, <2>1, <2>2
<1>14. CASE FinalizeStep
  <2>1. BusyTasks(run') = {}
    BY <1>14 DEF FinalizeStep, AllComplete, Steady, BusyTasks, Members, Busy
  <2> QED BY <1>4, <2>1
<1>15. ASSUME NEW e \in LifecycleEvent, CloseStep(e)
       PROVE  Work'
  <2>1. BusyTasks(run') = {}
    BY <1>2, <1>15, ClosedStatus DEF CloseStep, Steady, BusyTasks, Members
  <2> QED BY <1>4, <2>1
<1>16. ASSUME NEW t \in Task, NEW s \in RunStatus, ReopenStep(t, s)
       PROVE  Work'
  <2>1. /\ \A v \in Task \ {t} : run'.task[v] = run.task[v]
        /\ run.task[t].status # "completed" /\ run'.task[t].status \notin Busy
        /\ run'.defn = run.defn
    BY <1>16 DEF ReopenStep, OthersStay, Busy, Steady, ReopensFrom
  <2>2. \A v \in BusyTasks(run) : \A u \in run.defn.deps[v] : u \in Task
    BY <1>2 DEF BusyTasks
  <2>3. WorkAdmissible' /\ BusyTasks(run') \subseteq BusyTasks(run)
    BY <1>1, <1>2, <2>1, <2>2, LessWork
  <2>4. run'.status \in {"active", "blocked", run.status}
    BY <1>16 DEF ReopenStep
  <2> QED
    BY <1>16, <2>3, <2>4 DEF Work, ReopenStep, Steady, Pauses, BudgetPauses
<1>17. ASSUME NEW d \in Definition, ReviseStep(d)
       PROVE  Work'
  <2>1. \A t \in Task : run'.task[t].status \notin Busy \/ t \in BusyTasks(run)
    BY <1>17, RevisedTaskFields DEF ReviseStep, Busy
  <2>2. BusyTasks(run) = {} BY <1>17 DEF ReviseStep, RevisionValid
  <2>3. Members(run') \subseteq Task BY <1>1, MemberTypes DEF TypeOK
  <2>4. BusyTasks(run') = {} BY <2>1, <2>2, <2>3 DEF BusyTasks
  <2> QED BY <1>4, <2>4
<1> QED
  BY <1>1, <1>5, <1>6, <1>7, <1>8, <1>9, <1>10, <1>11, <1>12, <1>13, <1>14,
    <1>15, <1>16, <1>17 DEF RunStep

LEMMA WorkHolds == Spec => []Work
BY TypeCorrect, RunSteps, WorkInit, WorkStep, PTL DEF Spec

(* Never more tasks at work than the approved number of workers, and none  *)
(* on a dependency that is not completed, for every graph, every number of *)
(* workers and every bound (scheduler.js, deriveSchedule; state.js,        *)
(* startWorkflowTask and interveneWorkflow).                               *)
THEOREM WorkIsAdmissible == Spec => []WorkAdmissible
BY WorkHolds, PTL DEF Work

-----------------------------------------------------------------------------
(* A run that reads as approved is untouched.  The remembered status could *)
(* bring "approved" back later, so that it must be forgotten by the time   *)
(* that a task starts.                                                     *)

ApprovedForgotten ==
  /\ run.resumeStatus = "approved" =>
       run.status \in Pauses \cup {"cancelled", "rolled-back", "abandoned"}
  /\ run.interruption # "approved"

LEMMA ApprovedInit ==
  ASSUME Init
  PROVE  ApprovedUntouched /\ ApprovedForgotten
<1>1. PICK d \in Definition : run = ApprovedRun(d) BY DEF Init
<1>2. /\ run.task = [t \in Task |->
                       InitialTask(IF t \notin d.tasks THEN "absent"
                                   ELSE IF d.deps[t] = {} THEN "ready"
                                   ELSE "pending")]
      /\ run.used = 0 /\ run.resumeStatus = "none" /\ run.interruption = "none"
  BY <1>1, Zenon DEF ApprovedRun
<1>3. \A s : InitialTask(s).attempts = 0 BY Zenon DEF InitialTask
<1>4. Members(run) \subseteq Task BY InitType, MemberTypes DEF TypeOK
<1>5. \A t \in Members(run) : run.task[t].attempts = 0 BY <1>2, <1>3, <1>4
<1> QED BY <1>2, <1>5 DEF ApprovedUntouched, ApprovedForgotten

LEMMA ApprovedStep ==
  ASSUME TypeOK, TypeOK', BlockedTogether, ApprovedUntouched,
         ApprovedForgotten, RunStep
  PROVE  ApprovedUntouched' /\ ApprovedForgotten'
<1> USE DEF ApprovedUntouched, ApprovedForgotten, Pauses, BudgetPauses
<1>1. RunStep OBVIOUS
<1>2. /\ Members(run) \subseteq Task /\ \A t \in Task : run.task[t] \in TaskRecord
      /\ run.status \in RunStatus
  BY MemberTypes, RowTypes, StatusTypes DEF TypeOK
<1>3. CASE run' = run BY <1>3 DEF Members
<1>4. CASE PauseStep
  BY <1>4 DEF PauseStep, KeepsTasks, SameTasks, Resumable, Members
<1>5. CASE InterruptStep
  BY <1>5 DEF InterruptStep, KeepsTasks, SameTasks, Members
<1>6. CASE ResumeStep
  <2>1. run'.used = run.used /\ run'.task = run.task /\ Members(run') = Members(run)
    BY <1>6 DEF ResumeStep, KeepsTasks, SameTasks, Members
  <2>2. ResumedStatus = "approved" => run.resumeStatus = "approved"
    BY DEF ResumedStatus, Orelse
  <2> QED BY <1>6, <2>1, <2>2 DEF ResumeStep
<1>7. ASSUME NEW t \in Task, StartStep(t)
      PROVE  ApprovedUntouched' /\ ApprovedForgotten'
  BY <1>7 DEF StartStep, Steady
<1>8. ASSUME NEW t \in Task, AdvanceStep(t)
      PROVE  ApprovedUntouched' /\ ApprovedForgotten'
  <2>1. run.status # "approved" /\ run.resumeStatus # "approved"
    BY <1>8 DEF AdvanceStep
  <2> QED BY <1>8, <2>1 DEF AdvanceStep, Steady
<1>9. ASSUME NEW t \in Task, BlockStep(t)
      PROVE  ApprovedUntouched' /\ ApprovedForgotten'
  BY <1>9 DEF BlockStep, Steady
<1>10. CASE FinalPassStep BY <1>10 DEF FinalPassStep
<1>11. ASSUME NEW F \in SUBSET Task, FinalBlockStep(F)
       PROVE  ApprovedUntouched' /\ ApprovedForgotten'
  BY <1>11 DEF FinalBlockStep
<1>12. CASE FinalizeStep BY <1>12 DEF FinalizeStep, Steady
<1>13. ASSUME NEW e \in LifecycleEvent, CloseStep(e)
       PROVE  ApprovedUntouched' /\ ApprovedForgotten'
  <2>1. run'.status \in {"timed-out", "cancelled", "rolled-back", "abandoned"}
    BY <1>13, LifecycleTargets DEF CloseStep
  <2>2. e = "timeout" => run.resumeStatus # "approved"
    BY <1>13, LifecycleSources DEF CloseStep, CanRun
  <2>3. e # "timeout" => run'.status # "timed-out"
    <3>1. /\ RunEdge("cancel").to = "cancelled"
          /\ RunEdge("rollback").to = "rolled-back"
          /\ RunEdge("abandon").to = "abandoned"
      BY Zenon DEF RunEdge
    <3> QED BY <1>13, <3>1 DEF CloseStep, LifecycleEvent
  <2>4. \A t \in Members(run) : run'.task[t].attempts = run.task[t].attempts
    BY <1>2, <1>13, ClosedStatus DEF CloseStep
  <2> QED BY <1>13, <2>1, <2>2, <2>3, <2>4 DEF CloseStep, Steady, Members
<1>14. ASSUME NEW t \in Task, NEW s \in RunStatus, ReopenStep(t, s)
       PROVE  ApprovedUntouched' /\ ApprovedForgotten'
  <2>1. /\ Members(run') = Members(run) /\ run'.used = run.used
        /\ \A v \in Members(run) : run'.task[v].attempts = run.task[v].attempts
    BY <1>2, <1>14 DEF ReopenStep, OthersStay, Steady, Members
  <2>2. run'.status \in {"active", "blocked", run.status}
    BY <1>14 DEF ReopenStep
  <2>3. run.resumeStatus = "approved" => run'.status = run.status
    <3>1. ASSUME run.resumeStatus = "approved"
          PROVE  run'.status = run.status
      <4>1. run.status \notin {"blocked", "interrupted", "timed-out"}
        BY <3>1
      <4>2. ~SomeBlocked(run) BY <4>1 DEF BlockedTogether
      <4>3. ~SomeBlocked(run')
        BY <1>2, <1>14, <2>1, <4>2 DEF ReopenStep, OthersStay, SomeBlocked
      <4> QED BY <1>14, <4>1, <4>3 DEF ReopenStep
    <3> QED BY <3>1
  <2> QED BY <1>14, <2>1, <2>2, <2>3 DEF ReopenStep, Steady
<1>15. ASSUME NEW d \in Definition, ReviseStep(d)
       PROVE  ApprovedUntouched' /\ ApprovedForgotten'
  <2>1. Members(run') \subseteq Task BY MemberTypes DEF TypeOK
  <2>2. \A t \in Members(run') :
          \/ run'.task[t].attempts = 0
          \/ t \in Members(run) /\ run'.task[t].attempts = run.task[t].attempts
    BY <1>15, <2>1, RevisedTaskFields DEF ReviseStep
  <2>3. /\ run'.used = run.used /\ run'.resumeStatus = run.resumeStatus
        /\ run'.interruption = run.interruption
    BY <1>15 DEF ReviseStep
  <2>4. /\ run'.status = "approved" => run.status = "approved"
        /\ run.status \in Pauses => run'.status = run.status
        /\ run.status \in Revisable
    BY <1>15 DEF ReviseStep, RevisedStatus, RevisionValid
  <2> QED BY <2>2, <2>3, <2>4 DEF Revisable
<1> QED
  BY <1>1, <1>3, <1>4, <1>5, <1>6, <1>7, <1>8, <1>9, <1>10, <1>11, <1>12,
    <1>13, <1>14, <1>15 DEF RunStep

(* A run that reads as approved, now or when a pause is lifted, has spent  *)
(* nothing and started no task, for every definition and every bound       *)
(* (state.js, interveneWorkflowRun and startWorkflowTask; budget.js,       *)
(* pauseForWorkflowBudget).                                                *)
THEOREM ApprovedIsUntouched == Spec => []ApprovedUntouched
BY TypeCorrect, RunSteps, BlockedIsTogether, ApprovedInit, ApprovedStep, PTL
  DEF Spec

-----------------------------------------------------------------------------
(* A reviewer's PASS covers the run.  It is given in review-pending, so    *)
(* that this rests on when a run is there, or will be again when it is     *)
(* resumed.  A revision of a run that is paused in review breaks that (see *)
(* WorkflowRunClaims): the theorem is about the definition first approved. *)

InReviewIsComplete ==
  /\ run.status \in {"review-pending", "completed"} => AllComplete(run)
  /\ run.status \in Pauses /\ run.resumeStatus = "review-pending" =>
       AllComplete(run)
  /\ run.status = "interrupted" /\ run.interruption = "review-pending" =>
       AllComplete(run)

ReviewForgotten ==
  run.resumeStatus = "review-pending" =>
    run.status \in Pauses \cup {"cancelled", "rolled-back", "abandoned"}

PassEndsWork ==
  run.reviewer = "passed" =>
    run.status \in {"completed", "finalized", "rolled-back", "abandoned"}

ReviewFollowsPolicy ==
  /\ ~run.defn.finalReview => run.reviewer = "not-required"
  /\ run.defn.finalReview /\ run.status = "completed" =>
       run.reviewer = "passed"

Covered ==
  /\ InReviewIsComplete /\ ReviewForgotten /\ PassEndsWork
  /\ ReviewFollowsPolicy /\ PassCoversWork

FirstPlanCovered == run.revision = 1 => Covered

LEMMA CoveredInit ==
  ASSUME Init
  PROVE  FirstPlanCovered
<1>1. PICK d \in Definition : run = ApprovedRun(d) BY DEF Init
<1>2. /\ run.status = "approved" /\ run.resumeStatus = "none"
      /\ run.interruption = "none" /\ run.defn = d
      /\ run.reviewer = ReviewerGate(d)
  BY <1>1, Zenon DEF ApprovedRun
<1>3. run.reviewer # "passed" /\ ReviewFollowsPolicy
  BY <1>2 DEF ReviewerGate, ReviewFollowsPolicy
<1> QED
  BY <1>2, <1>3
  DEF FirstPlanCovered, Covered, InReviewIsComplete, ReviewForgotten,
    PassEndsWork, PassCoversWork, Pauses, BudgetPauses

(* A closing event keeps what a PASS covers, and takes a run that is done  *)
(* to one of the closed statuses.                                          *)
LEMMA ClosedCovered ==
  ASSUME NEW x \in TaskRecord, NEW e \in LifecycleEvent,
         x.status \in {"completed", "rolled-back", "abandoned"}
  PROVE  ClosedTask(x, e).status \in {"completed", "rolled-back", "abandoned"}
<1>1. ClosedTask(x, e).status = TaskIfSupported(x.status, e) BY ClosedStatus
<1>2. TaskEdge("timeout").from = {"running", "verifying", "review-pending"}
  BY Zenon DEF TaskEdge, FailureClassification
<1>3. TaskEdge("cancel").from
        = {"pending", "ready", "running", "verifying", "review-pending",
           "blocked", "timed-out"}
  BY Zenon DEF TaskEdge, FailureClassification
<1>4. /\ TaskEdge("rollback").to = "rolled-back"
      /\ TaskEdge("abandon").to = "abandoned"
  BY Zenon DEF TaskEdge, FailureClassification
<1> QED
  BY <1>1, <1>2, <1>3, <1>4 DEF TaskIfSupported, CanTask, LifecycleEvent

LEMMA ClosingTargets ==
  /\ RunEdge("timeout").to = "timed-out"
  /\ RunEdge("cancel").to = "cancelled"
  /\ RunEdge("rollback").to = "rolled-back"
  /\ RunEdge("abandon").to = "abandoned"
<1>1. RunEdge("timeout").to = "timed-out" BY Zenon DEF RunEdge
<1>2. RunEdge("cancel").to = "cancelled" BY Zenon DEF RunEdge
<1>3. RunEdge("rollback").to = "rolled-back" BY Zenon DEF RunEdge
<1>4. RunEdge("abandon").to = "abandoned" BY Zenon DEF RunEdge
<1> QED BY <1>1, <1>2, <1>3, <1>4

LEMMA CoveredStep ==
  ASSUME TypeOK, BlockedTogether, BusyOpen, Covered,
         [Next]_vars, BlockedTogether', run'.revision = run.revision
  PROVE  Covered'
<1> USE DEF Covered, InReviewIsComplete, ReviewForgotten, PassEndsWork,
            ReviewFollowsPolicy, PassCoversWork, Pauses, BudgetPauses
<1>1. RunStep BY RunSteps
<1>2. /\ Members(run) \subseteq Task /\ \A t \in Task : run.task[t] \in TaskRecord
      /\ run.status \in RunStatus /\ run.revision \in Nat
  BY MemberTypes, RowTypes, StatusTypes DEF TypeOK, RunRecord
<1>3. ASSUME SameTasks(run, run')
      PROVE  /\ AllComplete(run') <=> AllComplete(run)
             /\ Members(run') = Members(run) /\ run'.task = run.task
             /\ run'.defn = run.defn
  BY <1>3 DEF SameTasks, AllComplete, Members
<1>4. ASSUME NEW t \in Members(run),
             run.task[t].status
               \notin {"completed", "rolled-back", "abandoned"}
      PROVE  /\ run.reviewer # "passed" /\ run.status # "finalized"
             /\ ~AllComplete(run)
  BY <1>4 DEF AllComplete
<1>5. CASE run' = run BY <1>5 DEF AllComplete, Members
<1>6. CASE PauseStep
  BY <1>3, <1>6 DEF PauseStep, KeepsTasks, Resumable
<1>7. CASE InterruptStep
  BY <1>3, <1>7 DEF InterruptStep, KeepsTasks
<1>8. CASE ResumeStep
  <2>1. ResumedStatus = "review-pending" => AllComplete(run)
    BY <1>8 DEF ResumeStep, ResumedStatus, Orelse
  <2> QED
    BY <1>3, <1>8, <2>1, StatusTypes DEF ResumeStep, KeepsTasks, Resumable
<1>9. ASSUME NEW t \in Task, StartStep(t)
      PROVE  Covered'
  <2>1. t \in Members(run) /\ run.task[t].status = "ready"
    BY <1>9 DEF StartStep, ReadyTasks, Startable
  <2>2. run'.reviewer # "passed" /\ run'.status = "active"
    BY <1>4, <1>9, <2>1 DEF StartStep, Steady
  <2> QED BY <1>9, <2>2 DEF StartStep, Steady
<1>10. ASSUME NEW t \in Task, AdvanceStep(t)
       PROVE  Covered'
  <2>1. run.reviewer # "passed" /\ run.status # "finalized" /\ ~AllComplete(run)
    BY <1>4, <1>10 DEF AdvanceStep
  <2>2. run.resumeStatus # "review-pending"
    <3>1. CASE run.task[t].status = "running"
      BY <1>10, <3>1 DEF AdvanceStep, BusyOpen, BusyTasks, Busy
    <3> QED BY <1>10, <3>1 DEF AdvanceStep
  <2>3. /\ run'.reviewer = run.reviewer /\ run'.defn = run.defn
        /\ run'.resumeStatus = run.resumeStatus
    BY <1>10 DEF AdvanceStep, Steady
  <2>4. \/ /\ AllComplete(run')
           /\ run'.status = IF run.defn.finalReview THEN "review-pending"
                            ELSE "completed"
        \/ run'.status \in {"active", "blocked"}
    BY <1>10 DEF AdvanceStep, BlockedTogether
  <2> QED BY <2>1, <2>2, <2>3, <2>4
<1>11. ASSUME NEW t \in Task, BlockStep(t)
       PROVE  Covered'
  BY <1>11 DEF BlockStep, Steady
<1>12. CASE FinalPassStep
  BY <1>3, <1>12 DEF FinalPassStep, AllComplete
<1>13. ASSUME NEW F \in SUBSET Task, FinalBlockStep(F)
       PROVE  Covered'
  BY <1>13 DEF FinalBlockStep, SamePlan
<1>14. CASE FinalizeStep
  BY <1>14 DEF FinalizeStep, Steady, AllComplete, Members
<1>15. ASSUME NEW e \in LifecycleEvent, CloseStep(e)
       PROVE  Covered'
  <2>1. /\ run'.status \in {"timed-out", "cancelled", "rolled-back", "abandoned"}
        /\ run'.status = "timed-out" => run.status \in {"active", "interrupted"}
        /\ run'.status = "cancelled" => run.status \notin
             {"completed", "finalized", "rolled-back", "abandoned"}
        /\ run.status # "finalized"
    BY <1>15, ClosingTargets, LifecycleSources
    DEF CloseStep, CanRun, LifecycleEvent
  <2>2. /\ Members(run') = Members(run) /\ run'.defn = run.defn
        /\ run'.reviewer = run.reviewer
        /\ run'.resumeStatus = run.resumeStatus
    BY <1>15 DEF CloseStep, Steady, Members
  <2>3. run.reviewer = "passed" =>
          \A t \in Members(run) : run'.task[t].status
                                    \in {"completed", "rolled-back", "abandoned"}
    BY <1>2, <1>15, ClosedCovered DEF CloseStep
  <2> QED BY <2>1, <2>2, <2>3
<1>16. ASSUME NEW t \in Task, NEW s \in RunStatus, ReopenStep(t, s)
       PROVE  Covered'
  <2>1. /\ run.reviewer # "passed" /\ run.status # "finalized"
        /\ ~AllComplete(run)
    BY <1>4, <1>16 DEF ReopenStep, ReopensFrom
  <2>2. /\ run'.reviewer = run.reviewer /\ run'.defn = run.defn
        /\ run'.resumeStatus = run.resumeStatus
        /\ run'.interruption = run.interruption
    BY <1>16 DEF ReopenStep, Steady
  <2>3. run'.status \in {"active", "blocked", run.status}
    BY <1>16 DEF ReopenStep
  <2>4. ASSUME run.resumeStatus = "review-pending"
        PROVE  run'.status = run.status
    <3>1. run.status \notin {"blocked", "interrupted", "timed-out"}
      BY <2>4
    <3>2. ~SomeBlocked(run) BY <3>1 DEF BlockedTogether
    <3>3. ~SomeBlocked(run')
      BY <1>2, <1>16, <3>2
      DEF ReopenStep, OthersStay, SomeBlocked, Members, Steady
    <3> QED BY <1>16, <3>1, <3>3 DEF ReopenStep
  <2> QED BY <2>1, <2>2, <2>3, <2>4
<1>17. ASSUME NEW d \in Definition, ReviseStep(d)
       PROVE  FALSE
  BY <1>2, <1>17 DEF ReviseStep
<1> QED
  BY <1>1, <1>5, <1>6, <1>7, <1>8, <1>9, <1>10, <1>11, <1>12, <1>13, <1>14,
    <1>15, <1>16, <1>17 DEF RunStep

LEMMA FirstPlanStep ==
  ASSUME TypeOK, BlockedTogether, BusyOpen, FirstPlanCovered,
         [Next]_vars, BlockedTogether'
  PROVE  FirstPlanCovered'
<1>1. CASE SamePlan
  <2>1. run'.revision = run.revision BY <1>1 DEF SamePlan
  <2> QED BY <2>1, CoveredStep DEF FirstPlanCovered
<1>2. ASSUME NEW d \in Definition, Revises(d)
      PROVE  FirstPlanCovered'
  <2>1. run.revision \in 1..MaxRevision BY DEF TypeOK, RunRecord
  <2>2. run'.revision # 1 BY <1>2, <2>1, BoundAssumption DEF Revises
  <2> QED BY <2>2 DEF FirstPlanCovered
<1> QED BY <1>1, <1>2, StepPlan

LEMMA FirstPlanHolds == Spec => []FirstPlanCovered
<1>1. Work => BusyOpen BY DEF Work
<1> QED
  BY <1>1, TypeCorrect, BlockedIsTogether, WorkHolds, CoveredInit,
    FirstPlanStep, PTL DEF Spec

(* Until the run is revised, a reviewer's PASS and a finalization stand    *)
(* only over completed work, or over work that was rolled back or          *)
(* abandoned since, for every definition and every bound (state.js,        *)
(* recordWorkflowReview and finalizeWorkflowRun).                          *)
THEOREM PassCoversFirstPlan == Spec => [](run.revision = 1 => PassCoversWork)
<1>1. FirstPlanCovered => (run.revision = 1 => PassCoversWork)
  BY DEF FirstPlanCovered, Covered
<1> QED BY <1>1, FirstPlanHolds, PTL

(* The same as the run that checks it states it: no run is revised.        *)
THEOREM PassCoversRun ==
  ASSUME MaxRevision = 1
  PROVE  Spec => []PassCoversWork
<1>1. TypeOK => run.revision = 1 BY DEF TypeOK, RunRecord
<1>2. TypeOK /\ (run.revision = 1 => PassCoversWork) => PassCoversWork
  BY <1>1
<1> QED BY <1>2, TypeCorrect, PassCoversFirstPlan, PTL
=============================================================================
