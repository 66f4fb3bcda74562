------------------------ MODULE WorkflowRunFinalProofs -----------------------
(***************************************************************************)
(* Theorems about the end of a workflow run: a finalized run is final,     *)
(* nothing but rollback and abandon touches a run that was cancelled, and  *)
(* a run keeps the promises of its gate (RunGate).                         *)
(*                                                                         *)
(* The status of the run alone does not carry this.  Several commands look *)
(* at a task and never at the run's status (a result, a reassignment), so  *)
(* that it rests on what became of the tasks when the run ended: none of   *)
(* them is left in a status from which work goes on (Settled).             *)
(***************************************************************************)
EXTENDS WorkflowRunStatusProofs, WorkflowRunGate

Closed == {"cancelled", "rolled-back", "abandoned"}
Ended == Closed \cup {"finalized"}
SettledStatus ==
  {"completed", "failed", "cancelled", "rolled-back", "abandoned", "absent"}

Settled(r) ==
  r.status \in Ended =>
    \A t \in Members(r) : r.task[t].status \in SettledStatus

Stays == UNCHANGED <<run, checkpoint, result>>
GoesOn == run.status \notin Ended /\ run'.status \notin Ended

-----------------------------------------------------------------------------
(* The transition tables. *)

(* The run events that are legal for an ended run. *)
LEMMA EndedRefuses ==
  ASSUME NEW s \in Ended
  PROVE  /\ ~CanRun(s, "pause-budget-safe")
         /\ ~CanRun(s, "pause-budget-unverified")
         /\ ~CanRun(s, "pause-host-limit")
         /\ ~CanRun(s, "interrupt") /\ ~CanRun(s, "resume")
         /\ ~CanRun(s, "add-budget") /\ ~CanRun(s, "block")
         /\ ~CanRun(s, "retry") /\ ~CanRun(s, "waive")
         /\ ~CanRun(s, "finalize") /\ ~CanRun(s, "timeout")
<1>1. RunEdge("pause-budget-safe").from = {"approved", "active", "review-pending"}
  BY Zenon DEF RunEdge
<1>2. RunEdge("pause-budget-unverified").from = {"active"}
  BY Zenon DEF RunEdge
<1>3. RunEdge("pause-host-limit").from = {"active", "review-pending"}
  BY Zenon DEF RunEdge
<1>4. RunEdge("interrupt").from = {"active", "review-pending"}
  BY Zenon DEF RunEdge
<1>5. RunEdge("resume").from = Pauses \cup {"interrupted", "timed-out"}
  BY Zenon DEF RunEdge
<1>6. RunEdge("add-budget").from = BudgetPauses BY Zenon DEF RunEdge
<1>7. RunEdge("block").from = {"active"} BY Zenon DEF RunEdge
<1>8. RunEdge("retry").from = {"interrupted", "blocked", "timed-out"}
  BY Zenon DEF RunEdge
<1>9. RunEdge("waive").from = {"blocked"} BY Zenon DEF RunEdge
<1>10. RunEdge("finalize").from = {"completed"} BY Zenon DEF RunEdge
<1>11. RunEdge("timeout").from = {"active", "interrupted"}
  BY Zenon DEF RunEdge
<1> QED
  BY <1>1, <1>2, <1>3, <1>4, <1>5, <1>6, <1>7, <1>8, <1>9, <1>10, <1>11
  DEF CanRun, Ended, Closed, Pauses, BudgetPauses

(* Every pause leads to a pause. *)
LEMMA PausesStayOpen ==
  ASSUME NEW e \in BudgetPauseEvent \cup {"pause-host-limit", "interrupt"}
  PROVE  RunEdge(e).to \notin Ended
<1>1. /\ RunEdge("pause-budget-safe").to = "paused-budget-safe"
      /\ RunEdge("pause-budget-unverified").to = "paused-budget-unverified"
      /\ RunEdge("pause-host-limit").to = "paused-host-limit"
      /\ RunEdge("interrupt").to = "interrupted"
  BY Zenon DEF RunEdge
<1> QED BY <1>1 DEF BudgetPauseEvent, Ended, Closed

(* Only rollback and abandon apply to an ended run, and to no finalized    *)
(* one; they keep it closed.                                               *)
LEMMA LifecycleOfEnded ==
  ASSUME NEW s \in Ended, NEW e \in LifecycleEvent, CanRun(s, e)
  PROVE  s \in Closed /\ RunEdge(e).to \in Closed
<1>1. CASE e = "cancel"
  <2>1. RunEdge(e).from = Pauses \cup {"approved", "active", "interrupted",
                             "blocked", "timed-out", "review-pending"}
    BY <1>1, Zenon DEF RunEdge
  <2> QED BY <2>1 DEF CanRun, Ended, Closed, Pauses, BudgetPauses
<1>2. CASE e = "timeout"
  BY <1>2, EndedRefuses
<1>3. CASE e = "rollback"
  <2>1. RunEdge(e) = [from |-> Pauses \cup {"interrupted", "blocked",
                                 "timed-out", "completed", "cancelled"},
                      to |-> "rolled-back"]
    BY <1>3, Zenon DEF RunEdge
  <2> QED BY <2>1 DEF CanRun, Ended, Closed, Pauses, BudgetPauses
<1>4. CASE e = "abandon"
  <2>1. RunEdge(e) = [from |-> RunStatus \ {"completed", "abandoned", "finalized"},
                      to |-> "abandoned"]
    BY <1>4, Zenon DEF RunEdge
  <2> QED BY <2>1 DEF CanRun, Ended, Closed
<1> QED BY <1>1, <1>2, <1>3, <1>4 DEF LifecycleEvent

(* A task that a closing event knows, or one it leaves alone, is settled.  *)
LEMMA LifecycleSettles ==
  ASSUME NEW s \in TaskStatus \cup {"absent"}, NEW e \in LifecycleEvent,
         RunEdge(e).to \in Ended
  PROVE  TaskIfSupported(s, e) \in SettledStatus
<1>1. CASE e = "cancel"
  <2>1. TaskEdge(e) = [from |-> {"pending", "ready", "running", "verifying",
                                 "review-pending", "blocked", "timed-out"},
                       to |-> "cancelled"]
    BY <1>1, Zenon DEF TaskEdge, FailureClassification
  <2> QED BY <2>1 DEF TaskIfSupported, CanTask, TaskStatus, SettledStatus
<1>2. CASE e = "timeout"
  <2>1. RunEdge(e).to = "timed-out" BY <1>2, Zenon DEF RunEdge
  <2> QED BY <2>1 DEF Ended, Closed
<1>3. CASE e = "rollback"
  <2>1. TaskEdge(e) = [from |-> TaskStatus \ {"rolled-back", "abandoned"},
                       to |-> "rolled-back"]
    BY <1>3, Zenon DEF TaskEdge, FailureClassification
  <2> QED BY <2>1 DEF TaskIfSupported, CanTask, TaskStatus, SettledStatus
<1>4. CASE e = "abandon"
  <2>1. TaskEdge(e) = [from |-> TaskStatus \ {"completed", "abandoned"},
                       to |-> "abandoned"]
    BY <1>4, Zenon DEF TaskEdge, FailureClassification
  <2> QED BY <2>1 DEF TaskIfSupported, CanTask, TaskStatus, SettledStatus
<1> QED BY <1>1, <1>2, <1>3, <1>4 DEF LifecycleEvent

(* A settled task can be reassigned by no one. *)
LEMMA SettledNotReassigned ==
  ASSUME NEW s \in SettledStatus
  PROVE  ~CanTask(s, "reassign") /\ s \notin Busy
<1>1. TaskEdge("reassign").from = {"ready", "blocked"}
  BY Zenon DEF TaskEdge, FailureClassification
<1> QED BY <1>1 DEF CanTask, SettledStatus, Busy

-----------------------------------------------------------------------------
(* The status that each command writes. *)

LEMMA StatusWritten ==
  ASSUME NEW r \in RunRecord, NEW s
  PROVE  /\ [r EXCEPT !.status = s].status = s
         /\ \A t, x : [r EXCEPT !.status = s, !.task[t] = x].status = s
         /\ \A t, x : [r EXCEPT !.task[t] = x].status = r.status
         /\ \A f : [r EXCEPT !.status = s, !.task = f].status = s
         /\ \A f : [r EXCEPT !.task = f].status = r.status
         /\ \A v : [r EXCEPT !.status = s, !.reviewer = v].status = s
         /\ \A v, f : [r EXCEPT !.status = s, !.reviewer = v,
                                !.task = f].status = s
         /\ \A v : [r EXCEPT !.status = s, !.interruption = v].status = s
         /\ \A v : [r EXCEPT !.status = s, !.resumeStatus = v].status = s
         /\ \A v : [r EXCEPT !.hostLimit = v].status = r.status
         /\ \A v, w, z : [r EXCEPT !.status = s, !.hostLimit = v,
              !.resumeStatus = w, !.interruption = z].status = s
BY Zenon DEF RunRecord

(* A pause is refused by an ended run and leads an open one to a pause. *)
LEMMA PauseGoesOn ==
  ASSUME TypeOK, NEW e \in BudgetPauseEvent \cup {"pause-host-limit"},
         CanRun(run.status, e), run' = Paused(run, e)
  PROVE  GoesOn
<1>1. run.status \notin Ended
  BY EndedRefuses DEF BudgetPauseEvent
<1>2. run'.status = RunEdge(e).to
  BY StatusWritten DEF Paused, TypeOK
<1> QED BY <1>1, <1>2, PausesStayOpen DEF GoesOn

LEMMA RefusalGoesOn ==
  ASSUME TypeOK, NEW e \in BudgetPauseEvent \cup {"pause-host-limit"},
         PauseForBudget(e)
  PROVE  GoesOn
BY PauseGoesOn, WriteRunRun DEF PauseForBudget

LEMMA StartGoesOn ==
  ASSUME TypeOK, NEW t \in Task, NEW w \in Worker \cup {"none"},
         StartTask(t, w) \/ RefuseStart(t, w)
  PROVE  GoesOn
<1>1. CASE StartTask(t, w)
  <2>1. run.status \in {"approved", "active"}
    BY <1>1 DEF StartTask, StartRequested
  <2>2. run' = run \/ run' = StartedRun(run, t, w)
    BY <1>1, PersistRun DEF StartTask
  <2>3. StartedRun(run, t, w).status = "active"
    BY RunEdges, StatusWritten DEF StartedRun, TypeOK
  <2> QED BY <2>1, <2>2, <2>3 DEF GoesOn, Ended, Closed
<1>2. CASE RefuseStart(t, w)
  BY <1>2, DecisionType, RefusalGoesOn DEF RefuseStart
<1> QED BY <1>1, <1>2

(* A result is accepted for a task that runs, so that the run is open. *)
LEMMA RunningIsOpen ==
  ASSUME Settled(run), NEW t \in Task, AcceptsResult(run, t)
  PROVE  run.status \notin Ended
BY DEF AcceptsResult, Settled, SettledStatus

LEMMA CompletionStaysOpen ==
  ASSUME NEW r
  PROVE  RunEdge(CompletionEvent(r)).to \notin Ended
BY RunEdges DEF CompletionEvent, Ended, Closed

LEMMA PromoteKeepsStatus ==
  ASSUME NEW r \in RunRecord
  PROVE  Promote(r).status = r.status
BY StatusWritten DEF Promote

LEMMA SuccessGoesOn ==
  ASSUME TypeOK, Settled(run), NEW t \in Task, NEW u \in Nat,
         RecordSuccess(t, u)
  PROVE  GoesOn
<1>1. DEFINE n == run.task[t].attempts
             next == SucceededRun(run, t, u)
             files == [checkpoint EXCEPT ![t][n].status = "verified"]
             newResult == WriteResult(t, n, "succeeded")
             completed == [next EXCEPT
                             !.status = RunEdge(CompletionEvent(run)).to]
             progressed == [next EXCEPT
                              !.status = IF SomeBlocked(next) THEN @
                                         ELSE "active"]
<1>2. AcceptsResult(run, t) BY DEF RecordSuccess
<1>3. run.status \notin Ended BY <1>2, RunningIsOpen
<1>4. next \in RunRecord BY <1>2, SucceededRunType
<1>5. next.status = run.status
  <2>1. DEFINE c == Consume(run, ActiveAllocation(run, t), u)
               d == CountedRun(run, t, u, SuccessRuns(run, t))
               x == SucceededTask(run.task[t], ReviewRequired(run, t))
  <2>2. c \in RunRecord /\ c.status = run.status
    <3>1. c \in RunRecord BY <1>2, AcceptsResultType, ConsumeType DEF TypeOK
    <3>2. run \in RunRecord BY DEF TypeOK
    <3>3. c.status = run.status BY <3>2, Zenon DEF Consume, RunRecord
    <3> QED BY <3>1, <3>3
  <2>3. d \in RunRecord /\ d.status = c.status
    <3>1. d \in RunRecord BY <1>2, CountedRunType, SuccessRunsType DEF TypeOK
    <3>2. d = [c EXCEPT !.runs = @ + SuccessRuns(run, t)] BY DEF CountedRun
    <3> HIDE DEF c, d
    <3>3. d.status = c.status BY <2>2, <3>2, Zenon DEF RunRecord
    <3> QED BY <3>1, <3>3
  <2>4. x \in TaskRecord
    BY <1>2, AcceptsResultType, SucceededTaskType DEF ReviewRequired
  <2>5. next = Promote([d EXCEPT !.task[t] = x]) BY DEF SucceededRun
  <2> HIDE DEF c, d, x, next
  <2>6. /\ [d EXCEPT !.task[t] = x] \in RunRecord
        /\ [d EXCEPT !.task[t] = x].status = d.status
    <3>1. "active" \in RunStatus BY DEF RunStatus
    <3> QED BY <2>3, <2>4, <3>1, RunUpdateType, StatusWritten
  <2> QED BY <2>2, <2>3, <2>5, <2>6, PromoteKeepsStatus
<1>6. \/ Persist(newResult, files, {checkpoint, files}, completed)
      \/ ThrowAfter(newResult, files)
      \/ Persist(newResult, files, {checkpoint, files}, progressed)
  BY DEF RecordSuccess
<1> HIDE DEF n, next, files, newResult
<1>7. run' = run \/ run' = completed \/ run' = progressed
  BY <1>6, PersistRun, ThrowAfterRun
<1>8. /\ completed.status = RunEdge(CompletionEvent(run)).to
      /\ progressed.status \in {next.status, "active"}
  BY <1>4, StatusWritten
<1> HIDE DEF completed, progressed
<1> QED
  BY <1>3, <1>5, <1>7, <1>8, CompletionStaysOpen DEF GoesOn, Ended, Closed

LEMMA FailureGoesOn ==
  ASSUME TypeOK, Settled(run), NEW t \in Task, NEW u \in Nat,
         NEW c \in FailureClassification, NEW s \in Signature,
         RecordFailure(t, u, c, s)
  PROVE  GoesOn
<1>1. DEFINE class == Classify(run, t, c, s)
<1>2. AcceptsResult(run, t) BY DEF RecordFailure
<1>3. run.status \notin Ended BY <1>2, RunningIsOpen
<1>4. PICK n \in 0..SuccessRuns(run, t) :
        run' = run \/ run' = FailedRun(run, t, u, n, class, s)
  BY PersistRun, ThrowAfterRun DEF RecordFailure
<1>5. CountedRun(run, t, u, n) \in RunRecord
  <2>1. n \in Nat BY SuccessRunsType DEF TypeOK
  <2> QED BY <1>2, <2>1, CountedRunType
<1>6. FailedRun(run, t, u, n, class, s).status = "blocked"
  BY <1>5, RunEdges, StatusWritten DEF FailedRun
<1> QED BY <1>3, <1>4, <1>6 DEF GoesOn, Ended, Closed

LEMMA ReviewGoesOn ==
  ASSUME TypeOK, Settled(run), ReviewCommand
  PROVE  GoesOn
<1>1. PICK u \in ReviewUsage, late \in BOOLEAN :
        \/ RefuseFinalReview(u, late)
        \/ PassFinalReview(u, late)
        \/ \E class \in Findings : BlockFinalReview(u, late, class)
        \/ \E t \in Task :
             \/ RefuseCheckpointReview(t, u, late)
             \/ PassCheckpointReview(t, u, late)
             \/ \E c \in Observable : BlockCheckpointReview(t, u, late, c)
  BY DEF ReviewCommand
<1>2. u \in Nat BY InputAssumption
<1>3. DEFINE c == Consume(run, "reviewer", u)
<1>4. c \in RunRecord /\ c.status = run.status
  <2>1. c \in RunRecord BY <1>2, ConsumeType DEF TypeOK, Allocation
  <2>2. run \in RunRecord BY DEF TypeOK
  <2>3. c.status = run.status BY <2>2, Zenon DEF Consume, RunRecord
  <2> QED BY <2>1, <2>3
<1> HIDE DEF c
<1>5. CASE RefuseReview(u, late)
  BY <1>5, DecisionType, RefusalGoesOn DEF RefuseReview, BudgetPauseEvent
<1>6. CASE PassFinalReview(u, late)
  <2>1. run.status = "review-pending"
    BY <1>6 DEF PassFinalReview, AwaitsFinalReview
  <2>2. run' = [c EXCEPT !.status = RunEdge("reviewer-pass").to,
                         !.reviewer = "passed"]
    BY <1>6, WriteRunRun DEF PassFinalReview, c
  <2>3. run'.status = "completed" BY <1>4, <2>2, RunEdges, StatusWritten
  <2> QED BY <2>1, <2>3 DEF GoesOn, Ended, Closed
<1>7. ASSUME NEW class \in Findings, BlockFinalReview(u, late, class)
      PROVE  GoesOn
  <2>1. run.status = "review-pending"
    BY <1>7 DEF BlockFinalReview, AwaitsFinalReview
  <2>2. \E f : run' = [c EXCEPT !.status = RunEdge("reviewer-block").to,
                                !.reviewer = "blocked", !.task = f]
    BY <1>7, WriteRunRun DEF BlockFinalReview, c
  <2>3. run'.status = "blocked" BY <1>4, <2>2, RunEdges, StatusWritten
  <2> QED BY <2>1, <2>3 DEF GoesOn, Ended, Closed
<1>8. ASSUME NEW t \in Task, PassCheckpointReview(t, u, late)
      PROVE  GoesOn
  <2>1. AwaitsCheckpointReview(run, t) /\ run.status = "active"
    BY <1>8 DEF PassCheckpointReview, AwaitsCheckpointReview
  <2>2. DEFINE next == ReviewedRun(run, t, u)
               x == [next EXCEPT !.status =
                       IF AllComplete(next)
                       THEN RunEdge(CompletionEvent(run)).to ELSE @]
  <2>3. next \in RunRecord /\ next.status = run.status
    <3>1. DEFINE y == [c EXCEPT !.task[t] = ReviewedTask(run.task[t])]
    <3>2. ReviewedTask(run.task[t]) \in TaskRecord
      BY <2>1, AwaitsReviewType, ReviewedTaskType
    <3>3. "active" \in RunStatus BY DEF RunStatus
    <3>4. y \in RunRecord /\ y.status = c.status
      BY <1>4, <3>2, <3>3, RunUpdateType, StatusWritten
    <3>5. next = Promote(y) BY DEF ReviewedRun, c
    <3> HIDE DEF y, next
    <3> QED BY <1>4, <3>4, <3>5, PromoteType, PromoteKeepsStatus
  <2>4. run' = run \/ run' = x BY <1>8, PersistRun DEF PassCheckpointReview
  <2> HIDE DEF next
  <2>5. x.status \in {next.status, RunEdge(CompletionEvent(run)).to}
    BY <2>3, StatusWritten
  <2> HIDE DEF x
  <2> QED
    BY <2>1, <2>3, <2>4, <2>5, CompletionStaysOpen DEF GoesOn, Ended, Closed
<1>9. ASSUME NEW t \in Task, NEW f, BlockCheckpointReview(t, u, late, f)
      PROVE  GoesOn
  <2>1. run.status = "active"
    BY <1>9 DEF BlockCheckpointReview, AwaitsCheckpointReview
  <2>2. run' = run \/ \E x : run' = [c EXCEPT !.status = RunEdge("block").to,
                                              !.task[t] = x]
    BY <1>9, PersistRun DEF BlockCheckpointReview, c
  <2>3. ASSUME NEW x, run' = [c EXCEPT !.status = RunEdge("block").to,
                                       !.task[t] = x]
        PROVE  run'.status = "blocked"
    <3>1. run'.status = RunEdge("block").to BY <1>4, <2>3, Zenon DEF RunRecord
    <3> QED BY <3>1, RunEdges
  <2> QED BY <2>1, <2>2, <2>3 DEF GoesOn, Ended, Closed
<1> QED
  BY <1>1, <1>5, <1>6, <1>7, <1>8, <1>9
  DEF RefuseFinalReview, RefuseCheckpointReview

(* Interventions that only an open run takes. *)
LEMMA InterventionGoesOn ==
  ASSUME TypeOK,
         \/ Interrupt \/ PauseHostLimit \/ Resume
         \/ \E e \in BudgetPauseEvent : PauseByOperator(e)
         \/ \E a \in Allocation, n \in 1..MaxOps : AddBudget(a, n)
  PROVE  GoesOn
<1>1. run \in RunRecord BY DEF TypeOK
<1>2. CASE Interrupt
  <2>1. run.status \notin Ended BY <1>2, EndedRefuses DEF Interrupt
  <2>2. run' = [run EXCEPT !.status = RunEdge("interrupt").to,
                           !.interruption = run.status]
    BY <1>2, WriteRunRun DEF Interrupt
  <2>3. run'.status = RunEdge("interrupt").to
    BY <1>1, <2>2, Zenon DEF RunRecord
  <2> QED BY <2>1, <2>3, PausesStayOpen DEF GoesOn
<1>3. CASE PauseHostLimit
  <2>1. Paused(run, "pause-host-limit") \in RunRecord
        /\ run.status \notin Ended
    BY <1>1, <1>3, PausedType, EndedRefuses DEF PauseHostLimit
  <2>2. Paused(run, "pause-host-limit").status = RunEdge("pause-host-limit").to
    BY <1>1, StatusWritten DEF Paused
  <2>3. run' = [Paused(run, "pause-host-limit") EXCEPT !.hostLimit = TRUE]
    BY <1>3, WriteRunRun DEF PauseHostLimit
  <2>4. run'.status = RunEdge("pause-host-limit").to
    BY <2>1, <2>2, <2>3, StatusWritten
  <2> QED BY <2>1, <2>4, PausesStayOpen DEF GoesOn
<1>4. ASSUME NEW e \in BudgetPauseEvent, PauseByOperator(e)
      PROVE  GoesOn
  BY <1>4, PauseGoesOn, WriteRunRun DEF PauseByOperator
<1>5. CASE Resume
  <2>1. run.status \notin Ended BY <1>5, EndedRefuses DEF Resume
  <2>2. run' = [run EXCEPT
           !.status = ResumedStatus,
           !.hostLimit = @ /\ run.status # "paused-host-limit",
           !.resumeStatus = "none",
           !.interruption = IF run.status = "interrupted" THEN "none" ELSE @]
    BY <1>5, WriteRunRun DEF Resume
  <2>3. run'.status = ResumedStatus BY <1>1, <2>2, Zenon DEF RunRecord
  <2>4. ResumedStatus \in Resumable
    BY <1>1 DEF ResumedStatus, Orelse, RunRecord, Resumable
  <2> QED BY <2>1, <2>3, <2>4 DEF GoesOn, Ended, Closed, Resumable
<1>6. ASSUME NEW a \in Allocation, NEW n \in 1..MaxOps, AddBudget(a, n)
      PROVE  GoesOn
  <2>1. run.status \notin Ended BY <1>6, EndedRefuses DEF AddBudget
  <2>2. run' = [run EXCEPT !.status = Orelse(run.resumeStatus, "active"),
                           !.ops = @ + n, !.alloc[a] = @ + n,
                           !.resumeStatus = "none"]
    BY <1>6, WriteRunRun DEF AddBudget
  <2>3. run'.status = Orelse(run.resumeStatus, "active")
    BY <1>1, <2>2, Zenon DEF RunRecord
  <2>4. Orelse(run.resumeStatus, "active") \in Resumable
    BY <1>1 DEF Orelse, RunRecord, Resumable
  <2> QED BY <2>1, <2>3, <2>4 DEF GoesOn, Ended, Closed, Resumable
<1> QED BY <1>2, <1>3, <1>4, <1>5, <1>6

LEMMA IntervenedStatus ==
  ASSUME NEW r \in RunRecord, NEW t \in Task, NEW x \in TaskRecord, NEW s
  PROVE  Intervened(r, t, x, s).status \in {"blocked", s}
<1>1. DEFINE y == [r EXCEPT !.task[t] = x]
<1>2. y \in RunRecord BY RunUpdateType DEF RunStatus
<1>3. Intervened(r, t, x, s)
        = [y EXCEPT !.status = IF SomeBlocked(y) THEN "blocked" ELSE s]
  BY DEF Intervened
<1> HIDE DEF y
<1> QED BY <1>2, <1>3, StatusWritten

LEMMA TaskInterventionGoesOn ==
  ASSUME TypeOK, Settled(run), TaskIntervention
  PROVE  GoesOn
<1>1. run \in RunRecord /\ \A t \in Task : run.task[t] \in TaskRecord
  BY DEF TypeOK, RunRecord
<1>2. \A t \in Task : Unblocked(run.task[t]) \in TaskRecord
  BY <1>1, UnblockedType
<1>3. ASSUME NEW t \in Task, NEW x \in TaskRecord, NEW v,
             run.status \notin Ended, v \notin Ended,
             run' = run \/ run' = Intervened(run, t, x, v)
      PROVE  GoesOn
  BY <1>1, <1>3, IntervenedStatus DEF GoesOn, Ended, Closed
<1>4. ASSUME NEW t \in Task, NEW c \in FailureClassification,
             NEW s \in Signature \cup {"none"}, BlockTask(t, c, s)
      PROVE  GoesOn
  <2>1. DEFINE class == Classify(run, t, c, s)
               event == IF run.task[t].status \in Busy THEN class ELSE "block"
               x == BlockedTask(run.task[t], event, class, s)
  <2>2. class \in FailureClassification BY ClassifyType
  <2>3. event \in FailureClassification \cup {"block"} BY <2>2
  <2>4. run' = run \/ run' = Intervened(run, t, x, RunEdge("block").to)
    BY <1>4, PersistRun DEF BlockTask
  <2>5. run.status \notin Ended BY <1>4, EndedRefuses DEF BlockTask
  <2> HIDE DEF class, event
  <2>6. x \in TaskRecord BY <1>1, <2>2, <2>3, BlockedTaskType
  <2> HIDE DEF x
  <2>7. RunEdge("block").to \notin Ended BY RunEdges DEF Ended, Closed
  <2> QED BY <1>3, <2>4, <2>5, <2>6, <2>7
<1>5. ASSUME NEW t \in Task, RetryTask(t)
      PROVE  GoesOn
  <2>1. run' = Intervened(run, t, Unblocked(run.task[t]), RunEdge("retry").to)
    BY <1>5, WriteRunRun DEF RetryTask
  <2>2. run.status \notin Ended BY <1>5, EndedRefuses DEF RetryTask
  <2>3. RunEdge("retry").to \notin Ended BY RunEdges DEF Ended, Closed
  <2> QED BY <1>2, <1>3, <2>1, <2>2, <2>3
<1>6. ASSUME NEW t \in Task, NEW g, WaiveTask(t, g)
      PROVE  GoesOn
  <2>1. run' = Intervened(run, t, Unblocked(run.task[t]), RunEdge("waive").to)
    BY <1>6, WriteRunRun DEF WaiveTask
  <2>2. run.status \notin Ended BY <1>6, EndedRefuses DEF WaiveTask
  <2>3. RunEdge("waive").to \notin Ended BY RunEdges DEF Ended, Closed
  <2> QED BY <1>2, <1>3, <2>1, <2>2, <2>3
<1>7. ASSUME NEW t \in Task, NEW w \in Worker, ReassignTask(t, w)
      PROVE  GoesOn
  <2>1. DEFINE x == [Unblocked(run.task[t]) EXCEPT !.worker = w]
               s == IF run.status = "blocked" THEN RunEdge("reassign").to
                    ELSE run.status
  <2>2. x \in TaskRecord BY <1>2, Zenon DEF TaskRecord
  <2>3. run' = Intervened(run, t, x, s) BY <1>7, WriteRunRun DEF ReassignTask
  <2>4. run.status \notin Ended
    BY <1>7, SettledNotReassigned DEF ReassignTask, Settled
  <2>5. s \notin Ended BY <2>4, RunEdges DEF Ended, Closed
  <2> HIDE DEF x, s
  <2> QED BY <1>3, <2>2, <2>3, <2>4, <2>5
<1> QED BY <1>4, <1>5, <1>6, <1>7, InputAssumption DEF TaskIntervention

LEMMA RevisionGoesOn ==
  ASSUME TypeOK, NEW d \in Definition, ApplyRevision(d)
  PROVE  GoesOn
<1>1. run.status \notin Ended
  BY DEF ApplyRevision, RevisionValid, Revisable, Pauses, BudgetPauses,
    Ended, Closed
<1>2. run' = run \/ run' = RevisedRun(run, d) BY DEF ApplyRevision
<1>3. \E b : RevisedRun(run, d).status = RevisedStatus(run, d, b)
  BY Zenon DEF RevisedRun, TypeOK, RunRecord
<1>4. \A b : RevisedStatus(run, d, b) \notin Ended
  BY <1>1 DEF RevisedStatus, Ended, Closed
<1> QED BY <1>1, <1>2, <1>3, <1>4 DEF GoesOn

-----------------------------------------------------------------------------
(* How a run ends. *)

LEMMA FinalizeEnds ==
  ASSUME TypeOK, Finalize
  PROVE  run.status \notin Ended /\ run'.status = "finalized" /\ Settled(run)'
<1>1. run.status \notin Ended BY EndedRefuses DEF Finalize
<1>2. run \in RunRecord /\ run' = [run EXCEPT !.status = RunEdge("finalize").to]
  BY WriteRunRun DEF Finalize, TypeOK
<1>3. run'.status = "finalized" BY <1>2, RunEdges, StatusWritten
<1>4. run'.task = run.task /\ run'.defn = run.defn
  BY <1>2, Zenon DEF RunRecord
<1>5. \A t \in Members(run) : run.task[t].status = "completed"
  BY DEF Finalize
<1> QED BY <1>1, <1>3, <1>4, <1>5 DEF Settled, Members, SettledStatus

(* A lifecycle event does nothing to a finalized run, keeps a closed one   *)
(* closed, and settles the tasks of the run it closes.                     *)
LEMMA LifecycleEnds ==
  ASSUME TypeOK, NEW e \in LifecycleEvent, Lifecycle(e), Settled(run)
  PROVE  /\ Settled(run)' /\ run.status # "finalized"
         /\ run' = run \/ run'.status = RunEdge(e).to
         /\ run.status \in Ended => run'.status \in Closed
<1>1. DEFINE f == [t \in Task |->
                     IF t \in Members(run)
                     THEN [run.task[t] EXCEPT !.status = TaskIfSupported(@, e)]
                     ELSE run.task[t]]
             x == [run EXCEPT !.status = RunEdge(e).to, !.task = f]
<1>2. run \in RunRecord /\ \A t \in Task : run.task[t] \in TaskRecord
  BY DEF TypeOK, RunRecord
<1>3. run' = run \/ run' = x BY PersistRun DEF Lifecycle
<1>4. run.status \in Ended => run.status \in Closed /\ RunEdge(e).to \in Closed
  BY LifecycleOfEnded DEF Lifecycle
<1>5. run.status # "finalized" BY <1>4 DEF Ended, Closed
<1>6. CASE run' = run BY <1>4, <1>5, <1>6 DEF Settled, Members
<1>7. CASE run' = x
  <2>1. /\ run'.status = RunEdge(e).to /\ run'.defn = run.defn
        /\ run'.task = f
    <3> HIDE DEF f
    <3> QED BY <1>2, <1>7, Zenon DEF RunRecord
  <2>2. ASSUME run'.status \in Ended, NEW t \in Members(run)
        PROVE  run'.task[t].status \in SettledStatus
    <3>1. t \in Task /\ run.task[t] \in TaskRecord
      BY <1>2, MemberTypes
    <3>2. run'.task[t]
            = [run.task[t] EXCEPT !.status = TaskIfSupported(@, e)]
      BY <2>1, <2>2, <3>1
    <3>3. run'.task[t].status = TaskIfSupported(run.task[t].status, e)
      BY <3>1, <3>2, Zenon DEF TaskRecord
    <3>4. run.task[t].status \in TaskStatus \cup {"absent"}
      BY <3>1 DEF TaskRecord
    <3> QED BY <2>1, <2>2, <3>3, <3>4, LifecycleSettles
  <2>3. Settled(run)' BY <2>1, <2>2 DEF Settled, Members
  <2> QED BY <1>4, <1>5, <2>1, <2>3
<1> QED BY <1>3, <1>6, <1>7

(* Every step of a run. *)
LEMMA StepOfRun ==
  ASSUME TypeOK, Settled(run), [Next]_vars
  PROVE  \/ Stays
         \/ GoesOn
         \/ Finalize
         \/ \E e \in LifecycleEvent : Lifecycle(e)
<1>1. CASE Elapse BY <1>1 DEF Elapse, Stays
<1>2. CASE TaskCommand
  <2>1. ASSUME NEW t \in Task, NEW u, RefuseResult(t, u)
        PROVE  GoesOn
    BY <2>1, RefusalGoesOn DEF RefuseResult, BudgetPauseEvent
  <2> QED
    BY <1>2, <2>1, StartGoesOn, SuccessGoesOn, FailureGoesOn, InputAssumption
    DEF TaskCommand
<1>3. CASE ReviewCommand BY <1>3, ReviewGoesOn
<1>4. CASE RunIntervention BY <1>4, InterventionGoesOn DEF RunIntervention
<1>5. CASE TaskIntervention BY <1>5, TaskInterventionGoesOn
<1>6. ASSUME NEW d \in Definition, ApplyRevision(d)
      PROVE  GoesOn
  BY <1>6, RevisionGoesOn
<1>7. CASE UNCHANGED vars BY <1>7 DEF vars, Stays
<1> QED BY <1>1, <1>2, <1>3, <1>4, <1>5, <1>6, <1>7 DEF Next

LEMMA SettledStep ==
  ASSUME TypeOK, Settled(run), [Next]_vars
  PROVE  Settled(run)'
<1>1. CASE Stays BY <1>1 DEF Stays, Settled, Members
<1>2. CASE GoesOn BY <1>2 DEF GoesOn, Settled
<1>3. CASE Finalize BY <1>3, FinalizeEnds
<1>4. CASE \E e \in LifecycleEvent : Lifecycle(e) BY <1>4, LifecycleEnds
<1> QED BY <1>1, <1>2, <1>3, <1>4, StepOfRun

LEMMA SettledInit ==
  ASSUME Init
  PROVE  Settled(run)
<1>1. run.status = "approved" BY DEF Init, ApprovedRun
<1> QED BY <1>1 DEF Settled, Ended, Closed

(* Nothing reopens a closed run. *)
LEMMA ClosedStep ==
  ASSUME TypeOK, Settled(run), [Next]_vars, run.status \in Closed
  PROVE  run'.status \in Closed
BY StepOfRun, FinalizeEnds, LifecycleEnds DEF Stays, GoesOn, Ended

LEMMA RunsSettle == Spec => []Settled(run)
BY TypeCorrect, SettledInit, SettledStep, PTL DEF Spec

(* No command changes run.json or an evidence file of a finalized run, for *)
(* every definition and every bound (state.js, interveneWorkflowRun and    *)
(* the guards of the other commands).                                      *)
THEOREM FinalizedIsFinal == Spec => FinalizedFrozen
<1>1. TypeOK /\ Settled(run) /\ [Next]_vars =>
        [run.status = "finalized" => UNCHANGED <<run, checkpoint, result>>]_vars
  <2> SUFFICES ASSUME TypeOK, Settled(run), [Next]_vars,
                      run.status = "finalized"
               PROVE  Stays
    BY DEF Stays
  <2>1. ~GoesOn /\ ~Finalize
    BY FinalizeEnds DEF GoesOn, Ended
  <2>2. ~ \E e \in LifecycleEvent : Lifecycle(e)
    BY LifecycleEnds
  <2> QED BY <2>1, <2>2, StepOfRun
<1> QED BY <1>1, TypeCorrect, RunsSettle, PTL DEF Spec, FinalizedFrozen

-----------------------------------------------------------------------------
(* A run keeps the promises of its gate.                                   *)

LEMMA PhaseOfStatus ==
  /\ run.status = "completed" => Phase = "judged"
  /\ run.status = "finalized" => Phase = "delivered"
  /\ run.status \in Closed => Phase = "closed"
  /\ run.status \notin Ended \cup {"completed"} => Phase = "open"
<1>1. run.status = "completed" => Phase = "judged" BY DEF Phase
<1>2. run.status = "finalized" => Phase = "delivered" BY DEF Phase
<1>3. run.status \in Closed => Phase = "closed" BY DEF Phase, Closed
<1>4. run.status \notin Ended \cup {"completed"} => Phase = "open"
  BY DEF Phase, Ended, Closed
<1> QED BY <1>1, <1>2, <1>3, <1>4

(* What the state of a run says to the gate.  A judged run has no active   *)
(* checkpoint left, so that a command killed on the way to closing it      *)
(* touches no evidence.                                                    *)
PhaseIsRead ==
  /\ run.status = "completed" => Phase = "judged"
  /\ run.status = "finalized" => Phase = "delivered"
  /\ run.status \in Closed => Phase = "closed"
  /\ run.status \notin Ended \cup {"completed"} => Phase = "open"

AcceptedIsVerified == Accepted \subseteq Verified

JudgedWhole ==
  run.status = "completed" =>
    /\ {e[1] : e \in Accepted} = Members(run)
    /\ run.reviewer \in {"not-required", "passed"}
    /\ \A t \in Task : /\ run.task[t].status \in {"completed", "absent"}
                       /\ run.task[t].active = 0

OpenUnjudged ==
  Phase = "open" => run.reviewer \in {"not-required", "pending", "blocked"}

GateReady ==
  PhaseIsRead /\ AcceptedIsVerified /\ JudgedWhole /\ OpenUnjudged

LEMMA GateIsReady ==
  TypeOK /\ Evidence /\ Unplanned /\ Covered => GateReady
<1> SUFFICES ASSUME TypeOK, Evidence, Unplanned, Covered
             PROVE  GateReady
  OBVIOUS
<1>1. PhaseIsRead BY PhaseOfStatus DEF PhaseIsRead
<1>2. /\ Members(run) \subseteq Task
      /\ \A t \in Task : run.task[t] \in TaskRecord
      /\ run.reviewer \in ReviewStatus
  BY MemberTypes DEF TypeOK, RunRecord
<1>3. ASSUME NEW t \in Members(run), run.task[t].status = "completed"
      PROVE  /\ <<t, run.task[t].resultOf>> \in Verified
             /\ run.task[t].active = 0
  <2>1. t \in Task /\ TaskEvidence(run.task[t], checkpoint[t], result[t])
    BY <1>2 DEF Evidence
  <2>2. run.task[t].resultOf \in Attempt
    BY <1>2, <1>3, <2>1, TaskFields DEF TaskEvidence, DoneVerified
  <2> QED
    BY <1>3, <2>1, <2>2 DEF TaskEvidence, DoneVerified, Verified
<1>4. AcceptedIsVerified BY <1>3 DEF AcceptedIsVerified, Accepted
<1>5. JudgedWhole
  <2> SUFFICES ASSUME run.status = "completed"
               PROVE  /\ {e[1] : e \in Accepted} = Members(run)
                      /\ run.reviewer \in {"not-required", "passed"}
                      /\ \A t \in Task :
                           /\ run.task[t].status \in {"completed", "absent"}
                           /\ run.task[t].active = 0
    BY DEF JudgedWhole
  <2>1. \A t \in Members(run) : run.task[t].status = "completed"
    BY DEF Covered, InReviewIsComplete, AllComplete
  <2>2. Accepted = {<<t, run.task[t].resultOf>> : t \in Members(run)}
    <3>1. {u \in Members(run) : run.task[u].status = "completed"} = Members(run)
      BY <2>1
    <3> QED BY <3>1 DEF Accepted
  <2>3. {e[1] : e \in Accepted} = Members(run)
    <3>1. \A e \in Accepted : e[1] \in Members(run) BY <2>2
    <3>2. \A t \in Members(run) :
            LET e == <<t, run.task[t].resultOf>> IN e \in Accepted /\ e[1] = t
      BY <2>2
    <3> QED BY <3>1, <3>2
  <2>4. run.reviewer \in {"not-required", "passed"}
    BY DEF Covered, ReviewFollowsPolicy
  <2>5. ASSUME NEW t \in Task \ Members(run)
        PROVE  run.task[t].status = "absent" /\ run.task[t].active = 0
    BY <2>5 DEF Unplanned, Evidence, TaskEvidence, ActiveIsLast
  <2> QED BY <1>3, <2>1, <2>3, <2>4, <2>5
<1>6. OpenUnjudged
  <2>1. Phase = "open" => run.reviewer # "passed"
    BY <1>1 DEF PhaseIsRead, Covered, PassEndsWork, Ended, Closed
  <2> QED BY <1>2, <2>1 DEF OpenUnjudged, ReviewStatus
<1> QED BY <1>1, <1>4, <1>5, <1>6 DEF GateReady

(* A closing event takes evidence away and adds none. *)
LEMMA ClosedEvidence ==
  ASSUME TypeOK, NEW e \in LifecycleEvent, Lifecycle(e)
  PROVE  /\ Verified' \subseteq Verified
         /\ JudgedWhole /\ run.status = "completed" => Verified' = Verified
<1>1. /\ result' = result
      /\ \A t \in Task : checkpoint'[t] \in
           {checkpoint[t], ClosedRow(run.task[t], checkpoint[t], e)}
  BY LifecycleEffect, Zenon
<1>2. ASSUME NEW t \in Task, NEW n \in Attempt
      PROVE  /\ checkpoint'[t][n].reviewer = checkpoint[t][n].reviewer
             /\ n # run.task[t].active => checkpoint'[t][n] = checkpoint[t][n]
             /\ \/ checkpoint'[t][n].status = checkpoint[t][n].status
                \/ checkpoint'[t][n].status # "verified"
  <2>1. /\ run.task[t] \in TaskRecord /\ checkpoint[t] \in Row
        /\ checkpoint[t][n] \in CheckpointRecord
    BY RowTypes DEF Row
  <2>2. ClosedRow(run.task[t], checkpoint[t], e)[n].reviewer
          = checkpoint[t][n].reviewer
    <3>1. \A s : [checkpoint[t][n] EXCEPT !.status = s].reviewer
                   = checkpoint[t][n].reviewer
      BY <2>1, Zenon DEF CheckpointRecord
    <3>2. ClosedRow(run.task[t], checkpoint[t], e)[n]
            = IF n = run.task[t].active
              THEN [checkpoint[t][n] EXCEPT
                      !.status = CheckpointIfSupported(@, e)]
              ELSE checkpoint[t][n]
      BY DEF ClosedRow
    <3> QED BY <3>1, <3>2
  <2>3. /\ n # run.task[t].active =>
             ClosedRow(run.task[t], checkpoint[t], e)[n] = checkpoint[t][n]
        /\ \/ ClosedRow(run.task[t], checkpoint[t], e)[n].status
                = checkpoint[t][n].status
           \/ ClosedRow(run.task[t], checkpoint[t], e)[n].status # "verified"
    BY <2>1, ClosedFields
  <2> QED BY <1>1, <2>2, <2>3
<1>3. Verified' \subseteq Verified BY <1>1, <1>2 DEF Verified
<1>4. ASSUME JudgedWhole, run.status = "completed"
      PROVE  Verified' = Verified
  <2>1. \A t \in Task : \A n \in Attempt :
          checkpoint'[t][n] = checkpoint[t][n]
    BY <1>2, <1>4 DEF JudgedWhole, Attempt
  <2> QED BY <1>1, <2>1 DEF Verified
<1> QED BY <1>3, <1>4

LEMMA ClosedAccepted ==
  ASSUME TypeOK, NEW e \in LifecycleEvent, CloseStep(e)
  PROVE  Accepted' \subseteq Accepted
<1>1. ASSUME NEW t \in Members(run), run'.task[t].status = "completed"
      PROVE  /\ run.task[t].status = "completed"
             /\ run'.task[t].resultOf = run.task[t].resultOf
  <2>1. run.task[t] \in TaskRecord BY MemberTypes DEF TypeOK
  <2>2. run'.task[t] = ClosedTask(run.task[t], e) BY DEF CloseStep
  <2>3. /\ run'.task[t].status = TaskIfSupported(run.task[t].status, e)
        /\ run'.task[t].resultOf = run.task[t].resultOf
    BY <2>1, <2>2, Zenon DEF ClosedTask, TaskRecord
  <2>4. TaskEdge(e).to # "completed" BY LifecycleTargets
  <2> QED BY <1>1, <2>3, <2>4 DEF TaskIfSupported
<1>2. Members(run') = Members(run) BY DEF CloseStep, Steady, Members
<1> QED BY <1>1, <1>2 DEF Accepted

LEMMA IdleFiles ==
  ASSUME NEW x \in TaskRecord, NEW c \in Row, NEW r, NEW x2, NEW c2, NEW r2,
         Moves(x, c, r, x2, c2, r2),
         x.status \in {"completed", "absent"}, x.active = 0
  PROVE  r2 = r /\ \A n \in Attempt : c2[n] = c[n]
<1>1. \A e \in LifecycleEvent : \A n \in Attempt : ClosedRow(x, c, e)[n] = c[n]
  BY ClosedFields DEF Attempt
<1>2. CASE RunCloses(x, c, r, x2, c2, r2) BY <1>1, <1>2 DEF RunCloses
<1>3. CASE NothingMoves(x, c, r, x2, c2, r2) BY <1>3 DEF NothingMoves
<1>4. CASE FinallyRejected(x, c, r, x2, c2, r2) BY <1>4 DEF FinallyRejected
<1> QED
  BY <1>2, <1>3, <1>4
  DEF Moves, BecomesReady, AttemptStarts, AttemptSucceeds, AttemptFails,
    AttemptReviewed, OperatorBlocks, OperatorReopens, ReopensFrom

(* A judged run only ends: no command goes on with it. *)
LEMMA JudgedOnlyEnds ==
  ASSUME TypeOK, JudgedWhole, SamePlan, run.status = "completed", GoesOn,
         [Next]_vars
  PROVE  run' = run /\ Verified' = Verified
<1>1. RunStep BY RunSteps
<1>2. \A t \in Members(run) : run.task[t].status \in {"completed", "absent"}
  BY MemberTypes DEF TypeOK, JudgedWhole
<1>3. run' = run
  <2>1. ASSUME NEW e \in LifecycleEvent, CloseStep(e)
        PROVE  FALSE
    BY <2>1, LifecycleSources, ClosingTargets
    DEF CloseStep, CanRun, LifecycleEvent, GoesOn, Ended, Closed, Pauses,
      BudgetPauses
  <2>2. ASSUME NEW d \in Definition, ReviseStep(d)
        PROVE  FALSE
    BY <2>2 DEF ReviseStep, RevisionValid, Revisable, Pauses, BudgetPauses
  <2>3. ~(PauseStep \/ InterruptStep \/ ResumeStep)
    BY DEF PauseStep, InterruptStep, ResumeStep, Resumable, Pauses,
      BudgetPauses
  <2>4. ASSUME NEW t \in Task
        PROVE  ~(StartStep(t) \/ AdvanceStep(t) \/ BlockStep(t))
    BY <1>2 DEF StartStep, AdvanceStep, BlockStep
  <2>5. ~FinalPassStep /\ ~FinalizeStep /\ \A F : ~FinalBlockStep(F)
    BY DEF FinalPassStep, FinalBlockStep, FinalizeStep, GoesOn, Ended
  <2>6. \A t \in Task, s \in RunStatus : ~ReopenStep(t, s)
    BY <1>2 DEF ReopenStep, ReopensFrom
  <2> QED BY <1>1, <2>1, <2>2, <2>3, <2>4, <2>5, <2>6 DEF RunStep
<1>4. ~ \E d \in Definition : Revises(d)
  BY DEF SamePlan, Revises, TypeOK, RunRecord
<1>5. ASSUME NEW t \in Task
      PROVE  result'[t] = result[t]
             /\ \A n \in Attempt : checkpoint'[t][n] = checkpoint[t][n]
  BY <1>4, <1>5, StepMoves, RowTypes, IdleFiles DEF TaskMoves, JudgedWhole
<1> QED BY <1>3, <1>5 DEF Verified

LEMMA GateStep ==
  ASSUME TypeOK, TypeOK', Settled(run), GateReady, GateReady', SamePlan,
         [Next]_vars
  PROVE  \/ Gate!Next
         \/ UNCHANGED <<Phase, Members(run), Verified, Accepted, run.reviewer>>
<1> USE DEF GateReady
<1>1. /\ Members(run') = Members(run) /\ Members(run) \subseteq Task
      /\ Verified \subseteq Task \X Attempt
      /\ Verified' \subseteq Task \X Attempt
      /\ Accepted' \subseteq Task \X Attempt
  BY MemberTypes DEF SamePlan, Members, TypeOK, Verified, AcceptedIsVerified
<1>2. ASSUME Phase = "open", Phase' = "open"
      PROVE  Gate!Work
  BY <1>1, <1>2 DEF Gate!Work, Gate!Evidence, Gate!OpenVerdict, OpenUnjudged
<1>3. CASE Stays
  BY <1>3 DEF Stays, Phase, Members, Verified, Accepted
<1>4. CASE Finalize
  <2>1. /\ run.status = "completed" /\ run'.status = "finalized"
        /\ run'.task = run.task /\ run'.reviewer = run.reviewer
        /\ UNCHANGED <<checkpoint, result>>
    BY <1>4, FinalizeEffect DEF Wrote, Steady
  <2>2. Verified' = Verified /\ Accepted' = Accepted
    BY <1>1, <2>1 DEF Verified, Accepted
  <2>3. Phase = "judged" /\ Phase' = "delivered" BY <2>1 DEF PhaseIsRead
  <2>4. Gate!Deliver BY <1>1, <2>1, <2>2, <2>3 DEF Gate!Deliver
  <2> QED BY <2>4 DEF Gate!Next
<1>5. ASSUME NEW e \in LifecycleEvent, Lifecycle(e)
      PROVE  \/ Gate!Next
             \/ UNCHANGED <<Phase, Members(run), Verified, Accepted,
                            run.reviewer>>
  <2>1. /\ Verified' \subseteq Verified
        /\ JudgedWhole /\ run.status = "completed" => Verified' = Verified
    BY <1>5, ClosedEvidence
  <2>2. /\ run.status # "finalized"
        /\ run' = run \/ CloseStep(e)
    BY <1>5, LifecycleEnds, ClosesRun
  <2>3. Phase \in {"open", "judged", "closed"}
    BY <2>2 DEF PhaseIsRead, Ended
  <2>4. CASE run' = run
    <3>1. Accepted' = Accepted /\ run'.reviewer = run.reviewer
      BY <2>4 DEF Accepted, Members
    <3>2. Phase' = Phase BY <2>4 DEF Phase
    <3>3. CASE Phase = "open" BY <1>2, <3>2, <3>3 DEF Gate!Next
    <3>4. CASE run.status = "completed" BY <1>1, <2>1, <3>1, <3>2, <3>4
    <3>5. CASE Phase = "closed"
      <4>1. Gate!Close BY <1>1, <2>1, <3>1, <3>2, <3>5 DEF Gate!Close
      <4> QED BY <4>1 DEF Gate!Next
    <3>6. Phase = "judged" => run.status = "completed"
      BY DEF PhaseIsRead, Ended
    <3> QED BY <2>3, <3>3, <3>4, <3>5, <3>6
  <2>5. CASE CloseStep(e)
    <3>1. /\ Accepted' \subseteq Accepted /\ run'.reviewer = run.reviewer
          /\ run'.status = RunEdge(e).to /\ CanRun(run.status, e)
      BY <2>5, ClosedAccepted DEF CloseStep, Steady
    <3>2. CASE e = "timeout"
      <4>1. run.status \in {"active", "interrupted"} /\ run'.status = "timed-out"
        BY <3>1, <3>2, LifecycleSources, ClosingTargets DEF CanRun
      <4>2. Phase = "open" /\ Phase' = "open"
        BY <4>1 DEF PhaseIsRead, Ended, Closed
      <4> QED BY <1>2, <4>2 DEF Gate!Next
    <3>3. CASE e # "timeout"
      <4>1. run'.status \in Closed
        BY <3>1, <3>3, ClosingTargets DEF LifecycleEvent, Closed
      <4>2. Phase' = "closed" BY <4>1 DEF PhaseIsRead
      <4>3. Gate!Close BY <1>1, <2>1, <2>3, <3>1, <4>2 DEF Gate!Close
      <4> QED BY <4>3 DEF Gate!Next
    <3> QED BY <3>2, <3>3
  <2> QED BY <2>2, <2>4, <2>5
<1>6. CASE GoesOn
  <2>1. CASE run.status = "completed"
    <3>1. run' = run /\ Verified' = Verified BY <1>6, <2>1, JudgedOnlyEnds
    <3> QED BY <3>1 DEF Phase, Members, Accepted
  <2>2. CASE run.status # "completed" /\ run'.status # "completed"
    <3>1. Phase = "open" /\ Phase' = "open"
      BY <1>6, <2>2 DEF PhaseIsRead, GoesOn
    <3> QED BY <1>2, <3>1 DEF Gate!Next
  <2>3. CASE run.status # "completed" /\ run'.status = "completed"
    <3>1. Phase = "open" /\ Phase' = "judged"
      BY <1>6, <2>3 DEF PhaseIsRead, GoesOn
    <3>2. /\ {e[1] : e \in Accepted'} = Members(run')
          /\ run'.reviewer \in {"not-required", "passed"}
      BY <2>3 DEF JudgedWhole
    <3>3. Gate!Judge
      BY <1>1, <3>1, <3>2
      DEF Gate!Judge, Gate!Evidence, Gate!Sufficient, AcceptedIsVerified
    <3> QED BY <3>3 DEF Gate!Next
  <2> QED BY <2>1, <2>2, <2>3
<1> QED BY <1>3, <1>4, <1>5, <1>6, StepOfRun

LEMMA GateInit ==
  ASSUME Init
  PROVE  Gate!Init
<1>1. PICK d \in Definition : run = ApprovedRun(d) BY DEF Init
<1>2. /\ run.status = "approved" /\ run.defn = d
      /\ run.reviewer = ReviewerGate(d)
      /\ run.task = [t \in Task |->
                       InitialTask(IF t \notin d.tasks THEN "absent"
                                   ELSE IF d.deps[t] = {} THEN "ready"
                                   ELSE "pending")]
  BY <1>1, Zenon DEF ApprovedRun
<1>3. \A s : InitialTask(s).status = s BY Zenon DEF InitialTask
<1>4. Members(run) \subseteq Task BY InitType, MemberTypes DEF TypeOK
<1>5. \A t \in Members(run) : run.task[t].status # "completed"
  BY <1>2, <1>3, <1>4
<1>6. Accepted = {} BY <1>5 DEF Accepted
<1>7. Verified = {} BY DEF Verified, Init
<1>8. Phase = "open" BY <1>2, PhaseOfStatus DEF Ended, Closed
<1>9. run.reviewer \in {"not-required", "pending"} BY <1>2 DEF ReviewerGate
<1> QED BY <1>4, <1>6, <1>7, <1>8, <1>9 DEF Gate!Init

(* Every run of the commands, kills included, is a behaviour of RunGate:   *)
(* what was judged whole is delivered as it was judged or closed, nothing  *)
(* is delivered that was not judged, and a closed run gains no evidence.   *)
(* For every definition and every bound, where no revision is applied      *)
(* (state.js; see PassCoversFirstPlan for the revisions).                  *)
THEOREM RunKeepsGate ==
  ASSUME MaxRevision = 1
  PROVE  Spec => GateKept
<1>1. TypeOK /\ FirstPlanCovered => Covered
  BY DEF FirstPlanCovered, TypeOK, RunRecord
<1>2. TypeOK /\ Evidence /\ Unplanned /\ Covered => GateReady
  BY GateIsReady
<1>3. TypeOK /\ TypeOK' /\ [Next]_vars => SamePlan
  <2> SUFFICES ASSUME TypeOK, TypeOK', [Next]_vars
               PROVE  SamePlan
    OBVIOUS
  <2>1. ~ \E d \in Definition : Revises(d)
    BY DEF Revises, TypeOK, RunRecord
  <2> QED BY <2>1, StepPlan
<1>4. /\ TypeOK /\ TypeOK' /\ Settled(run) /\ GateReady /\ GateReady'
      /\ [Next]_vars
      => [Gate!Next]_(Gate!gate)
  <2> SUFFICES ASSUME TypeOK, TypeOK', Settled(run), GateReady, GateReady',
                      [Next]_vars
               PROVE  [Gate!Next]_(Gate!gate)
    OBVIOUS
  <2>1. \/ Gate!Next
        \/ UNCHANGED <<Phase, Members(run), Verified, Accepted, run.reviewer>>
    BY <1>3, GateStep
  <2> QED BY <2>1 DEF Gate!gate
<1>5. Init => Gate!Init BY GateInit
<1> QED
  BY <1>1, <1>2, <1>4, <1>5, TypeCorrect, RunsSettle, EvidenceHolds,
    FreshHolds, FirstPlanHolds, PTL DEF Spec, GateKept, Gate!Spec
=============================================================================
