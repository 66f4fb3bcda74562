-------------------------- MODULE WorkflowRunSteps --------------------------
(***************************************************************************)
(* What one step of WorkflowRun may do, in the terms that proofs about it  *)
(* need: to the fields of run.json (the lemmas named ...Effect), and to    *)
(* one task with the files of its attempts (TaskMoves).  The invariants of *)
(* the next modules are proved from these and not from the actions.        *)
(***************************************************************************)
EXTENDS WorkflowRunProofs

(* The fields that only a revision, a review, a pause, a resume or an      *)
(* interruption writes.                                                    *)
Steady(r, x) ==
  /\ x.defn = r.defn /\ x.revision = r.revision /\ x.reviewer = r.reviewer
  /\ x.resumeStatus = r.resumeStatus /\ x.interruption = r.interruption
  /\ x.hostLimit = r.hostLimit

SameTasks(r, x) == x.task = r.task /\ x.defn = r.defn /\ x.revision = r.revision

(* x is r with status s, tasks f and perhaps other meters. *)
Wrote(r, x, s, f) == x.status = s /\ x.task = f /\ Steady(r, x)

LEMMA WroteFrame ==
  ASSUME NEW r \in RunRecord
  PROVE  /\ \A s : Wrote(r, [r EXCEPT !.status = s], s, r.task)
         /\ \A f : Wrote(r, [r EXCEPT !.task = f], r.status, f)
         /\ \A s, f : Wrote(r, [r EXCEPT !.status = s, !.task = f], s, f)
         /\ \A t, x : Wrote(r, [r EXCEPT !.task[t] = x], r.status,
                            [r.task EXCEPT ![t] = x])
         /\ \A s, t, x : Wrote(r, [r EXCEPT !.status = s, !.task[t] = x], s,
                               [r.task EXCEPT ![t] = x])
         /\ \A s, t, x : Wrote(r, [r EXCEPT !.task[t] = x, !.status = s], s,
                               [r.task EXCEPT ![t] = x])
         /\ \A n : Wrote(r, [r EXCEPT !.runs = n], r.status, r.task)
         /\ \A a, u : Wrote(r, Consume(r, a, u), r.status, r.task)
BY Zenon DEF Wrote, Steady, Consume, RunRecord

LEMMA WroteTwice ==
  ASSUME NEW r, NEW x, NEW y, NEW s, NEW f, NEW s2, NEW f2,
         Wrote(r, x, s, f), Wrote(x, y, s2, f2)
  PROVE  Wrote(r, y, s2, f2)
BY DEF Wrote, Steady

(* What of the other tasks becomes ready when one is completed. *)
Promoted(x, y) ==
  \/ y = x
  \/ x.status = "pending" /\ y = [x EXCEPT !.status = "ready"]

LEMMA PromoteEffect ==
  ASSUME NEW r \in RunRecord
  PROVE  /\ Wrote(r, Promote(r), r.status, Promote(r).task)
         /\ \A t \in Task : Promoted(r.task[t], Promote(r).task[t])
<1>1. DEFINE f == [t \in Task |->
                     IF t \in Members(r) /\ r.task[t].status = "pending"
                        /\ DepsCompleted(r, t)
                     THEN [r.task[t] EXCEPT !.status = "ready"]
                     ELSE r.task[t]]
<1>2. Promote(r) = [r EXCEPT !.task = f] BY DEF Promote
<1>3. \A t \in Task : Promoted(r.task[t], f[t]) BY DEF Promoted
<1> HIDE DEF f
<1>4. Wrote(r, Promote(r), r.status, f) BY <1>2, WroteFrame
<1> QED BY <1>3, <1>4 DEF Wrote

-----------------------------------------------------------------------------
(* The fields of run.json that a command writes.  A killed command leaves  *)
(* run.json as it was.                                                     *)

LEMMA StartEffect ==
  ASSUME TypeOK, NEW t \in Task, NEW w \in Worker \cup {"none"},
         StartTask(t, w)
  PROVE  /\ t \in ReadyTasks(run) /\ run.status \in {"approved", "active"}
         /\ \/ run' = run
            \/ Wrote(run, run', "active",
                     [run.task EXCEPT ![t] = StartedTask(run.task[t], w)])
<1>1. run' = run \/ run' = StartedRun(run, t, w)
  BY PersistRun DEF StartTask
<1>2. Wrote(run, StartedRun(run, t, w), RunEdge("task-started").to,
            [run.task EXCEPT ![t] = StartedTask(run.task[t], w)])
  BY WroteFrame DEF StartedRun, TypeOK
<1> QED BY <1>1, <1>2, RunEdges DEF StartTask, StartRequested

(* A pause remembers the status it found.  Only work under way can come to *)
(* a limit of the host.                                                    *)
PauseWritten(e) ==
  /\ run'.status = RunEdge(e).to /\ run'.resumeStatus = run.status
  /\ SameTasks(run, run') /\ run'.reviewer = run.reviewer
  /\ run'.interruption = run.interruption /\ run'.used = run.used
  /\ run.hostLimit => run'.hostLimit
  /\ run'.hostLimit =>
       run.hostLimit \/ run.status \in {"active", "review-pending"}

LEMMA PauseEffect ==
  ASSUME TypeOK, NEW e \in BudgetPauseEvent \cup {"pause-host-limit"},
         CanRun(run.status, e),
         \/ run' = Paused(run, e)
         \/ e = "pause-host-limit"
            /\ run' = [Paused(run, e) EXCEPT !.hostLimit = TRUE]
  PROVE  /\ PauseWritten(e) /\ run'.status \in Pauses
         /\ run.status \in Resumable
         /\ run'.status = "paused-host-limit" => e = "pause-host-limit"
<1>1. /\ RunEdge(e).to \in Pauses
      /\ RunEdge(e).to = "paused-host-limit" => e = "pause-host-limit"
  <2>1. /\ RunEdge("pause-budget-safe").to = "paused-budget-safe"
        /\ RunEdge("pause-budget-unverified").to = "paused-budget-unverified"
        /\ RunEdge("pause-host-limit").to = "paused-host-limit"
    BY Zenon DEF RunEdge
  <2> QED BY <2>1 DEF BudgetPauseEvent, Pauses, BudgetPauses
<1>2. /\ run'.status = RunEdge(e).to /\ run'.resumeStatus = run.status
      /\ SameTasks(run, run') /\ run'.reviewer = run.reviewer
      /\ run'.interruption = run.interruption /\ run'.used = run.used
  BY Zenon DEF Paused, SameTasks, TypeOK, RunRecord
<1>3. \/ run'.hostLimit = run.hostLimit
      \/ run'.hostLimit = TRUE /\ e = "pause-host-limit"
  BY Zenon DEF Paused, TypeOK, RunRecord
<1>4. e = "pause-host-limit" => run.status \in {"active", "review-pending"}
  <2>1. RunEdge("pause-host-limit").from = {"active", "review-pending"}
    BY Zenon DEF RunEdge
  <2> QED BY <2>1 DEF CanRun
<1>5. PauseWritten(e) BY <1>2, <1>3, <1>4 DEF PauseWritten
<1>6. run.status \in Resumable BY PauseEdges
<1> QED BY <1>1, <1>2, <1>3, <1>5, <1>6

LEMMA RefusalEffect ==
  ASSUME TypeOK, NEW e \in BudgetPauseEvent \cup {"pause-host-limit"},
         PauseForBudget(e)
  PROVE  /\ PauseWritten(e) /\ run'.status \in Pauses
         /\ run'.status = "paused-host-limit" => e = "pause-host-limit"
         /\ run.status \in Resumable /\ UNCHANGED <<checkpoint, result>>
BY PauseEffect DEF PauseForBudget, WriteRun

(* A command is refused for the host's limit only while that is in force.  *)
LEMMA LimitRefuses ==
  ASSUME NEW r, NEW a, NEW late,
         BudgetDecision(r, a, late) = "pause-host-limit"
  PROVE  r.hostLimit
BY DEF BudgetDecision, PauseEvent

(* A result is recorded: r is run.json with the meters counted, y the      *)
(* task's record.                                                          *)
LEMMA SuccessEffect ==
  ASSUME TypeOK, NEW t \in Task, NEW u \in Nat, RecordSuccess(t, u)
  PROVE  LET x == run.task[t]
             y == SucceededTask(x, ReviewRequired(run, t))
             next == SucceededRun(run, t, u)
         IN  /\ AcceptsResult(run, t)
             /\ next.task[t] = y /\ next.defn = run.defn
             /\ \A v \in Task \ {t} : Promoted(run.task[v], next.task[v])
             /\ \/ run' = run
                \/ /\ AllComplete(next) /\ run.status = "active"
                   /\ Wrote(run, run', RunEdge(CompletionEvent(run)).to, next.task)
                \/ /\ ~AllComplete(next)
                   /\ Wrote(run, run',
                        IF SomeBlocked(next) THEN run.status ELSE "active",
                        next.task)
<1>1. DEFINE n == SuccessRuns(run, t)
             c == Consume(run, ActiveAllocation(run, t), u)
             d == CountedRun(run, t, u, n)
             y == SucceededTask(run.task[t], ReviewRequired(run, t))
             z == [d EXCEPT !.task[t] = y]
             next == SucceededRun(run, t, u)
<1>2. AcceptsResult(run, t) /\ n \in Nat
  BY SuccessRunsType DEF RecordSuccess, TypeOK
<1>3. run \in RunRecord BY DEF TypeOK
<1>4. c \in RunRecord /\ d \in RunRecord
  BY <1>2, AcceptsResultType, ConsumeType, CountedRunType DEF TypeOK
<1>5. y \in TaskRecord
  BY <1>2, AcceptsResultType, SucceededTaskType DEF ReviewRequired
<1>6. Wrote(run, d, run.status, run.task)
  <2>1. Wrote(run, c, run.status, run.task) BY <1>3, WroteFrame
  <2>2. d = [c EXCEPT !.runs = @ + n] BY DEF CountedRun
  <2> HIDE DEF c, d, n
  <2>3. Wrote(c, d, c.status, c.task) BY <1>4, <2>2, WroteFrame
  <2> QED BY <2>1, <2>3, WroteTwice DEF Wrote
<1>7. next = Promote(z) BY DEF SucceededRun
<1> HIDE DEF c, d, y, next
<1>8. z \in RunRecord
  BY <1>4, <1>5, RunUpdateType DEF RunStatus
<1>9. Wrote(run, z, run.status, [run.task EXCEPT ![t] = y])
  <2>1. Wrote(d, z, d.status, [d.task EXCEPT ![t] = y])
    BY <1>4, WroteFrame
  <2> QED BY <1>6, <2>1, WroteTwice DEF Wrote
<1> HIDE DEF z
<1>10. /\ Wrote(z, next, z.status, next.task)
       /\ \A v \in Task : Promoted(z.task[v], next.task[v])
  BY <1>7, <1>8, PromoteEffect
<1>11. Wrote(run, next, run.status, next.task)
  BY <1>9, <1>10, WroteTwice DEF Wrote
<1>12. next \in RunRecord BY <1>7, <1>8, PromoteType
<1>13. z.task = [run.task EXCEPT ![t] = y] BY <1>9 DEF Wrote
<1>14. \A v \in Task \ {t} : Promoted(run.task[v], next.task[v])
  BY <1>3, <1>10, <1>13 DEF RunRecord
<1>15. next.task[t] = y
  <2>1. z.task[t] = y BY <1>3, <1>13 DEF RunRecord
  <2>2. y.status \in {"completed", "review-pending"}
    <3>1. run.task[t] \in TaskRecord BY <1>2, AcceptsResultType
    <3> QED BY <3>1, Zenon DEF y, SucceededTask, TaskRecord
  <2> QED BY <1>10, <2>1, <2>2 DEF Promoted
<1>16. \A s : Wrote(run, [next EXCEPT !.status = s], s, next.task)
  <2> TAKE s
  <2>1. Wrote(next, [next EXCEPT !.status = s], s, next.task)
    BY <1>12, WroteFrame
  <2> QED BY <1>11, <2>1, WroteTwice
<1>17. \/ run' = run
       \/ /\ AllComplete(next) /\ CanRun(run.status, CompletionEvent(run))
          /\ run' = [next EXCEPT !.status = RunEdge(CompletionEvent(run)).to]
       \/ /\ ~AllComplete(next)
          /\ run' = [next EXCEPT
                       !.status = IF SomeBlocked(next) THEN @ ELSE "active"]
  BY PersistRun, ThrowAfterRun DEF RecordSuccess, next
<1>18. CanRun(run.status, CompletionEvent(run)) => run.status = "active"
  <2>1. /\ RunEdge("tasks-completed").from = {"active"}
        /\ RunEdge("tasks-completed-no-review").from = {"active"}
    BY Zenon DEF RunEdge
  <2> QED BY <2>1 DEF CanRun, CompletionEvent
<1>19. next.status = run.status /\ next.defn = run.defn
  BY <1>11 DEF Wrote, Steady
<1>20. \/ run' = run
       \/ /\ AllComplete(next) /\ run.status = "active"
          /\ Wrote(run, run', RunEdge(CompletionEvent(run)).to, next.task)
       \/ /\ ~AllComplete(next)
          /\ Wrote(run, run',
               IF SomeBlocked(next) THEN run.status ELSE "active", next.task)
  BY <1>16, <1>17, <1>18, <1>19, Zenon
<1> QED BY <1>2, <1>14, <1>15, <1>19, <1>20, Zenon DEF next, y

LEMMA FailureEffect ==
  ASSUME TypeOK, NEW t \in Task, NEW u \in Nat,
         NEW c \in FailureClassification, NEW s \in Signature,
         RecordFailure(t, u, c, s)
  PROVE  /\ AcceptsResult(run, t)
         /\ \/ run' = run
            \/ /\ run.status = "active"
               /\ Wrote(run, run', "blocked",
                    [run.task EXCEPT ![t] =
                       FailedTask(run.task[t], Classify(run, t, c, s), s)])
<1>1. DEFINE class == Classify(run, t, c, s)
             y == FailedTask(run.task[t], class, s)
<1>2. AcceptsResult(run, t) BY DEF RecordFailure
<1>3. PICK n \in 0..SuccessRuns(run, t) :
        \/ run' = run
        \/ CanRun(run.status, "block") /\ run' = FailedRun(run, t, u, n, class, s)
  BY PersistRun, ThrowAfterRun DEF RecordFailure
<1>4. n \in Nat /\ run \in RunRecord BY SuccessRunsType DEF TypeOK
<1>5. Wrote(run, CountedRun(run, t, u, n), run.status, run.task)
  <2>1. DEFINE k == Consume(run, ActiveAllocation(run, t), u)
  <2>2. k \in RunRecord /\ Wrote(run, k, run.status, run.task)
    BY <1>2, <1>4, AcceptsResultType, ConsumeType, WroteFrame
  <2>3. CountedRun(run, t, u, n) = [k EXCEPT !.runs = @ + n]
    BY DEF CountedRun
  <2> HIDE DEF k
  <2>4. Wrote(k, CountedRun(run, t, u, n), k.status, k.task)
    BY <2>2, <2>3, WroteFrame
  <2> QED BY <2>2, <2>4, WroteTwice DEF Wrote
<1>6. CountedRun(run, t, u, n) \in RunRecord BY <1>2, <1>4, CountedRunType
<1> HIDE DEF y
<1>7. Wrote(run, FailedRun(run, t, u, n, class, s), "blocked",
            [run.task EXCEPT ![t] = y])
  <2>1. DEFINE k == CountedRun(run, t, u, n)
               z == FailedRun(run, t, u, n, class, s)
  <2>2. z = [k EXCEPT !.status = RunEdge("block").to, !.task[t] = y]
    BY DEF FailedRun, y
  <2> HIDE DEF k, z
  <2>3. Wrote(k, z, "blocked", [k.task EXCEPT ![t] = y])
    BY <1>6, <2>2, WroteFrame, RunEdges DEF k
  <2> QED BY <1>5, <2>3, WroteTwice DEF Wrote, k, z
<1>8. CanRun(run.status, "block") => run.status = "active"
  <2>1. RunEdge("block").from = {"active"} BY Zenon DEF RunEdge
  <2> QED BY <2>1 DEF CanRun
<1> QED BY <1>2, <1>3, <1>7, <1>8 DEF y

LEMMA PassFinalEffect ==
  ASSUME TypeOK, NEW u \in Nat, NEW late, PassFinalReview(u, late)
  PROVE  /\ run.status = "review-pending" /\ run'.status = "completed"
         /\ run'.reviewer = "passed" /\ SameTasks(run, run')
         /\ run'.resumeStatus = run.resumeStatus
         /\ run'.interruption = run.interruption
         /\ ~run.hostLimit /\ ~run'.hostLimit
         /\ UNCHANGED <<checkpoint, result>>
<1>1. DEFINE c == Consume(run, "reviewer", u)
<1>2. c \in RunRecord /\ Wrote(run, c, run.status, run.task)
  BY ConsumeType, WroteFrame DEF TypeOK, Allocation
<1>3. /\ run' = [c EXCEPT !.status = RunEdge("reviewer-pass").to,
                          !.reviewer = "passed"]
      /\ UNCHANGED <<checkpoint, result>> /\ run.status = "review-pending"
      /\ ~run.hostLimit
  BY DEF PassFinalReview, WriteRun, AwaitsFinalReview, ReviewAffordable,
    BudgetDecision
<1> HIDE DEF c
<1>4. /\ run'.status = RunEdge("reviewer-pass").to
      /\ run'.reviewer = "passed" /\ SameTasks(c, run')
      /\ run'.resumeStatus = c.resumeStatus
      /\ run'.interruption = c.interruption
      /\ run'.hostLimit = c.hostLimit
  BY <1>2, <1>3, Zenon DEF SameTasks, RunRecord
<1> QED BY <1>2, <1>3, <1>4, RunEdges DEF Wrote, Steady, SameTasks

LEMMA BlockFinalEffect ==
  ASSUME TypeOK, NEW u \in Nat, NEW late, NEW class \in Findings,
         BlockFinalReview(u, late, class)
  PROVE  /\ run.status = "review-pending" /\ run'.status = "blocked"
         /\ DOMAIN class \subseteq Members(run) /\ DOMAIN class # {}
         /\ run'.task = [t \in Task |-> IF t \in DOMAIN class
                                        THEN RejectedTask(run.task[t], class[t])
                                        ELSE run.task[t]]
         /\ run'.defn = run.defn /\ run'.revision = run.revision
         /\ run'.reviewer = "blocked"
         /\ run'.resumeStatus = run.resumeStatus
         /\ run'.interruption = run.interruption
         /\ run'.hostLimit = run.hostLimit
         /\ \A t \in DOMAIN class :
              run.task[t].status \in {"review-pending", "completed"}
         /\ UNCHANGED <<checkpoint, result>>
<1>1. DEFINE c == Consume(run, "reviewer", u)
             f == [t \in Task |-> IF t \in DOMAIN class
                                  THEN RejectedTask(run.task[t], class[t])
                                  ELSE run.task[t]]
<1>2. c \in RunRecord /\ Wrote(run, c, run.status, run.task)
  BY ConsumeType, WroteFrame DEF TypeOK, Allocation
<1>3. /\ run' = [c EXCEPT !.status = RunEdge("reviewer-block").to,
                          !.reviewer = "blocked", !.task = f]
      /\ UNCHANGED <<checkpoint, result>> /\ run.status = "review-pending"
      /\ DOMAIN class \subseteq Members(run) /\ DOMAIN class # {}
  BY DEF BlockFinalReview, WriteRun, AwaitsFinalReview
<1> HIDE DEF c, f
<1>4. /\ run'.status = RunEdge("reviewer-block").to /\ run'.task = f
      /\ run'.reviewer = "blocked"
      /\ run'.defn = c.defn /\ run'.revision = c.revision
      /\ run'.resumeStatus = c.resumeStatus
      /\ run'.interruption = c.interruption
      /\ run'.hostLimit = c.hostLimit
  BY <1>2, <1>3, Zenon DEF RunRecord
<1>5. \A t \in DOMAIN class :
        run.task[t].status \in {"review-pending", "completed"}
  <2>1. TaskEdge("reviewer-block").from = {"review-pending", "completed"}
    BY Zenon DEF TaskEdge, FailureClassification
  <2> QED BY <2>1 DEF BlockFinalReview, CanTask
<1>6. Steady(run, c) BY <1>2 DEF Wrote
<1> QED BY <1>3, <1>4, <1>5, <1>6, RunEdges DEF Steady, f

LEMMA PassCheckpointEffect ==
  ASSUME TypeOK, NEW t \in Task, NEW u \in Nat, NEW late,
         PassCheckpointReview(t, u, late)
  PROVE  LET next == ReviewedRun(run, t, u)
         IN  /\ AwaitsCheckpointReview(run, t)
             /\ next.task[t] = ReviewedTask(run.task[t])
             /\ next.defn = run.defn
             /\ \A v \in Task \ {t} : Promoted(run.task[v], next.task[v])
             /\ \/ run' = run
                \/ Wrote(run, run',
                     IF AllComplete(next) THEN RunEdge(CompletionEvent(run)).to
                     ELSE "active", next.task)
<1>1. DEFINE c == Consume(run, "reviewer", u)
             y == ReviewedTask(run.task[t])
             z == [c EXCEPT !.task[t] = y]
             next == ReviewedRun(run, t, u)
<1>2. AwaitsCheckpointReview(run, t) /\ run.status = "active"
  BY DEF PassCheckpointReview, AwaitsCheckpointReview
<1>3. run \in RunRecord BY DEF TypeOK
<1>4. c \in RunRecord /\ Wrote(run, c, run.status, run.task)
  BY <1>3, ConsumeType, WroteFrame DEF Allocation
<1>5. y \in TaskRecord /\ y.status = "completed"
  <2>1. run.task[t] \in TaskRecord BY <1>2, AwaitsReviewType
  <2>2. y.status = TaskEdge("reviewer-pass").to
    BY <2>1, Zenon DEF ReviewedTask, TaskRecord
  <2> QED BY <2>1, <2>2, ReviewedTaskType, TaskEdges
<1>6. next = Promote(z) BY DEF ReviewedRun
<1> HIDE DEF c, y, next
<1>7. z \in RunRecord BY <1>4, <1>5, RunUpdateType DEF RunStatus
<1>8. Wrote(run, z, run.status, [run.task EXCEPT ![t] = y])
  <2>1. Wrote(c, z, c.status, [c.task EXCEPT ![t] = y])
    BY <1>4, WroteFrame
  <2> QED BY <1>4, <2>1, WroteTwice DEF Wrote
<1> HIDE DEF z
<1>9. /\ Wrote(z, next, z.status, next.task)
      /\ \A v \in Task : Promoted(z.task[v], next.task[v])
  BY <1>6, <1>7, PromoteEffect
<1>10. Wrote(run, next, run.status, next.task)
  BY <1>8, <1>9, WroteTwice DEF Wrote
<1>11. next \in RunRecord BY <1>6, <1>7, PromoteType
<1>12. z.task = [run.task EXCEPT ![t] = y] BY <1>8 DEF Wrote
<1>13. \A v \in Task \ {t} : Promoted(run.task[v], next.task[v])
  BY <1>3, <1>9, <1>12 DEF RunRecord
<1>14. next.task[t] = y
  <2>1. z.task[t] = y BY <1>3, <1>12 DEF RunRecord
  <2> QED BY <1>5, <1>9, <2>1 DEF Promoted
<1>15. \A s : Wrote(run, [next EXCEPT !.status = s], s, next.task)
  <2> TAKE s
  <2>1. Wrote(next, [next EXCEPT !.status = s], s, next.task)
    BY <1>11, WroteFrame
  <2> QED BY <1>10, <2>1, WroteTwice
<1>16. \/ run' = run
       \/ run' = [next EXCEPT
                    !.status = IF AllComplete(next)
                               THEN RunEdge(CompletionEvent(run)).to ELSE @]
  BY PersistRun DEF PassCheckpointReview, next
<1>17. next.status = "active" /\ next.defn = run.defn
  BY <1>2, <1>10 DEF Wrote, Steady
<1>18. \/ run' = run
       \/ Wrote(run, run', IF AllComplete(next)
                           THEN RunEdge(CompletionEvent(run)).to
                           ELSE "active", next.task)
  BY <1>15, <1>16, <1>17, Zenon
<1> QED BY <1>2, <1>13, <1>14, <1>17, <1>18, Zenon DEF next, y

LEMMA BlockCheckpointEffect ==
  ASSUME TypeOK, NEW t \in Task, NEW u \in Nat, NEW late, NEW f,
         BlockCheckpointReview(t, u, late, f)
  PROVE  /\ AwaitsCheckpointReview(run, t)
         /\ \/ run' = run
            \/ Wrote(run, run', "blocked",
                     [run.task EXCEPT ![t] = RejectedTask(run.task[t], f)])
<1>1. DEFINE c == Consume(run, "reviewer", u)
             y == RejectedTask(run.task[t], f)
<1>2. c \in RunRecord /\ Wrote(run, c, run.status, run.task)
  BY ConsumeType, WroteFrame DEF TypeOK, Allocation
<1>3. run' = run \/ run' = [c EXCEPT !.status = RunEdge("block").to,
                                     !.task[t] = y]
  BY PersistRun DEF BlockCheckpointReview
<1> HIDE DEF c, y
<1>4. Wrote(c, [c EXCEPT !.status = RunEdge("block").to, !.task[t] = y],
            "blocked", [c.task EXCEPT ![t] = y])
  BY <1>2, WroteFrame, RunEdges
<1>5. \/ run' = run
      \/ Wrote(run, run', "blocked", [run.task EXCEPT ![t] = y])
  BY <1>2, <1>3, <1>4, WroteTwice DEF Wrote
<1> QED BY <1>5 DEF BlockCheckpointReview, y

LEMMA FinalizeEffect ==
  ASSUME TypeOK, Finalize
  PROVE  /\ run.status = "completed" /\ AllComplete(run)
         /\ Wrote(run, run', "finalized", run.task)
         /\ run.defn.finalReview => run.reviewer = "passed"
         /\ UNCHANGED <<checkpoint, result>>
<1>1. RunEdge("finalize").from = {"completed"} BY Zenon DEF RunEdge
<1>2. run' = [run EXCEPT !.status = RunEdge("finalize").to]
  BY DEF Finalize, WriteRun
<1>3. Wrote(run, run', "finalized", run.task)
  BY <1>2, WroteFrame, RunEdges DEF TypeOK
<1> QED BY <1>1, <1>3 DEF Finalize, CanRun, AllComplete, WriteRun

LEMMA InterruptEffect ==
  ASSUME TypeOK, Interrupt
  PROVE  /\ run.status \in {"active", "review-pending"}
         /\ run'.status = "interrupted" /\ run'.interruption = run.status
         /\ SameTasks(run, run') /\ run'.reviewer = run.reviewer
         /\ run'.resumeStatus = run.resumeStatus /\ run'.used = run.used
         /\ run'.hostLimit = run.hostLimit
         /\ UNCHANGED <<checkpoint, result>>
<1>1. /\ RunEdge("interrupt").from = {"active", "review-pending"}
      /\ RunEdge("interrupt").to = "interrupted"
  BY Zenon DEF RunEdge
<1>2. /\ run'.status = RunEdge("interrupt").to
      /\ run'.interruption = run.status /\ SameTasks(run, run')
      /\ run'.reviewer = run.reviewer /\ run'.resumeStatus = run.resumeStatus
      /\ run'.used = run.used /\ run'.hostLimit = run.hostLimit
  BY Zenon DEF Interrupt, WriteRun, SameTasks, TypeOK, RunRecord
<1> QED BY <1>1, <1>2 DEF Interrupt, WriteRun, CanRun

LEMMA ResumeEffect ==
  ASSUME TypeOK, Resume
  PROVE  /\ run.status \in Pauses \cup {"interrupted", "timed-out"}
         /\ run'.status = ResumedStatus /\ run'.resumeStatus = "none"
         /\ run'.interruption \in {"none", run.interruption}
         /\ SameTasks(run, run') /\ run'.reviewer = run.reviewer
         /\ run'.used = run.used
         /\ run'.hostLimit => run.hostLimit
         /\ UNCHANGED <<checkpoint, result>>
<1>1. RunEdge("resume").from = Pauses \cup {"interrupted", "timed-out"}
  BY Zenon DEF RunEdge
<1>2. /\ run'.status = ResumedStatus /\ run'.resumeStatus = "none"
      /\ run'.interruption = IF run.status = "interrupted" THEN "none"
                             ELSE run.interruption
      /\ SameTasks(run, run') /\ run'.reviewer = run.reviewer
      /\ run'.used = run.used
      /\ run'.hostLimit = (run.hostLimit /\ run.status # "paused-host-limit")
  BY Zenon DEF Resume, WriteRun, SameTasks, TypeOK, RunRecord
<1> QED BY <1>1, <1>2 DEF Resume, WriteRun, CanRun

LEMMA AddBudgetEffect ==
  ASSUME TypeOK, NEW a, NEW n, AddBudget(a, n)
  PROVE  /\ run.status \in Pauses
         /\ run'.status = Orelse(run.resumeStatus, "active")
         /\ run'.resumeStatus = "none"
         /\ run'.interruption = run.interruption
         /\ SameTasks(run, run') /\ run'.reviewer = run.reviewer
         /\ run'.used = run.used /\ run'.hostLimit = run.hostLimit
         /\ UNCHANGED <<checkpoint, result>>
<1>1. RunEdge("add-budget").from = BudgetPauses BY Zenon DEF RunEdge
<1>2. /\ run'.status = Orelse(run.resumeStatus, "active")
      /\ run'.resumeStatus = "none" /\ run'.interruption = run.interruption
      /\ SameTasks(run, run') /\ run'.reviewer = run.reviewer
      /\ run'.used = run.used /\ run'.hostLimit = run.hostLimit
  BY Zenon DEF AddBudget, WriteRun, SameTasks, TypeOK, RunRecord
<1> QED BY <1>1, <1>2 DEF AddBudget, WriteRun, CanRun, Pauses

LEMMA OperatorPauseEffect ==
  ASSUME TypeOK,
         PauseHostLimit \/ \E e \in BudgetPauseEvent : PauseByOperator(e)
  PROVE  \E e \in BudgetPauseEvent \cup {"pause-host-limit"} :
           /\ PauseWritten(e) /\ run'.status \in Pauses
           /\ run'.status = "paused-host-limit" => run'.hostLimit
           /\ run.status \in Resumable /\ UNCHANGED <<checkpoint, result>>
<1>1. CASE PauseHostLimit
  <2>1. /\ CanRun(run.status, "pause-host-limit")
        /\ run' = [Paused(run, "pause-host-limit") EXCEPT !.hostLimit = TRUE]
        /\ UNCHANGED <<checkpoint, result>>
    BY <1>1 DEF PauseHostLimit, WriteRun
  <2>2. run'.hostLimit
    BY <2>1, Zenon DEF Paused, TypeOK, RunRecord
  <2> QED BY <2>1, <2>2, PauseEffect
<1>2. ASSUME NEW e \in BudgetPauseEvent, PauseByOperator(e)
      PROVE  /\ PauseWritten(e) /\ run'.status \in Pauses
             /\ run'.status # "paused-host-limit"
             /\ run.status \in Resumable /\ UNCHANGED <<checkpoint, result>>
  BY <1>2, PauseEffect DEF PauseByOperator, WriteRun, BudgetPauseEvent
<1> QED BY <1>1, <1>2

(* The files of one task after lifecycle event e. *)
ClosedRow(x, c, e) ==
  [n \in Attempt |->
     IF n = x.active
     THEN [c[n] EXCEPT !.status = CheckpointIfSupported(@, e)] ELSE c[n]]

ClosedTask(x, e) == [x EXCEPT !.status = TaskIfSupported(@, e)]

LEMMA LifecycleEffect ==
  ASSUME TypeOK, NEW e \in LifecycleEvent, Lifecycle(e)
  PROVE  /\ CanRun(run.status, e) /\ result' = result
         /\ \A t \in Task : checkpoint'[t] \in
              {checkpoint[t], ClosedRow(run.task[t], checkpoint[t], e)}
         /\ \/ run' = run
            \/ /\ run'.used = run.used
               /\ Wrote(run, run', RunEdge(e).to,
                    [t \in Task |-> IF t \in Members(run)
                                    THEN ClosedTask(run.task[t], e)
                                    ELSE run.task[t]])
<1>1. DEFINE f == [t \in Task |-> IF t \in Members(run)
                                  THEN ClosedTask(run.task[t], e)
                                  ELSE run.task[t]]
             x == [run EXCEPT !.status = RunEdge(e).to, !.task = f]
             full == LifecycleFiles(run, e, Members(run))
             part == {LifecycleFiles(run, e, UpTo(run, t)) : t \in Members(run)}
<1>2. CanRun(run.status, e) /\ Persist(result, full, part, x)
  BY DEF Lifecycle, ClosedTask
<1>3. run' = run \/ run' = x BY <1>2, PersistRun
<1> HIDE DEF f
<1>4. /\ Wrote(run, x, RunEdge(e).to, f) /\ x.used = run.used
  <2>1. run \in RunRecord BY DEF TypeOK
  <2>2. Wrote(run, x, RunEdge(e).to, f) BY <2>1, WroteFrame, Zenon
  <2>3. SameMeters(run, x) BY <2>1, RunUpdateMeters, Zenon
  <2> QED BY <2>2, <2>3 DEF SameMeters
<1>5. ASSUME NEW tasks, NEW t \in Task
      PROVE  LifecycleFiles(run, e, tasks)[t] \in
               {checkpoint[t], ClosedRow(run.task[t], checkpoint[t], e)}
  <2>1. CASE t \in tasks
    BY <2>1 DEF LifecycleFiles, ClosedRow
  <2>2. CASE t \notin tasks
    <3>1. LifecycleFiles(run, e, tasks)[t]
            = [n \in Attempt |-> checkpoint[t][n]]
      BY <2>2 DEF LifecycleFiles
    <3>2. checkpoint[t] \in [Attempt -> CheckpointRecord] BY DEF TypeOK
    <3>3. checkpoint[t] = [n \in Attempt |-> checkpoint[t][n]]
      BY <3>2
    <3> QED BY <3>1, <3>3
  <2> QED BY <2>1, <2>2
<1>6. \E tasks : checkpoint' = LifecycleFiles(run, e, tasks)
  <2>1. checkpoint' = full \/ checkpoint' \in part BY <1>2, Zenon DEF Persist
  <2>2. CASE checkpoint' = full BY <2>2
  <2>3. CASE checkpoint' \in part BY <2>3, Zenon
  <2> QED BY <2>1, <2>2, <2>3
<1>7. result' = result BY <1>2 DEF Persist
<1> HIDE DEF x
<1> QED BY <1>2, <1>3, <1>4, <1>5, <1>6, <1>7 DEF f

(* An intervention on task t writes record y and asks for status s. *)
IntervenedOn(t, y, s) ==
  /\ run'.task = [run.task EXCEPT ![t] = y]
  /\ Steady(run, run') /\ run'.used = run.used
  /\ run'.status = IF SomeBlocked(run') THEN "blocked" ELSE s

LEMMA IntervenedEffect ==
  ASSUME TypeOK, NEW t \in Task, NEW y \in TaskRecord, NEW s,
         run' = Intervened(run, t, y, s)
  PROVE  IntervenedOn(t, y, s)
<1>1. DEFINE next == [run EXCEPT !.task[t] = y]
<1>2. /\ next \in RunRecord /\ next.used = run.used
      /\ Wrote(run, next, run.status, [run.task EXCEPT ![t] = y])
  <2>1. run \in RunRecord /\ "active" \in RunStatus BY DEF TypeOK, RunStatus
  <2>2. next \in RunRecord BY <2>1, RunUpdateType
  <2>3. SameMeters(run, next) BY <2>1, RunUpdateMeters, Zenon
  <2>4. Wrote(run, next, run.status, [run.task EXCEPT ![t] = y])
    BY <2>1, WroteFrame, Zenon
  <2> QED BY <2>2, <2>3, <2>4 DEF SameMeters
<1>3. DEFINE v == IF SomeBlocked(next) THEN "blocked" ELSE s
<1>3a. run' = [next EXCEPT !.status = v] BY DEF Intervened
<1> HIDE DEF next, v
<1>4. Wrote(next, run', v, next.task) /\ run'.used = next.used
  <2>1. Wrote(next, run', v, next.task)
    BY <1>2, <1>3a, WroteFrame, Zenon
  <2>2. SameMeters(next, run') BY <1>2, <1>3a, RunUpdateMeters, Zenon
  <2> QED BY <2>1, <2>2 DEF SameMeters
<1>5. SomeBlocked(next) <=> SomeBlocked(run')
  BY <1>4 DEF Wrote, Steady, SomeBlocked, Members
<1> QED BY <1>2, <1>4, <1>5 DEF IntervenedOn, Wrote, Steady, v

CheckpointIsOpen(s) == s \in {"running", "result-recorded"}

LEMMA BlockTaskEffect ==
  ASSUME TypeOK, NEW t \in Task, NEW c \in FailureClassification,
         NEW s \in Signature \cup {"none"}, BlockTask(t, c, s)
  PROVE  \E y \in TaskRecord :
           /\ y.status = "blocked"
           /\ \E x, z : y = [run.task[t] EXCEPT !.status = "blocked",
                                                !.blocker = x, !.signatures = z]
           /\ run.task[t].status \in {"pending", "ready", "running", "verifying"}
           /\ run.status = "active" /\ t \in Members(run)
           /\ run' = run \/ IntervenedOn(t, y, "blocked")
           /\ result' = result
           /\ LET k == run.task[t].active
              IN  \/ k = 0 /\ checkpoint' = checkpoint
                  \/ /\ k \in Attempt
                     /\ CheckpointIsOpen(checkpoint[t][k].status)
                     /\ checkpoint' = [checkpoint EXCEPT ![t][k].status = "blocked"]
<1>1. DEFINE class == Classify(run, t, c, s)
             event == IF run.task[t].status \in Busy THEN class ELSE "block"
             k == run.task[t].active
             y == BlockedTask(run.task[t], event, class, s)
             files == IF k = 0 THEN checkpoint
                      ELSE [checkpoint EXCEPT
                              ![t][k].status = CheckpointEdge(class).to]
<1>2. class \in FailureClassification BY ClassifyType
<1>3. run.task[t] \in TaskRecord BY DEF TypeOK, RunRecord
<1>4. /\ t \in Members(run) /\ CanTask(run.task[t].status, event)
      /\ CanRun(run.status, "block")
      /\ k # 0 => CanCheckpoint(checkpoint[t][k].status, class)
      /\ Persist(result, files, {files},
           Intervened(run, t, y, RunEdge("block").to))
  BY DEF BlockTask
<1>5. TaskEdge(event).to = "blocked" /\ CheckpointEdge(class).to = "blocked"
  BY <1>2, TaskEdges, FailureEdges
<1>6. run.task[t].status \in {"pending", "ready", "running", "verifying"}
  <2>1. CASE run.task[t].status \in Busy BY <2>1 DEF Busy
  <2>2. CASE run.task[t].status \notin Busy
    <3>1. TaskEdge("block").from = {"pending", "ready", "running", "verifying"}
      BY Zenon DEF TaskEdge, FailureClassification
    <3> QED BY <1>4, <2>2, <3>1 DEF CanTask
  <2> QED BY <2>1, <2>2
<1>7. run.status = "active"
  <2>1. RunEdge("block").from = {"active"} BY Zenon DEF RunEdge
  <2> QED BY <1>4, <2>1 DEF CanRun
<1>8. event \in FailureClassification \cup {"block"} BY <1>2
<1> HIDE DEF class, event
<1>9. /\ y \in TaskRecord
      /\ \E x, z : y = [run.task[t] EXCEPT !.status = "blocked",
                                           !.blocker = x, !.signatures = z]
      /\ y.status = "blocked"
  <2>1. y \in TaskRecord BY <1>2, <1>3, <1>8, BlockedTaskType
  <2>2. y = [run.task[t] EXCEPT !.status = "blocked", !.blocker = class,
                                !.signatures = @ \cup ({s} \ {"none"})]
    BY <1>5 DEF BlockedTask
  <2>3. y.status = "blocked" BY <1>3, <2>2, Zenon DEF TaskRecord
  <2> QED BY <2>1, <2>2, <2>3, Zenon
<1> HIDE DEF y
<1>10. run' = run \/ IntervenedOn(t, y, "blocked")
  <2>1. run' = run \/ run' = Intervened(run, t, y, RunEdge("block").to)
    BY <1>4, PersistRun
  <2> QED BY <1>9, <2>1, IntervenedEffect, RunEdges
<1>11. result' = result /\ checkpoint' = files BY <1>4 DEF Persist
<1>12. \/ k = 0 /\ checkpoint' = checkpoint
       \/ /\ k \in Attempt /\ CheckpointIsOpen(checkpoint[t][k].status)
          /\ checkpoint' = [checkpoint EXCEPT ![t][k].status = "blocked"]
  <2>1. CASE k = 0 BY <1>11, <2>1
  <2>2. CASE k # 0
    <3>1. k \in Attempt BY <1>3, <2>2, BoundAssumption DEF TaskRecord, Attempt
    <3>2. CheckpointEdge(class).from = {"running", "result-recorded"}
      BY <1>2, Zenon DEF CheckpointEdge, FailureClassification
    <3> QED BY <1>4, <1>5, <1>11, <2>2, <3>1, <3>2
        DEF CanCheckpoint, CheckpointIsOpen
  <2> QED BY <2>1, <2>2
<1> HIDE DEF k
<1> QED BY <1>4, <1>6, <1>7, <1>9, <1>10, <1>11, <1>12, Zenon DEF k

ReopensFrom == {"ready", "blocked", "failed", "timed-out"}

(* Retry, reassign and waive make a task ready again.                      *)
LEMMA ReopenEffect ==
  ASSUME TypeOK, NEW t \in Task,
         \/ RetryTask(t)
         \/ \E w \in Worker : ReassignTask(t, w)
         \/ \E given : WaiveTask(t, given)
  PROVE  \E y \in TaskRecord, s \in RunStatus :
           /\ \E w : y = [Unblocked(run.task[t]) EXCEPT !.worker = w]
           /\ run.task[t].status \in ReopensFrom /\ t \in Members(run)
           /\ IntervenedOn(t, y, s)
           /\ s = run.status \/ s = "active"
           /\ s = "active" \/ run.status # "blocked"
           /\ s = run.status \/ run.status \in {"blocked", "interrupted", "timed-out"}
           /\ UNCHANGED <<checkpoint, result>>
<1>1. DEFINE x == run.task[t]
             u == Unblocked(x)
<1>2. /\ TaskEdge("retry").from = {"blocked", "failed", "timed-out"}
      /\ TaskEdge("reassign").from = {"ready", "blocked"}
      /\ TaskEdge("waive").from = {"blocked"}
  BY Zenon DEF TaskEdge, FailureClassification
<1>3. /\ RunEdge("retry").from = {"interrupted", "blocked", "timed-out"}
      /\ RunEdge("waive").from = {"blocked"}
  BY Zenon DEF RunEdge
<1>4. x \in TaskRecord /\ u \in TaskRecord
  BY UnblockedType DEF TypeOK, RunRecord
<1>5. u = [u EXCEPT !.worker = u.worker] BY <1>4, Zenon DEF TaskRecord
<1>6. run.status \in RunStatus /\ "active" \in RunStatus
  BY DEF TypeOK, RunRecord, RunStatus
<1>7. /\ x.status \in ReopensFrom /\ t \in Members(run)
      /\ UNCHANGED <<checkpoint, result>>
  BY <1>2 DEF RetryTask, ReassignTask, WaiveTask, CanTask, ReopensFrom, WriteRun
<1> HIDE DEF u
<1>8. ASSUME RetryTask(t) \/ \E given : WaiveTask(t, given)
      PROVE  /\ IntervenedOn(t, u, "active")
             /\ run.status \in {"blocked", "interrupted", "timed-out"}
  <2>1. run' = Intervened(run, t, u, "active")
    BY <1>8, RunEdges DEF RetryTask, WaiveTask, WriteRun, u
  <2>2. run.status \in {"blocked", "interrupted", "timed-out"}
    BY <1>3, <1>8 DEF RetryTask, WaiveTask, CanRun
  <2> QED BY <1>4, <2>1, <2>2, IntervenedEffect
<1>9. ASSUME NEW w \in Worker, ReassignTask(t, w)
      PROVE  /\ [u EXCEPT !.worker = w] \in TaskRecord
             /\ \/ run.status = "blocked"
                   /\ IntervenedOn(t, [u EXCEPT !.worker = w], "active")
                \/ run.status # "blocked"
                   /\ IntervenedOn(t, [u EXCEPT !.worker = w], run.status)
  <2>1. DEFINE y == [u EXCEPT !.worker = w]
               s == IF run.status = "blocked" THEN "active" ELSE run.status
  <2>2. y \in TaskRecord BY <1>4, Zenon DEF TaskRecord
  <2>3. run' = Intervened(run, t, y, s)
    BY <1>9, RunEdges DEF ReassignTask, WriteRun, u
  <2> HIDE DEF y, s
  <2>4. IntervenedOn(t, y, s) BY <2>2, <2>3, IntervenedEffect
  <2>5. \/ run.status = "blocked" /\ IntervenedOn(t, y, "active")
        \/ run.status # "blocked" /\ IntervenedOn(t, y, run.status)
    BY <2>4 DEF s
  <2> QED BY <2>2, <2>5 DEF y
<1>10. CASE RetryTask(t) \/ \E given : WaiveTask(t, given)
  BY <1>4, <1>5, <1>6, <1>7, <1>8, <1>10 DEF u
<1>11. ASSUME NEW w \in Worker, ReassignTask(t, w)
       PROVE  \E y \in TaskRecord, s \in RunStatus :
           /\ y = [u EXCEPT !.worker = w]
           /\ IntervenedOn(t, y, s)
           /\ s = run.status \/ s = "active"
           /\ s = "active" \/ run.status # "blocked"
           /\ s = run.status \/ run.status = "blocked"
  BY <1>6, <1>9, <1>11
<1> QED BY <1>7, <1>10, <1>11 DEF u

(* A revision: the run as it was, or the revised one. *)
LEMMA RevisionEffect ==
  ASSUME TypeOK, NEW d \in Definition, ApplyRevision(d)
  PROVE  /\ RevisionValid(run, d) /\ UNCHANGED <<checkpoint, result>>
         /\ \/ run' = run
            \/ /\ run'.task = [t \in Task |-> RevisedTask(run, d, t)]
               /\ run'.defn = d /\ run'.revision = run.revision + 1
               /\ run'.resumeStatus = run.resumeStatus
               /\ run'.interruption = run.interruption
               /\ run'.used = run.used /\ run'.hostLimit = run.hostLimit
               /\ run'.reviewer = ReviewerGate(d)
               /\ run'.status = RevisedStatus(run, d, AllComplete(run'))
<1>1. DEFINE f == [t \in Task |-> RevisedTask(run, d, t)]
             next == [run EXCEPT !.revision = @ + 1, !.defn = d, !.task = f,
                                 !.ops = d.ops, !.alloc = d.alloc,
                                 !.reviewer = ReviewerGate(d)]
             v == RevisedStatus(run, d, AllComplete(next))
             x == [next EXCEPT !.status = v]
<1>2. /\ RevisionValid(run, d) /\ UNCHANGED <<checkpoint, result>>
      /\ run' = run \/ run' = RevisedRun(run, d)
  BY DEF ApplyRevision
<1>3. RevisedRun(run, d) = x BY DEF RevisedRun
<1>4. run \in RunRecord BY DEF TypeOK
<1> HIDE DEF f, v
<1>5. /\ x.task = f /\ x.defn = d /\ x.revision = run.revision + 1
      /\ x.resumeStatus = run.resumeStatus
      /\ x.interruption = run.interruption /\ x.used = run.used
      /\ x.hostLimit = run.hostLimit /\ x.reviewer = ReviewerGate(d)
      /\ x.status = v /\ next.task = f /\ next.defn = d
  BY <1>4, Zenon DEF RunRecord
<1> HIDE DEF next, x
<1>6. AllComplete(x) <=> AllComplete(next)
  BY <1>5 DEF AllComplete, Members
<1>7. v = RevisedStatus(run, d, AllComplete(x))
  BY <1>6 DEF v, RevisedStatus
<1> QED BY <1>2, <1>3, <1>5, <1>7 DEF f

-----------------------------------------------------------------------------
(* One task in a step: x is its record, c and r the rows of its checkpoint *)
(* and result files; x2, c2 and r2 are the same after the step.  When a    *)
(* command is killed x2 is x.                                              *)

NothingMoves(x, c, r, x2, c2, r2) == x2 = x /\ c2 = c /\ r2 = r

BecomesReady(x, c, r, x2, c2, r2) ==
  /\ x.status = "pending" /\ c2 = c /\ r2 = r
  /\ x2 = [x EXCEPT !.status = "ready"]

AttemptStarts(x, c, r, x2, c2, r2) ==
  /\ x.status = "ready" /\ x.attempts + 1 \in Attempt /\ r2 = r
  /\ \E k \in CheckpointRecord :
       k.status = "running" /\ c2 = [c EXCEPT ![x.attempts + 1] = k]
  /\ x2 = x \/ \E w : x2 = StartedTask(x, w)

AttemptSucceeds(x, c, r, x2, c2, r2) ==
  /\ x.status = "running" /\ x.attempts \in Attempt
  /\ x.active = x.attempts /\ c[x.attempts].status = "running"
  /\ r2 = [r EXCEPT ![x.attempts] = "succeeded"]
  /\ \/ x2 = x /\ c2 \in {c, [c EXCEPT ![x.attempts].status = "verified"]}
     \/ /\ c2 = [c EXCEPT ![x.attempts].status = "verified"]
        /\ x2 = SucceededTask(x, c[x.attempts].reviewer # "not-required")

AttemptFails(x, c, r, x2, c2, r2) ==
  /\ x.status = "running" /\ x.attempts \in Attempt
  /\ x.active = x.attempts /\ c[x.attempts].status = "running"
  /\ r2 = [r EXCEPT ![x.attempts] = "failed"]
  /\ c2 \in {c, [c EXCEPT ![x.attempts].status = "blocked"]}
  /\ x2 = x \/ \E class \in FailureClassification : \E s : x2 = FailedTask(x, class, s)

AttemptReviewed(x, c, r, x2, c2, r2) ==
  /\ x.status = "review-pending" /\ x.active \in Attempt /\ r2 = r
  /\ c[x.active].status = "verified" /\ c[x.active].reviewer = "pending"
  /\ \/ /\ c2 = [c EXCEPT ![x.active].reviewer = "passed"]
        /\ x2 = x \/ x2 = ReviewedTask(x)
     \/ /\ c2 = [c EXCEPT ![x.active].status = "blocked",
                          ![x.active].reviewer = "blocked"]
        /\ x2 = x \/ \E f : x2 = RejectedTask(x, f)

FinallyRejected(x, c, r, x2, c2, r2) ==
  /\ x.status \in {"review-pending", "completed"} /\ c2 = c /\ r2 = r
  /\ \E f : x2 = RejectedTask(x, f)

RunCloses(x, c, r, x2, c2, r2) ==
  /\ r2 = r
  /\ \E e \in LifecycleEvent :
       c2 \in {c, ClosedRow(x, c, e)} /\ x2 \in {x, ClosedTask(x, e)}

OperatorBlocks(x, c, r, x2, c2, r2) ==
  /\ x.status \in {"pending", "ready", "running", "verifying"} /\ r2 = r
  /\ \/ x.active = 0 /\ c2 = c
     \/ /\ x.active \in Attempt /\ CheckpointIsOpen(c[x.active].status)
        /\ c2 = [c EXCEPT ![x.active].status = "blocked"]
  /\ \/ x2 = x
     \/ \E b, z : x2 = [x EXCEPT !.status = "blocked", !.blocker = b,
                                 !.signatures = z]

OperatorReopens(x, c, r, x2, c2, r2) ==
  /\ x.status \in ReopensFrom /\ c2 = c /\ r2 = r
  /\ \E w : x2 = [Unblocked(x) EXCEPT !.worker = w]

Moves(x, c, r, x2, c2, r2) ==
  \/ NothingMoves(x, c, r, x2, c2, r2)
  \/ BecomesReady(x, c, r, x2, c2, r2)
  \/ AttemptStarts(x, c, r, x2, c2, r2)
  \/ AttemptSucceeds(x, c, r, x2, c2, r2)
  \/ AttemptFails(x, c, r, x2, c2, r2)
  \/ AttemptReviewed(x, c, r, x2, c2, r2)
  \/ FinallyRejected(x, c, r, x2, c2, r2)
  \/ RunCloses(x, c, r, x2, c2, r2)
  \/ OperatorBlocks(x, c, r, x2, c2, r2)
  \/ OperatorReopens(x, c, r, x2, c2, r2)

TaskMoves(t) ==
  Moves(run.task[t], checkpoint[t], result[t],
        run'.task[t], checkpoint'[t], result'[t])

(* A task that a revision does not keep starts over, or with the attempts  *)
(* it already had.                                                         *)
StartsOver(x, y, s) ==
  \/ y = InitialTask(s)
  \/ y = [InitialTask(s) EXCEPT !.attempts = x.attempts,
                                !.signatures = x.signatures,
                                !.worker = x.worker]

SamePlan == run'.defn = run.defn /\ run'.revision = run.revision
Revises(d) == ApplyRevision(d) /\ run'.revision = run.revision + 1

(* A step that writes the files of one task leaves those of the others.    *)
LEMMA OtherRows ==
  ASSUME TypeOK, NEW t \in Task, NEW v \in Task \ {t}, NEW n \in Attempt
  PROVE  /\ \A k : [checkpoint EXCEPT ![t][n] = k][v] = checkpoint[v]
         /\ \A k : [checkpoint EXCEPT ![t][n] = k][t]
                     = [checkpoint[t] EXCEPT ![n] = k]
         /\ \A k : [result EXCEPT ![t][n] = k][v] = result[v]
         /\ \A k : [result EXCEPT ![t][n] = k][t] = [result[t] EXCEPT ![n] = k]
BY DEF TypeOK

(* Other tasks than the one a command is about keep their files, and at    *)
(* most become ready.                                                      *)
LEMMA OthersMove ==
  ASSUME TypeOK, NEW v \in Task, Promoted(run.task[v], run'.task[v]),
         checkpoint'[v] = checkpoint[v], result'[v] = result[v]
  PROVE  TaskMoves(v)
BY DEF Promoted, TaskMoves, Moves, NothingMoves, BecomesReady

LEMMA StillMoves ==
  ASSUME TypeOK, NEW v \in Task, run'.task = run.task,
         UNCHANGED <<checkpoint, result>>
  PROVE  TaskMoves(v)
BY OthersMove DEF Promoted

LEMMA StartMoves ==
  ASSUME TypeOK, NEW t \in Task, NEW w \in Worker \cup {"none"},
         StartTask(t, w), NEW v \in Task
  PROVE  TaskMoves(v)
<1>1. DEFINE n == run.task[t].attempts + 1
             k == StartedCheckpoint(run, t)
             x == run.task[t]
<1>2. n \in Attempt /\ k \in CheckpointRecord
  BY StartTypes DEF StartTask
<1>3. result' = result /\ checkpoint' = [checkpoint EXCEPT ![t][n] = k]
  BY DEF StartTask, Persist
<1>4. \/ run'.task = run.task
      \/ run'.task = [run.task EXCEPT ![t] = StartedTask(x, w)]
  BY StartEffect DEF Wrote
<1>5. CASE v # t
  <2>1. run'.task[v] = run.task[v] BY <1>4, <1>5 DEF TypeOK, RunRecord
  <2>2. checkpoint'[v] = checkpoint[v] BY <1>2, <1>3, <1>5, OtherRows
  <2> QED BY <1>3, <2>1, <2>2, OthersMove DEF Promoted
<1>6. CASE v = t
  <2>1. run'.task[t] = x \/ run'.task[t] = StartedTask(x, w)
    BY <1>4 DEF TypeOK, RunRecord
  <2>2. checkpoint'[t] = [checkpoint[t] EXCEPT ![n] = k]
    BY <1>2, <1>3 DEF TypeOK
  <2>3. k.status = "running" BY DEF StartedCheckpoint
  <2>4. x.status = "ready"
    BY DEF StartTask, StartRequested, ReadyTasks, Startable
  <2> HIDE DEF k
  <2>5. AttemptStarts(x, checkpoint[t], result[t],
                      run'.task[t], checkpoint'[t], result'[t])
    BY <1>2, <1>3, <2>1, <2>2, <2>3, <2>4 DEF AttemptStarts
  <2> QED BY <1>6, <2>5 DEF TaskMoves, Moves
<1> QED BY <1>5, <1>6

(* An accepted result is about an attempt that runs. *)
LEMMA AcceptedAttempt ==
  ASSUME TypeOK, NEW t \in Task, AcceptsResult(run, t)
  PROVE  /\ run.task[t].status = "running"
         /\ run.task[t].attempts \in Attempt
         /\ run.task[t].active = run.task[t].attempts
         /\ checkpoint[t][run.task[t].attempts].status = "running"
BY AcceptsResultType DEF AcceptsResult, ActiveCheckpointReadable

LEMMA SuccessMoves ==
  ASSUME TypeOK, NEW t \in Task, NEW u \in Nat, RecordSuccess(t, u),
         NEW v \in Task
  PROVE  TaskMoves(v)
<1>1. DEFINE x == run.task[t]
             n == x.attempts
             y == SucceededTask(x, ReviewRequired(run, t))
             files == [checkpoint EXCEPT ![t][n].status = "verified"]
             newResult == WriteResult(t, n, "succeeded")
             next == SucceededRun(run, t, u)
<1>2. AcceptsResult(run, t) BY DEF RecordSuccess
<1>3. /\ x.status = "running" /\ n \in Attempt /\ x.active = n
      /\ checkpoint[t][n].status = "running"
  BY <1>2, AcceptedAttempt
<1>4. /\ next.task[t] = y
      /\ \A z \in Task \ {t} : Promoted(run.task[z], next.task[z])
  BY SuccessEffect, Zenon
<1>5. run' = run \/ run'.task = next.task
  BY SuccessEffect, Zenon DEF Wrote
<1>6. /\ result' = newResult /\ checkpoint' \in {checkpoint, files}
      /\ run' = run \/ checkpoint' = files
  BY DEF RecordSuccess, Persist, ThrowAfter
<1>7. /\ files[t] = [checkpoint[t] EXCEPT ![n].status = "verified"]
      /\ newResult[t] = [result[t] EXCEPT ![n] = "succeeded"]
      /\ \A z \in Task \ {t} :
           files[z] = checkpoint[z] /\ newResult[z] = result[z]
  BY <1>3 DEF TypeOK, WriteResult
<1> HIDE DEF files, newResult, next, y
<1>8. CASE v # t
  <2>1. Promoted(run.task[v], run'.task[v]) BY <1>4, <1>5, <1>8 DEF Promoted
  <2>2. checkpoint'[v] = checkpoint[v] /\ result'[v] = result[v]
    BY <1>6, <1>7, <1>8
  <2> QED BY <2>1, <2>2, OthersMove
<1>9. CASE v = t
  <2>1. result'[t] = [result[t] EXCEPT ![n] = "succeeded"] BY <1>6, <1>7
  <2>2. \/ run'.task[t] = x /\ checkpoint'[t] \in {checkpoint[t], files[t]}
        \/ run'.task[t] = y /\ checkpoint'[t] = files[t]
    BY <1>4, <1>5, <1>6
  <2>3. AttemptSucceeds(x, checkpoint[t], result[t],
                        run'.task[t], checkpoint'[t], result'[t])
    BY <1>3, <1>7, <2>1, <2>2, Zenon DEF AttemptSucceeds, ReviewRequired, y
  <2> QED BY <1>9, <2>3 DEF TaskMoves, Moves
<1> QED BY <1>8, <1>9

LEMMA FailureMoves ==
  ASSUME TypeOK, NEW t \in Task, NEW u \in Nat,
         NEW c \in FailureClassification, NEW s \in Signature,
         RecordFailure(t, u, c, s), NEW v \in Task
  PROVE  TaskMoves(v)
<1>1. DEFINE x == run.task[t]
             n == x.attempts
             class == Classify(run, t, c, s)
             y == FailedTask(x, class, s)
             files == [checkpoint EXCEPT ![t][n].status = CheckpointEdge(class).to]
             newResult == WriteResult(t, n, "failed")
<1>2. AcceptsResult(run, t) BY DEF RecordFailure
<1>3. /\ x.status = "running" /\ n \in Attempt /\ x.active = n
      /\ checkpoint[t][n].status = "running"
  BY <1>2, AcceptedAttempt
<1>4. class \in FailureClassification BY ClassifyType
<1>5. run' = run \/ run'.task = [run.task EXCEPT ![t] = y]
  BY FailureEffect, Zenon DEF Wrote
<1>6. result' = newResult /\ checkpoint' \in {checkpoint, files}
  BY DEF RecordFailure, Persist, ThrowAfter
<1>7. CheckpointEdge(class).to = "blocked" BY <1>4, FailureEdges
<1>8. /\ files[t] = [checkpoint[t] EXCEPT ![n].status = "blocked"]
      /\ newResult[t] = [result[t] EXCEPT ![n] = "failed"]
      /\ \A z \in Task \ {t} :
           files[z] = checkpoint[z] /\ newResult[z] = result[z]
  BY <1>3, <1>7 DEF TypeOK, WriteResult
<1> HIDE DEF files, newResult, class
<1>9. CASE v # t
  <2>1. run'.task[v] = run.task[v] BY <1>5, <1>9 DEF TypeOK, RunRecord
  <2>2. checkpoint'[v] = checkpoint[v] /\ result'[v] = result[v]
    BY <1>6, <1>8, <1>9
  <2> QED BY <2>1, <2>2, OthersMove DEF Promoted
<1>10. CASE v = t
  <2>1. run'.task[t] = x \/ run'.task[t] = y BY <1>5 DEF TypeOK, RunRecord
  <2>2. /\ result'[t] = [result[t] EXCEPT ![n] = "failed"]
        /\ checkpoint'[t] \in {checkpoint[t], files[t]}
    BY <1>6, <1>8
  <2>3. AttemptFails(x, checkpoint[t], result[t],
                     run'.task[t], checkpoint'[t], result'[t])
    BY <1>3, <1>4, <1>8, <2>1, <2>2, Zenon DEF AttemptFails
  <2> QED BY <1>10, <2>3 DEF TaskMoves, Moves
<1> QED BY <1>9, <1>10

LEMMA CheckpointReviewMoves ==
  ASSUME TypeOK, NEW t \in Task, NEW u \in Nat, NEW late,
         \/ PassCheckpointReview(t, u, late)
         \/ \E f : BlockCheckpointReview(t, u, late, f),
         NEW v \in Task
  PROVE  TaskMoves(v)
<1>1. DEFINE x == run.task[t]
             n == x.active
             c == checkpoint[t]
<1>2. AwaitsCheckpointReview(run, t)
  BY DEF PassCheckpointReview, BlockCheckpointReview
<1>3. n \in Attempt BY <1>2, AwaitsReviewType
<1>4. /\ x.status = "review-pending"
      /\ c[n].status = "verified" /\ c[n].reviewer = "pending"
  BY <1>2 DEF AwaitsCheckpointReview
<1>5. CheckpointEdge("reviewer-block").to = "blocked" BY TaskEdges
<1>6. CASE PassCheckpointReview(t, u, late)
  <2>1. DEFINE next == ReviewedRun(run, t, u)
               files == [checkpoint EXCEPT ![t][n].reviewer = "passed"]
  <2>2. /\ next.task[t] = ReviewedTask(x)
        /\ \A z \in Task \ {t} : Promoted(run.task[z], next.task[z])
        /\ run' = run \/ run'.task = next.task
    BY <1>6, PassCheckpointEffect, Zenon DEF Wrote
  <2>3. result' = result /\ checkpoint' = files
    BY <1>6 DEF PassCheckpointReview, Persist
  <2>4. /\ files[t] = [c EXCEPT ![n].reviewer = "passed"]
        /\ \A z \in Task \ {t} : files[z] = checkpoint[z]
    BY <1>3 DEF TypeOK
  <2> HIDE DEF files, next
  <2>5. CASE v # t
    <3>1. Promoted(run.task[v], run'.task[v]) BY <2>2, <2>5 DEF Promoted
    <3> QED BY <2>3, <2>4, <2>5, <3>1, OthersMove
  <2>6. CASE v = t
    <3>1. run'.task[t] = x \/ run'.task[t] = ReviewedTask(x) BY <2>2
    <3>2. AttemptReviewed(x, c, result[t],
                          run'.task[t], checkpoint'[t], result'[t])
      BY <1>3, <1>4, <2>3, <2>4, <3>1, Zenon DEF AttemptReviewed
    <3> QED BY <2>6, <3>2 DEF TaskMoves, Moves
  <2> QED BY <2>5, <2>6
<1>7. ASSUME NEW f, BlockCheckpointReview(t, u, late, f)
      PROVE  TaskMoves(v)
  <2>1. DEFINE files == [checkpoint EXCEPT
                  ![t][n].status = CheckpointEdge("reviewer-block").to,
                  ![t][n].reviewer = "blocked"]
  <2>2. \/ run' = run
        \/ run'.task = [run.task EXCEPT ![t] = RejectedTask(x, f)]
    BY <1>7, BlockCheckpointEffect, Zenon DEF Wrote
  <2>3. result' = result /\ checkpoint' = files
    BY <1>7 DEF BlockCheckpointReview, Persist
  <2>4. /\ files[t] = [c EXCEPT ![n].status = "blocked",
                                ![n].reviewer = "blocked"]
        /\ \A z \in Task \ {t} : files[z] = checkpoint[z]
    BY <1>3, <1>5 DEF TypeOK
  <2> HIDE DEF files
  <2>5. CASE v # t
    <3>1. run'.task[v] = run.task[v] BY <2>2, <2>5 DEF TypeOK, RunRecord
    <3> QED BY <2>3, <2>4, <2>5, <3>1, OthersMove DEF Promoted
  <2>6. CASE v = t
    <3>1. run'.task[t] = x \/ run'.task[t] = RejectedTask(x, f)
      BY <2>2 DEF TypeOK, RunRecord
    <3>2. AttemptReviewed(x, c, result[t],
                          run'.task[t], checkpoint'[t], result'[t])
      BY <1>3, <1>4, <2>3, <2>4, <3>1, Zenon DEF AttemptReviewed
    <3> QED BY <2>6, <3>2 DEF TaskMoves, Moves
  <2> QED BY <2>5, <2>6
<1> QED BY <1>6, <1>7

LEMMA BlockFinalMoves ==
  ASSUME TypeOK, NEW u \in Nat, NEW late, NEW class \in Findings,
         BlockFinalReview(u, late, class), NEW v \in Task
  PROVE  TaskMoves(v)
<1>1. /\ run'.task[v] = IF v \in DOMAIN class
                        THEN RejectedTask(run.task[v], class[v])
                        ELSE run.task[v]
      /\ v \in DOMAIN class =>
           run.task[v].status \in {"review-pending", "completed"}
      /\ UNCHANGED <<checkpoint, result>>
  <2>1. DEFINE f == [t \in Task |-> IF t \in DOMAIN class
                                    THEN RejectedTask(run.task[t], class[t])
                                    ELSE run.task[t]]
  <2>2. f[v] = IF v \in DOMAIN class
               THEN RejectedTask(run.task[v], class[v]) ELSE run.task[v]
    OBVIOUS
  <2>3. /\ run'.task = f
        /\ \A t \in DOMAIN class :
             run.task[t].status \in {"review-pending", "completed"}
        /\ UNCHANGED <<checkpoint, result>>
    BY BlockFinalEffect, Zenon
  <2> HIDE DEF f
  <2> QED BY <2>2, <2>3
<1>2. CASE v \notin DOMAIN class
  BY <1>1, <1>2, OthersMove DEF Promoted
<1>3. CASE v \in DOMAIN class
  <2>1. FinallyRejected(run.task[v], checkpoint[v], result[v],
                        run'.task[v], checkpoint'[v], result'[v])
    BY <1>1, <1>3, Zenon DEF FinallyRejected
  <2> QED BY <2>1 DEF TaskMoves, Moves
<1> QED BY <1>2, <1>3

LEMMA LifecycleMoves ==
  ASSUME TypeOK, NEW e \in LifecycleEvent, Lifecycle(e), NEW v \in Task
  PROVE  TaskMoves(v)
<1>1. DEFINE f == [t \in Task |-> IF t \in Members(run)
                                  THEN ClosedTask(run.task[t], e)
                                  ELSE run.task[t]]
<1>2. /\ result' = result
      /\ checkpoint'[v] \in
           {checkpoint[v], ClosedRow(run.task[v], checkpoint[v], e)}
      /\ run' = run \/ run'.task = f
  BY LifecycleEffect, Zenon DEF Wrote
<1>3. f[v] \in {run.task[v], ClosedTask(run.task[v], e)} OBVIOUS
<1> HIDE DEF f
<1>4. run'.task[v] \in {run.task[v], ClosedTask(run.task[v], e)}
  BY <1>2, <1>3
<1>5. RunCloses(run.task[v], checkpoint[v], result[v],
                run'.task[v], checkpoint'[v], result'[v])
  BY <1>2, <1>4, Zenon DEF RunCloses
<1> QED BY <1>5 DEF TaskMoves, Moves

LEMMA TaskInterventionMoves ==
  ASSUME TypeOK, TaskIntervention, NEW v \in Task
  PROVE  TaskMoves(v)
<1>1. PICK t \in Task :
        \/ \E c \in FailureClassification, s \in Signature \cup {"none"} :
             BlockTask(t, c, s)
        \/ RetryTask(t)
        \/ \E w \in Worker : ReassignTask(t, w)
        \/ \E given : WaiveTask(t, given)
  BY InputAssumption DEF TaskIntervention
<1>2. DEFINE x == run.task[t]
             k == x.active
<1>3. ASSUME NEW c \in FailureClassification,
             NEW s \in Signature \cup {"none"}, BlockTask(t, c, s)
      PROVE  TaskMoves(v)
  <2>1. PICK y \in TaskRecord :
           /\ \E b, z : y = [x EXCEPT !.status = "blocked", !.blocker = b,
                                      !.signatures = z]
           /\ x.status \in {"pending", "ready", "running", "verifying"}
           /\ run' = run \/ IntervenedOn(t, y, "blocked")
           /\ result' = result
           /\ \/ k = 0 /\ checkpoint' = checkpoint
              \/ /\ k \in Attempt /\ CheckpointIsOpen(checkpoint[t][k].status)
                 /\ checkpoint' = [checkpoint EXCEPT ![t][k].status = "blocked"]
    BY <1>3, BlockTaskEffect, Zenon
  <2>2. run' = run \/ run'.task = [run.task EXCEPT ![t] = y]
    BY <2>1 DEF IntervenedOn
  <2>3. CASE v # t
    <3>1. run'.task[v] = run.task[v] BY <2>2, <2>3 DEF TypeOK, RunRecord
    <3>2. checkpoint'[v] = checkpoint[v] BY <2>1, <2>3 DEF TypeOK
    <3> QED BY <2>1, <3>1, <3>2, OthersMove DEF Promoted
  <2>4. CASE v = t
    <3>1. run'.task[t] = x \/ run'.task[t] = y
      BY <2>2 DEF TypeOK, RunRecord
    <3>2. \/ k = 0 /\ checkpoint'[t] = checkpoint[t]
          \/ /\ k \in Attempt /\ CheckpointIsOpen(checkpoint[t][k].status)
             /\ checkpoint'[t] = [checkpoint[t] EXCEPT ![k].status = "blocked"]
      BY <2>1 DEF TypeOK
    <3>3. result'[t] = result[t] BY <2>1
    <3>4. PICK b, z : y = [x EXCEPT !.status = "blocked", !.blocker = b,
                                    !.signatures = z]
      BY <2>1, Zenon
    <3>5. \/ run'.task[t] = x
          \/ \E b2, z2 : run'.task[t] = [x EXCEPT !.status = "blocked",
                                            !.blocker = b2, !.signatures = z2]
      BY <3>1, <3>4, Zenon
    <3>6. OperatorBlocks(x, checkpoint[t], result[t],
                         run'.task[t], checkpoint'[t], result'[t])
      BY <2>1, <3>2, <3>3, <3>5, Zenon DEF OperatorBlocks
    <3> QED BY <2>4, <3>6 DEF TaskMoves, Moves
  <2> QED BY <2>3, <2>4
<1>4. ASSUME \/ RetryTask(t)
             \/ \E w \in Worker : ReassignTask(t, w)
             \/ \E given : WaiveTask(t, given)
      PROVE  TaskMoves(v)
  <2>1. PICK y \in TaskRecord, s \in RunStatus :
           /\ \E w : y = [Unblocked(x) EXCEPT !.worker = w]
           /\ x.status \in ReopensFrom /\ IntervenedOn(t, y, s)
           /\ UNCHANGED <<checkpoint, result>>
    BY <1>4, ReopenEffect, Zenon
  <2>2. run'.task = [run.task EXCEPT ![t] = y] BY <2>1 DEF IntervenedOn
  <2>3. CASE v # t
    <3>1. run'.task[v] = run.task[v] BY <2>2, <2>3 DEF TypeOK, RunRecord
    <3> QED BY <2>1, <3>1, OthersMove DEF Promoted
  <2>4. CASE v = t
    <3>1. run'.task[t] = y BY <2>2 DEF TypeOK, RunRecord
    <3>2. OperatorReopens(x, checkpoint[t], result[t],
                          run'.task[t], checkpoint'[t], result'[t])
      BY <2>1, <3>1, Zenon DEF OperatorReopens
    <3> QED BY <2>4, <3>2 DEF TaskMoves, Moves
  <2> QED BY <2>3, <2>4
<1> QED BY <1>1, <1>3, <1>4

(* A revision keeps the files, and of each task what it has or nothing.    *)
LEMMA RevisionStep ==
  ASSUME TypeOK, NEW d \in Definition, ApplyRevision(d)
  PROVE  \/ SamePlan /\ \A v \in Task : TaskMoves(v)
         \/ /\ Revises(d) /\ UNCHANGED <<checkpoint, result>>
            /\ run'.task = [t \in Task |-> RevisedTask(run, d, t)]
            /\ run'.defn = d
            /\ \A v \in Task :
                 \/ run'.task[v] = run.task[v]
                 \/ \E s \in {"absent", "ready", "pending"} :
                      StartsOver(run.task[v], run'.task[v], s)
<1>1. UNCHANGED <<checkpoint, result>> BY RevisionEffect
<1>2. \/ run' = run
      \/ /\ run'.task = [t \in Task |-> RevisedTask(run, d, t)]
         /\ run'.defn = d /\ run'.revision = run.revision + 1
  BY RevisionEffect
<1>3. CASE run' = run BY <1>1, <1>3, StillMoves DEF SamePlan
<1>4. CASE /\ run'.task = [t \in Task |-> RevisedTask(run, d, t)]
           /\ run'.defn = d /\ run'.revision = run.revision + 1
  <2>1. ASSUME NEW v \in Task
        PROVE  \/ run'.task[v] = run.task[v]
               \/ \E s \in {"absent", "ready", "pending"} :
                    StartsOver(run.task[v], run'.task[v], s)
    <3>1. run'.task[v] = RevisedTask(run, d, v) BY <1>4
    <3> QED BY <3>1, Zenon DEF RevisedTask, StartsOver
  <2> QED BY <1>1, <1>4, <2>1 DEF Revises
<1> QED BY <1>2, <1>3, <1>4

(* What a step may do to a task. *)
LEMMA StepMoves ==
  ASSUME TypeOK, [Next]_vars, ~ \E d \in Definition : Revises(d),
         NEW v \in Task
  PROVE  TaskMoves(v)
<1>1. CASE Elapse \/ UNCHANGED vars
  BY <1>1, StillMoves DEF Elapse, vars
<1>2. ASSUME NEW e \in BudgetPauseEvent \cup {"pause-host-limit"},
             PauseForBudget(e)
      PROVE  TaskMoves(v)
  BY <1>2, RefusalEffect, StillMoves DEF PauseWritten, SameTasks
<1>3. CASE TaskCommand
  <2>1. ASSUME NEW t \in Task, NEW w \in Worker \cup {"none"}, RefuseStart(t, w)
        PROVE  TaskMoves(v)
    BY <1>2, <2>1, DecisionType DEF RefuseStart
  <2>2. ASSUME NEW t \in Task, NEW u, RefuseResult(t, u)
        PROVE  TaskMoves(v)
    BY <1>2, <2>2 DEF RefuseResult, BudgetPauseEvent
  <2> QED
    BY <1>3, <2>1, <2>2, StartMoves, SuccessMoves, FailureMoves,
      InputAssumption DEF TaskCommand
<1>4. CASE ReviewCommand
  <2>1. PICK u \in ReviewUsage, late \in BOOLEAN :
          \/ RefuseReview(u, late)
          \/ PassFinalReview(u, late)
          \/ \E class \in Findings : BlockFinalReview(u, late, class)
          \/ \E t \in Task :
               \/ PassCheckpointReview(t, u, late)
               \/ \E f : BlockCheckpointReview(t, u, late, f)
    BY <1>4, Zenon DEF ReviewCommand, RefuseFinalReview, RefuseCheckpointReview
  <2>2. u \in Nat BY InputAssumption
  <2>3. CASE RefuseReview(u, late)
    BY <1>2, <2>3, DecisionType DEF RefuseReview, BudgetPauseEvent
  <2>4. CASE PassFinalReview(u, late)
    BY <2>2, <2>4, PassFinalEffect, StillMoves DEF SameTasks
  <2> QED
    BY <2>1, <2>2, <2>3, <2>4, BlockFinalMoves, CheckpointReviewMoves
<1>5. CASE Finalize BY <1>5, FinalizeEffect, StillMoves DEF Wrote
<1>6. CASE RunIntervention
  <2>1. CASE Interrupt BY <2>1, InterruptEffect, StillMoves DEF SameTasks
  <2>2. CASE Resume BY <2>2, ResumeEffect, StillMoves DEF SameTasks
  <2>3. CASE PauseHostLimit \/ \E e \in BudgetPauseEvent : PauseByOperator(e)
    BY <2>3, OperatorPauseEffect, StillMoves DEF PauseWritten, SameTasks
  <2>4. CASE \E a, n : AddBudget(a, n)
    BY <2>4, AddBudgetEffect, StillMoves DEF SameTasks
  <2>5. CASE \E e \in LifecycleEvent : Lifecycle(e)
    BY <2>5, LifecycleMoves
  <2> QED BY <1>6, <2>1, <2>2, <2>3, <2>4, <2>5, Zenon DEF RunIntervention
<1>7. CASE TaskIntervention BY <1>7, TaskInterventionMoves
<1>8. CASE \E d \in Definition : ApplyRevision(d) BY <1>8, RevisionStep
<1> QED BY <1>1, <1>3, <1>4, <1>5, <1>6, <1>7, <1>8 DEF Next

(* Only a revision changes the definition. *)
LEMMA StepPlan ==
  ASSUME TypeOK, [Next]_vars
  PROVE  SamePlan \/ \E d \in Definition : Revises(d)
<1> USE DEF SamePlan
<1>1. CASE Elapse \/ UNCHANGED vars
  BY <1>1 DEF Elapse, vars
<1>2. ASSUME NEW e \in BudgetPauseEvent \cup {"pause-host-limit"},
             PauseForBudget(e)
      PROVE  SamePlan
  BY <1>2, RefusalEffect DEF PauseWritten, SameTasks
<1>3. CASE TaskCommand
  <2>1. ASSUME NEW t \in Task, NEW w \in Worker \cup {"none"}, RefuseStart(t, w)
        PROVE  SamePlan
    BY <1>2, <2>1, DecisionType DEF RefuseStart
  <2>2. ASSUME NEW t \in Task, NEW u, RefuseResult(t, u)
        PROVE  SamePlan
    BY <1>2, <2>2 DEF RefuseResult, BudgetPauseEvent
  <2>3. ASSUME NEW t \in Task, NEW w \in Worker \cup {"none"}, StartTask(t, w)
        PROVE  SamePlan
    BY <2>3, StartEffect DEF Wrote, Steady
  <2>4. ASSUME NEW t \in Task, NEW u \in TaskUsage, RecordSuccess(t, u)
        PROVE  SamePlan
    BY <2>4, SuccessEffect, InputAssumption, Zenon DEF Wrote, Steady
  <2>5. ASSUME NEW t \in Task, NEW u \in TaskUsage, NEW c \in Observable,
               NEW s \in Signature, RecordFailure(t, u, c, s)
        PROVE  SamePlan
    BY <2>5, FailureEffect, InputAssumption DEF Wrote, Steady
  <2> QED BY <1>3, <2>1, <2>2, <2>3, <2>4, <2>5, Zenon DEF TaskCommand
<1>4. CASE ReviewCommand
  <2>1. PICK u \in ReviewUsage, late \in BOOLEAN :
          \/ RefuseReview(u, late)
          \/ PassFinalReview(u, late)
          \/ \E class \in Findings : BlockFinalReview(u, late, class)
          \/ \E t \in Task :
               \/ PassCheckpointReview(t, u, late)
               \/ \E f : BlockCheckpointReview(t, u, late, f)
    BY <1>4, Zenon DEF ReviewCommand, RefuseFinalReview, RefuseCheckpointReview
  <2>2. u \in Nat BY InputAssumption
  <2>3. CASE RefuseReview(u, late)
    BY <1>2, <2>3, DecisionType DEF RefuseReview, BudgetPauseEvent
  <2>4. CASE PassFinalReview(u, late)
    BY <2>2, <2>4, PassFinalEffect DEF SameTasks
  <2>5. ASSUME NEW class \in Findings, BlockFinalReview(u, late, class)
        PROVE  SamePlan
    BY <2>2, <2>5, BlockFinalEffect, Zenon
  <2>6. ASSUME NEW t \in Task, PassCheckpointReview(t, u, late)
        PROVE  SamePlan
    BY <2>2, <2>6, PassCheckpointEffect, Zenon DEF Wrote, Steady
  <2>7. ASSUME NEW t \in Task, NEW f, BlockCheckpointReview(t, u, late, f)
        PROVE  SamePlan
    BY <2>2, <2>7, BlockCheckpointEffect, Zenon DEF Wrote, Steady
  <2> QED BY <2>1, <2>3, <2>4, <2>5, <2>6, <2>7, Zenon
<1>5. CASE Finalize BY <1>5, FinalizeEffect DEF Wrote, Steady
<1>6. CASE RunIntervention
  <2>1. CASE Interrupt BY <2>1, InterruptEffect DEF SameTasks
  <2>2. CASE Resume BY <2>2, ResumeEffect DEF SameTasks
  <2>3. CASE PauseHostLimit \/ \E e \in BudgetPauseEvent : PauseByOperator(e)
    BY <2>3, OperatorPauseEffect DEF PauseWritten, SameTasks
  <2>4. CASE \E a, n : AddBudget(a, n)
    BY <2>4, AddBudgetEffect DEF SameTasks
  <2>5. CASE \E e \in LifecycleEvent : Lifecycle(e)
    BY <2>5, LifecycleEffect, Zenon DEF Wrote, Steady
  <2> QED BY <1>6, <2>1, <2>2, <2>3, <2>4, <2>5, Zenon DEF RunIntervention
<1>7. CASE TaskIntervention
  <2>1. ASSUME NEW t \in Task, NEW y, NEW s, IntervenedOn(t, y, s)
        PROVE  SamePlan
    BY <2>1 DEF IntervenedOn, Steady
  <2>2. PICK t \in Task :
          \/ \E c \in FailureClassification, s \in Signature \cup {"none"} :
               BlockTask(t, c, s)
          \/ RetryTask(t)
          \/ \E w \in Worker : ReassignTask(t, w)
          \/ \E given : WaiveTask(t, given)
    BY <1>7, InputAssumption DEF TaskIntervention
  <2>3. ASSUME NEW c \in FailureClassification,
               NEW s \in Signature \cup {"none"}, BlockTask(t, c, s)
        PROVE  SamePlan
    <3>1. run' = run \/ \E y : IntervenedOn(t, y, "blocked")
      BY <2>3, BlockTaskEffect, Zenon
    <3> QED BY <2>1, <3>1
  <2>4. ASSUME \/ RetryTask(t)
               \/ \E w \in Worker : ReassignTask(t, w)
               \/ \E given : WaiveTask(t, given)
        PROVE  SamePlan
    <3>1. \E y, s : IntervenedOn(t, y, s) BY <2>4, ReopenEffect, Zenon
    <3> QED BY <2>1, <3>1
  <2> QED BY <2>2, <2>3, <2>4
<1>8. CASE \E d \in Definition : ApplyRevision(d) BY <1>8, RevisionStep
<1> QED BY <1>1, <1>3, <1>4, <1>5, <1>6, <1>7, <1>8 DEF Next
=============================================================================
