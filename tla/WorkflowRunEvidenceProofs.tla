---------------------- MODULE WorkflowRunEvidenceProofs ----------------------
(***************************************************************************)
(* Theorems about the evidence behind a run: what run.json says of a task  *)
(* is what the files of its attempts say, whatever write a command was     *)
(* killed at, and a file that recorded an outcome keeps it.                *)
(*                                                                         *)
(* CompletedVerified speaks of completed tasks only, and says nothing of   *)
(* the attempts on the way there.  TaskEvidence follows an attempt from    *)
(* its start: it is about one task and its own files, so that a step is    *)
(* checked by what it may do to one task (TaskMoves).                      *)
(***************************************************************************)
EXTENDS WorkflowRunSteps

(* x is the record of a task, c and r the rows of its checkpoint and       *)
(* result files.                                                           *)
ActiveIsLast(x, c) ==
  x.active # 0 => x.active = x.attempts /\ c[x.active].status # "absent"

ResultOnDisk(x, r) ==
  /\ x.resultOf <= x.attempts
  /\ x.resultOf # 0 => r[x.resultOf] # "none"

BusyHasNoResult(x) ==
  x.status \in Busy => x.active # 0 /\ x.resultOf < x.active

ReviewOfSuccess(x, r) ==
  x.status = "review-pending" =>
    /\ x.active # 0 /\ x.resultOf = x.active
    /\ x.verification = "passed" /\ r[x.resultOf] = "succeeded"

DoneVerified(x, c, r) ==
  x.status = "completed" =>
    /\ x.active = 0 /\ x.resultOf # 0
    /\ x.verification = "passed" /\ r[x.resultOf] = "succeeded"
    /\ c[x.resultOf].status = "verified"
    /\ c[x.resultOf].reviewer \in {"not-required", "passed"}

TaskEvidence(x, c, r) ==
  /\ ActiveIsLast(x, c)
  /\ ResultOnDisk(x, r)
  /\ BusyHasNoResult(x)
  /\ ReviewOfSuccess(x, r)
  /\ DoneVerified(x, c, r)

Row == [Attempt -> CheckpointRecord]
Results == [Attempt -> {"none", "succeeded", "failed"}]

-----------------------------------------------------------------------------
(* What the helpers do to the fields of a task. *)

LEMMA TaskFields ==
  ASSUME NEW x \in TaskRecord
  PROVE  /\ x.attempts \in 0..MaxAttempts /\ x.active \in 0..MaxAttempts
         /\ x.resultOf \in 0..MaxAttempts
         /\ x.active # 0 => x.active \in Attempt
         /\ x.resultOf # 0 => x.resultOf \in Attempt
BY BoundAssumption DEF TaskRecord, Attempt

(* The row of a task after one of its files is written. *)
LEMMA RowUpdate ==
  ASSUME NEW c \in Row, NEW n \in Attempt
  PROVE  /\ \A s : LET f == [c EXCEPT ![n].status = s]
                   IN  /\ f[n].status = s /\ f[n].reviewer = c[n].reviewer
                       /\ \A m \in Attempt \ {n} : f[m] = c[m]
         /\ \A v : LET f == [c EXCEPT ![n].reviewer = v]
                   IN  /\ f[n].status = c[n].status /\ f[n].reviewer = v
                       /\ \A m \in Attempt \ {n} : f[m] = c[m]
         /\ \A s, v : LET f == [c EXCEPT ![n].status = s, ![n].reviewer = v]
                      IN  /\ f[n].status = s /\ f[n].reviewer = v
                          /\ \A m \in Attempt \ {n} : f[m] = c[m]
<1>1. c[n] \in CheckpointRecord BY DEF Row
<1>2. ASSUME NEW k
      PROVE  LET f == [c EXCEPT ![n] = k]
             IN  f[n] = k /\ \A m \in Attempt \ {n} : f[m] = c[m]
  BY DEF Row
<1>3. ASSUME NEW s, NEW v
      PROVE  /\ [c[n] EXCEPT !.status = s].status = s
             /\ [c[n] EXCEPT !.status = s].reviewer = c[n].reviewer
             /\ [c[n] EXCEPT !.reviewer = v].status = c[n].status
             /\ [c[n] EXCEPT !.reviewer = v].reviewer = v
             /\ [c[n] EXCEPT !.status = s, !.reviewer = v].status = s
             /\ [c[n] EXCEPT !.status = s, !.reviewer = v].reviewer = v
  BY <1>1, Zenon DEF CheckpointRecord
<1>4. ASSUME NEW s
      PROVE  LET f == [c EXCEPT ![n].status = s]
             IN  /\ f[n].status = s /\ f[n].reviewer = c[n].reviewer
                 /\ \A m \in Attempt \ {n} : f[m] = c[m]
  <2>1. DEFINE k == [c[n] EXCEPT !.status = s]
               f == [c EXCEPT ![n].status = s]
  <2>2. f = [c EXCEPT ![n] = k] BY DEF Row
  <2>3. k.status = s /\ k.reviewer = c[n].reviewer BY <1>3
  <2> HIDE DEF k, f
  <2>4. f[n] = k /\ \A m \in Attempt \ {n} : f[m] = c[m] BY <1>2, <2>2
  <2>5. /\ f[n].status = s /\ f[n].reviewer = c[n].reviewer
        /\ \A m \in Attempt \ {n} : f[m] = c[m]
    BY <2>3, <2>4
  <2> QED BY <2>5 DEF f
<1>5. ASSUME NEW v
      PROVE  LET f == [c EXCEPT ![n].reviewer = v]
             IN  /\ f[n].status = c[n].status /\ f[n].reviewer = v
                 /\ \A m \in Attempt \ {n} : f[m] = c[m]
  <2>1. DEFINE k == [c[n] EXCEPT !.reviewer = v]
               f == [c EXCEPT ![n].reviewer = v]
  <2>2. f = [c EXCEPT ![n] = k] BY DEF Row
  <2>3. k.status = c[n].status /\ k.reviewer = v BY <1>3
  <2> HIDE DEF k, f
  <2>4. f[n] = k /\ \A m \in Attempt \ {n} : f[m] = c[m] BY <1>2, <2>2
  <2>5. /\ f[n].status = c[n].status /\ f[n].reviewer = v
        /\ \A m \in Attempt \ {n} : f[m] = c[m]
    BY <2>3, <2>4
  <2> QED BY <2>5 DEF f
<1>6. ASSUME NEW s, NEW v
      PROVE  LET f == [c EXCEPT ![n].status = s, ![n].reviewer = v]
             IN  /\ f[n].status = s /\ f[n].reviewer = v
                 /\ \A m \in Attempt \ {n} : f[m] = c[m]
  <2>1. DEFINE k == [c[n] EXCEPT !.status = s, !.reviewer = v]
               f == [c EXCEPT ![n].status = s, ![n].reviewer = v]
  <2>2. f = [c EXCEPT ![n] = k] BY DEF Row
  <2>3. k.status = s /\ k.reviewer = v BY <1>3
  <2> HIDE DEF k, f
  <2>4. f[n] = k /\ \A m \in Attempt \ {n} : f[m] = c[m] BY <1>2, <2>2
  <2>5. /\ f[n].status = s /\ f[n].reviewer = v
        /\ \A m \in Attempt \ {n} : f[m] = c[m]
    BY <2>3, <2>4
  <2> QED BY <2>5 DEF f
<1> QED BY <1>4, <1>5, <1>6

(* Only the status and fields that no evidence rests on. *)
LEMMA StatusFields ==
  ASSUME NEW x \in TaskRecord
  PROVE  \A s : LET y == [x EXCEPT !.status = s]
                IN  /\ y.status = s /\ y.active = x.active
                    /\ y.attempts = x.attempts /\ y.resultOf = x.resultOf
                    /\ y.verification = x.verification
BY Zenon DEF TaskRecord

LEMMA StartFields ==
  ASSUME NEW x \in TaskRecord, NEW w
  PROVE  LET y == StartedTask(x, w)
         IN  /\ y.status = "running" /\ y.active = x.attempts + 1
             /\ y.attempts = x.attempts + 1 /\ y.resultOf = x.resultOf
<1>1. TaskEdge("start").to = "running" BY TaskEdges
<1> QED BY <1>1, Zenon DEF StartedTask, TaskRecord

LEMMA SuccessFields ==
  ASSUME NEW x \in TaskRecord, NEW b
  PROVE  LET y == SucceededTask(x, b)
         IN  /\ y.status = (IF b THEN "review-pending" ELSE "completed")
             /\ y.active = (IF b THEN x.active ELSE 0)
             /\ y.attempts = x.attempts /\ y.resultOf = x.attempts
             /\ y.verification = "passed"
BY Zenon DEF SucceededTask, TaskRecord

LEMMA FailureFields ==
  ASSUME NEW x \in TaskRecord, NEW class \in FailureClassification, NEW s
  PROVE  LET y == FailedTask(x, class, s)
         IN  /\ y.status = "blocked" /\ y.active = x.active
             /\ y.attempts = x.attempts /\ y.resultOf = x.attempts
<1>1. TaskEdge(class).to = "blocked" BY FailureEdges
<1> QED BY <1>1, Zenon DEF FailedTask, TaskRecord

LEMMA ReviewFields ==
  ASSUME NEW x \in TaskRecord
  PROVE  /\ LET y == ReviewedTask(x)
            IN  /\ y.status = "completed" /\ y.active = 0
                /\ y.attempts = x.attempts /\ y.resultOf = x.resultOf
                /\ y.verification = x.verification
         /\ \A f : LET y == RejectedTask(x, f)
                   IN  /\ y.status = "blocked" /\ y.active = x.active
                       /\ y.attempts = x.attempts /\ y.resultOf = x.resultOf
<1>1. /\ TaskEdge("reviewer-pass").to = "completed"
      /\ TaskEdge("reviewer-block").to = "blocked"
  BY TaskEdges
<1> QED BY <1>1, Zenon DEF ReviewedTask, RejectedTask, TaskRecord

LEMMA RevisedFields ==
  ASSUME NEW x, NEW y, NEW s, StartsOver(x, y, s)
  PROVE  /\ y.status = s /\ y.active = 0 /\ y.resultOf = 0
         /\ y.attempts = 0 \/ y.attempts = x.attempts
<1>1. DEFINE i == InitialTask(s)
             k == [InitialTask(s) EXCEPT !.attempts = x.attempts,
                                         !.signatures = x.signatures,
                                         !.worker = x.worker]
<1>2. i.status = s /\ i.active = 0 /\ i.resultOf = 0 /\ i.attempts = 0
  BY Zenon DEF InitialTask
<1>3. /\ k.status = s /\ k.active = 0 /\ k.resultOf = 0
      /\ k.attempts = x.attempts
  BY Zenon DEF InitialTask
<1> HIDE DEF i, k
<1>4. y = i \/ y = k BY DEF i, k, StartsOver
<1> QED BY <1>2, <1>3, <1>4

(* Where the lifecycle events lead. *)
LEMMA LifecycleTargets ==
  ASSUME NEW e \in LifecycleEvent
  PROVE  LET targets == {"timed-out", "cancelled", "rolled-back", "abandoned"}
         IN  /\ TaskEdge(e).to \in targets /\ CheckpointEdge(e).to \in targets
             /\ RunEdge(e).to \in targets
<1>1. CASE e = "cancel"
  <2>1. /\ TaskEdge(e).to = "cancelled" /\ CheckpointEdge(e).to = "cancelled"
        /\ RunEdge(e).to = "cancelled"
    BY <1>1, Zenon DEF TaskEdge, CheckpointEdge, RunEdge, FailureClassification
  <2> QED BY <2>1
<1>2. CASE e = "timeout"
  <2>1. /\ TaskEdge(e).to = "timed-out" /\ CheckpointEdge(e).to = "timed-out"
        /\ RunEdge(e).to = "timed-out"
    BY <1>2, Zenon DEF TaskEdge, CheckpointEdge, RunEdge, FailureClassification
  <2> QED BY <2>1
<1>3. CASE e = "rollback"
  <2>1. /\ TaskEdge(e).to = "rolled-back" /\ CheckpointEdge(e).to = "rolled-back"
        /\ RunEdge(e).to = "rolled-back"
    BY <1>3, Zenon DEF TaskEdge, CheckpointEdge, RunEdge, FailureClassification
  <2> QED BY <2>1
<1>4. CASE e = "abandon"
  <2>1. /\ TaskEdge(e).to = "abandoned" /\ CheckpointEdge(e).to = "abandoned"
        /\ RunEdge(e).to = "abandoned"
    BY <1>4, Zenon DEF TaskEdge, CheckpointEdge, RunEdge, FailureClassification
  <2> QED BY <2>1
<1> QED BY <1>1, <1>2, <1>3, <1>4 DEF LifecycleEvent

(* A lifecycle event makes no task busy, under review or completed, and no *)
(* file absent.                                                            *)
LEMMA ClosedFields ==
  ASSUME NEW x \in TaskRecord, NEW c \in Row, NEW e \in LifecycleEvent
  PROVE  /\ LET y == ClosedTask(x, e)
            IN  /\ \/ y.status = x.status
                   \/ y.status \notin Busy \cup {"review-pending", "completed"}
                /\ y.active = x.active /\ y.attempts = x.attempts
                /\ y.resultOf = x.resultOf /\ y.verification = x.verification
         /\ \A n \in Attempt :
              /\ n # x.active => ClosedRow(x, c, e)[n] = c[n]
              /\ ClosedRow(x, c, e)[n].status = c[n].status
                 \/ ClosedRow(x, c, e)[n].status \in
                      {"timed-out", "cancelled", "rolled-back", "abandoned"}
<1>1. LET s == TaskIfSupported(x.status, e)
      IN  s = x.status \/ s \in {"timed-out", "cancelled", "rolled-back", "abandoned"}
  BY LifecycleTargets DEF TaskIfSupported
<1>2. \A n \in Attempt :
        LET s == CheckpointIfSupported(c[n].status, e)
        IN  \/ s = c[n].status
            \/ s \in {"timed-out", "cancelled", "rolled-back", "abandoned"}
  BY LifecycleTargets DEF CheckpointIfSupported
<1>3. LET y == ClosedTask(x, e)
      IN  /\ y.status = TaskIfSupported(x.status, e)
          /\ y.active = x.active /\ y.attempts = x.attempts
          /\ y.resultOf = x.resultOf /\ y.verification = x.verification
  BY Zenon DEF ClosedTask, TaskRecord
<1>4. ASSUME NEW n \in Attempt
      PROVE  /\ n # x.active => ClosedRow(x, c, e)[n] = c[n]
             /\ ClosedRow(x, c, e)[n].status \in
                  {c[n].status, CheckpointIfSupported(c[n].status, e)}
  <2>1. c[n] \in CheckpointRecord BY DEF Row
  <2>2. ClosedRow(x, c, e)[n]
          = IF n = x.active
            THEN [c[n] EXCEPT !.status = CheckpointIfSupported(@, e)]
            ELSE c[n]
    BY DEF ClosedRow
  <2>3. [c[n] EXCEPT !.status = CheckpointIfSupported(@, e)].status
          = CheckpointIfSupported(c[n].status, e)
    BY <2>1, Zenon DEF CheckpointRecord
  <2> QED BY <2>2, <2>3
<1> QED BY <1>1, <1>2, <1>3, <1>4 DEF Busy

-----------------------------------------------------------------------------
(* Each kind of move keeps the evidence of its task. *)

LEMMA MovesKeepEvidence ==
  ASSUME NEW x \in TaskRecord, NEW c \in Row, NEW r \in Results,
         NEW x2 \in TaskRecord, NEW c2 \in Row, NEW r2 \in Results,
         TaskEvidence(x, c, r), Moves(x, c, r, x2, c2, r2)
  PROVE  TaskEvidence(x2, c2, r2)
<1> USE TaskFields DEF ActiveIsLast, ResultOnDisk, BusyHasNoResult,
                       ReviewOfSuccess, DoneVerified, TaskEvidence, Busy
<1>1. CASE NothingMoves(x, c, r, x2, c2, r2) BY <1>1 DEF NothingMoves
<1>2. CASE BecomesReady(x, c, r, x2, c2, r2)
  BY <1>2, StatusFields DEF BecomesReady
<1>3. CASE AttemptStarts(x, c, r, x2, c2, r2)
  <2>1. PICK k \in CheckpointRecord :
          k.status = "running" /\ c2 = [c EXCEPT ![x.attempts + 1] = k]
    BY <1>3 DEF AttemptStarts
  <2>2. /\ x.status = "ready" /\ x.attempts + 1 \in Attempt /\ r2 = r
        /\ c2[x.attempts + 1].status = "running"
        /\ \A n \in Attempt : n # x.attempts + 1 => c2[n] = c[n]
    BY <1>3, <2>1 DEF AttemptStarts, Row
  <2>3. CASE x2 = x BY <2>2, <2>3 DEF Attempt
  <2>4. CASE \E w : x2 = StartedTask(x, w)
    <3>1. /\ x2.status = "running" /\ x2.active = x.attempts + 1
          /\ x2.attempts = x.attempts + 1 /\ x2.resultOf = x.resultOf
      BY <2>4, StartFields
    <3> QED BY <2>2, <3>1 DEF Attempt
  <2> QED BY <1>3, <2>3, <2>4 DEF AttemptStarts
<1>4. CASE AttemptSucceeds(x, c, r, x2, c2, r2)
  <2>1. DEFINE n == x.attempts
  <2>2. /\ x.status = "running" /\ n \in Attempt /\ x.active = n
        /\ c[n].status = "running"
        /\ r2[n] = "succeeded" /\ \A m \in Attempt \ {n} : r2[m] = r[m]
    BY <1>4 DEF AttemptSucceeds, Results
  <2>3. DEFINE f == [c EXCEPT ![n].status = "verified"]
  <2>4. f[n].status = "verified" /\ f[n].reviewer = c[n].reviewer
    BY <2>2, RowUpdate
  <2> HIDE DEF f
  <2>5. CASE x2 = x /\ c2 \in {c, f} BY <2>2, <2>4, <2>5
  <2>6. CASE x2 = SucceededTask(x, c[n].reviewer # "not-required") /\ c2 = f
    <3>1. DEFINE b == c[n].reviewer # "not-required"
    <3>2. /\ x2.status = (IF b THEN "review-pending" ELSE "completed")
          /\ x2.active = (IF b THEN x.active ELSE 0)
          /\ x2.attempts = n /\ x2.resultOf = n /\ x2.verification = "passed"
      BY <2>6, SuccessFields
    <3>3. CASE b BY <2>2, <2>4, <2>6, <3>2, <3>3 DEF Attempt
    <3>4. CASE ~b BY <2>2, <2>4, <2>6, <3>2, <3>4 DEF Attempt
    <3> QED BY <3>3, <3>4
  <2> QED BY <1>4, <2>5, <2>6 DEF AttemptSucceeds, f
<1>5. CASE AttemptFails(x, c, r, x2, c2, r2)
  <2>1. DEFINE n == x.attempts
               f == [c EXCEPT ![n].status = "blocked"]
  <2>2. /\ x.status = "running" /\ n \in Attempt /\ x.active = n
        /\ c[n].status = "running" /\ c2 \in {c, f}
        /\ r2[n] = "failed" /\ \A m \in Attempt \ {n} : r2[m] = r[m]
    BY <1>5 DEF AttemptFails, Results
  <2>3. f[n].status = "blocked" BY <2>2, RowUpdate
  <2> HIDE DEF f
  <2>4. CASE x2 = x BY <2>2, <2>3, <2>4
  <2>5. CASE \E class \in FailureClassification : \E s : x2 = FailedTask(x, class, s)
    <3>1. /\ x2.status = "blocked" /\ x2.active = x.active
          /\ x2.attempts = x.attempts /\ x2.resultOf = x.attempts
      BY <2>5, FailureFields
    <3> QED BY <2>2, <2>3, <3>1 DEF Attempt
  <2> QED BY <1>5, <2>4, <2>5 DEF AttemptFails
<1>6. CASE AttemptReviewed(x, c, r, x2, c2, r2)
  <2>1. DEFINE n == x.active
               p == [c EXCEPT ![n].reviewer = "passed"]
               q == [c EXCEPT ![n].status = "blocked", ![n].reviewer = "blocked"]
  <2>2. /\ x.status = "review-pending" /\ n \in Attempt /\ r2 = r
        /\ c[n].status = "verified" /\ x.resultOf = n
    BY <1>6 DEF AttemptReviewed
  <2>4. p[n].status = "verified" /\ p[n].reviewer = "passed"
    BY <2>2, RowUpdate
  <2>5. q[n].status = "blocked" BY <2>2, RowUpdate
  <2>6. \/ c2 = p /\ (x2 = x \/ x2 = ReviewedTask(x))
        \/ c2 = q /\ (x2 = x \/ \E f : x2 = RejectedTask(x, f))
    BY <1>6 DEF AttemptReviewed
  <2> HIDE DEF p, q
  <2>7. CASE x2 = x BY <2>2, <2>4, <2>5, <2>6, <2>7
  <2>8. CASE c2 = p /\ x2 = ReviewedTask(x)
    <3>1. /\ x2.status = "completed" /\ x2.active = 0
          /\ x2.attempts = x.attempts /\ x2.resultOf = x.resultOf
          /\ x2.verification = x.verification
      BY <2>8, ReviewFields
    <3> QED BY <2>2, <2>4, <2>8, <3>1 DEF Attempt
  <2>9. CASE c2 = q /\ \E f : x2 = RejectedTask(x, f)
    <3>1. /\ x2.status = "blocked" /\ x2.active = x.active
          /\ x2.attempts = x.attempts /\ x2.resultOf = x.resultOf
      BY <2>9, ReviewFields
    <3> QED BY <2>2, <2>5, <2>9, <3>1 DEF Attempt
  <2> QED BY <2>6, <2>7, <2>8, <2>9
<1>7. CASE FinallyRejected(x, c, r, x2, c2, r2)
  <2>1. /\ x2.status = "blocked" /\ x2.active = x.active
        /\ x2.attempts = x.attempts /\ x2.resultOf = x.resultOf
        /\ c2 = c /\ r2 = r
    BY <1>7, ReviewFields DEF FinallyRejected
  <2> QED BY <2>1
<1>8. CASE RunCloses(x, c, r, x2, c2, r2)
  <2>1. PICK e \in LifecycleEvent :
          c2 \in {c, ClosedRow(x, c, e)} /\ x2 \in {x, ClosedTask(x, e)}
    BY <1>8 DEF RunCloses
  <2>2. /\ \/ x2.status = x.status
           \/ x2.status \notin {"running", "verifying", "review-pending", "completed"}
        /\ x2.active = x.active /\ x2.attempts = x.attempts
        /\ x2.resultOf = x.resultOf /\ x2.verification = x.verification
    BY <2>1, ClosedFields
  <2>3. \A n \in Attempt :
          /\ n # x.active => c2[n] = c[n]
          /\ c[n].status # "absent" => c2[n].status # "absent"
    BY <2>1, ClosedFields
  <2>4. r2 = r BY <1>8 DEF RunCloses
  <2> QED BY <2>2, <2>3, <2>4
<1>9. CASE OperatorBlocks(x, c, r, x2, c2, r2)
  <2>1. /\ x.status \in {"pending", "ready", "running", "verifying"} /\ r2 = r
        /\ \/ x.active = 0 /\ c2 = c
           \/ /\ x.active \in Attempt
              /\ c2 = [c EXCEPT ![x.active].status = "blocked"]
    BY <1>9 DEF OperatorBlocks
  <2>2. x.active # 0 => c2[x.active].status # "absent"
    <3>1. SUFFICES ASSUME x.active \in Attempt,
                          c2 = [c EXCEPT ![x.active].status = "blocked"]
                   PROVE  c2[x.active].status = "blocked"
      BY <2>1
    <3> QED BY <3>1, RowUpdate
  <2>3. \/ x2 = x
        \/ /\ x2.status = "blocked" /\ x2.active = x.active
           /\ x2.attempts = x.attempts /\ x2.resultOf = x.resultOf
    <3>1. CASE x2 = x BY <3>1
    <3>2. CASE \E b, z : x2 = [x EXCEPT !.status = "blocked", !.blocker = b,
                                        !.signatures = z]
      <4>1. PICK b, z : x2 = [x EXCEPT !.status = "blocked", !.blocker = b,
                                       !.signatures = z]
        BY <3>2, Zenon
      <4>2. x2.status = "blocked" /\ x2.active = x.active
        BY <4>1, Zenon DEF TaskRecord
      <4>3. x2.attempts = x.attempts /\ x2.resultOf = x.resultOf
        BY <4>1, Zenon DEF TaskRecord
      <4> QED BY <4>2, <4>3
    <3> QED BY <1>9, <3>1, <3>2 DEF OperatorBlocks
  <2> QED BY <2>1, <2>2, <2>3
<1>10. CASE OperatorReopens(x, c, r, x2, c2, r2)
  <2>1. PICK w : x2 = [Unblocked(x) EXCEPT !.worker = w]
    BY <1>10, Zenon DEF OperatorReopens
  <2>2. c2 = c /\ r2 = r BY <1>10 DEF OperatorReopens
  <2>3. /\ x2.status = "ready" /\ x2.active = 0
        /\ x2.attempts = x.attempts /\ x2.resultOf = x.resultOf
    BY <2>1, Zenon DEF Unblocked, TaskRecord
  <2> QED BY <2>2, <2>3
<1> QED
  BY <1>1, <1>2, <1>3, <1>4, <1>5, <1>6, <1>7, <1>8, <1>9, <1>10
  DEF Moves

-----------------------------------------------------------------------------
(* The evidence of all tasks. *)

Evidence ==
  \A t \in Task : TaskEvidence(run.task[t], checkpoint[t], result[t])

LEMMA RowTypes ==
  ASSUME TypeOK, NEW t \in Task
  PROVE  /\ run.task[t] \in TaskRecord
         /\ checkpoint[t] \in Row /\ result[t] \in Results
BY DEF TypeOK, RunRecord, Row, Results

(* A task that starts over leans on no file. *)
LEMMA StartsOverEvidence ==
  ASSUME NEW x \in TaskRecord, NEW y, NEW c, NEW r,
         NEW s \in {"absent", "ready", "pending"}, StartsOver(x, y, s)
  PROVE  TaskEvidence(y, c, r)
<1>1. /\ y.status = s /\ y.active = 0 /\ y.resultOf = 0
      /\ y.attempts = 0 \/ y.attempts = x.attempts
  BY RevisedFields
<1>2. x.attempts \in Nat BY TaskFields
<1> QED
  BY <1>1, <1>2 DEF TaskEvidence, ActiveIsLast, ResultOnDisk,
    BusyHasNoResult, ReviewOfSuccess, DoneVerified, Busy

LEMMA EvidenceInit ==
  ASSUME Init
  PROVE  Evidence
<1>1. SUFFICES ASSUME NEW t \in Task
               PROVE  TaskEvidence(run.task[t], checkpoint[t], result[t])
  BY DEF Evidence
<1>2. PICK d \in Definition : run = ApprovedRun(d) BY DEF Init
<1>3. \E s \in {"absent", "ready", "pending"} : run.task[t] = InitialTask(s)
  BY <1>2, Zenon DEF ApprovedRun
<1>4. \E s \in {"absent", "ready", "pending"} :
        StartsOver(run.task[t], run.task[t], s)
  BY <1>3 DEF StartsOver
<1> QED BY <1>4, InitType, RowTypes, StartsOverEvidence

LEMMA EvidenceStep ==
  ASSUME TypeOK, Evidence, [Next]_vars
  PROVE  Evidence'
<1>1. TypeOK' BY TypeStep
<1>2. SUFFICES ASSUME NEW t \in Task
               PROVE  TaskEvidence(run'.task[t], checkpoint'[t], result'[t])
  BY DEF Evidence
<1>3. /\ run.task[t] \in TaskRecord /\ run'.task[t] \in TaskRecord
      /\ checkpoint[t] \in Row /\ checkpoint'[t] \in Row
      /\ result[t] \in Results /\ result'[t] \in Results
      /\ TaskEvidence(run.task[t], checkpoint[t], result[t])
  BY <1>1, RowTypes DEF Evidence, TypeOK, RunRecord, Row, Results
<1>4. CASE TaskMoves(t) BY <1>3, <1>4, MovesKeepEvidence DEF TaskMoves
<1>5. ASSUME NEW d \in Definition, Revises(d), ~TaskMoves(t)
      PROVE  TaskEvidence(run'.task[t], checkpoint'[t], result'[t])
  <2>1. /\ UNCHANGED <<checkpoint, result>>
        /\ \/ run'.task[t] = run.task[t]
           \/ \E s \in {"absent", "ready", "pending"} :
                StartsOver(run.task[t], run'.task[t], s)
    BY <1>5, RevisionStep DEF Revises
  <2> QED BY <1>3, <2>1, StartsOverEvidence
<1> QED BY <1>4, <1>5, StepMoves

LEMMA EvidenceHolds == Spec => []Evidence
BY TypeCorrect, EvidenceInit, EvidenceStep, PTL DEF Spec

(* A task counts as completed only on a result, a checkpoint and a         *)
(* checkpoint review that are on disk and say so, for every definition and *)
(* every bound (state.js, recordWorkflowResult and recordWorkflowReview).  *)
THEOREM CompletedAreVerified == Spec => []CompletedVerified
<1>1. TypeOK /\ Evidence => CompletedVerified
  <2> SUFFICES ASSUME TypeOK, Evidence, NEW t \in Members(run),
                      run.task[t].status = "completed"
               PROVE  LET n == run.task[t].resultOf
                      IN  /\ n # 0 /\ run.task[t].verification = "passed"
                          /\ result[t][n] = "succeeded"
                          /\ checkpoint[t][n].status = "verified"
                          /\ checkpoint[t][n].reviewer
                               \in {"not-required", "passed"}
    BY DEF CompletedVerified
  <2>1. t \in Task BY MemberTypes DEF TypeOK
  <2> QED BY <2>1 DEF Evidence, TaskEvidence, DoneVerified
<1> QED BY <1>1, TypeCorrect, EvidenceHolds, PTL

(* run.json never names a checkpoint or a result that is not on disk,      *)
(* whatever write a command was killed at, for every definition and every  *)
(* bound (state.js, the order of the three writes).                        *)
THEOREM EvidenceIsOnDisk == Spec => []EvidenceOnDisk
<1>1. TypeOK /\ Evidence => EvidenceOnDisk
  <2> SUFFICES ASSUME TypeOK, Evidence, NEW t \in Members(run)
               PROVE  /\ ActiveCheckpointReadable(run, t)
                      /\ run.task[t].resultOf # 0 =>
                           result[t][run.task[t].resultOf] # "none"
                      /\ run.task[t].status \in Busy \cup {"review-pending"} =>
                           run.task[t].active # 0
    BY DEF EvidenceOnDisk
  <2>1. t \in Task BY MemberTypes DEF TypeOK
  <2> QED
    BY <2>1 DEF Evidence, TaskEvidence, ActiveIsLast, ResultOnDisk,
      BusyHasNoResult, ReviewOfSuccess, ActiveCheckpointReadable
<1> QED BY <1>1, TypeCorrect, EvidenceHolds, PTL

-----------------------------------------------------------------------------
(* A file that recorded an outcome keeps it.  An attempt writes under its  *)
(* number, so that this rests on the numbers not used yet: they have no    *)
(* result, and at most the checkpoint of a start that was killed.          *)

FreshFiles(x, c, r) ==
  \A n \in Attempt :
    n > x.attempts => c[n].status \in {"absent", "running"} /\ r[n] = "none"

Frozen(x, c, r, c2, r2) ==
  /\ \A n \in Attempt :
       c[n].status \notin {"absent", "running"} =>
         c2[n].status \notin {"absent", "running"}
  /\ x.resultOf # 0 => r2[x.resultOf] = r[x.resultOf]

LEMMA MovesFreeze ==
  ASSUME NEW x \in TaskRecord, NEW c \in Row, NEW r \in Results,
         NEW x2 \in TaskRecord, NEW c2 \in Row, NEW r2 \in Results,
         TaskEvidence(x, c, r), FreshFiles(x, c, r),
         Moves(x, c, r, x2, c2, r2)
  PROVE  Frozen(x, c, r, c2, r2) /\ FreshFiles(x2, c2, r2)
<1> USE TaskFields DEF Frozen, FreshFiles
<1>1. CASE c2 = c /\ r2 = r /\ x2.attempts = x.attempts BY <1>1
<1>2. CASE NothingMoves(x, c, r, x2, c2, r2) BY <1>1, <1>2 DEF NothingMoves
<1>3. CASE BecomesReady(x, c, r, x2, c2, r2)
  BY <1>1, <1>3, StatusFields DEF BecomesReady
<1>4. CASE AttemptStarts(x, c, r, x2, c2, r2)
  <2>1. PICK k \in CheckpointRecord :
          k.status = "running" /\ c2 = [c EXCEPT ![x.attempts + 1] = k]
    BY <1>4 DEF AttemptStarts
  <2>2. /\ x.attempts + 1 \in Attempt /\ r2 = r
        /\ c2[x.attempts + 1].status = "running"
        /\ \A n \in Attempt : n # x.attempts + 1 => c2[n] = c[n]
    BY <1>4, <2>1 DEF AttemptStarts, Row
  <2>3. x2.attempts = x.attempts \/ x2.attempts = x.attempts + 1
    BY <1>4, StartFields DEF AttemptStarts
  <2> QED BY <2>2, <2>3 DEF Attempt
<1>5. CASE AttemptSucceeds(x, c, r, x2, c2, r2)
  <2>1. DEFINE n == x.attempts
               f == [c EXCEPT ![n].status = "verified"]
  <2>2. /\ x.status = "running" /\ n \in Attempt /\ x.active = n
        /\ \A m \in Attempt \ {n} : r2[m] = r[m]
    BY <1>5 DEF AttemptSucceeds, Results
  <2>3. f[n].status = "verified" /\ \A m \in Attempt \ {n} : f[m] = c[m]
    BY <2>2, RowUpdate
  <2>4. c2 \in {c, f} BY <1>5 DEF AttemptSucceeds
  <2>5. x2.attempts = n BY <1>5, SuccessFields DEF AttemptSucceeds
  <2>6. x.resultOf < n BY <2>2 DEF TaskEvidence, BusyHasNoResult, Busy
  <2> HIDE DEF f
  <2> QED BY <2>2, <2>3, <2>4, <2>5, <2>6 DEF Attempt
<1>6. CASE AttemptFails(x, c, r, x2, c2, r2)
  <2>1. DEFINE n == x.attempts
               f == [c EXCEPT ![n].status = "blocked"]
  <2>2. /\ x.status = "running" /\ n \in Attempt /\ x.active = n
        /\ \A m \in Attempt \ {n} : r2[m] = r[m]
    BY <1>6 DEF AttemptFails, Results
  <2>3. f[n].status = "blocked" /\ \A m \in Attempt \ {n} : f[m] = c[m]
    BY <2>2, RowUpdate
  <2>4. c2 \in {c, f} BY <1>6 DEF AttemptFails
  <2>5. x2.attempts = n BY <1>6, FailureFields DEF AttemptFails
  <2>6. x.resultOf < n BY <2>2 DEF TaskEvidence, BusyHasNoResult, Busy
  <2> HIDE DEF f
  <2> QED BY <2>2, <2>3, <2>4, <2>5, <2>6 DEF Attempt
<1>7. CASE AttemptReviewed(x, c, r, x2, c2, r2)
  <2>1. DEFINE n == x.active
               p == [c EXCEPT ![n].reviewer = "passed"]
               q == [c EXCEPT ![n].status = "blocked", ![n].reviewer = "blocked"]
  <2>2. /\ x.status = "review-pending" /\ n \in Attempt /\ r2 = r
        /\ c[n].status = "verified" /\ c2 \in {p, q}
    BY <1>7 DEF AttemptReviewed
  <2>3. p[n].status = "verified" /\ \A m \in Attempt \ {n} : p[m] = c[m]
    BY <2>2, RowUpdate
  <2>4. q[n].status = "blocked" /\ \A m \in Attempt \ {n} : q[m] = c[m]
    <3>1. q[n].status = "blocked" BY <2>2, RowUpdate
    <3>2. \A m \in Attempt \ {n} : q[m] = c[m] BY DEF Row
    <3> QED BY <3>1, <3>2
  <2>5. x2.attempts = x.attempts /\ x.active = x.attempts
    BY <1>7, <2>2, ReviewFields
    DEF AttemptReviewed, TaskEvidence, ActiveIsLast, Attempt
  <2> HIDE DEF p, q
  <2> QED BY <2>2, <2>3, <2>4, <2>5 DEF Attempt
<1>8. CASE FinallyRejected(x, c, r, x2, c2, r2)
  BY <1>1, <1>8, ReviewFields DEF FinallyRejected
<1>9. CASE RunCloses(x, c, r, x2, c2, r2)
  <2>1. PICK e \in LifecycleEvent :
          c2 \in {c, ClosedRow(x, c, e)} /\ x2 \in {x, ClosedTask(x, e)}
    BY <1>9 DEF RunCloses
  <2>2. x2.attempts = x.attempts BY <2>1, ClosedFields
  <2>3. \A n \in Attempt :
          /\ n # x.active => c2[n] = c[n]
          /\ \/ c2[n].status = c[n].status
             \/ c2[n].status \notin {"absent", "running"}
    BY <2>1, ClosedFields
  <2>4. r2 = r BY <1>9 DEF RunCloses
  <2>5. x.active <= x.attempts BY DEF TaskEvidence, ActiveIsLast
  <2> QED BY <2>2, <2>3, <2>4, <2>5 DEF Attempt
<1>10. CASE OperatorBlocks(x, c, r, x2, c2, r2)
  <2>1. /\ r2 = r
        /\ \/ x.active = 0 /\ c2 = c
           \/ /\ x.active \in Attempt
              /\ c2 = [c EXCEPT ![x.active].status = "blocked"]
    BY <1>10 DEF OperatorBlocks
  <2>2. x2.attempts = x.attempts
    <3>1. CASE x2 = x BY <3>1
    <3>2. CASE \E b, z : x2 = [x EXCEPT !.status = "blocked", !.blocker = b,
                                        !.signatures = z]
      <4>1. PICK b, z : x2 = [x EXCEPT !.status = "blocked", !.blocker = b,
                                       !.signatures = z]
        BY <3>2, Zenon
      <4> QED BY <4>1, Zenon DEF TaskRecord
    <3> QED BY <1>10, <3>1, <3>2 DEF OperatorBlocks
  <2>3. CASE x.active = 0 /\ c2 = c BY <1>1, <2>1, <2>2, <2>3
  <2>4. CASE /\ x.active \in Attempt
             /\ c2 = [c EXCEPT ![x.active].status = "blocked"]
    <3>1. /\ c2[x.active].status = "blocked"
          /\ \A m \in Attempt \ {x.active} : c2[m] = c[m]
      <4>1. DEFINE f == [c EXCEPT ![x.active].status = "blocked"]
      <4>2. f[x.active].status = "blocked"
            /\ \A m \in Attempt \ {x.active} : f[m] = c[m]
        BY <2>4, RowUpdate
      <4> QED BY <2>4, <4>2
    <3>2. x.active = x.attempts
      BY <2>4 DEF Attempt, TaskEvidence, ActiveIsLast
    <3> QED BY <2>1, <2>2, <2>4, <3>1, <3>2 DEF Attempt
  <2> QED BY <2>1, <2>3, <2>4
<1>11. CASE OperatorReopens(x, c, r, x2, c2, r2)
  <2>1. PICK w : x2 = [Unblocked(x) EXCEPT !.worker = w]
    BY <1>11, Zenon DEF OperatorReopens
  <2>2. c2 = c /\ r2 = r BY <1>11 DEF OperatorReopens
  <2>3. x2.attempts = x.attempts BY <2>1, Zenon DEF Unblocked, TaskRecord
  <2> QED BY <1>1, <2>2, <2>3
<1> QED
  BY <1>2, <1>3, <1>4, <1>5, <1>6, <1>7, <1>8, <1>9, <1>10, <1>11 DEF Moves

(* A task outside the definition has not begun. *)
Unplanned ==
  \A t \in Task \ Members(run) :
    run.task[t].status = "absent" /\ run.task[t].attempts = 0

(* The attempts of a task start again at 1 when a revision drops the task  *)
(* and a later one brings it back: up to revision 2 that cannot have       *)
(* happened.                                                               *)
Fresh ==
  run.revision <= 2 =>
    \A t \in Task :
      t \in Members(run) \/ run.revision = 1 =>
        FreshFiles(run.task[t], checkpoint[t], result[t])

LEMMA AbsentStays ==
  ASSUME NEW x \in TaskRecord, NEW c, NEW r, NEW x2, NEW c2, NEW r2,
         Moves(x, c, r, x2, c2, r2), x.status = "absent"
  PROVE  x2.status = "absent" /\ x2.attempts = x.attempts
<1>1. \A e \in LifecycleEvent : ~CanTask("absent", e)
  <2> SUFFICES ASSUME NEW e \in LifecycleEvent
               PROVE  "absent" \notin TaskEdge(e).from
    BY DEF CanTask
  <2>1. CASE e = "cancel"
    <3>1. TaskEdge(e).from = {"pending", "ready", "running", "verifying",
                              "review-pending", "blocked", "timed-out"}
      BY <2>1, Zenon DEF TaskEdge, FailureClassification
    <3> QED BY <3>1
  <2>2. CASE e = "timeout"
    <3>1. TaskEdge(e).from = {"running", "verifying", "review-pending"}
      BY <2>2, Zenon DEF TaskEdge, FailureClassification
    <3> QED BY <3>1
  <2>3. CASE e = "rollback"
    <3>1. TaskEdge(e).from = TaskStatus \ {"rolled-back", "abandoned"}
      BY <2>3, Zenon DEF TaskEdge, FailureClassification
    <3> QED BY <3>1 DEF TaskStatus
  <2>4. CASE e = "abandon"
    <3>1. TaskEdge(e).from = TaskStatus \ {"completed", "abandoned"}
      BY <2>4, Zenon DEF TaskEdge, FailureClassification
    <3> QED BY <3>1 DEF TaskStatus
  <2> QED BY <2>1, <2>2, <2>3, <2>4 DEF LifecycleEvent
<1>2. x2 = x \/ \E e \in LifecycleEvent : x2 = ClosedTask(x, e)
  BY DEF Moves, NothingMoves, BecomesReady, AttemptStarts, AttemptSucceeds,
    AttemptFails, AttemptReviewed, FinallyRejected, RunCloses,
    OperatorBlocks, OperatorReopens, ReopensFrom
<1>3. ASSUME NEW e \in LifecycleEvent, x2 = ClosedTask(x, e)
      PROVE  x2.status = "absent" /\ x2.attempts = x.attempts
  <2>1. /\ x2.status = TaskIfSupported(x.status, e)
        /\ x2.attempts = x.attempts
    BY <1>3, Zenon DEF ClosedTask, TaskRecord
  <2> QED BY <1>1, <2>1 DEF TaskIfSupported
<1> QED BY <1>2, <1>3

(* Its files stay, too, whatever an earlier revision left in them. *)
LEMMA AbsentFreezes ==
  ASSUME NEW x \in TaskRecord, NEW c \in Row, NEW r \in Results,
         NEW x2, NEW c2, NEW r2, TaskEvidence(x, c, r),
         Moves(x, c, r, x2, c2, r2), x.status = "absent", x.attempts = 0
  PROVE  Frozen(x, c, r, c2, r2)
<1>1. r2 = r /\ (c2 = c \/ \E e \in LifecycleEvent : c2 = ClosedRow(x, c, e))
  BY DEF Moves, NothingMoves, BecomesReady, AttemptStarts, AttemptSucceeds,
    AttemptFails, AttemptReviewed, FinallyRejected, RunCloses,
    OperatorBlocks, OperatorReopens, ReopensFrom
<1> QED BY <1>1, ClosedFields DEF Frozen

(* A task of the revised definition keeps the attempts it had. *)
LEMMA RevisionKeepsAttempts ==
  ASSUME TypeOK, Unplanned, NEW d \in Definition, Revises(d), NEW t \in Task
  PROVE  /\ t \in Members(run') => run'.task[t].attempts >= run.task[t].attempts
         /\ t \notin Members(run') =>
              run'.task[t].status = "absent" /\ run'.task[t].attempts = 0
<1>1. run'.task[t] = RevisedTask(run, d, t) /\ Members(run') = d.tasks
  <2>1. /\ run'.task = [v \in Task |-> RevisedTask(run, d, v)]
        /\ run'.defn = d
    <3>1. run.revision \in Nat BY DEF TypeOK, RunRecord
    <3>2. ApplyRevision(d) /\ ~SamePlan BY <3>1 DEF Revises, SamePlan
    <3> QED BY <3>2, RevisionStep
  <2> QED BY <2>1 DEF Members
<1>2. run.task[t] \in TaskRecord /\ TypeOK'
  BY RowTypes, TypeStep DEF Revises, Next
<1>3. run'.task[t].attempts \in Nat /\ run.task[t].attempts \in Nat
  <2>1. run'.task[t] \in TaskRecord BY <1>2 DEF TypeOK, RunRecord
  <2> QED BY <1>2, <2>1, TaskFields
<1>4. CASE t \notin d.tasks
  <2>1. run'.task[t] = InitialTask("absent")
    BY <1>1, <1>4, Zenon DEF RevisedTask
  <2>2. InitialTask("absent").status = "absent"
        /\ InitialTask("absent").attempts = 0
    BY Zenon DEF InitialTask
  <2> QED BY <1>1, <1>4, <2>1, <2>2
<1>5. CASE t \in d.tasks /\ t \notin Members(run)
  <2>1. run.task[t].attempts = 0 BY <1>5 DEF Unplanned
  <2> QED BY <1>1, <1>3, <1>5, <2>1
<1>6. CASE t \in d.tasks /\ t \in Members(run)
  <2>1. \/ run'.task[t] = run.task[t]
        \/ \E s : run'.task[t] = [InitialTask(s) EXCEPT
                                    !.attempts = run.task[t].attempts,
                                    !.signatures = run.task[t].signatures,
                                    !.worker = run.task[t].worker]
    BY <1>1, <1>6, Zenon DEF RevisedTask
  <2>2. run'.task[t].attempts = run.task[t].attempts
    BY <2>1, Zenon DEF InitialTask
  <2> QED BY <1>1, <1>3, <1>6, <2>2
<1> QED BY <1>4, <1>5, <1>6

LEMMA FreshInit ==
  ASSUME Init
  PROVE  Unplanned /\ Fresh
<1>1. PICK d \in Definition : run = ApprovedRun(d) BY DEF Init
<1>2. ASSUME NEW t \in Task \ Members(run)
      PROVE  run.task[t].status = "absent" /\ run.task[t].attempts = 0
  <2>1. Members(run) = d.tasks /\ run.task[t] = InitialTask("absent")
    <3>1. Members(run) = d.tasks BY <1>1, Zenon DEF ApprovedRun, Members
    <3>2. run.task = [v \in Task |->
                        InitialTask(IF v \notin d.tasks THEN "absent"
                                    ELSE IF d.deps[v] = {} THEN "ready"
                                    ELSE "pending")]
      BY <1>1, Zenon DEF ApprovedRun
    <3> QED BY <1>2, <3>1, <3>2
  <2>2. InitialTask("absent").status = "absent"
        /\ InitialTask("absent").attempts = 0
    BY Zenon DEF InitialTask
  <2> QED BY <2>1, <2>2
<1>3. ASSUME NEW t \in Task, NEW n \in Attempt
      PROVE  /\ checkpoint[t][n].status \in {"absent", "running"}
             /\ result[t][n] = "none"
  BY DEF Init, NoCheckpoint
<1> QED BY <1>2, <1>3 DEF Unplanned, Fresh, FreshFiles

LEMMA FreshStep ==
  ASSUME TypeOK, Evidence, Unplanned, Fresh, [Next]_vars
  PROVE  /\ Unplanned' /\ Fresh'
         /\ run'.revision <= 2 =>
              \A t \in Task : Frozen(run.task[t], checkpoint[t], result[t],
                                     checkpoint'[t], result'[t])
<1>1. TypeOK' BY TypeStep
<1>2. ASSUME NEW t \in Task
      PROVE  /\ run.task[t] \in TaskRecord /\ run'.task[t] \in TaskRecord
             /\ checkpoint[t] \in Row /\ checkpoint'[t] \in Row
             /\ result[t] \in Results /\ result'[t] \in Results
             /\ TaskEvidence(run.task[t], checkpoint[t], result[t])
  BY <1>1, RowTypes DEF Evidence, TypeOK, RunRecord, Row, Results
<1>3. run.revision \in Nat \ {0} /\ run'.revision \in Nat \ {0}
  BY <1>1, BoundAssumption DEF TypeOK, RunRecord
<1>4. CASE ~ \E d \in Definition : Revises(d)
  <2>1. SamePlan /\ \A t \in Task : TaskMoves(t)
    BY <1>4, StepMoves, StepPlan
  <2>2. Members(run') = Members(run) /\ run'.revision = run.revision
    BY <2>1 DEF SamePlan, Members
  <2>3. ASSUME NEW t \in Task \ Members(run)
        PROVE  run'.task[t].status = "absent" /\ run'.task[t].attempts = 0
    BY <1>2, <2>1, AbsentStays DEF TaskMoves, Unplanned
  <2>4. ASSUME NEW t \in Task, FreshFiles(run.task[t], checkpoint[t], result[t])
        PROVE  /\ FreshFiles(run'.task[t], checkpoint'[t], result'[t])
               /\ Frozen(run.task[t], checkpoint[t], result[t],
                         checkpoint'[t], result'[t])
    BY <1>2, <2>1, <2>4, MovesFreeze DEF TaskMoves
  <2>5. ASSUME run'.revision <= 2, NEW t \in Task \ Members(run)
        PROVE  Frozen(run.task[t], checkpoint[t], result[t],
                      checkpoint'[t], result'[t])
    BY <1>2, <2>1, AbsentFreezes DEF TaskMoves, Unplanned
  <2> QED BY <2>2, <2>3, <2>4, <2>5 DEF Unplanned, Fresh
<1>5. ASSUME NEW d \in Definition, Revises(d)
      PROVE  /\ Unplanned' /\ Fresh'
             /\ \A t \in Task : Frozen(run.task[t], checkpoint[t], result[t],
                                       checkpoint'[t], result'[t])
  <2>1. UNCHANGED <<checkpoint, result>> /\ run'.revision = run.revision + 1
    BY <1>5 DEF Revises, ApplyRevision
  <2>2. \A t \in Task : Frozen(run.task[t], checkpoint[t], result[t],
                               checkpoint'[t], result'[t])
    BY <2>1 DEF Frozen
  <2>3. Unplanned' BY <1>5, RevisionKeepsAttempts DEF Unplanned
  <2>4. ASSUME run'.revision <= 2, NEW t \in Task,
               t \in Members(run') \/ run'.revision = 1
        PROVE  FreshFiles(run'.task[t], checkpoint'[t], result'[t])
    <3>1. run.revision = 1 /\ t \in Members(run') BY <1>3, <2>1, <2>4
    <3>2. run'.task[t].attempts >= run.task[t].attempts
      BY <1>5, <3>1, RevisionKeepsAttempts
    <3>3. FreshFiles(run.task[t], checkpoint[t], result[t])
      BY <3>1 DEF Fresh
    <3>4. run.task[t].attempts \in Nat /\ run'.task[t].attempts \in Nat
      BY <1>2, TaskFields
    <3> QED BY <2>1, <3>2, <3>3, <3>4 DEF FreshFiles, Attempt
  <2> QED BY <2>2, <2>3, <2>4 DEF Fresh
<1> QED BY <1>4, <1>5

LEMMA FreshHolds == Spec => [](Unplanned /\ Fresh)
BY TypeCorrect, EvidenceHolds, FreshInit, FreshStep, PTL DEF Spec

(* What EvidenceFrozen says of one step. *)
FilesKept ==
  \A t \in Task :
    /\ \A n \in Attempt :
         checkpoint[t][n].status \notin {"absent", "running"} =>
           checkpoint'[t][n].status \notin {"absent", "running"}
    /\ run.task[t].resultOf # 0 =>
         result'[t][run.task[t].resultOf] = result[t][run.task[t].resultOf]

(* No command reopens a closed checkpoint file, or replaces a result that  *)
(* run.json names, in a run that was revised at most once, whatever        *)
(* MaxRevision is (state.js, the guards of the commands that write files). *)
THEOREM EvidenceIsFrozen == Spec => [][run'.revision <= 2 => FilesKept]_vars
<1>1. TypeOK /\ Evidence /\ Unplanned /\ Fresh /\ [Next]_vars =>
        [run'.revision <= 2 => FilesKept]_vars
  BY FreshStep DEF Frozen, FilesKept
<1> QED BY <1>1, TypeCorrect, EvidenceHolds, FreshHolds, PTL DEF Spec

(* The same where at most one revision is possible: a second one may bring *)
(* back a task that the first had dropped, and its attempts are then       *)
(* written again from 1.                                                   *)
THEOREM EvidenceFrozenOnce ==
  ASSUME MaxRevision <= 2
  PROVE  Spec => EvidenceFrozen
<1>1. TypeOK' /\ (run'.revision <= 2 => FilesKept) =>
        \A t \in Task :
          /\ \A n \in Attempt :
               checkpoint[t][n].status \notin {"absent", "running"} =>
                 checkpoint'[t][n].status \notin {"absent", "running"}
          /\ run.task[t].resultOf # 0 =>
               result'[t][run.task[t].resultOf]
                 = result[t][run.task[t].resultOf]
  BY BoundAssumption DEF TypeOK, RunRecord, FilesKept
<1> QED BY <1>1, TypeCorrect, EvidenceIsFrozen, PTL DEF EvidenceFrozen
=============================================================================
