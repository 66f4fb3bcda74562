-------------------------- MODULE WorkflowRunProofs --------------------------
(***************************************************************************)
(* Proofs about WorkflowRun, for every set of definitions and every bound: *)
(* the type invariant, and that the budget of a run is conserved.          *)
(*                                                                         *)
(* TypeOK is inductive on its own.  BudgetConserved is inductive relative  *)
(* to it.  Each action is reduced to the record it writes to run.json: the *)
(* lemmas of the second part say that the helpers build well-typed records *)
(* and files, those of the last which of them leave the meters alone.      *)
(***************************************************************************)
EXTENDS WorkflowRun, TLAPS

CheckpointFiles == [Task -> [Attempt -> CheckpointRecord]]
ResultFiles == [Task -> [Attempt -> {"none", "succeeded", "failed"}]]

-----------------------------------------------------------------------------
(* The transition tables.  Zenon evaluates a row; the other provers then   *)
(* use the row without the table.                                          *)

(* Where the run transitions that the commands take lead. *)
LEMMA RunEdges ==
  /\ RunEdge("task-started").to = "active"
  /\ RunEdge("block").to = "blocked"
  /\ RunEdge("tasks-completed").to = "review-pending"
  /\ RunEdge("tasks-completed-no-review").to = "completed"
  /\ RunEdge("reviewer-pass").to = "completed"
  /\ RunEdge("reviewer-block").to = "blocked"
  /\ RunEdge("finalize").to = "finalized"
  /\ RunEdge("retry").to = "active"
  /\ RunEdge("reassign").to = "active"
  /\ RunEdge("waive").to = "active"
<1>1. RunEdge("task-started").to = "active" BY Zenon DEF RunEdge
<1>2. RunEdge("block").to = "blocked" BY Zenon DEF RunEdge
<1>3. RunEdge("tasks-completed").to = "review-pending" BY Zenon DEF RunEdge
<1>4. RunEdge("tasks-completed-no-review").to = "completed"
  BY Zenon DEF RunEdge
<1>5. RunEdge("reviewer-pass").to = "completed" BY Zenon DEF RunEdge
<1>6. RunEdge("reviewer-block").to = "blocked" BY Zenon DEF RunEdge
<1>7. RunEdge("finalize").to = "finalized" BY Zenon DEF RunEdge
<1>8. RunEdge("retry").to = "active" BY Zenon DEF RunEdge
<1>9. RunEdge("reassign").to = "active" BY Zenon DEF RunEdge
<1>10. RunEdge("waive").to = "active" BY Zenon DEF RunEdge
<1>11. QED BY <1>1, <1>2, <1>3, <1>4, <1>5, <1>6, <1>7, <1>8, <1>9, <1>10

(* Where the task and checkpoint transitions lead. *)
LEMMA TaskEdges ==
  /\ TaskEdge("start").to = "running"
  /\ TaskEdge("reviewer-pass").to = "completed"
  /\ TaskEdge("reviewer-block").to = "blocked"
  /\ TaskEdge("block").to = "blocked"
  /\ CheckpointEdge("reviewer-block").to = "blocked"
<1>1. TaskEdge("start").to = "running"
  BY Zenon DEF TaskEdge, FailureClassification
<1>2. TaskEdge("reviewer-pass").to = "completed"
  BY Zenon DEF TaskEdge, FailureClassification
<1>3. TaskEdge("reviewer-block").to = "blocked"
  BY Zenon DEF TaskEdge, FailureClassification
<1>4. TaskEdge("block").to = "blocked"
  BY Zenon DEF TaskEdge, FailureClassification
<1>5. CheckpointEdge("reviewer-block").to = "blocked"
  BY Zenon DEF CheckpointEdge, FailureClassification
<1>6. QED BY <1>1, <1>2, <1>3, <1>4, <1>5

(* Every failure classification blocks the task and its checkpoint. *)
LEMMA FailureEdges ==
  ASSUME NEW c \in FailureClassification
  PROVE  TaskEdge(c).to = "blocked" /\ CheckpointEdge(c).to = "blocked"
<1>1. TaskEdge(c).to = "blocked" BY Zenon DEF TaskEdge, FailureClassification
<1>2. CheckpointEdge(c).to = "blocked"
  BY Zenon DEF CheckpointEdge, FailureClassification
<1>3. QED BY <1>1, <1>2

(* A pause or an interruption starts from a status that can be resumed. *)
LEMMA PauseEdges ==
  ASSUME NEW s, NEW e \in BudgetPauseEvent \cup {"pause-host-limit", "interrupt"},
         CanRun(s, e)
  PROVE  RunEdge(e).to \in RunStatus /\ s \in Resumable
<1>1. CASE e = "pause-budget-safe"
  <2>1. RunEdge(e) = [from |-> {"approved", "active", "review-pending"},
                      to |-> "paused-budget-safe"]
    BY <1>1, Zenon DEF RunEdge
  <2>2. QED BY <2>1 DEF CanRun, Resumable, RunStatus
<1>2. CASE e = "pause-budget-unverified"
  <2>1. RunEdge(e) = [from |-> {"active"}, to |-> "paused-budget-unverified"]
    BY <1>2, Zenon DEF RunEdge
  <2>2. QED BY <2>1 DEF CanRun, Resumable, RunStatus
<1>3. CASE e = "pause-host-limit"
  <2>1. RunEdge(e) = [from |-> {"active", "review-pending"},
                      to |-> "paused-host-limit"]
    BY <1>3, Zenon DEF RunEdge
  <2>2. QED BY <2>1 DEF CanRun, Resumable, RunStatus
<1>4. CASE e = "interrupt"
  <2>1. RunEdge(e) = [from |-> {"active", "review-pending"},
                      to |-> "interrupted"]
    BY <1>4, Zenon DEF RunEdge
  <2>2. QED BY <2>1 DEF CanRun, Resumable, RunStatus
<1>5. QED BY <1>1, <1>2, <1>3, <1>4 DEF BudgetPauseEvent

(* The lifecycle events lead to the status they are named after. *)
LEMMA LifecycleEdges ==
  ASSUME NEW e \in LifecycleEvent
  PROVE  /\ RunEdge(e).to \in RunStatus
         /\ TaskEdge(e).to \in TaskStatus
         /\ CheckpointEdge(e).to \in CheckpointStatus
<1>1. CASE e = "cancel"
  <2>1. /\ RunEdge(e).to = "cancelled"
        /\ TaskEdge(e).to = "cancelled"
        /\ CheckpointEdge(e).to = "cancelled"
    BY <1>1, Zenon DEF RunEdge, TaskEdge, CheckpointEdge, FailureClassification
  <2>2. QED BY <2>1 DEF RunStatus, TaskStatus, CheckpointStatus
<1>2. CASE e = "timeout"
  <2>1. /\ RunEdge(e).to = "timed-out"
        /\ TaskEdge(e).to = "timed-out"
        /\ CheckpointEdge(e).to = "timed-out"
    BY <1>2, Zenon DEF RunEdge, TaskEdge, CheckpointEdge, FailureClassification
  <2>2. QED BY <2>1 DEF RunStatus, TaskStatus, CheckpointStatus
<1>3. CASE e = "rollback"
  <2>1. /\ RunEdge(e).to = "rolled-back"
        /\ TaskEdge(e).to = "rolled-back"
        /\ CheckpointEdge(e).to = "rolled-back"
    BY <1>3, Zenon DEF RunEdge, TaskEdge, CheckpointEdge, FailureClassification
  <2>2. QED BY <2>1 DEF RunStatus, TaskStatus, CheckpointStatus
<1>4. CASE e = "abandon"
  <2>1. /\ RunEdge(e).to = "abandoned"
        /\ TaskEdge(e).to = "abandoned"
        /\ CheckpointEdge(e).to = "abandoned"
    BY <1>4, Zenon DEF RunEdge, TaskEdge, CheckpointEdge, FailureClassification
  <2>2. QED BY <2>1 DEF RunStatus, TaskStatus, CheckpointStatus
<1>5. QED BY <1>1, <1>2, <1>3, <1>4 DEF LifecycleEvent

-----------------------------------------------------------------------------
(* Types of what the helpers build. *)

(* Giving a task another status keeps its record well typed. *)
LEMMA TaskStatusType ==
  ASSUME NEW x \in TaskRecord, NEW s \in TaskStatus
  PROVE  [x EXCEPT !.status = s] \in TaskRecord
BY DEF TaskRecord

(* Unblocking a task keeps its record well typed. *)
LEMMA UnblockedType ==
  ASSUME NEW x \in TaskRecord
  PROVE  Unblocked(x) \in TaskRecord
<1>1. "ready" \in TaskStatus /\ 0 \in 0..MaxAttempts
  BY BoundAssumption DEF TaskStatus
<1>2. QED BY <1>1, Zenon DEF Unblocked, TaskRecord

(* A task that starts over has a well-typed record. *)
LEMMA InitialTaskType ==
  ASSUME NEW s \in TaskStatus \cup {"absent"}
  PROVE  InitialTask(s) \in TaskRecord
BY BoundAssumption DEF InitialTask, TaskRecord

(* A task that starts has attempts left and its worker, or the one given. *)
LEMMA StartedTaskType ==
  ASSUME NEW x \in TaskRecord, NEW w \in Worker \cup {"none"},
         x.attempts + 1 \in 0..MaxAttempts
  PROVE  StartedTask(x, w) \in TaskRecord
<1>1. TaskEdge("start").to \in TaskStatus BY TaskEdges DEF TaskStatus
<1>2. (IF x.worker = "none" THEN w ELSE x.worker) \in Worker \cup {"none"}
  BY DEF TaskRecord
<1>3. QED BY <1>1, <1>2, Zenon DEF StartedTask, TaskRecord

LEMMA SucceededTaskType ==
  ASSUME NEW x \in TaskRecord, NEW b \in BOOLEAN
  PROVE  SucceededTask(x, b) \in TaskRecord
<1>1. /\ "review-pending" \in TaskStatus /\ "completed" \in TaskStatus
      /\ x.attempts \in 0..MaxAttempts /\ x.active \in 0..MaxAttempts
      /\ 0 \in 0..MaxAttempts
  BY BoundAssumption DEF TaskStatus, TaskRecord
<1>2. (IF b THEN "review-pending" ELSE "completed") \in TaskStatus BY <1>1
<1>3. (IF b THEN x.active ELSE 0) \in 0..MaxAttempts BY <1>1
<1>4. QED BY <1>1, <1>2, <1>3, Zenon DEF SucceededTask, TaskRecord

LEMMA FailedTaskType ==
  ASSUME NEW x \in TaskRecord, NEW c \in FailureClassification,
         NEW s \in Signature
  PROVE  FailedTask(x, c, s) \in TaskRecord
<1>1. TaskEdge(c).to \in TaskStatus BY FailureEdges DEF TaskStatus
<1>2. x.attempts \in 0..MaxAttempts /\ x.signatures \cup {s} \in SUBSET Signature
  BY DEF TaskRecord
<1>3. c \in FailureClassification \cup {"none"} OBVIOUS
<1>4. QED BY <1>1, <1>2, <1>3, Zenon DEF FailedTask, TaskRecord

LEMMA RejectedTaskType ==
  ASSUME NEW x \in TaskRecord, NEW c \in FailureClassification
  PROVE  RejectedTask(x, c) \in TaskRecord
<1>1. TaskEdge("reviewer-block").to \in TaskStatus BY TaskEdges DEF TaskStatus
<1>2. c \in FailureClassification \cup {"none"} OBVIOUS
<1>3. QED BY <1>1, <1>2, Zenon DEF RejectedTask, TaskRecord

LEMMA ReviewedTaskType ==
  ASSUME NEW x \in TaskRecord
  PROVE  ReviewedTask(x) \in TaskRecord
<1>1. TaskEdge("reviewer-pass").to \in TaskStatus /\ 0 \in 0..MaxAttempts
  BY TaskEdges, BoundAssumption DEF TaskStatus
<1>2. QED BY <1>1, Zenon DEF ReviewedTask, TaskRecord

LEMMA BlockedTaskType ==
  ASSUME NEW x \in TaskRecord, NEW c \in FailureClassification,
         NEW e \in FailureClassification \cup {"block"},
         NEW s \in Signature \cup {"none"}
  PROVE  BlockedTask(x, e, c, s) \in TaskRecord
<1>1. TaskEdge(e).to \in TaskStatus BY FailureEdges, TaskEdges DEF TaskStatus
<1>2. x.signatures \cup ({s} \ {"none"}) \in SUBSET Signature
  BY DEF TaskRecord
<1>3. c \in FailureClassification \cup {"none"} OBVIOUS
<1>4. QED BY <1>1, <1>2, <1>3, Zenon DEF BlockedTask, TaskRecord

(* A run record keeps its type when a status and a task are written. *)
LEMMA RunUpdateType ==
  ASSUME NEW r \in RunRecord, NEW s \in RunStatus,
         NEW t \in Task, NEW x \in TaskRecord
  PROVE  /\ [r EXCEPT !.status = s] \in RunRecord
         /\ [r EXCEPT !.task[t] = x] \in RunRecord
         /\ [r EXCEPT !.status = s, !.task[t] = x] \in RunRecord
BY DEF RunRecord

LEMMA RunTasksType ==
  ASSUME NEW r \in RunRecord, NEW f \in [Task -> TaskRecord]
  PROVE  [r EXCEPT !.task = f] \in RunRecord
BY DEF RunRecord

(* Consumption is a natural number. *)
LEMMA ConsumeType ==
  ASSUME NEW r \in RunRecord, NEW a \in Allocation, NEW u \in Nat
  PROVE  Consume(r, a, u) \in RunRecord
<1>1. r.used \in Nat /\ r.usedAlloc \in [Allocation -> Nat] BY DEF RunRecord
<1>2. r.used + u \in Nat /\ r.usedAlloc[a] + u \in Nat BY <1>1
<1>3. [r.usedAlloc EXCEPT ![a] = @ + u] \in [Allocation -> Nat]
  BY <1>1, <1>2
<1>4. [r EXCEPT !.used = @ + u] \in RunRecord BY <1>2 DEF RunRecord
<1>5. [r EXCEPT !.used = @ + u].usedAlloc = r.usedAlloc BY DEF RunRecord
<1>6. QED BY <1>3, <1>4, <1>5 DEF RunRecord, Consume

(* Promotion changes task statuses only. *)
LEMMA PromoteType ==
  ASSUME NEW r \in RunRecord
  PROVE  Promote(r) \in RunRecord
<1>1. \A t \in Task : r.task[t] \in TaskRecord BY DEF RunRecord
<1>2. \A t \in Task : [r.task[t] EXCEPT !.status = "ready"] \in TaskRecord
  <2>1. "ready" \in TaskStatus BY DEF TaskStatus
  <2>2. QED BY <1>1, <2>1, TaskStatusType
<1>3. DEFINE f == [t \in Task |->
        IF t \in Members(r) /\ r.task[t].status = "pending"
           /\ DepsCompleted(r, t)
        THEN [r.task[t] EXCEPT !.status = "ready"]
        ELSE r.task[t]]
<1>4. f \in [Task -> TaskRecord] BY <1>1, <1>2
<1>5. Promote(r) = [r EXCEPT !.task = f] BY DEF Promote
<1>6. HIDE DEF f
<1>7. QED BY <1>4, <1>5, RunTasksType

(* A pause keeps the status it came from. *)
LEMMA PausedType ==
  ASSUME NEW r \in RunRecord,
         NEW e \in BudgetPauseEvent \cup {"pause-host-limit"},
         CanRun(r.status, e)
  PROVE  Paused(r, e) \in RunRecord
BY PauseEdges DEF Paused, RunRecord

(* An intervention writes one task and a run status. *)
LEMMA IntervenedType ==
  ASSUME NEW r \in RunRecord, NEW t \in Task, NEW x \in TaskRecord,
         NEW s \in RunStatus
  PROVE  Intervened(r, t, x, s) \in RunRecord
BY DEF Intervened, RunRecord, RunStatus

(* A checkpoint file keeps its type when its status or reviewer is written.*)
LEMMA CheckpointUpdateType ==
  ASSUME NEW x \in CheckpointRecord, NEW s \in CheckpointStatus,
         NEW v \in ReviewStatus
  PROVE  /\ [x EXCEPT !.status = s] \in CheckpointRecord
         /\ [x EXCEPT !.reviewer = v] \in CheckpointRecord
         /\ [x EXCEPT !.status = s, !.reviewer = v] \in CheckpointRecord
BY DEF CheckpointRecord

(* So do the files together. *)
LEMMA CheckpointFilesType ==
  ASSUME NEW f \in CheckpointFiles, NEW t \in Task, NEW n \in Attempt,
         NEW s \in CheckpointStatus, NEW v \in ReviewStatus
  PROVE  /\ [f EXCEPT ![t][n].status = s] \in CheckpointFiles
         /\ [f EXCEPT ![t][n].reviewer = v] \in CheckpointFiles
         /\ [f EXCEPT ![t][n].status = s, ![t][n].reviewer = v]
              \in CheckpointFiles
<1>1. f[t][n] \in CheckpointRecord BY DEF CheckpointFiles
<1>2. [f EXCEPT ![t][n].status = s] \in CheckpointFiles
  BY <1>1, CheckpointUpdateType DEF CheckpointFiles
<1>3. [f EXCEPT ![t][n].reviewer = v] \in CheckpointFiles
  BY <1>1, CheckpointUpdateType DEF CheckpointFiles
<1>4. [f EXCEPT ![t][n].status = s, ![t][n].reviewer = v] \in CheckpointFiles
  <2>1. DEFINE g == [f EXCEPT ![t][n].status = s]
  <2>2. g[t][n] \in CheckpointRecord BY <1>2 DEF CheckpointFiles
  <2>3. [g EXCEPT ![t][n].reviewer = v] \in CheckpointFiles
    BY <1>2, <2>2, CheckpointUpdateType DEF CheckpointFiles
  <2>4. QED BY <2>3
<1>5. QED BY <1>2, <1>3, <1>4

LEMMA WriteResultType ==
  ASSUME result \in ResultFiles, NEW t \in Task, NEW n \in Attempt,
         NEW o \in {"none", "succeeded", "failed"}
  PROVE  WriteResult(t, n, o) \in ResultFiles
BY DEF WriteResult, ResultFiles

(* The ways a command ends keep the state well typed. *)
LEMMA PersistType ==
  ASSUME TypeOK, NEW x \in RunRecord, NEW nr \in ResultFiles,
         NEW nc \in CheckpointFiles, NEW p \in SUBSET CheckpointFiles,
         Persist(nr, nc, p, x)
  PROVE  TypeOK'
<1>1. checkpoint' \in CheckpointFiles /\ run' \in RunRecord
  BY DEF Persist, TypeOK
<1>2. crashes' \in 0..MaxCrashes BY BoundAssumption DEF Persist, TypeOK
<1>3. staged' = staged /\ expired' = expired /\ result' = nr BY DEF Persist
<1>4. QED BY <1>1, <1>2, <1>3 DEF TypeOK, CheckpointFiles, ResultFiles

LEMMA WriteRunType ==
  ASSUME TypeOK, NEW x \in RunRecord, WriteRun(x)
  PROVE  TypeOK'
BY DEF WriteRun, TypeOK

LEMMA ThrowAfterType ==
  ASSUME TypeOK, NEW nr \in ResultFiles, NEW nc \in CheckpointFiles,
         ThrowAfter(nr, nc)
  PROVE  TypeOK'
BY DEF ThrowAfter, TypeOK, CheckpointFiles, ResultFiles

LEMMA PauseForBudgetType ==
  ASSUME TypeOK, NEW e \in BudgetPauseEvent \cup {"pause-host-limit"},
         PauseForBudget(e)
  PROVE  TypeOK'
BY PausedType, WriteRunType DEF PauseForBudget, TypeOK

(* A refusal is one of the three pauses. *)
LEMMA DecisionType ==
  ASSUME NEW r, NEW a, NEW late, BudgetDecision(r, a, late) # "allowed"
  PROVE  BudgetDecision(r, a, late)
           \in BudgetPauseEvent \cup {"pause-host-limit"}
BY DEF BudgetDecision, PauseEvent, BudgetPauseEvent

LEMMA MemberTypes ==
  ASSUME NEW r \in RunRecord
  PROVE  /\ r.defn \in Definition /\ ValidDefinition(r.defn)
         /\ r.defn.maxRepairs \in 0..20 /\ r.defn.maxRepairs < MaxAttempts
         /\ Members(r) \subseteq Task
         /\ \A t \in Task : r.task[t] \in TaskRecord
<1>1. r.defn \in Definition /\ \A t \in Task : r.task[t] \in TaskRecord
  BY DEF RunRecord
<1>2. ValidDefinition(r.defn) /\ r.defn.maxRepairs < MaxAttempts
  BY <1>1, DefinitionAssumption
<1>3. r.defn.maxRepairs \in 0..20 /\ r.defn.tasks \subseteq Task
  BY <1>2 DEF ValidDefinition, DefinitionShape
<1>4. QED BY <1>1, <1>2, <1>3 DEF Members

-----------------------------------------------------------------------------
(* TypeOK: one lemma for each group of commands. *)

(* The repair limit keeps the attempts within the bound. *)
LEMMA StartTypes ==
  ASSUME TypeOK, NEW t \in Task, NEW w \in Worker \cup {"none"},
         StartRequested(run, t, w)
  PROVE  /\ run.task[t].attempts + 1 \in Attempt
         /\ StartedRun(run, t, w) \in RunRecord
         /\ StartedCheckpoint(run, t) \in CheckpointRecord
<1>1. run \in RunRecord /\ run.task[t] \in TaskRecord
  BY DEF TypeOK, RunRecord
<1>2. run.task[t].attempts \in Nat BY <1>1, BoundAssumption DEF TaskRecord
<1>3. run.task[t].attempts = 0
        \/ run.task[t].attempts <= run.defn.maxRepairs
  BY DEF StartRequested
<1>4. run.task[t].attempts + 1 \in Attempt
  BY <1>1, <1>2, <1>3, MemberTypes, BoundAssumption DEF Attempt
<1>5. run.task[t].attempts + 1 \in 0..MaxAttempts
  BY <1>2, <1>4 DEF Attempt
<1>6. StartedRun(run, t, w) \in RunRecord
  <2>1. StartedTask(run.task[t], w) \in TaskRecord
    BY <1>1, <1>5, StartedTaskType
  <2>2. RunEdge("task-started").to \in RunStatus BY RunEdges DEF RunStatus
  <2>3. QED BY <1>1, <2>1, <2>2, RunUpdateType DEF StartedRun
<1>7. StartedCheckpoint(run, t) \in CheckpointRecord
  BY DEF StartedCheckpoint, StartAllocation, CheckpointRecord,
         CheckpointStatus, ReviewStatus
<1>8. QED BY <1>4, <1>6, <1>7

LEMMA StartTaskType ==
  ASSUME TypeOK, NEW t \in Task, NEW w \in Worker \cup {"none"},
         StartTask(t, w) \/ RefuseStart(t, w)
  PROVE  TypeOK'
<1>1. CASE StartTask(t, w)
  <2>1. DEFINE n == run.task[t].attempts + 1
               files == [checkpoint EXCEPT ![t][n] = StartedCheckpoint(run, t)]
  <2>2. StartRequested(run, t, w) BY <1>1 DEF StartTask
  <2>3. /\ n \in Attempt /\ StartedRun(run, t, w) \in RunRecord
        /\ StartedCheckpoint(run, t) \in CheckpointRecord
    BY <2>2, StartTypes
  <2>4. files \in CheckpointFiles /\ result \in ResultFiles
    BY <2>3 DEF TypeOK, CheckpointFiles, ResultFiles
  <2>5. Persist(result, files, {files}, StartedRun(run, t, w))
    BY <1>1 DEF StartTask
  <2>6. HIDE DEF n, files
  <2>7. QED BY <2>3, <2>4, <2>5, PersistType
<1>2. CASE RefuseStart(t, w)
  BY <1>2, DecisionType, PauseForBudgetType DEF RefuseStart
<1>3. QED BY <1>1, <1>2

(* An accepted result names an attempt whose checkpoint file exists. *)
LEMMA AcceptsResultType ==
  ASSUME TypeOK, NEW t \in Task, AcceptsResult(run, t)
  PROVE  /\ run.task[t] \in TaskRecord /\ run.task[t].attempts \in Attempt
         /\ ActiveAllocation(run, t) \in Allocation
         /\ checkpoint \in CheckpointFiles /\ result \in ResultFiles
<1>1. run.task[t] \in TaskRecord BY DEF TypeOK, RunRecord
<1>2. run.task[t].active \in 0..MaxAttempts /\ run.task[t].active # 0
  BY <1>1 DEF AcceptsResult, TaskRecord
<1>3. run.task[t].attempts \in Attempt
  BY <1>2, BoundAssumption
  DEF AcceptsResult, ActiveCheckpointReadable, Attempt
<1>4. checkpoint \in CheckpointFiles /\ result \in ResultFiles
  BY DEF TypeOK, CheckpointFiles, ResultFiles
<1>5. checkpoint[t][run.task[t].attempts] \in CheckpointRecord
  BY <1>3, <1>4 DEF CheckpointFiles
<1>6. ActiveAllocation(run, t) \in Allocation
  BY <1>5 DEF ActiveAllocation, CheckpointRecord, Allocation
<1>7. QED BY <1>1, <1>3, <1>4, <1>6

LEMMA SuccessRunsType ==
  ASSUME NEW r \in RunRecord, NEW t \in Task
  PROVE  SuccessRuns(r, t) \in Nat
<1>1. r.defn.targeted[t] \in Nat
  BY MemberTypes DEF ValidDefinition, DefinitionShape
<1>2. QED BY <1>1 DEF SuccessRuns

LEMMA CountedRunType ==
  ASSUME TypeOK, NEW t \in Task, NEW u \in Nat, NEW n \in Nat,
         AcceptsResult(run, t)
  PROVE  CountedRun(run, t, u, n) \in RunRecord
<1>1. DEFINE c == Consume(run, ActiveAllocation(run, t), u)
<1>2. c \in RunRecord BY AcceptsResultType, ConsumeType DEF TypeOK
<1>3. CountedRun(run, t, u, n) = [c EXCEPT !.runs = @ + n]
  BY DEF CountedRun
<1>4. HIDE DEF c
<1>5. c.runs + n \in Nat BY <1>2 DEF RunRecord
<1>6. QED BY <1>2, <1>3, <1>5, Zenon DEF RunRecord

LEMMA SucceededRunType ==
  ASSUME TypeOK, NEW t \in Task, NEW u \in Nat, AcceptsResult(run, t)
  PROVE  SucceededRun(run, t, u) \in RunRecord
<1>1. CountedRun(run, t, u, SuccessRuns(run, t)) \in RunRecord
  BY CountedRunType, SuccessRunsType DEF TypeOK
<1>2. ReviewRequired(run, t) \in BOOLEAN BY DEF ReviewRequired
<1>3. SucceededTask(run.task[t], ReviewRequired(run, t)) \in TaskRecord
  BY <1>2, AcceptsResultType, SucceededTaskType
<1>4. [CountedRun(run, t, u, SuccessRuns(run, t)) EXCEPT
         !.task[t] = SucceededTask(run.task[t], ReviewRequired(run, t))]
        \in RunRecord
  <2>1. "active" \in RunStatus BY DEF RunStatus
  <2>2. QED BY <1>1, <1>3, <2>1, RunUpdateType
<1>5. QED BY <1>4, PromoteType DEF SucceededRun

LEMMA CompletionType ==
  ASSUME NEW r
  PROVE  RunEdge(CompletionEvent(r)).to \in RunStatus
BY RunEdges DEF CompletionEvent, RunStatus

LEMMA RecordSuccessType ==
  ASSUME TypeOK, NEW t \in Task, NEW u \in Nat, RecordSuccess(t, u)
  PROVE  TypeOK'
<1>1. DEFINE n == run.task[t].attempts
             next == SucceededRun(run, t, u)
             files == [checkpoint EXCEPT ![t][n].status = "verified"]
             newResult == WriteResult(t, n, "succeeded")
             completed == [next EXCEPT
                             !.status = RunEdge(CompletionEvent(run)).to]
             progressed == [next EXCEPT
                              !.status = IF SomeBlocked(next) THEN @
                                         ELSE "active"]
<1>2. AcceptsResult(run, t) BY DEF RecordSuccess
<1>3. next \in RunRecord BY <1>2, SucceededRunType
<1>4. /\ checkpoint \in CheckpointFiles /\ files \in CheckpointFiles
      /\ newResult \in ResultFiles
  <2>1. "verified" \in CheckpointStatus /\ "passed" \in ReviewStatus
    BY DEF CheckpointStatus, ReviewStatus
  <2>2. QED
    BY <1>2, <2>1, AcceptsResultType, CheckpointFilesType, WriteResultType
<1>5. \/ Persist(newResult, files, {checkpoint, files}, completed)
      \/ ThrowAfter(newResult, files)
      \/ Persist(newResult, files, {checkpoint, files}, progressed)
  BY DEF RecordSuccess
<1>6. HIDE DEF n, next, files, newResult
<1>7. completed \in RunRecord /\ progressed \in RunRecord
  <2>1. next.status \in RunStatus /\ "active" \in RunStatus
    BY <1>3 DEF RunRecord, RunStatus
  <2>2. QED BY <1>3, <2>1, CompletionType, Zenon DEF RunRecord
<1>8. HIDE DEF completed, progressed
<1>9. QED BY <1>4, <1>5, <1>7, PersistType, ThrowAfterType

LEMMA ClassifyType ==
  ASSUME NEW r, NEW t, NEW c \in FailureClassification, NEW s
  PROVE  Classify(r, t, c, s) \in FailureClassification
BY DEF Classify, FailureClassification

LEMMA FailedRunType ==
  ASSUME TypeOK, NEW t \in Task, NEW u \in Nat, NEW n \in Nat,
         NEW c \in FailureClassification, NEW s \in Signature,
         AcceptsResult(run, t)
  PROVE  FailedRun(run, t, u, n, c, s) \in RunRecord
<1>1. CountedRun(run, t, u, n) \in RunRecord BY CountedRunType
<1>2. RunEdge("block").to \in RunStatus BY RunEdges DEF RunStatus
<1>3. FailedTask(run.task[t], c, s) \in TaskRecord
  BY AcceptsResultType, FailedTaskType
<1>4. QED BY <1>1, <1>2, <1>3, RunUpdateType DEF FailedRun

LEMMA RecordFailureType ==
  ASSUME TypeOK, NEW t \in Task, NEW u \in Nat,
         NEW c \in FailureClassification, NEW s \in Signature,
         RecordFailure(t, u, c, s)
  PROVE  TypeOK'
<1>1. DEFINE k == run.task[t].attempts
             class == Classify(run, t, c, s)
             files == [checkpoint EXCEPT
                         ![t][k].status = CheckpointEdge(class).to]
             newResult == WriteResult(t, k, "failed")
<1>2. AcceptsResult(run, t) BY DEF RecordFailure
<1>3. class \in FailureClassification BY ClassifyType
<1>4. /\ checkpoint \in CheckpointFiles /\ files \in CheckpointFiles
      /\ newResult \in ResultFiles
  <2>1. CheckpointEdge(class).to \in CheckpointStatus
        /\ "passed" \in ReviewStatus
    BY <1>3, FailureEdges DEF CheckpointStatus, ReviewStatus
  <2>2. QED
    BY <1>2, <2>1, AcceptsResultType, CheckpointFilesType, WriteResultType
<1>5. PICK n \in 0..SuccessRuns(run, t) :
        \/ Persist(newResult, files, {checkpoint, files},
             FailedRun(run, t, u, n, class, s))
        \/ ThrowAfter(newResult, files)
  BY DEF RecordFailure
<1>6. n \in Nat BY SuccessRunsType DEF TypeOK
<1>7. FailedRun(run, t, u, n, class, s) \in RunRecord
  BY <1>2, <1>3, <1>6, FailedRunType
<1>8. HIDE DEF k, class, files, newResult
<1>9. QED BY <1>4, <1>5, <1>7, PersistType, ThrowAfterType

LEMMA RefuseResultType ==
  ASSUME TypeOK, NEW t \in Task, NEW u, RefuseResult(t, u)
  PROVE  TypeOK'
BY PauseForBudgetType DEF RefuseResult, BudgetPauseEvent

LEMMA RefuseReviewType ==
  ASSUME TypeOK, NEW u, NEW late, RefuseReview(u, late)
  PROVE  TypeOK'
BY DecisionType, PauseForBudgetType DEF RefuseReview, BudgetPauseEvent

LEMMA FinalReviewType ==
  ASSUME TypeOK, NEW u \in Nat, NEW late,
         \/ PassFinalReview(u, late)
         \/ \E class \in Findings : BlockFinalReview(u, late, class)
  PROVE  TypeOK'
<1>1. DEFINE c == Consume(run, "reviewer", u)
<1>2. c \in RunRecord BY ConsumeType DEF TypeOK, Allocation
<1>3. HIDE DEF c
<1>4. CASE PassFinalReview(u, late)
  <2>1. RunEdge("reviewer-pass").to \in RunStatus /\ "passed" \in ReviewStatus
    BY RunEdges DEF RunStatus, ReviewStatus
  <2>2. [c EXCEPT !.status = RunEdge("reviewer-pass").to,
                  !.reviewer = "passed"] \in RunRecord
    BY <1>2, <2>1, Zenon DEF RunRecord
  <2>3. QED BY <1>4, <2>2, WriteRunType DEF PassFinalReview, c
<1>5. ASSUME NEW class \in Findings, BlockFinalReview(u, late, class)
      PROVE  TypeOK'
  <2>1. DEFINE f == [t \in Task |-> IF t \in DOMAIN class
                                    THEN RejectedTask(run.task[t], class[t])
                                    ELSE run.task[t]]
  <2>2. f \in [Task -> TaskRecord]
    <3>1. \A t \in Task : run.task[t] \in TaskRecord BY DEF TypeOK, RunRecord
    <3>2. \A t \in DOMAIN class : class[t] \in FailureClassification
      BY InputAssumption DEF Findings
    <3>3. QED BY <3>1, <3>2, RejectedTaskType
  <2>3. RunEdge("reviewer-block").to \in RunStatus
        /\ "blocked" \in ReviewStatus
    BY RunEdges DEF RunStatus, ReviewStatus
  <2>4. WriteRun([c EXCEPT !.status = RunEdge("reviewer-block").to,
                           !.reviewer = "blocked", !.task = f])
    BY <1>5 DEF BlockFinalReview, c
  <2>5. HIDE DEF f
  <2>6. [c EXCEPT !.status = RunEdge("reviewer-block").to,
                  !.reviewer = "blocked", !.task = f] \in RunRecord
    BY <1>2, <2>2, <2>3, Zenon DEF RunRecord
  <2>7. QED BY <2>4, <2>6, WriteRunType
<1>6. QED BY <1>4, <1>5

(* A checkpoint under review is that of the last attempt. *)
LEMMA AwaitsReviewType ==
  ASSUME TypeOK, NEW t \in Task, AwaitsCheckpointReview(run, t)
  PROVE  /\ run.task[t].active \in Attempt /\ run.task[t] \in TaskRecord
         /\ checkpoint \in CheckpointFiles /\ result \in ResultFiles
<1>1. run.task[t] \in TaskRecord BY DEF TypeOK, RunRecord
<1>2. run.task[t].active \in Attempt
  BY <1>1, BoundAssumption DEF AwaitsCheckpointReview, TaskRecord, Attempt
<1>3. QED BY <1>1, <1>2 DEF TypeOK, CheckpointFiles, ResultFiles

LEMMA PassCheckpointReviewType ==
  ASSUME TypeOK, NEW t \in Task, NEW u \in Nat, NEW late,
         PassCheckpointReview(t, u, late)
  PROVE  TypeOK'
<1>1. DEFINE n == run.task[t].active
             next == ReviewedRun(run, t, u)
             files == [checkpoint EXCEPT ![t][n].reviewer = "passed"]
             x == [next EXCEPT
                     !.status = IF AllComplete(next)
                                THEN RunEdge(CompletionEvent(run)).to ELSE @]
<1>2. AwaitsCheckpointReview(run, t) BY DEF PassCheckpointReview
<1>3. files \in CheckpointFiles /\ result \in ResultFiles
  <2>1. "passed" \in ReviewStatus /\ "verified" \in CheckpointStatus
    BY DEF ReviewStatus, CheckpointStatus
  <2>2. QED BY <1>2, <2>1, AwaitsReviewType, CheckpointFilesType
<1>4. next \in RunRecord
  <2>1. DEFINE c == Consume(run, "reviewer", u)
  <2>2. c \in RunRecord BY ConsumeType DEF TypeOK, Allocation
  <2>3. ReviewedTask(run.task[t]) \in TaskRecord
    BY <1>2, AwaitsReviewType, ReviewedTaskType
  <2>4. HIDE DEF c
  <2>5. [c EXCEPT !.task[t] = ReviewedTask(run.task[t])] \in RunRecord
    <3>1. "active" \in RunStatus BY DEF RunStatus
    <3>2. QED BY <2>2, <2>3, <3>1, RunUpdateType
  <2>6. QED BY <2>5, PromoteType DEF ReviewedRun, c
<1>5. Persist(result, files, {files}, x) BY DEF PassCheckpointReview
<1>6. HIDE DEF n, next, files
<1>7. x \in RunRecord
  <2>1. next.status \in RunStatus BY <1>4 DEF RunRecord
  <2>2. QED BY <1>4, <2>1, CompletionType, Zenon DEF RunRecord
<1>8. HIDE DEF x
<1>9. QED BY <1>3, <1>5, <1>7, PersistType

LEMMA BlockCheckpointReviewType ==
  ASSUME TypeOK, NEW t \in Task, NEW u \in Nat, NEW late,
         NEW c \in FailureClassification, BlockCheckpointReview(t, u, late, c)
  PROVE  TypeOK'
<1>1. DEFINE n == run.task[t].active
             files == [checkpoint EXCEPT
                ![t][n].status = CheckpointEdge("reviewer-block").to,
                ![t][n].reviewer = "blocked"]
             y == Consume(run, "reviewer", u)
             x == [y EXCEPT !.status = RunEdge("block").to,
                            !.task[t] = RejectedTask(run.task[t], c)]
<1>2. AwaitsCheckpointReview(run, t) BY DEF BlockCheckpointReview
<1>3. files \in CheckpointFiles /\ result \in ResultFiles
  <2>1. "blocked" \in ReviewStatus
        /\ CheckpointEdge("reviewer-block").to \in CheckpointStatus
    BY TaskEdges DEF ReviewStatus, CheckpointStatus
  <2>2. QED BY <1>2, <2>1, AwaitsReviewType, CheckpointFilesType
<1>4. Persist(result, files, {files}, x) BY DEF BlockCheckpointReview
<1>5. y \in RunRecord BY ConsumeType DEF TypeOK, Allocation
<1>6. HIDE DEF n, files, y
<1>7. x \in RunRecord
  <2>1. RunEdge("block").to \in RunStatus BY RunEdges DEF RunStatus
  <2>2. RejectedTask(run.task[t], c) \in TaskRecord
    BY <1>2, AwaitsReviewType, RejectedTaskType
  <2>3. QED BY <1>5, <2>1, <2>2, RunUpdateType
<1>8. HIDE DEF x
<1>9. QED BY <1>3, <1>4, <1>7, PersistType

LEMMA FinalizeType ==
  ASSUME TypeOK, Finalize
  PROVE  TypeOK'
<1>1. RunEdge("finalize").to \in RunStatus BY RunEdges DEF RunStatus
<1>2. [run EXCEPT !.status = RunEdge("finalize").to] \in RunRecord
  BY <1>1, Zenon DEF TypeOK, RunRecord
<1>3. QED BY <1>2, WriteRunType DEF Finalize

(* So does an intervention on the run, whoever asks for it. *)
LEMMA InterventionType ==
  ASSUME TypeOK,
         \/ Interrupt \/ PauseHostLimit \/ Resume
         \/ \E e \in BudgetPauseEvent : PauseByOperator(e)
         \/ \E a \in Allocation, n \in 1..MaxOps : AddBudget(a, n)
         \/ \E e \in LifecycleEvent : Lifecycle(e)
  PROVE  TypeOK'
<1>1. run \in RunRecord BY DEF TypeOK
<1>2. CASE Interrupt
  <2>1. RunEdge("interrupt").to \in RunStatus /\ run.status \in Resumable
    BY <1>2, PauseEdges DEF Interrupt
  <2>2. [run EXCEPT !.status = RunEdge("interrupt").to,
                    !.interruption = run.status] \in RunRecord
    BY <1>1, <2>1, Zenon DEF RunRecord
  <2>3. QED BY <1>2, <2>2, WriteRunType DEF Interrupt
<1>3. CASE PauseHostLimit
  <2>1. Paused(run, "pause-host-limit") \in RunRecord
    BY <1>1, <1>3, PausedType DEF PauseHostLimit
  <2>2. [Paused(run, "pause-host-limit") EXCEPT !.hostLimit = TRUE]
          \in RunRecord
    BY <2>1, Zenon DEF RunRecord
  <2>3. QED BY <1>3, <2>2, WriteRunType DEF PauseHostLimit
<1>4. ASSUME NEW e \in BudgetPauseEvent, PauseByOperator(e)
      PROVE  TypeOK'
  BY <1>1, <1>4, PausedType, WriteRunType DEF PauseByOperator
<1>5. CASE Resume
  <2>1. ResumedStatus \in RunStatus
    BY <1>1 DEF ResumedStatus, Orelse, RunRecord, Resumable, RunStatus
  <2>2. /\ (run.hostLimit /\ run.status # "paused-host-limit") \in BOOLEAN
        /\ (IF run.status = "interrupted" THEN "none" ELSE run.interruption)
             \in Resumable \cup {"none"}
        /\ "none" \in Resumable \cup {"none"}
    BY <1>1, Zenon DEF RunRecord
  <2>3. [run EXCEPT
           !.status = ResumedStatus,
           !.hostLimit = @ /\ run.status # "paused-host-limit",
           !.resumeStatus = "none",
           !.interruption = IF run.status = "interrupted" THEN "none" ELSE @]
          \in RunRecord
    BY <1>1, <2>1, <2>2, Zenon DEF RunRecord
  <2>4. QED BY <1>5, <2>3, WriteRunType DEF Resume
<1>6. ASSUME NEW a \in Allocation, NEW n \in 1..MaxOps, AddBudget(a, n)
      PROVE  TypeOK'
  <2>1. DEFINE x == [run EXCEPT
                       !.status = Orelse(run.resumeStatus, "active"),
                       !.ops = @ + n, !.alloc[a] = @ + n,
                       !.resumeStatus = "none"]
  <2>2. run.ops + n \in Nat /\ run.alloc[a] + n \in Nat
        /\ run.alloc \in [Allocation -> Nat]
    BY <1>1, BoundAssumption DEF RunRecord
  <2>3. [run.alloc EXCEPT ![a] = @ + n] \in [Allocation -> Nat]
    BY <2>2
  <2>4. Orelse(run.resumeStatus, "active") \in RunStatus
    BY <1>1 DEF Orelse, RunRecord, Resumable, RunStatus
  <2>5. x = [run EXCEPT !.status = Orelse(run.resumeStatus, "active"),
                        !.ops = run.ops + n,
                        !.alloc = [run.alloc EXCEPT ![a] = @ + n],
                        !.resumeStatus = "none"]
    BY <1>1, Zenon DEF RunRecord
  <2>6. x \in RunRecord
    <3>1. "none" \in Resumable \cup {"none"} OBVIOUS
    <3>2. HIDE DEF x
    <3>3. QED BY <1>1, <2>2, <2>3, <2>4, <2>5, <3>1, Zenon DEF RunRecord
  <2>7. QED BY <1>6, <2>6, WriteRunType DEF AddBudget
<1>7. ASSUME NEW e \in LifecycleEvent, Lifecycle(e)
      PROVE  TypeOK'
  <2>1. DEFINE f == [t \in Task |->
                       IF t \in Members(run)
                       THEN [run.task[t] EXCEPT !.status = TaskIfSupported(@, e)]
                       ELSE run.task[t]]
               x == [run EXCEPT !.status = RunEdge(e).to, !.task = f]
               p == {LifecycleFiles(run, e, UpTo(run, t)) : t \in Members(run)}
  <2>2. f \in [Task -> TaskRecord]
    <3>1. \A t \in Task : run.task[t] \in TaskRecord BY <1>1 DEF RunRecord
    <3>2. \A t \in Task :
            TaskIfSupported(run.task[t].status, e) \in TaskStatus \cup {"absent"}
      BY <3>1, LifecycleEdges DEF TaskIfSupported, TaskRecord
    <3>3. \A t \in Task :
            [run.task[t] EXCEPT !.status = TaskIfSupported(@, e)] \in TaskRecord
      BY <3>1, <3>2, Zenon DEF TaskRecord
    <3>4. QED BY <3>1, <3>3
  <2>3. \A T : LifecycleFiles(run, e, T) \in CheckpointFiles
    <3>1. \A t \in Task, n \in Attempt : checkpoint[t][n] \in CheckpointRecord
      BY DEF TypeOK
    <3>2. \A s \in CheckpointStatus \cup {"absent"} :
            CheckpointIfSupported(s, e) \in CheckpointStatus \cup {"absent"}
      BY LifecycleEdges DEF CheckpointIfSupported
    <3>3. \A t \in Task, n \in Attempt :
            [checkpoint[t][n] EXCEPT !.status = CheckpointIfSupported(@, e)]
              \in CheckpointRecord
      BY <3>1, <3>2, Zenon DEF CheckpointRecord
    <3>4. QED BY <3>1, <3>3 DEF LifecycleFiles, CheckpointFiles
  <2>4. Persist(result, LifecycleFiles(run, e, Members(run)), p, x)
    BY <1>7 DEF Lifecycle
  <2>5. p \in SUBSET CheckpointFiles BY <2>3
  <2>6. HIDE DEF f, p
  <2>7. x \in RunRecord BY <1>1, <2>2, LifecycleEdges, Zenon DEF RunRecord
  <2>8. HIDE DEF x
  <2>9. result \in ResultFiles BY DEF TypeOK, ResultFiles
  <2>10. QED BY <2>3, <2>4, <2>5, <2>7, <2>9, PersistType
<1>8. QED BY <1>2, <1>3, <1>4, <1>5, <1>6, <1>7

LEMMA RunInterventionType ==
  ASSUME TypeOK, RunIntervention
  PROVE  TypeOK'
BY InterventionType DEF RunIntervention

LEMMA BlockTaskType ==
  ASSUME TypeOK, NEW t \in Task, NEW c \in FailureClassification,
         NEW s \in Signature \cup {"none"}, BlockTask(t, c, s)
  PROVE  TypeOK'
<1>1. DEFINE class == Classify(run, t, c, s)
             event == IF run.task[t].status \in Busy THEN class ELSE "block"
             k == run.task[t].active
             files == IF k = 0 THEN checkpoint
                      ELSE [checkpoint EXCEPT
                              ![t][k].status = CheckpointEdge(class).to]
             x == Intervened(run, t, BlockedTask(run.task[t], event, class, s),
                    RunEdge("block").to)
<1>2. run \in RunRecord /\ run.task[t] \in TaskRecord
  BY DEF TypeOK, RunRecord
<1>3. class \in FailureClassification BY ClassifyType
<1>4. event \in FailureClassification \cup {"block"} BY <1>3
<1>5. checkpoint \in CheckpointFiles /\ result \in ResultFiles
  BY DEF TypeOK, CheckpointFiles, ResultFiles
<1>6. files \in CheckpointFiles
  <2>1. CheckpointEdge(class).to \in CheckpointStatus
        /\ "passed" \in ReviewStatus
    BY <1>3, FailureEdges DEF CheckpointStatus, ReviewStatus
  <2>2. k # 0 => k \in Attempt
    BY <1>2, BoundAssumption DEF TaskRecord, Attempt
  <2>3. QED BY <1>5, <2>1, <2>2, CheckpointFilesType
<1>7. Persist(result, files, {files}, x) BY DEF BlockTask
<1>8. HIDE DEF class, event, files
<1>9. x \in RunRecord
  <2>1. BlockedTask(run.task[t], event, class, s) \in TaskRecord
    BY <1>2, <1>3, <1>4, BlockedTaskType
  <2>2. RunEdge("block").to \in RunStatus BY RunEdges DEF RunStatus
  <2>3. QED BY <1>2, <2>1, <2>2, IntervenedType
<1>10. HIDE DEF x
<1>11. QED BY <1>5, <1>6, <1>7, <1>9, PersistType

LEMMA TaskInterventionType ==
  ASSUME TypeOK, TaskIntervention
  PROVE  TypeOK'
<1>1. run \in RunRecord /\ \A t \in Task : run.task[t] \in TaskRecord
  BY DEF TypeOK, RunRecord
<1>2. "active" \in RunStatus /\ run.status \in RunStatus
  BY <1>1 DEF RunRecord, RunStatus
<1>3. ASSUME NEW t \in Task, RetryTask(t)
      PROVE  TypeOK'
  <2>1. Intervened(run, t, Unblocked(run.task[t]), RunEdge("retry").to)
          \in RunRecord
    BY <1>1, <1>2, RunEdges, UnblockedType, IntervenedType
  <2>2. QED BY <1>3, <2>1, WriteRunType DEF RetryTask
<1>4. ASSUME NEW t \in Task, NEW w \in Worker, ReassignTask(t, w)
      PROVE  TypeOK'
  <2>1. DEFINE x == [Unblocked(run.task[t]) EXCEPT !.worker = w]
               s == IF run.status = "blocked" THEN RunEdge("reassign").to
                    ELSE run.status
  <2>2. x \in TaskRecord
    <3>1. Unblocked(run.task[t]) \in TaskRecord BY <1>1, UnblockedType
    <3>2. QED BY <3>1, Zenon DEF TaskRecord
  <2>3. s \in RunStatus BY <1>2, RunEdges
  <2>4. WriteRun(Intervened(run, t, x, s)) BY <1>4 DEF ReassignTask
  <2>5. HIDE DEF x, s
  <2>6. QED BY <1>1, <2>2, <2>3, <2>4, IntervenedType, WriteRunType
<1>5. ASSUME NEW t \in Task, NEW g, WaiveTask(t, g)
      PROVE  TypeOK'
  <2>1. Intervened(run, t, Unblocked(run.task[t]), RunEdge("waive").to)
          \in RunRecord
    BY <1>1, <1>2, RunEdges, UnblockedType, IntervenedType
  <2>2. QED BY <1>5, <2>1, WriteRunType DEF WaiveTask
<1>6. QED
  BY <1>3, <1>4, <1>5, BlockTaskType, InputAssumption DEF TaskIntervention

LEMMA RevisedRunType ==
  ASSUME TypeOK, NEW d \in Definition, run.revision + 1 <= MaxRevision
  PROVE  RevisedRun(run, d) \in RunRecord
<1>1. run \in RunRecord BY DEF TypeOK
<1>2. /\ d.ops \in Nat /\ d.alloc \in [Allocation -> Nat]
      /\ run.revision + 1 \in 1..MaxRevision
      /\ ReviewerGate(d) \in ReviewStatus
  BY <1>1, DefinitionAssumption, BoundAssumption
  DEF RunRecord, ValidDefinition, DefinitionShape, ReviewerGate, ReviewStatus
<1>3. \A t \in Task : RevisedTask(run, d, t) \in TaskRecord
  <2>1. TAKE t \in Task
  <2>2. run.task[t] \in TaskRecord BY <1>1 DEF RunRecord
  <2>3. DEFINE status == IF d.deps[t] \subseteq
                              {u \in Members(run) :
                                 run.task[u].status = "completed"}
                         THEN "ready" ELSE "pending"
  <2>4. InitialTask(status) \in TaskRecord /\ InitialTask("absent") \in TaskRecord
    BY InitialTaskType DEF TaskStatus
  <2>4a. HIDE DEF status
  <2>5. [InitialTask(status) EXCEPT !.attempts = run.task[t].attempts,
                                    !.signatures = run.task[t].signatures,
                                    !.worker = run.task[t].worker]
          \in TaskRecord
    BY <2>2, <2>4, Zenon DEF TaskRecord
  <2>6. QED BY <2>2, <2>4, <2>5 DEF RevisedTask, status
<1>4. DEFINE f == [t \in Task |-> RevisedTask(run, d, t)]
             next == [run EXCEPT
                        !.revision = @ + 1, !.defn = d, !.task = f,
                        !.ops = d.ops, !.alloc = d.alloc,
                        !.reviewer = ReviewerGate(d)]
<1>5. f \in [Task -> TaskRecord] BY <1>3
<1>6. RevisedRun(run, d)
        = [next EXCEPT !.status = RevisedStatus(run, d, AllComplete(next))]
  BY DEF RevisedRun
<1>7. HIDE DEF f
<1>8. next \in RunRecord BY <1>1, <1>2, <1>5, Zenon DEF RunRecord
<1>9. HIDE DEF next
<1>10. RevisedStatus(run, d, AllComplete(next)) \in RunStatus
  BY DEF RevisedStatus, RunStatus, Pauses, BudgetPauses
<1>11. QED BY <1>6, <1>8, <1>10, Zenon DEF RunRecord

LEMMA ApplyRevisionType ==
  ASSUME TypeOK, NEW d \in Definition, ApplyRevision(d)
  PROVE  TypeOK'
<1>1. DEFINE n == run.revision + 1
<1>2. n \in 1..MaxRevision /\ n <= MaxRevision
  BY BoundAssumption DEF ApplyRevision, TypeOK, RunRecord
<1>3. RevisedRun(run, d) \in RunRecord BY <1>2, RevisedRunType
<1>4. \A b \in BOOLEAN :
        [staged EXCEPT ![n] = [defn |-> {d}, backup |-> b]]
          \in [1..MaxRevision -> [defn : SUBSET Definition, backup : BOOLEAN]]
  BY <1>2 DEF TypeOK
<1>5. UNCHANGED <<checkpoint, result>> BY DEF ApplyRevision
<1>6. CASE /\ staged' = [staged EXCEPT ![n] = [defn |-> {d}, backup |-> TRUE]]
           /\ run' = RevisedRun(run, d) /\ expired' = FALSE
           /\ UNCHANGED crashes
  BY <1>3, <1>4, <1>5, <1>6 DEF TypeOK
<1>7. CASE /\ crashes < MaxCrashes /\ crashes' = crashes + 1
           /\ \E b \in BOOLEAN :
                staged' = [staged EXCEPT ![n] = [defn |-> {d}, backup |-> b]]
           /\ UNCHANGED <<run, expired>>
  <2>1. crashes' \in 0..MaxCrashes BY <1>7, BoundAssumption DEF TypeOK
  <2>2. QED BY <1>4, <1>5, <1>7, <2>1 DEF TypeOK
<1>8. QED BY <1>6, <1>7 DEF ApplyRevision

LEMMA InitType == Init => TypeOK
<1>1. SUFFICES ASSUME NEW d \in Definition, run = ApprovedRun(d), Init
               PROVE  TypeOK
  BY DEF Init
<1>2. /\ d.ops \in Nat /\ d.alloc \in [Allocation -> Nat]
      /\ ReviewerGate(d) \in ReviewStatus /\ 1 \in 1..MaxRevision
  BY DefinitionAssumption, BoundAssumption
  DEF ValidDefinition, DefinitionShape, ReviewerGate, ReviewStatus
<1>3. run \in RunRecord
  <2>1. DEFINE status(t) == IF t \notin d.tasks THEN "absent"
                            ELSE IF d.deps[t] = {} THEN "ready"
                            ELSE "pending"
               f == [t \in Task |-> InitialTask(status(t))]
  <2>2. \A t \in Task : status(t) \in TaskStatus \cup {"absent"}
    BY DEF TaskStatus
  <2>3. f \in [Task -> TaskRecord] BY <2>2, InitialTaskType
  <2>4. "approved" \in RunStatus BY DEF RunStatus
  <2>5. HIDE DEF f
  <2>6. run = [status |-> "approved", revision |-> 1, defn |-> d, task |-> f,
               ops |-> d.ops, alloc |-> d.alloc,
               used |-> 0, usedAlloc |-> [a \in Allocation |-> 0], runs |-> 0,
               hostLimit |-> FALSE, resumeStatus |-> "none",
               interruption |-> "none", reviewer |-> ReviewerGate(d)]
    BY <1>1 DEF ApprovedRun, f
  <2>7. QED BY <1>2, <2>3, <2>4, <2>6 DEF RunRecord
<1>4. checkpoint \in [Task -> [Attempt -> CheckpointRecord]]
  BY <1>1 DEF Init, NoCheckpoint, CheckpointRecord, ReviewStatus
<1>5. /\ result \in [Task -> [Attempt -> {"none", "succeeded", "failed"}]]
      /\ expired \in BOOLEAN
  BY <1>1 DEF Init
<1>5a. crashes \in 0..MaxCrashes BY <1>1, BoundAssumption DEF Init
<1>6. staged \in [1..MaxRevision -> [defn : SUBSET Definition, backup : BOOLEAN]]
  BY <1>1 DEF Init
<1>7. QED BY <1>3, <1>4, <1>5, <1>5a, <1>6 DEF TypeOK

(* The state of a run stays well formed under every command. *)
LEMMA TypeStep ==
  ASSUME TypeOK, [Next]_vars
  PROVE  TypeOK'
<1>1. CASE Elapse BY <1>1 DEF Elapse, TypeOK
<1>2. CASE TaskCommand
  BY <1>2, StartTaskType, RecordSuccessType, RefuseResultType,
     RecordFailureType, InputAssumption DEF TaskCommand
<1>3. CASE ReviewCommand
  <2>1. PICK u \in ReviewUsage, late \in BOOLEAN :
          \/ RefuseFinalReview(u, late)
          \/ PassFinalReview(u, late)
          \/ \E class \in Findings : BlockFinalReview(u, late, class)
          \/ \E t \in Task :
               \/ RefuseCheckpointReview(t, u, late)
               \/ PassCheckpointReview(t, u, late)
               \/ \E c \in Observable : BlockCheckpointReview(t, u, late, c)
    BY <1>3 DEF ReviewCommand
  <2>2. u \in Nat /\ Observable \subseteq FailureClassification
    BY InputAssumption
  <2>3. CASE RefuseReview(u, late) BY <2>3, RefuseReviewType
  <2>4. CASE \/ PassFinalReview(u, late)
             \/ \E class \in Findings : BlockFinalReview(u, late, class)
    BY <2>2, <2>4, FinalReviewType
  <2>5. ASSUME NEW t \in Task, PassCheckpointReview(t, u, late)
        PROVE  TypeOK'
    BY <2>2, <2>5, PassCheckpointReviewType
  <2>6. ASSUME NEW t \in Task, NEW c \in Observable,
               BlockCheckpointReview(t, u, late, c)
        PROVE  TypeOK'
    BY <2>2, <2>6, BlockCheckpointReviewType
  <2>7. QED
    BY <2>1, <2>3, <2>4, <2>5, <2>6
    DEF RefuseFinalReview, RefuseCheckpointReview
<1>4. CASE Finalize BY <1>4, FinalizeType
<1>5. CASE RunIntervention BY <1>5, RunInterventionType
<1>6. CASE TaskIntervention BY <1>6, TaskInterventionType
<1>7. ASSUME NEW d \in Definition, ApplyRevision(d)
      PROVE  TypeOK'
  BY <1>7, ApplyRevisionType
<1>8. CASE UNCHANGED vars BY <1>8 DEF vars, TypeOK
<1>9. QED
  BY <1>1, <1>2, <1>3, <1>4, <1>5, <1>6, <1>7, <1>8 DEF Next

(* Whatever the definitions and the bounds: TypeOK is inductive. *)
THEOREM TypeCorrect == Spec => []TypeOK
BY InitType, TypeStep, PTL DEF Spec

-----------------------------------------------------------------------------
(* BudgetConserved: the commands that consume keep the balance, the others *)
(* leave the meters alone.                                                 *)

Balanced(r) ==
  /\ r.used = AllocSum(r.usedAlloc)
  /\ r.ops = AllocSum(r.alloc)
  /\ \A a \in Allocation : r.usedAlloc[a] <= r.alloc[a]
  /\ r.runs <= r.defn.maxRuns

SameMeters(r, x) ==
  /\ x.used = r.used /\ x.usedAlloc = r.usedAlloc
  /\ x.ops = r.ops /\ x.alloc = r.alloc
  /\ x.runs = r.runs /\ x.defn = r.defn

LEMMA SameMetersBalanced ==
  ASSUME NEW r, NEW x, Balanced(r), SameMeters(r, x)
  PROVE  Balanced(x)
BY DEF Balanced, SameMeters

(* A record keeps its meters when other fields are written. *)
LEMMA RunUpdateMeters ==
  ASSUME NEW r \in RunRecord
  PROVE  /\ \A s : SameMeters(r, [r EXCEPT !.status = s])
         /\ \A t, x : SameMeters(r, [r EXCEPT !.task[t] = x])
         /\ \A s, t, x : SameMeters(r, [r EXCEPT !.status = s, !.task[t] = x])
         /\ \A s, f : SameMeters(r, [r EXCEPT !.status = s, !.task = f])
         /\ \A s, v : SameMeters(r, [r EXCEPT !.status = s, !.reviewer = v])
         /\ \A s, v, f :
              SameMeters(r, [r EXCEPT !.status = s, !.reviewer = v, !.task = f])
         /\ \A s, v : SameMeters(r, [r EXCEPT !.status = s, !.interruption = v])
         /\ \A s, v : SameMeters(r, [r EXCEPT !.status = s, !.resumeStatus = v])
         /\ \A f : SameMeters(r, [r EXCEPT !.task = f])
         /\ \A v : SameMeters(r, [r EXCEPT !.hostLimit = v])
BY Zenon DEF SameMeters, RunRecord

LEMMA PromoteMeters ==
  ASSUME NEW r \in RunRecord
  PROVE  SameMeters(r, Promote(r))
BY RunUpdateMeters DEF Promote

(* One more use of an allocation is one more of the total. *)
LEMMA AllocSumUpdate ==
  ASSUME NEW f \in [Allocation -> Nat], NEW a \in Allocation, NEW n \in Nat
  PROVE  AllocSum([f EXCEPT ![a] = f[a] + n]) = AllocSum(f) + n
<1>1. /\ f["implementation"] \in Nat /\ f["repair"] \in Nat
      /\ f["completion"] \in Nat /\ f["reviewer"] \in Nat
      /\ f["finalization"] \in Nat
  BY DEF Allocation
<1>2. CASE a = "implementation" BY <1>1, <1>2 DEF AllocSum, Allocation
<1>3. CASE a = "repair" BY <1>1, <1>3 DEF AllocSum, Allocation
<1>4. CASE a = "completion" BY <1>1, <1>4 DEF AllocSum, Allocation
<1>5. CASE a = "reviewer" BY <1>1, <1>5 DEF AllocSum, Allocation
<1>6. CASE a = "finalization" BY <1>1, <1>6 DEF AllocSum, Allocation
<1>7. QED BY <1>2, <1>3, <1>4, <1>5, <1>6 DEF Allocation

LEMMA ConsumeFields ==
  ASSUME NEW r \in RunRecord, NEW a \in Allocation, NEW u \in Nat
  PROVE  /\ Consume(r, a, u).used = r.used + u
         /\ Consume(r, a, u).usedAlloc
              = [r.usedAlloc EXCEPT ![a] = r.usedAlloc[a] + u]
         /\ Consume(r, a, u).ops = r.ops
         /\ Consume(r, a, u).alloc = r.alloc
         /\ Consume(r, a, u).runs = r.runs
         /\ Consume(r, a, u).defn = r.defn
BY Zenon DEF Consume, RunRecord

(* An operation that fits its allocation keeps the balance. *)
LEMMA ConsumeBalanced ==
  ASSUME NEW r \in RunRecord, Balanced(r), NEW a \in Allocation, NEW u \in Nat,
         ~OverCeiling(r, a, u)
  PROVE  Balanced(Consume(r, a, u))
<1>1. /\ r.used \in Nat /\ r.usedAlloc \in [Allocation -> Nat]
      /\ r.alloc \in [Allocation -> Nat]
  BY DEF RunRecord
<1>2. DEFINE f == [r.usedAlloc EXCEPT ![a] = r.usedAlloc[a] + u]
<1>3. AllocSum(f) = AllocSum(r.usedAlloc) + u BY <1>1, AllocSumUpdate
<1>4. \A b \in Allocation : f[b] <= r.alloc[b]
  <2>1. r.usedAlloc[a] + u <= r.alloc[a] BY <1>1 DEF OverCeiling
  <2>2. QED BY <1>1, <2>1 DEF Balanced
<1>5. DEFINE c == Consume(r, a, u)
<1>6. /\ c.used = r.used + u /\ c.usedAlloc = f
      /\ c.ops = r.ops /\ c.alloc = r.alloc
      /\ c.runs = r.runs /\ c.defn = r.defn
  BY ConsumeFields
<1>7. HIDE DEF f, c
<1>8. Balanced(c) BY <1>3, <1>4, <1>6 DEF Balanced
<1>9. QED BY <1>8 DEF c

(* So does an accepted result. *)
LEMMA CountedBalanced ==
  ASSUME TypeOK, Balanced(run), NEW t \in Task, NEW u \in Nat, NEW n \in Nat,
         AcceptsResult(run, t), ~ResultOverBudget(run, t, u, n)
  PROVE  Balanced(CountedRun(run, t, u, n))
<1>1. DEFINE c == Consume(run, ActiveAllocation(run, t), u)
<1>2. c \in RunRecord /\ Balanced(c) /\ c.runs = run.runs /\ c.defn = run.defn
  <2>1. /\ run \in RunRecord /\ ActiveAllocation(run, t) \in Allocation
        /\ ~OverCeiling(run, ActiveAllocation(run, t), u)
    BY AcceptsResultType DEF TypeOK, ResultOverBudget
  <2>2. QED BY <2>1, ConsumeType, ConsumeBalanced, ConsumeFields
<1>3. run.runs + n <= run.defn.maxRuns
  <2>1. run.runs \in Nat /\ run.defn.maxRuns \in Nat
    BY MemberTypes DEF TypeOK, RunRecord, ValidDefinition, DefinitionShape
  <2>2. QED BY <2>1 DEF ResultOverBudget
<1>4. CountedRun(run, t, u, n) = [c EXCEPT !.runs = @ + n] BY DEF CountedRun
<1>5. HIDE DEF c
<1>6. /\ [c EXCEPT !.runs = @ + n].runs = run.runs + n
      /\ [c EXCEPT !.runs = @ + n].used = c.used
      /\ [c EXCEPT !.runs = @ + n].usedAlloc = c.usedAlloc
      /\ [c EXCEPT !.runs = @ + n].ops = c.ops
      /\ [c EXCEPT !.runs = @ + n].alloc = c.alloc
      /\ [c EXCEPT !.runs = @ + n].defn = c.defn
  BY <1>2, Zenon DEF RunRecord
<1>7. QED BY <1>2, <1>3, <1>4, <1>6 DEF Balanced

(* How a command leaves run.json. *)
LEMMA PersistRun ==
  ASSUME NEW nr, NEW nc, NEW p, NEW x, Persist(nr, nc, p, x)
  PROVE  run' = x \/ run' = run
BY DEF Persist

LEMMA ThrowAfterRun ==
  ASSUME NEW nr, NEW nc, ThrowAfter(nr, nc)
  PROVE  run' = run
BY DEF ThrowAfter

LEMMA WriteRunRun ==
  ASSUME NEW x, WriteRun(x)
  PROVE  run' = x
BY DEF WriteRun

LEMMA PausedMeters ==
  ASSUME NEW r \in RunRecord, NEW e
  PROVE  SameMeters(r, Paused(r, e))
BY RunUpdateMeters DEF Paused

LEMMA PauseBalanced ==
  ASSUME TypeOK, Balanced(run), NEW e, PauseForBudget(e)
  PROVE  Balanced(run')
BY PausedMeters, WriteRunRun, SameMetersBalanced DEF PauseForBudget, TypeOK

LEMMA StartBalanced ==
  ASSUME TypeOK, Balanced(run), NEW t \in Task, NEW w,
         StartTask(t, w) \/ RefuseStart(t, w)
  PROVE  Balanced(run')
<1>1. CASE StartTask(t, w)
  <2>1. run' = StartedRun(run, t, w) \/ run' = run
    BY <1>1, PersistRun DEF StartTask
  <2>2. SameMeters(run, StartedRun(run, t, w))
    BY RunUpdateMeters DEF StartedRun, TypeOK
  <2>3. QED BY <2>1, <2>2, SameMetersBalanced
<1>2. CASE RefuseStart(t, w) BY <1>2, PauseBalanced DEF RefuseStart
<1>3. QED BY <1>1, <1>2

LEMMA SuccessBalanced ==
  ASSUME TypeOK, Balanced(run), NEW t \in Task, NEW u \in Nat,
         RecordSuccess(t, u)
  PROVE  Balanced(run')
<1>1. DEFINE n == SuccessRuns(run, t)
             c == CountedRun(run, t, u, n)
             x == [c EXCEPT !.task[t] =
                     SucceededTask(run.task[t], ReviewRequired(run, t))]
             next == SucceededRun(run, t, u)
<1>2. /\ AcceptsResult(run, t) /\ ~ResultOverBudget(run, t, u, n)
      /\ n \in Nat
  BY SuccessRunsType DEF RecordSuccess, TypeOK
<1>3. c \in RunRecord /\ Balanced(c) BY <1>2, CountedRunType, CountedBalanced
<1>4. next \in RunRecord BY <1>2, SucceededRunType
<1>5. next = Promote(x) BY DEF SucceededRun
<1>6. SucceededTask(run.task[t], ReviewRequired(run, t)) \in TaskRecord
  BY <1>2, AcceptsResultType, SucceededTaskType DEF ReviewRequired
<1>7. HIDE DEF n, c, next
<1>8. Balanced(next)
  <2>1. x \in RunRecord
    BY <1>3, <1>6, RunUpdateType DEF RunStatus
  <2>2. SameMeters(c, x) BY <1>3, RunUpdateMeters
  <2>2a. Balanced(x) BY <1>3, <2>2, SameMetersBalanced
  <2>3. QED BY <1>5, <2>1, <2>2a, PromoteMeters, SameMetersBalanced
<1>9. run' = run \/ \E s : run' = [next EXCEPT !.status = s]
  BY PersistRun, ThrowAfterRun DEF RecordSuccess, next
<1>10. QED BY <1>4, <1>8, <1>9, RunUpdateMeters, SameMetersBalanced

LEMMA FailureBalanced ==
  ASSUME TypeOK, Balanced(run), NEW t \in Task, NEW u \in Nat,
         NEW c, NEW s, RecordFailure(t, u, c, s)
  PROVE  Balanced(run')
<1>1. PICK n \in 0..SuccessRuns(run, t) :
        /\ ~ResultOverBudget(run, t, u, n)
        /\ \/ run' = run
           \/ run' = FailedRun(run, t, u, n, Classify(run, t, c, s), s)
  BY PersistRun, ThrowAfterRun DEF RecordFailure
<1>2. n \in Nat /\ AcceptsResult(run, t)
  BY SuccessRunsType DEF TypeOK, RecordFailure
<1>3. /\ CountedRun(run, t, u, n) \in RunRecord
      /\ Balanced(CountedRun(run, t, u, n))
  BY <1>1, <1>2, CountedRunType, CountedBalanced
<1>4. SameMeters(CountedRun(run, t, u, n),
                 FailedRun(run, t, u, n, Classify(run, t, c, s), s))
  BY <1>3, RunUpdateMeters DEF FailedRun
<1>5. Balanced(FailedRun(run, t, u, n, Classify(run, t, c, s), s))
  BY <1>3, <1>4, SameMetersBalanced
<1>6. QED BY <1>1, <1>5

LEMMA ReviewBalanced ==
  ASSUME TypeOK, Balanced(run), NEW u \in Nat, NEW late,
         ReviewAffordable(run, u, late)
  PROVE  /\ Consume(run, "reviewer", u) \in RunRecord
         /\ Balanced(Consume(run, "reviewer", u))
BY ConsumeType, ConsumeBalanced
DEF TypeOK, ReviewAffordable, ReviewOverBudget, Allocation

LEMMA FinalReviewBalanced ==
  ASSUME TypeOK, Balanced(run), NEW u \in Nat, NEW late,
         \/ PassFinalReview(u, late)
         \/ \E class \in Findings : BlockFinalReview(u, late, class)
  PROVE  Balanced(run')
<1>1. DEFINE c == Consume(run, "reviewer", u)
<1>2. c \in RunRecord /\ Balanced(c)
  BY ReviewBalanced DEF PassFinalReview, BlockFinalReview
<1>3. \E s, v, f : \/ run' = [c EXCEPT !.status = s, !.reviewer = v]
                   \/ run' = [c EXCEPT !.status = s, !.reviewer = v, !.task = f]
  <2>1. CASE PassFinalReview(u, late)
    BY <2>1, WriteRunRun DEF PassFinalReview
  <2>2. CASE \E class \in Findings : BlockFinalReview(u, late, class)
    BY <2>2, WriteRunRun DEF BlockFinalReview
  <2>3. QED BY <2>1, <2>2
<1>4. HIDE DEF c
<1>5. PICK s, v, f : \/ run' = [c EXCEPT !.status = s, !.reviewer = v]
                     \/ run' = [c EXCEPT !.status = s, !.reviewer = v,
                                        !.task = f]
  BY <1>3
<1>6. /\ SameMeters(c, [c EXCEPT !.status = s, !.reviewer = v])
      /\ SameMeters(c, [c EXCEPT !.status = s, !.reviewer = v, !.task = f])
  BY <1>2, RunUpdateMeters
<1>7. QED BY <1>2, <1>5, <1>6, SameMetersBalanced

LEMMA PassCheckpointReviewBalanced ==
  ASSUME TypeOK, Balanced(run), NEW t \in Task, NEW u \in Nat, NEW late,
         PassCheckpointReview(t, u, late)
  PROVE  Balanced(run')
<1>1. DEFINE c == Consume(run, "reviewer", u)
             x == [c EXCEPT !.task[t] = ReviewedTask(run.task[t])]
             next == ReviewedRun(run, t, u)
<1>2. c \in RunRecord /\ Balanced(c)
  BY ReviewBalanced DEF PassCheckpointReview
<1>3. AwaitsCheckpointReview(run, t) BY DEF PassCheckpointReview
<1>4. ReviewedTask(run.task[t]) \in TaskRecord
  BY <1>3, AwaitsReviewType, ReviewedTaskType
<1>5. next = Promote(x) BY DEF ReviewedRun
<1>6. run' = run \/ \E s : run' = [next EXCEPT !.status = s]
  BY PersistRun DEF PassCheckpointReview
<1>7. HIDE DEF c, next
<1>8. x \in RunRecord BY <1>2, <1>4, RunUpdateType DEF RunStatus
<1>9. SameMeters(c, x) BY <1>2, RunUpdateMeters
<1>10. Balanced(x) BY <1>2, <1>9, SameMetersBalanced
<1>11. HIDE DEF x
<1>12. next \in RunRecord /\ Balanced(next)
  BY <1>5, <1>8, <1>10, PromoteType, PromoteMeters, SameMetersBalanced
<1>13. QED BY <1>6, <1>12, RunUpdateMeters, SameMetersBalanced

LEMMA BlockCheckpointReviewBalanced ==
  ASSUME TypeOK, Balanced(run), NEW t \in Task, NEW u \in Nat, NEW late,
         NEW f, BlockCheckpointReview(t, u, late, f)
  PROVE  Balanced(run')
<1>1. DEFINE c == Consume(run, "reviewer", u)
<1>2. c \in RunRecord /\ Balanced(c)
  BY ReviewBalanced DEF BlockCheckpointReview
<1>3. run' = run \/ \E s, x : run' = [c EXCEPT !.status = s, !.task[t] = x]
  BY PersistRun DEF BlockCheckpointReview
<1>4. HIDE DEF c
<1>5. ASSUME NEW s, NEW x, run' = [c EXCEPT !.status = s, !.task[t] = x]
      PROVE  Balanced(run')
  <2>1. SameMeters(c, [c EXCEPT !.status = s, !.task[t] = x])
    BY <1>2, RunUpdateMeters
  <2>2. QED BY <1>2, <1>5, <2>1, SameMetersBalanced
<1>6. QED BY <1>3, <1>5

(* What is added to the ceiling is added to one share of it. *)
LEMMA AddBudgetBalanced ==
  ASSUME TypeOK, Balanced(run), NEW a \in Allocation, NEW n \in Nat,
         AddBudget(a, n)
  PROVE  Balanced(run')
<1>1. /\ run \in RunRecord /\ run.ops \in Nat
      /\ run.alloc \in [Allocation -> Nat]
      /\ run.usedAlloc \in [Allocation -> Nat]
  BY DEF TypeOK, RunRecord
<1>2. DEFINE f == [run.alloc EXCEPT ![a] = run.alloc[a] + n]
<1>3. AllocSum(f) = AllocSum(run.alloc) + n BY <1>1, AllocSumUpdate
<1>4. \A b \in Allocation : run.usedAlloc[b] <= f[b]
  BY <1>1 DEF Balanced
<1>5. run' = [run EXCEPT !.status = Orelse(run.resumeStatus, "active"),
                         !.ops = @ + n, !.alloc[a] = @ + n,
                         !.resumeStatus = "none"]
  BY WriteRunRun DEF AddBudget
<1>6. /\ run'.ops = run.ops + n /\ run'.alloc = f
      /\ run'.used = run.used /\ run'.usedAlloc = run.usedAlloc
      /\ run'.runs = run.runs /\ run'.defn = run.defn
  BY <1>1, <1>5, Zenon DEF RunRecord
<1>7. HIDE DEF f
<1>8. QED BY <1>3, <1>4, <1>6 DEF Balanced

LEMMA RunInterventionBalanced ==
  ASSUME TypeOK, Balanced(run), RunIntervention
  PROVE  Balanced(run')
<1>1. run \in RunRecord BY DEF TypeOK
<1>2. CASE Interrupt
  <2>1. DEFINE x == [run EXCEPT !.status = RunEdge("interrupt").to,
                                !.interruption = run.status]
  <2>2. run' = x BY <1>2, WriteRunRun DEF Interrupt
  <2>3. SameMeters(run, x) BY <1>1, RunUpdateMeters
  <2>4. QED BY <2>2, <2>3, SameMetersBalanced
<1>3. CASE PauseHostLimit
  <2>1. Paused(run, "pause-host-limit") \in RunRecord
    BY <1>1, <1>3, PausedType DEF PauseHostLimit
  <2>2. Balanced(Paused(run, "pause-host-limit"))
    BY <1>1, PausedMeters, SameMetersBalanced
  <2>3. run' = [Paused(run, "pause-host-limit") EXCEPT !.hostLimit = TRUE]
    BY <1>3, WriteRunRun DEF PauseHostLimit
  <2>4. QED BY <2>1, <2>2, <2>3, RunUpdateMeters, SameMetersBalanced
<1>4. ASSUME NEW e \in BudgetPauseEvent, PauseByOperator(e)
      PROVE  Balanced(run')
  BY <1>1, <1>4, WriteRunRun, PausedMeters, SameMetersBalanced
  DEF PauseByOperator
<1>5. CASE Resume
  <2>1. run' = [run EXCEPT
           !.status = ResumedStatus,
           !.hostLimit = @ /\ run.status # "paused-host-limit",
           !.resumeStatus = "none",
           !.interruption = IF run.status = "interrupted" THEN "none" ELSE @]
    BY <1>5, WriteRunRun DEF Resume
  <2>2. SameMeters(run, run') BY <1>1, <2>1, Zenon DEF SameMeters, RunRecord
  <2>3. QED BY <2>2, SameMetersBalanced
<1>6. ASSUME NEW a \in Allocation, NEW n \in 1..MaxOps, AddBudget(a, n)
      PROVE  Balanced(run')
  <2>1. n \in Nat BY BoundAssumption
  <2>2. QED BY <1>6, <2>1, AddBudgetBalanced
<1>7. ASSUME NEW e \in LifecycleEvent, Lifecycle(e)
      PROVE  Balanced(run')
  <2>1. run' = run \/ \E s, f : run' = [run EXCEPT !.status = s, !.task = f]
    BY <1>7, PersistRun DEF Lifecycle
  <2>2. ASSUME NEW s, NEW f, run' = [run EXCEPT !.status = s, !.task = f]
        PROVE  Balanced(run')
    <3>1. SameMeters(run, [run EXCEPT !.status = s, !.task = f])
      BY <1>1, RunUpdateMeters
    <3>2. QED BY <2>2, <3>1, SameMetersBalanced
  <2>3. QED BY <2>1, <2>2
<1>8. QED
  BY <1>2, <1>3, <1>4, <1>5, <1>6, <1>7 DEF RunIntervention

LEMMA IntervenedMeters ==
  ASSUME NEW r \in RunRecord, NEW t \in Task, NEW x \in TaskRecord, NEW s
  PROVE  SameMeters(r, Intervened(r, t, x, s))
<1>1. DEFINE y == [r EXCEPT !.task[t] = x]
<1>2. y \in RunRecord /\ SameMeters(r, y)
  BY RunUpdateType, RunUpdateMeters DEF RunStatus
<1>3. Intervened(r, t, x, s)
        = [y EXCEPT !.status = IF SomeBlocked(y) THEN "blocked" ELSE s]
  BY DEF Intervened
<1>4. HIDE DEF y
<1>5. \A v : SameMeters(y, [y EXCEPT !.status = v]) BY <1>2, RunUpdateMeters
<1>6. QED BY <1>2, <1>3, <1>5 DEF SameMeters

LEMMA TaskInterventionBalanced ==
  ASSUME TypeOK, Balanced(run), TaskIntervention
  PROVE  Balanced(run')
<1>1. run \in RunRecord /\ \A t \in Task : run.task[t] \in TaskRecord
  BY DEF TypeOK, RunRecord
<1>2. \A t \in Task : Unblocked(run.task[t]) \in TaskRecord
  BY <1>1, UnblockedType
<1>3. \A t \in Task, w \in Worker :
        [Unblocked(run.task[t]) EXCEPT !.worker = w] \in TaskRecord
  BY <1>2, Zenon DEF TaskRecord
<1>4. ASSUME NEW t \in Task, NEW c \in FailureClassification,
             NEW s \in Signature \cup {"none"}, BlockTask(t, c, s)
      PROVE  run' = run \/ \E x \in TaskRecord : \E v :
                             run' = Intervened(run, t, x, v)
  <2>1. DEFINE class == Classify(run, t, c, s)
               event == IF run.task[t].status \in Busy THEN class ELSE "block"
               x == BlockedTask(run.task[t], event, class, s)
  <2>2. class \in FailureClassification BY ClassifyType
  <2>3. event \in FailureClassification \cup {"block"} BY <2>2
  <2>4. run' = run \/ run' = Intervened(run, t, x, RunEdge("block").to)
    BY <1>4, PersistRun DEF BlockTask
  <2>5. HIDE DEF class, event
  <2>6. x \in TaskRecord BY <1>1, <2>2, <2>3, BlockedTaskType
  <2>7. HIDE DEF x
  <2>8. QED BY <2>4, <2>6
<1>5. ASSUME NEW t \in Task, RetryTask(t) \/ \E g : WaiveTask(t, g)
      PROVE  \E v : run' = Intervened(run, t, Unblocked(run.task[t]), v)
  BY <1>5, WriteRunRun DEF RetryTask, WaiveTask
<1>6. ASSUME NEW t \in Task, NEW w \in Worker, ReassignTask(t, w)
      PROVE  \E v : run' = Intervened(run, t,
                             [Unblocked(run.task[t]) EXCEPT !.worker = w], v)
  BY <1>6, WriteRunRun DEF ReassignTask
<1>7. run' = run \/ \E t \in Task, x \in TaskRecord : \E v :
                      run' = Intervened(run, t, x, v)
  BY <1>2, <1>3, <1>4, <1>5, <1>6, InputAssumption DEF TaskIntervention
<1>8. QED BY <1>1, <1>7, IntervenedMeters, SameMetersBalanced

(* A revision is refused if the run has consumed more than it allows. *)
LEMMA RevisionBalanced ==
  ASSUME TypeOK, Balanced(run), NEW d \in Definition, ApplyRevision(d)
  PROVE  Balanced(run')
<1>1. run' = run \/ run' = RevisedRun(run, d) BY DEF ApplyRevision
<1>2. d.ops = AllocSum(d.alloc)
  <2>1. ValidDefinition(d) BY DefinitionAssumption, Zenon
  <2>2. BudgetValid(d) BY <2>1, Zenon DEF ValidDefinition
  <2>3. QED BY <2>2 DEF BudgetValid
<1>3. /\ \A a \in Allocation : run.usedAlloc[a] <= d.alloc[a]
      /\ run.runs <= d.maxRuns
  BY DEF ApplyRevision, RevisionValid
<1>4. DEFINE x == RevisedRun(run, d)
<1>5. /\ x.used = run.used /\ x.usedAlloc = run.usedAlloc
      /\ x.ops = d.ops /\ x.alloc = d.alloc
      /\ x.runs = run.runs /\ x.defn = d
  BY Zenon DEF RevisedRun, TypeOK, RunRecord
<1>6. HIDE DEF x
<1>7. Balanced(x) BY <1>2, <1>3, <1>5 DEF Balanced
<1>8. QED BY <1>1, <1>7 DEF x

LEMMA InitBalanced == Init => Balanced(run)
<1>1. SUFFICES ASSUME NEW d \in Definition, run = ApprovedRun(d)
               PROVE  Balanced(run)
  BY DEF Init
<1>2. /\ d.ops = AllocSum(d.alloc) /\ d.alloc \in [Allocation -> Nat]
      /\ d.maxRuns \in Nat
  <2>1. d \in DefinitionShape /\ BudgetValid(d)
    BY DefinitionAssumption DEF ValidDefinition
  <2>2. QED BY <2>1 DEF BudgetValid, DefinitionShape
<1>3. /\ run.used = 0 /\ run.usedAlloc = [a \in Allocation |-> 0]
      /\ run.ops = d.ops /\ run.alloc = d.alloc
      /\ run.runs = 0 /\ run.defn = d
  BY <1>1 DEF ApprovedRun
<1>4. AllocSum([a \in Allocation |-> 0]) = 0 BY DEF AllocSum, Allocation
<1>5. QED BY <1>2, <1>3, <1>4 DEF Balanced

(* The budget of a run adds up and stays within its ceilings, whatever is  *)
(* started, recorded, reviewed, extended or revised and in whatever order: *)
(* what was consumed is what the allocations consumed, none beyond its     *)
(* share, and the shares make up the ceiling.                              *)
THEOREM BudgetConservation == Spec => []BudgetConserved
<1>1. BudgetConserved <=> Balanced(run) BY DEF BudgetConserved, Balanced
<1>2. Init => BudgetConserved BY <1>1, InitBalanced
<1>3. TypeOK /\ BudgetConserved /\ [Next]_vars => BudgetConserved'
  <2> SUFFICES ASSUME TypeOK, Balanced(run), [Next]_vars
               PROVE  Balanced(run')
    BY DEF BudgetConserved, Balanced
  <2>1. CASE Elapse BY <2>1 DEF Elapse
  <2>2. CASE TaskCommand
    <3>1. ASSUME NEW t \in Task, NEW u, RefuseResult(t, u)
          PROVE  Balanced(run')
      BY <3>1, PauseBalanced DEF RefuseResult
    <3>2. QED
      BY <2>2, <3>1, StartBalanced, SuccessBalanced, FailureBalanced,
         InputAssumption DEF TaskCommand
  <2>3. CASE ReviewCommand
    <3>1. PICK u \in ReviewUsage, late \in BOOLEAN :
            \/ RefuseFinalReview(u, late)
            \/ PassFinalReview(u, late)
            \/ \E class \in Findings : BlockFinalReview(u, late, class)
            \/ \E t \in Task :
                 \/ RefuseCheckpointReview(t, u, late)
                 \/ PassCheckpointReview(t, u, late)
                 \/ \E c \in Observable : BlockCheckpointReview(t, u, late, c)
      BY <2>3 DEF ReviewCommand
    <3>2. u \in Nat BY InputAssumption
    <3>3. CASE RefuseReview(u, late)
      BY <3>3, PauseBalanced DEF RefuseReview
    <3>4. CASE \/ PassFinalReview(u, late)
               \/ \E class \in Findings : BlockFinalReview(u, late, class)
      BY <3>2, <3>4, FinalReviewBalanced
    <3>5. ASSUME NEW t \in Task, PassCheckpointReview(t, u, late)
          PROVE  Balanced(run')
      BY <3>2, <3>5, PassCheckpointReviewBalanced
    <3>6. ASSUME NEW t \in Task, NEW c, BlockCheckpointReview(t, u, late, c)
          PROVE  Balanced(run')
      BY <3>2, <3>6, BlockCheckpointReviewBalanced
    <3>7. QED
      BY <3>1, <3>3, <3>4, <3>5, <3>6
      DEF RefuseFinalReview, RefuseCheckpointReview
  <2>4. CASE Finalize
    <3>1. DEFINE x == [run EXCEPT !.status = RunEdge("finalize").to]
    <3>2. run' = x BY <2>4, WriteRunRun DEF Finalize
    <3>3. SameMeters(run, x) BY RunUpdateMeters DEF TypeOK
    <3>4. QED BY <3>2, <3>3, SameMetersBalanced
  <2>5. CASE RunIntervention BY <2>5, RunInterventionBalanced
  <2>6. CASE TaskIntervention BY <2>6, TaskInterventionBalanced
  <2>7. ASSUME NEW d \in Definition, ApplyRevision(d)
        PROVE  Balanced(run')
    BY <2>7, RevisionBalanced
  <2>8. CASE UNCHANGED vars BY <2>8 DEF vars
  <2>9. QED
    BY <2>1, <2>2, <2>3, <2>4, <2>5, <2>6, <2>7, <2>8 DEF Next
<1>4. QED BY <1>2, <1>3, TypeCorrect, PTL DEF Spec
=============================================================================
