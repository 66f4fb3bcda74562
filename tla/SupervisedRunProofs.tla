------------------------ MODULE SupervisedRunProofs ------------------------
(***************************************************************************)
(* Theorems about SupervisedRun.                                           *)
(*                                                                         *)
(* Every action is shown, once, to be one of a few moves, each of which    *)
(* says what becomes of run.json and of the memory of the processes        *)
(* (Moves) and of the worktree and its owner (World).  The invariants are  *)
(* proved from the moves: Typed, OnApprovedPlan, Within and NoneInvented   *)
(* for any number of processes; and, for one long command at a time,       *)
(* Remembered, Housed and Reviewed, each from those before it.             *)
(***************************************************************************)
EXTENDS SupervisedRun, TLAPS

-----------------------------------------------------------------------------
(* What a command leaves of the run record r in the record x it writes.    *)

SameCeilings(r, x) == x.ops = r.ops /\ x.alloc = r.alloc /\ x.maxFull = r.maxFull

SameMeters(r, x) ==
  /\ SameCeilings(r, x)
  /\ x.used = r.used /\ x.usedAlloc = r.usedAlloc /\ x.fullRuns = r.fullRuns

(* An operation counted on allocation a. *)
Counted(r, x, a) ==
  /\ SameCeilings(r, x)
  /\ x.used = r.used + 1 /\ x.usedAlloc = [r.usedAlloc EXCEPT ![a] = @ + 1]
  /\ x.fullRuns = r.fullRuns

SameHistory(r, x) ==
  x.number = r.number /\ x.attempts = r.attempts /\ x.failures = r.failures

SameEvidence(r, x) ==
  /\ x.decision = r.decision
  /\ x.verifiedAt = r.verifiedAt /\ x.reviewedAt = r.reviewedAt

SameApproval(r, x) ==
  x.revision = r.revision /\ x.approved = r.approved /\ x.plan = r.plan

Same(r, x) ==
  /\ SameMeters(r, x) /\ SameHistory(r, x)
  /\ SameEvidence(r, x) /\ SameApproval(r, x)

-----------------------------------------------------------------------------
(* The records that the commands write.  Named, where the module writes    *)
(* them in place: the status of run and task are new; the status and what  *)
(* a pause leaves are; a verification has run; a review has ended.         *)
Moved(r, s, t) == [r EXCEPT !.status = s, !.task = t]

Repaused(r, s, f, h) ==
  [r EXCEPT !.status = s, !.pausedFrom = f, !.hostLimit = h]

Spent(r, n, m) == [r EXCEPT !.runs = @ + n, !.fullRuns = @ + m]

Accepted(r, s, t, v) == [r EXCEPT !.status = s, !.task = t, !.verifiedAt = v]

Rejected(r, s, t, f) == [r EXCEPT !.status = s, !.task = t, !.failures = f]

Decided(r, d, v) == [r EXCEPT !.decision = d, !.reviewedAt = v]

FirstAttempt(r, n) ==
  [r EXCEPT !.status = "executing", !.task = "executing",
            !.attempts = @ + 1, !.runs = @ + n]

RepairAttempt(r) ==
  [r EXCEPT !.status = "executing", !.task = "executing",
            !.attempts = @ + 1, !.repairs = @ + 1]

Raised(r, a) == [r EXCEPT !.ops = @ + 1, !.alloc[a] = @ + 1]

VerificationRaised(r, x) ==
  \/ x = [r EXCEPT !.maxRuns = @ + 1]
  \/ x = [r EXCEPT !.maxFull = @ + 1]

MovedRun(r, s) == [r EXCEPT !.status = s]

LEMMA StatusWritten ==
  ASSUME NEW r \in RunRecord, NEW s \in RunStatus, NEW t \in TaskStatus,
         NEW x, x = Moved(r, s, t)
  PROVE  /\ x \in RunRecord /\ x.status = s /\ x.task = t
         /\ x.pausedFrom = r.pausedFrom /\ Same(r, x)
<1>1. x \in RunRecord BY DEF Moved, RunRecord
<1>2. /\ x.status = s /\ x.task = t /\ x.pausedFrom = r.pausedFrom
      /\ SameMeters(r, x)
  BY DEF Moved, RunRecord, SameMeters, SameCeilings
<1>3. SameHistory(r, x) /\ SameEvidence(r, x) /\ SameApproval(r, x)
  BY DEF Moved, RunRecord, SameHistory, SameEvidence, SameApproval
<1> QED BY <1>1, <1>2, <1>3 DEF Same

LEMMA EndedFields ==
  ASSUME NEW r \in RunRecord,
         NEW s \in {"completed", "cancelled", "abandoned", "rolled-back", "blocked"}
  PROVE  \E x : /\ x = Ended(r, s)
                /\ x \in RunRecord /\ x.status = s /\ x.task = s
                /\ x.pausedFrom = r.pausedFrom /\ Same(r, x)
<1>1. s \in RunStatus /\ s \in TaskStatus
  BY DEF RunStatus, TaskStatus, Terminal
<1>2. PICK x : x = Moved(r, s, s) OBVIOUS
<1>3. x = Ended(r, s) BY <1>2, Zenon DEF Ended, Moved
<1>4. /\ x \in RunRecord /\ x.status = s /\ x.task = s
      /\ x.pausedFrom = r.pausedFrom /\ Same(r, x)
  BY <1>1, <1>2, StatusWritten
<1> QED BY <1>3, <1>4, Zenon

(* A record of which the status, the status to resume to and the host      *)
(* limit are new: a pause, or a resume.                                    *)
LEMMA PauseWritten ==
  ASSUME NEW r \in RunRecord, NEW s \in RunStatus,
         NEW f \in RunStatus \cup {"none"}, NEW h \in BOOLEAN, NEW x,
         x = Repaused(r, s, f, h)
  PROVE  /\ x \in RunRecord /\ x.status = s /\ x.task = r.task
         /\ x.pausedFrom = f /\ Same(r, x)
<1>1. x \in RunRecord BY DEF Repaused, RunRecord
<1>2. /\ x.status = s /\ x.task = r.task /\ x.pausedFrom = f
      /\ SameMeters(r, x)
  BY DEF Repaused, RunRecord, SameMeters, SameCeilings
<1>3. SameHistory(r, x) /\ SameEvidence(r, x) /\ SameApproval(r, x)
  BY DEF Repaused, RunRecord, SameHistory, SameEvidence, SameApproval
<1> QED BY <1>1, <1>2, <1>3 DEF Same

LEMMA PausedFields ==
  ASSUME NEW r \in RunRecord, NEW s \in Paused
  PROVE  /\ PausedBy(r, s) \in RunRecord
         /\ PausedBy(r, s).status = s /\ PausedBy(r, s).task = r.task
         /\ PausedBy(r, s).pausedFrom = r.status /\ Same(r, PausedBy(r, s))
<1>1. s \in RunStatus /\ r.status \in RunStatus \cup {"none"}
  BY DEF RunStatus, RunRecord
<1>2. PausedBy(r, s) \in RunRecord BY <1>1 DEF PausedBy, RunRecord
<1>3. /\ PausedBy(r, s).status = s /\ PausedBy(r, s).task = r.task
      /\ PausedBy(r, s).pausedFrom = r.status /\ SameMeters(r, PausedBy(r, s))
  BY DEF PausedBy, RunRecord, SameMeters, SameCeilings
<1>4. /\ SameHistory(r, PausedBy(r, s)) /\ SameEvidence(r, PausedBy(r, s))
      /\ SameApproval(r, PausedBy(r, s))
  BY DEF PausedBy, RunRecord, SameHistory, SameEvidence, SameApproval
<1> QED BY <1>2, <1>3, <1>4 DEF Same

LEMMA StartedFields ==
  ASSUME NEW r \in RunRecord, NEW a \in Allocation, NEW x, x = Started(r, a)
  PROVE  /\ x \in RunRecord /\ x.status = r.status /\ x.task = r.task
         /\ x.pausedFrom = r.pausedFrom /\ x.runs = r.runs
         /\ x.repairs = r.repairs
         /\ Counted(r, x, a) /\ SameHistory(r, x)
         /\ SameEvidence(r, x) /\ SameApproval(r, x)
<1>1. DEFINE f == [r.usedAlloc EXCEPT ![a] = @ + 1]
             n == r.used + 1
<1>2. f \in [Allocation -> Nat] /\ n \in Nat BY DEF RunRecord
<1>3. x = [r EXCEPT !.used = n, !.usedAlloc = f] BY DEF Started
<1>4. x.usedAlloc = f /\ x.used = n
  <2> HIDE DEF f, n
  <2> QED BY <1>3, Zenon DEF RunRecord
<1>5. /\ x.ops = r.ops /\ x.alloc = r.alloc /\ x.maxFull = r.maxFull
      /\ x.fullRuns = r.fullRuns /\ x.runs = r.runs /\ x.repairs = r.repairs
      /\ x.status = r.status /\ x.task = r.task /\ x.pausedFrom = r.pausedFrom
  <2> HIDE DEF f, n
  <2> QED BY <1>3, Zenon DEF RunRecord
<1>6. SameHistory(r, x) /\ SameEvidence(r, x) /\ SameApproval(r, x)
  <2> HIDE DEF f, n
  <2> QED BY <1>3, Zenon DEF RunRecord, SameHistory, SameEvidence, SameApproval
<1>7. x \in RunRecord
  <2> HIDE DEF f, n
  <2> QED BY <1>2, <1>3, Zenon DEF RunRecord
<1> QED BY <1>4, <1>5, <1>6, <1>7 DEF Counted, SameCeilings

(* An attempt begins: n verification runs are spent on its baseline, m is  *)
(* the number of repairs.                                                  *)
LEMMA AttemptFields ==
  ASSUME NEW r \in RunRecord, NEW a \in Allocation,
         NEW n \in Nat, NEW x,
         \/ x = FirstAttempt(Started(r, a), n)
         \/ x = RepairAttempt(Started(r, a))
  PROVE  /\ x \in RunRecord /\ x.status = "executing" /\ x.task = "executing"
         /\ x.pausedFrom = r.pausedFrom
         /\ Counted(r, x, a) /\ SameEvidence(r, x) /\ SameApproval(r, x)
         /\ x.attempts = r.attempts + 1 /\ x.number = r.number
         /\ x.failures = r.failures
<1>1. DEFINE y == Started(r, a)
<1>2. /\ y \in RunRecord /\ y.pausedFrom = r.pausedFrom
      /\ Counted(r, y, a) /\ SameHistory(r, y)
      /\ SameEvidence(r, y) /\ SameApproval(r, y)
  BY StartedFields
<1> HIDE DEF y
<1>3. /\ y.attempts + 1 \in Nat /\ y.runs + n \in Nat /\ y.repairs + 1 \in Nat
  BY <1>2 DEF RunRecord
<1>4. "executing" \in RunStatus /\ "executing" \in TaskStatus
  BY DEF RunStatus, TaskStatus
<1>5. /\ x \in RunRecord
      /\ x.status = "executing" /\ x.task = "executing"
      /\ x.attempts = y.attempts + 1 /\ x.number = y.number
      /\ x.failures = y.failures /\ x.pausedFrom = y.pausedFrom
      /\ SameEvidence(y, x) /\ SameApproval(y, x) /\ SameMeters(y, x)
  <2>1. CASE x = FirstAttempt(y, n)
    <3>1. x \in RunRecord
      BY <1>2, <1>3, <1>4, <2>1 DEF FirstAttempt, RunRecord
    <3> QED
      BY <1>2, <2>1, <3>1
      DEF FirstAttempt, RunRecord, SameEvidence, SameApproval, SameMeters, SameCeilings
  <2>2. CASE x = RepairAttempt(y)
    <3>1. x \in RunRecord
      BY <1>2, <1>3, <1>4, <2>2 DEF RepairAttempt, RunRecord
    <3> QED
      BY <1>2, <2>2, <3>1
      DEF RepairAttempt, RunRecord, SameEvidence, SameApproval, SameMeters, SameCeilings
  <2> QED BY <2>1, <2>2 DEF y
<1> QED
  BY <1>2, <1>5
  DEF SameMeters, SameCeilings, Counted, SameHistory, SameEvidence, SameApproval

LEMMA ApproveFields ==
  ASSUME NEW r \in RunRecord, NEW x,
         x = [r EXCEPT !.status = "approved", !.task = "ready",
                       !.approved = r.revision]
  PROVE  /\ x \in RunRecord /\ x.status = "approved" /\ x.task = "ready"
         /\ x.pausedFrom = r.pausedFrom
         /\ SameMeters(r, x) /\ SameHistory(r, x) /\ SameEvidence(r, x)
         /\ x.revision = r.revision /\ x.approved = r.revision
<1>1. /\ "approved" \in RunStatus /\ "ready" \in TaskStatus
      /\ r.revision \in 0..MaxRevision
  BY SupervisedBounds DEF RunStatus, TaskStatus, RunRecord
<1>2. x \in RunRecord BY <1>1 DEF RunRecord
<1> QED
  BY <1>2 DEF RunRecord, SameMeters, SameCeilings, SameHistory, SameEvidence

LEMMA SpentFields ==
  ASSUME NEW r \in RunRecord, NEW n \in Nat, NEW m \in Nat,
         NEW y, y = Spent(r, n, m)
  PROVE  /\ y \in RunRecord /\ y.pausedFrom = r.pausedFrom
         /\ SameCeilings(r, y) /\ y.used = r.used /\ y.usedAlloc = r.usedAlloc
         /\ y.fullRuns = r.fullRuns + m
         /\ SameApproval(r, y) /\ SameHistory(r, y) /\ SameEvidence(r, y)
<1>1. r.runs + n \in Nat /\ r.fullRuns + m \in Nat BY DEF RunRecord
<1>2. y \in RunRecord BY <1>1 DEF Spent, RunRecord
<1> QED
  BY <1>2
  DEF Spent, RunRecord, SameCeilings, SameApproval, SameHistory, SameEvidence

LEMMA AcceptedFields ==
  ASSUME NEW y \in RunRecord, NEW s \in RunStatus, NEW t \in TaskStatus,
         NEW v \in {0} \cup Version, NEW x, x = Accepted(y, s, t, v)
  PROVE  /\ x \in RunRecord /\ x.status = s /\ x.task = t
         /\ x.verifiedAt = v /\ x.pausedFrom = y.pausedFrom
         /\ SameMeters(y, x) /\ SameApproval(y, x) /\ SameHistory(y, x)
         /\ x.decision = y.decision /\ x.reviewedAt = y.reviewedAt
<1>1. x \in RunRecord BY DEF Accepted, RunRecord
<1> QED
  BY <1>1
  DEF Accepted, RunRecord, SameMeters, SameCeilings, SameApproval, SameHistory

LEMMA RejectedFields ==
  ASSUME NEW y \in RunRecord, NEW s \in RunStatus, NEW t \in TaskStatus,
         NEW f \in SUBSET Signature, NEW x, x = Rejected(y, s, t, f)
  PROVE  /\ x \in RunRecord /\ x.status = s /\ x.task = t
         /\ x.failures = f /\ x.pausedFrom = y.pausedFrom
         /\ SameMeters(y, x) /\ SameApproval(y, x) /\ SameEvidence(y, x)
         /\ x.number = y.number /\ x.attempts = y.attempts
<1>1. x \in RunRecord BY DEF Rejected, RunRecord
<1> QED
  BY <1>1
  DEF Rejected, RunRecord, SameMeters, SameCeilings, SameApproval, SameEvidence

LEMMA ReviewFields ==
  ASSUME NEW r \in RunRecord, NEW x,
         x = [Started(r, "reviewer") EXCEPT !.status = "reviewing"]
  PROVE  /\ x \in RunRecord /\ x.status = "reviewing" /\ x.task = r.task
         /\ x.pausedFrom = r.pausedFrom
         /\ Counted(r, x, "reviewer") /\ SameHistory(r, x)
         /\ SameEvidence(r, x) /\ SameApproval(r, x)
<1>1. "reviewer" \in Allocation BY DEF Allocation
<1>2. PICK y : y = Started(r, "reviewer") OBVIOUS
<1>3. /\ y \in RunRecord /\ y.task = r.task
      /\ y.pausedFrom = r.pausedFrom
      /\ Counted(r, y, "reviewer") /\ SameHistory(r, y)
      /\ SameEvidence(r, y) /\ SameApproval(r, y)
  BY <1>1, <1>2, StartedFields
<1>4. x = [y EXCEPT !.status = "reviewing"] /\ "reviewing" \in RunStatus
  BY <1>2, Zenon DEF RunStatus
<1>5. x \in RunRecord BY <1>3, <1>4 DEF RunRecord
<1>6. /\ x.status = "reviewing" /\ x.task = y.task
      /\ x.pausedFrom = y.pausedFrom /\ Same(y, x)
  BY <1>3, <1>4
  DEF RunRecord, Same, SameMeters, SameCeilings, SameHistory, SameEvidence,
      SameApproval
<1> QED
  BY <1>3, <1>5, <1>6
  DEF Same, SameMeters, SameCeilings, Counted, SameHistory, SameEvidence,
      SameApproval

LEMMA DecidedFields ==
  ASSUME NEW r \in RunRecord, NEW d \in Decision, NEW v \in {0} \cup Version,
         NEW y, y = Decided(r, d, v)
  PROVE  /\ y \in RunRecord /\ y.task = r.task /\ y.pausedFrom = r.pausedFrom
         /\ SameMeters(r, y) /\ SameHistory(r, y) /\ SameApproval(r, y)
         /\ y.decision = d /\ y.reviewedAt = v /\ y.verifiedAt = r.verifiedAt
<1>1. y \in RunRecord BY DEF Decided, RunRecord
<1> QED
  BY <1>1
  DEF Decided, RunRecord, SameMeters, SameCeilings, SameHistory, SameApproval

LEMMA MovedRunFields ==
  ASSUME NEW y \in RunRecord, NEW s \in RunStatus, NEW x, x = MovedRun(y, s)
  PROVE  /\ x \in RunRecord /\ x.status = s /\ x.task = y.task
         /\ x.pausedFrom = y.pausedFrom /\ Same(y, x)
<1>1. x \in RunRecord BY DEF MovedRun, RunRecord
<1>2. /\ x.status = s /\ x.task = y.task /\ x.pausedFrom = y.pausedFrom
      /\ SameMeters(y, x)
  BY DEF MovedRun, RunRecord, SameMeters, SameCeilings
<1>3. SameHistory(y, x) /\ SameEvidence(y, x) /\ SameApproval(y, x)
  BY DEF MovedRun, RunRecord, SameHistory, SameEvidence, SameApproval
<1> QED BY <1>1, <1>2, <1>3 DEF Same

LEMMA AdvancedFields ==
  ASSUME NEW r \in RunRecord, NEW plan \in Plan,
         r.number < MaxNumber, r.revision < MaxRevision,
         NEW x, x = AdvancedRun(r, plan)
  PROVE  /\ x \in RunRecord /\ SameMeters(r, x)
         /\ x.task = "proposed" /\ x.number = r.number + 1
         /\ x.attempts = 0 /\ x.decision = "none"
         /\ \/ r.status \in Paused /\ x.status = r.status
               /\ x.pausedFrom = "proposed"
            \/ r.status \notin Paused /\ x.status = "proposed"
               /\ x.pausedFrom = "none"
<1>1. PICK s, f : /\ s = IF r.status \in Paused THEN r.status ELSE "proposed"
                  /\ f = IF r.status \in Paused THEN "proposed" ELSE "none"
  OBVIOUS
<1>2. s \in RunStatus /\ f \in RunStatus \cup {"none"}
  BY <1>1 DEF RunStatus, RunRecord
<1>3. /\ r.number + 1 \in 1..MaxNumber /\ r.revision + 1 \in 1..MaxRevision
      /\ 0 \in 0..MaxRevision /\ "proposed" \in TaskStatus
      /\ "none" \in Decision /\ 0 \in Nat /\ 0 \in {0} \cup Version
      /\ {} \in SUBSET Signature
  BY SupervisedBounds DEF RunRecord, TaskStatus, Decision
<1>4. PICK n, m : n = r.number + 1 /\ m = r.revision + 1 OBVIOUS
<1>5. PICK y : y = [r EXCEPT !.status = s, !.task = "proposed", !.number = n,
                     !.revision = m, !.approved = 0, !.plan = plan]
  OBVIOUS
<1>6. PICK e : e = {} OBVIOUS
<1>7. PICK z : z = [y EXCEPT !.attempts = 0, !.repairs = 0, !.failures = e]
  OBVIOUS
<1>8. PICK o, d : o = 0 /\ d = "none" OBVIOUS
<1>9. x = [z EXCEPT !.verifiedAt = o, !.decision = d, !.reviewedAt = o,
                    !.pausedFrom = f]
  BY <1>1, <1>5, <1>4, <1>7, <1>6, <1>8, Zenon DEF AdvancedRun
<1>10. n \in 1..MaxNumber /\ m \in 1..MaxRevision BY <1>4, <1>3
<1>11. y \in RunRecord BY <1>2, <1>3, <1>5, <1>10 DEF RunRecord
<1>12. /\ SameMeters(r, y) /\ y.task = "proposed" /\ y.number = n
      /\ y.status = s
  BY <1>2, <1>3, <1>5, <1>10 DEF RunRecord, SameMeters, SameCeilings
<1>13. e \in SUBSET Signature BY <1>6
<1>14. z \in RunRecord BY <1>13, <1>11, <1>7 DEF RunRecord
<1>15. /\ SameMeters(y, z) /\ z.task = y.task /\ z.number = y.number
      /\ z.attempts = 0 /\ z.status = y.status
  BY <1>3, <1>11, <1>7 DEF RunRecord, SameMeters, SameCeilings
<1>16. o \in {0} \cup Version /\ d \in Decision BY <1>3, <1>8
<1>17. x \in RunRecord BY <1>2, <1>16, <1>9, <1>14, ZenonT(60) DEF RunRecord
<1>18. /\ SameMeters(z, x) /\ x.task = z.task /\ x.number = z.number
      /\ x.attempts = z.attempts /\ x.decision = d
      /\ x.status = z.status /\ x.pausedFrom = f
  BY <1>2, <1>9, <1>14 DEF RunRecord, SameMeters, SameCeilings
<1> QED BY <1>1, <1>4, <1>8, <1>12, <1>15, <1>17, <1>18 DEF SameMeters, SameCeilings

LEMMA RevisedFields ==
  ASSUME NEW r \in RunRecord, NEW plan \in Plan, r.revision < MaxRevision,
         NEW x, x = Revised(r, plan)
  PROVE  /\ x \in RunRecord /\ SameMeters(r, x) /\ SameHistory(r, x)
         /\ SameEvidence(r, x) /\ x.task = "proposed"
         /\ x.status = "proposed" /\ x.pausedFrom = r.pausedFrom
<1>1. /\ r.revision + 1 \in 1..MaxRevision /\ 0 \in 0..MaxRevision
      /\ "proposed" \in TaskStatus /\ "proposed" \in RunStatus
  BY SupervisedBounds DEF RunRecord, TaskStatus, RunStatus
<1>2. PICK y : y = Moved(r, "proposed", "proposed") OBVIOUS
<1>3. /\ y \in RunRecord /\ y.status = "proposed" /\ y.task = "proposed"
      /\ y.pausedFrom = r.pausedFrom /\ Same(r, y)
  BY <1>1, <1>2, StatusWritten
<1>4. PICK n, m : n = r.revision + 1 /\ m = 0 OBVIOUS
<1>5. x = [y EXCEPT !.revision = n, !.approved = m, !.plan = plan]
  BY <1>2, <1>4 DEF Revised, Moved
<1>6. n \in 1..MaxRevision /\ m \in 0..MaxRevision BY <1>1, <1>4
<1>7. x \in RunRecord BY <1>3, <1>5, <1>6 DEF RunRecord
<1>8. /\ SameMeters(y, x) /\ SameHistory(y, x) /\ SameEvidence(y, x)
      /\ x.task = y.task /\ x.status = y.status
      /\ x.pausedFrom = y.pausedFrom
  BY <1>3, <1>5, <1>6
  DEF RunRecord, SameMeters, SameCeilings, SameHistory, SameEvidence
<1> QED
  BY <1>3, <1>7, <1>8
  DEF Same, SameMeters, SameCeilings, SameHistory, SameEvidence

(* A ceiling is raised: on the operations of allocation a, or, with the    *)
(* same operations, on a verification.                                     *)
LEMMA RaisedFields ==
  ASSUME NEW r \in RunRecord, NEW a \in Allocation, NEW x,
         x = Raised(r, a)
  PROVE  /\ x \in RunRecord /\ x.status = r.status /\ x.task = r.task
         /\ x.pausedFrom = r.pausedFrom
         /\ x.ops = r.ops + 1 /\ x.alloc = [r.alloc EXCEPT ![a] = @ + 1]
         /\ x.used = r.used /\ x.usedAlloc = r.usedAlloc
         /\ x.maxFull = r.maxFull /\ x.fullRuns = r.fullRuns
         /\ SameHistory(r, x) /\ SameEvidence(r, x) /\ SameApproval(r, x)
<1>1. DEFINE f == [r.alloc EXCEPT ![a] = @ + 1]
             n == r.ops + 1
<1>2. f \in [Allocation -> Nat] /\ n \in Nat BY DEF RunRecord
<1>3. x = [r EXCEPT !.ops = n, !.alloc = f] BY DEF Raised
<1>4. /\ x \in RunRecord /\ x.ops = n /\ x.alloc = f
      /\ x.status = r.status /\ x.task = r.task /\ x.pausedFrom = r.pausedFrom
      /\ x.used = r.used /\ x.usedAlloc = r.usedAlloc
      /\ x.maxFull = r.maxFull /\ x.fullRuns = r.fullRuns
      /\ SameHistory(r, x) /\ SameEvidence(r, x) /\ SameApproval(r, x)
  <2> HIDE DEF f, n
  <2>1. x \in RunRecord BY <1>2, <1>3 DEF RunRecord
  <2> QED
    BY <1>2, <1>3, <2>1
    DEF RunRecord, SameHistory, SameEvidence, SameApproval
<1> QED BY <1>4

LEMMA VerificationRaisedFields ==
  ASSUME NEW r \in RunRecord, NEW x,
         VerificationRaised(r, x)
  PROVE  /\ x \in RunRecord /\ x.status = r.status /\ x.task = r.task
         /\ x.pausedFrom = r.pausedFrom
         /\ x.ops = r.ops /\ x.alloc = r.alloc
         /\ x.used = r.used /\ x.usedAlloc = r.usedAlloc
         /\ x.maxFull >= r.maxFull /\ x.fullRuns = r.fullRuns
         /\ SameHistory(r, x) /\ SameEvidence(r, x) /\ SameApproval(r, x)
<1>1. r.maxRuns + 1 \in Nat /\ r.maxFull + 1 \in Nat /\ r.maxFull \in Nat
  BY DEF RunRecord
<1>2. CASE x = [r EXCEPT !.maxRuns = @ + 1]
  <2>1. x \in RunRecord BY <1>1, <1>2 DEF RunRecord
  <2> QED
    BY <1>1, <1>2, <2>1
    DEF RunRecord, SameHistory, SameEvidence, SameApproval
<1>3. CASE x = [r EXCEPT !.maxFull = @ + 1]
  <2>1. x \in RunRecord BY <1>1, <1>3 DEF RunRecord
  <2> QED
    BY <1>1, <1>3, <2>1
    DEF RunRecord, SameHistory, SameEvidence, SameApproval
<1> QED BY <1>2, <1>3 DEF VerificationRaised

-----------------------------------------------------------------------------
(* The files and the processes. *)

LEMMA Write1 ==
  ASSUME NEW a, WriteFiles(<<a>>)
  PROVE  /\ worktree' = a.worktree /\ ownership' = a.ownership
         /\ run' = a.run /\ crashes' = crashes
BY DEF WriteFiles

LEMMA Write2 ==
  ASSUME NEW a, NEW b, WriteFiles(<<a, b>>)
  PROVE  \/ /\ worktree' = b.worktree /\ ownership' = b.ownership
            /\ run' = b.run /\ crashes' = crashes
         \/ /\ worktree' = a.worktree /\ ownership' = a.ownership
            /\ run' = a.run /\ crashes < MaxCrashes /\ crashes' = crashes + 1
BY DEF WriteFiles

LEMMA Write3 ==
  ASSUME NEW a, NEW b, NEW c, WriteFiles(<<a, b, c>>)
  PROVE  \/ /\ worktree' = c.worktree /\ ownership' = c.ownership
            /\ run' = c.run /\ crashes' = crashes
         \/ /\ \/ /\ worktree' = a.worktree /\ ownership' = a.ownership
                  /\ run' = a.run
               \/ /\ worktree' = b.worktree /\ ownership' = b.ownership
                  /\ run' = b.run
            /\ crashes < MaxCrashes /\ crashes' = crashes + 1
BY DEF WriteFiles

(* Process p enters step s with the run m in memory; it leaves.            *)
Enters(p, s, m, v) ==
  /\ \A q \in Proc : q # p => job'[q] = job[q]
  /\ job'[p].step = s /\ job'[p].run = m /\ job'[p].tree = v

Leaves(p) ==
  /\ \A q \in Proc : q # p => job'[q] = job[q]
  /\ job'[p].step = "idle"

LEMMA ProposedType ==
  ASSUME NEW g \in Profile, NEW q \in Plan
  PROVE  ProposedRun(g, q) \in RunRecord
<1>1. /\ g.ops \in Nat /\ g.alloc \in [Allocation -> Nat]
      /\ g.maxRepairs \in Nat /\ g.maxRuns \in Nat /\ g.maxFull \in Nat
  BY ProfileAssumption DEF ValidProfile
<1>2. /\ 1 \in 1..MaxNumber /\ 1 \in 1..MaxRevision /\ 0 \in 0..MaxRevision
      /\ {} \in SUBSET Signature /\ 0 \in {0} \cup Version
      /\ [a \in Allocation |-> 0] \in [Allocation -> Nat]
      /\ "proposed" \in RunStatus /\ "proposed" \in TaskStatus
      /\ "none" \in Decision /\ "none" \in RunStatus \cup {"none"}
      /\ 0 \in Nat /\ FALSE \in BOOLEAN
  BY SupervisedBounds DEF RunStatus, TaskStatus, Decision
<1> QED BY <1>1, <1>2, Zenon DEF ProposedRun, RunRecord

LEMMA IdleType == Idle \in JobRecord
<1>1. PICK f \in Profile, plan \in Plan : Fits(f, plan) BY PlanAssumption
<1>2. /\ (CHOOSE g \in Profile : TRUE) \in Profile
      /\ (CHOOSE q \in Plan : TRUE) \in Plan
  BY <1>1
<1> QED BY <1>2, ProposedType DEF Idle, JobRecord

LEMMA Entered ==
  ASSUME job \in [Proc -> JobRecord], NEW p \in Proc,
         NEW s \in {"baseline", "implementing", "repairing", "verifying",
                    "reviewing"},
         NEW m \in RunRecord, NEW v \in {0} \cup Version, Enter(p, s, m, v)
  PROVE  job' \in [Proc -> JobRecord] /\ Enters(p, s, m, v)
<1>1. PICK j : j = [step |-> s, run |-> m, tree |-> v] OBVIOUS
<1>2. j \in JobRecord /\ j.step = s /\ j.run = m /\ j.tree = v
  BY <1>1 DEF JobRecord
<1>3. job' = [job EXCEPT ![p] = j] BY <1>1 DEF Enter
<1> QED BY <1>2, <1>3 DEF Enters

LEMMA Left ==
  ASSUME job \in [Proc -> JobRecord], NEW p \in Proc, Leave(p)
  PROVE  job' \in [Proc -> JobRecord] /\ Leaves(p)
<1>1. Idle.step = "idle" BY DEF Idle
<1> QED BY <1>1, IdleType DEF Leave, Leaves

-----------------------------------------------------------------------------
(* What the steps of Next do to run.json and to the memory of a process.   *)

Kept == run' = run /\ spent' = spent

(* A write that was cut short, an edit, a kill: run.json stays.            *)
Quiet == Kept /\ (job' = job \/ \E p \in Proc : Leaves(p))

Room(r, a) == r.usedAlloc[a] < r.alloc[a]

(* The checkpoint the process takes up has its worktree. *)
AtHome ==
  /\ worktree'.exists /\ ownership'.number = run.number
  /\ ownership'.status \in {"active", "verified"}

LoadsToWork(p) ==
  /\ job[p].step = "idle" /\ run.status = "approved" /\ run.task = "ready"
  /\ Room(run, "implementation")
  /\ Enters(p, "baseline", run, 0) /\ Kept /\ AtHome

LoadsToVerify(p) ==
  /\ job[p].step = "idle" /\ run.status = "verifying"
  /\ run.task = "awaiting-verification" /\ ~OverVerification(run)
  /\ Enters(p, "verifying", run, worktree.version) /\ Kept /\ AtHome

(* The attempt that the record x begins after r, on allocation a. *)
Attempted(r, x, a) ==
  /\ x.status = "executing" /\ x.task = "executing"
  /\ x.pausedFrom = r.pausedFrom
  /\ Counted(r, x, a) /\ SameEvidence(r, x) /\ SameApproval(r, x)
  /\ x.attempts = r.attempts + 1 /\ x.number = r.number
  /\ x.failures = r.failures

BeginsWork(p) ==
  /\ job[p].step = "baseline"
  /\ Attempted(job[p].run, run', "implementation")
  /\ Enters(p, "implementing", run', 0) /\ spent' = spent + 1

BeginsRepair(p) ==
  /\ job[p].step = "idle" /\ run.status = "needs-repair"
  /\ run.task = "repair-ready" /\ Room(run, "repair")
  /\ Attempted(run, run', "repair")
  /\ Enters(p, "repairing", run', 0) /\ spent' = spent + 1 /\ AtHome

EndsWork(p) ==
  /\ job[p].step \in {"implementing", "repairing"}
  /\ Same(job[p].run, run') /\ run'.pausedFrom = job[p].run.pausedFrom
  /\ \/ run'.status = "verifying" /\ run'.task = "awaiting-verification"
     \/ run'.status = "blocked" /\ run'.task = "blocked"
  /\ Leaves(p) /\ spent' = spent

(* n full commands have run. *)
Verifies(r, x, n) ==
  /\ x.pausedFrom = r.pausedFrom /\ SameCeilings(r, x)
  /\ x.used = r.used /\ x.usedAlloc = r.usedAlloc
  /\ n \in {0, r.plan.full} /\ x.fullRuns = r.fullRuns + n
  /\ SameApproval(r, x) /\ x.number = r.number /\ x.attempts = r.attempts
  /\ x.decision = r.decision /\ x.reviewedAt = r.reviewedAt

VerifiesWell(p) ==
  /\ job[p].step = "verifying"
  /\ \E n \in Nat : Verifies(job[p].run, run', n)
  /\ run'.failures = job[p].run.failures
  /\ run'.status = "checkpoint-complete" /\ run'.task = "verified"
  /\ run'.verifiedAt = job[p].tree
  /\ Leaves(p) /\ spent' = spent

VerifiesBadly(p) ==
  /\ job[p].step = "verifying"
  /\ \E n \in Nat : Verifies(job[p].run, run', n)
  /\ job[p].run.failures \subseteq run'.failures
  /\ run'.verifiedAt = job[p].run.verifiedAt
  /\ \/ run'.status = "needs-repair" /\ run'.task = "repair-ready"
     \/ run'.status = "blocked" /\ run'.task = "blocked"
  /\ Leaves(p) /\ spent' = spent

LoadsToReview(p) ==
  /\ job[p].step = "idle" /\ run.status = "checkpoint-complete"
  /\ run.task = "verified" /\ Room(run, "reviewer")
  /\ run'.status = "reviewing" /\ run'.task = "verified"
  /\ run'.pausedFrom = run.pausedFrom
  /\ Counted(run, run', "reviewer") /\ SameHistory(run, run')
  /\ SameEvidence(run, run') /\ SameApproval(run, run')
  /\ Enters(p, "reviewing", run', worktree.version) /\ spent' = spent + 1
  /\ AtHome

Judges(p) ==
  /\ job[p].step = "reviewing"
  /\ run'.pausedFrom = job[p].run.pausedFrom
  /\ SameMeters(job[p].run, run') /\ SameHistory(job[p].run, run')
  /\ SameApproval(job[p].run, run')
  /\ run'.verifiedAt = job[p].run.verifiedAt
  /\ run'.reviewedAt = job[p].tree
  /\ \/ /\ run'.decision = "PASS" /\ run'.status = "review-passed"
        /\ run'.task = job[p].run.task
     \/ /\ run'.decision # "PASS" /\ run'.status = "needs-repair"
        /\ run'.task = "repair-ready"
     \/ run'.status = "blocked" /\ run'.task = "blocked"
  /\ Leaves(p) /\ spent' = spent

(* The short commands, which leave the memories alone. *)
ShortMove == job' = job /\ spent' = spent

IsPaused ==
  /\ run.status \notin {"completed", "cancelled", "abandoned"}
  /\ run'.status \in Paused /\ run'.pausedFrom = run.status
  /\ run'.task = run.task /\ Same(run, run') /\ ShortMove

IsResumed ==
  /\ run.status \in Paused /\ run'.status = run.pausedFrom
  /\ run'.pausedFrom \in {"none"} \cup Paused
  /\ run.pausedFrom \in Paused => run'.pausedFrom = run.pausedFrom
  /\ run'.task = run.task /\ Same(run, run') /\ ShortMove

IsApproved ==
  /\ run.status = "proposed" /\ run.task = "proposed"
  /\ run'.status = "approved" /\ run'.task = "ready"
  /\ run'.pausedFrom = run.pausedFrom
  /\ run'.revision = run.revision /\ run'.approved = run.revision
  /\ SameMeters(run, run') /\ SameHistory(run, run') /\ SameEvidence(run, run')
  /\ ShortMove

IsShown ==
  /\ run.status = "review-passed" /\ run.task = "verified"
  /\ run'.status = "ready-to-finalize" /\ run'.task = "verified"
  /\ run'.pausedFrom = run.pausedFrom /\ Same(run, run') /\ ShortMove

IsDelivered ==
  /\ Finalizable
  /\ run'.status = "completed" /\ run'.task = "completed"
  /\ run'.pausedFrom = run.pausedFrom /\ Same(run, run') /\ ShortMove
  /\ worktree' = worktree
  /\ ownership' = [ownership EXCEPT !.status = "released"]

IsAdvanced ==
  /\ AtCheckpointBoundary(run)
  /\ SameMeters(run, run') /\ run'.task = "proposed"
  /\ run'.number = run.number + 1
  /\ run'.attempts = 0 /\ run'.decision = "none"
  /\ \/ run'.status \in Paused /\ run'.pausedFrom = "proposed"
     \/ run'.status = "proposed" /\ run'.pausedFrom = "none"
  /\ ShortMove

IsRevised ==
  /\ run.status \in {"proposed", "approved"} /\ run.attempts = 0
  /\ run'.status = "proposed" /\ run'.task = "proposed"
  /\ run'.pausedFrom = run.pausedFrom
  /\ SameMeters(run, run') /\ SameHistory(run, run') /\ SameEvidence(run, run')
  /\ ShortMove

(* A ceiling is raised. *)
IsRaised ==
  /\ run.status # "completed"
  /\ run'.status = run.status /\ run'.task = run.task
  /\ run'.pausedFrom = run.pausedFrom
  /\ run'.used = run.used /\ run'.usedAlloc = run.usedAlloc
  /\ run'.fullRuns = run.fullRuns /\ run'.maxFull >= run.maxFull
  /\ \/ run'.ops = run.ops /\ run'.alloc = run.alloc
     \/ /\ run'.ops = run.ops + 1
        /\ \E a \in Allocation : run'.alloc = [run.alloc EXCEPT ![a] = @ + 1]
  /\ SameHistory(run, run') /\ SameEvidence(run, run')
  /\ SameApproval(run, run') /\ ShortMove

(* Rolled back, cancelled, abandoned or blocked. *)
IsClosed ==
  /\ run.status \notin Terminal
  /\ run'.status \in {"rolled-back", "cancelled", "abandoned", "blocked"}
  /\ run'.task = run'.status
  /\ run'.pausedFrom = run.pausedFrom /\ Same(run, run') /\ ShortMove

ProcessMoves(p) ==
  \/ LoadsToWork(p) \/ LoadsToVerify(p) \/ LoadsToReview(p)
  \/ BeginsWork(p) \/ BeginsRepair(p) \/ EndsWork(p)
  \/ VerifiesWell(p) \/ VerifiesBadly(p) \/ Judges(p)

Controlled ==
  \/ IsPaused \/ IsResumed \/ IsApproved \/ IsShown \/ IsDelivered
  \/ IsAdvanced \/ IsRevised \/ IsRaised \/ IsClosed

Moves == Quiet \/ (\E p \in Proc : ProcessMoves(p)) \/ Controlled

(* A checkpoint gets its worktree: made for it, or taken over.             *)
TakesOver ==
  /\ worktree'.exists = TRUE /\ worktree'.head = worktree.head
  /\ worktree'.version = worktree.version /\ worktree'.reset = worktree.reset
  /\ \/ run.number = 1 /\ ~worktree.exists /\ ownership' \in {ownership, Owned(run)}
     \/ /\ worktree.exists /\ ownership.status = "released"
        /\ worktree.head = run.number - 1 /\ ownership' = Owned(run)

(* What resume needs: a paused run knows where it was.                     *)
PauseKnown == run.status \in Paused => run.pausedFrom # "none"

Typed == TypeOK /\ PauseKnown

(* One step: the state stays in its types and run.json moves as above.     *)
Good == TypeOK' /\ Moves

-----------------------------------------------------------------------------
(* Every action is one of these moves, and keeps the types. *)

(* What the types say of the state, and of a process that is at work.      *)
LEMMA Types ==
  ASSUME TypeOK
  PROVE  /\ run \in RunRecord /\ job \in [Proc -> JobRecord]
         /\ run.status \in RunStatus /\ run.task \in TaskStatus
         /\ run.plan \in Plan /\ run.plan.targeted \in Nat
         /\ run.plan.full \in Nat
         /\ run.pausedFrom \in RunStatus \cup {"none"}
         /\ worktree.version \in Version /\ worktree.version \in {0} \cup Version
         /\ \A p \in Proc : /\ job[p].run \in RunRecord
                            /\ job[p].run.plan.targeted \in Nat
                            /\ job[p].run.plan.full \in Nat
                            /\ job[p].run.status \in RunStatus
                            /\ job[p].run.task \in TaskStatus
                            /\ job[p].run.failures \subseteq Signature
                            /\ job[p].tree \in {0} \cup Version
<1>1. \A m \in RunRecord : /\ m.plan \in Plan /\ m.status \in RunStatus
                           /\ m.task \in TaskStatus
                           /\ m.failures \subseteq Signature
                           /\ m.pausedFrom \in RunStatus \cup {"none"}
  BY DEF RunRecord
<1>2. \A q \in Plan : q.targeted \in Nat /\ q.full \in Nat
  BY PlanAssumption
<1>3. \A p \in Proc : job[p].run \in RunRecord /\ job[p].tree \in {0} \cup Version
  BY DEF TypeOK, JobRecord
<1>4. worktree.version \in Version BY DEF TypeOK, WorktreeRecord
<1> QED BY <1>1, <1>2, <1>3, <1>4 DEF TypeOK

LEMMA RefuseStep ==
  ASSUME Typed, NEW a \in Allocation, RefuseOperation(a),
         run.status \notin {"completed", "cancelled", "abandoned"}
  PROVE  TypeOK' /\ IsPaused
<1> USE DEF Typed
<1>1. PICK s : /\ s = IF run.hostLimit THEN "paused-host-limit" ELSE PauseStatus(run)
               /\ s \in Paused
  BY DEF PauseStatus, Paused, BudgetPause
<1>2. run' = PausedBy(run, s) /\ UNCHANGED <<ownership, worktree, crashes>>
  BY <1>1 DEF RefuseOperation, WriteRun
<1>3. UNCHANGED <<job, spent, expired>> BY DEF RefuseOperation, Short
<1>4. /\ run' \in RunRecord /\ run'.status = s /\ run'.task = run.task
      /\ run'.pausedFrom = run.status /\ Same(run, run')
  BY <1>1, <1>2, Types, PausedFields
<1> QED BY <1>1, <1>2, <1>3, <1>4 DEF TypeOK, IsPaused, ShortMove

LEMMA OwnedFields ==
  Owned(run).status = "active" /\ Owned(run).number = run.number
BY DEF Owned

LEMMA TakeWorktreeStep ==
  ASSUME Typed, TakeWorktree
  PROVE  /\ run' = run /\ ownership' \in OwnershipRecord
         /\ worktree' \in WorktreeRecord /\ crashes' \in 0..MaxCrashes
         /\ TakesOver /\ (crashes' = crashes => AtHome)
<1> USE DEF Typed
<1>0. PICK made : made = [worktree EXCEPT !.exists = TRUE] OBVIOUS
<1>1. /\ made \in WorktreeRecord /\ made.exists = TRUE
      /\ made.head = worktree.head /\ made.version = worktree.version
      /\ made.reset = worktree.reset
  <2>1. worktree \in WorktreeRecord BY DEF TypeOK
  <2>2. made \in WorktreeRecord BY <1>0, <2>1, Zenon DEF WorktreeRecord
  <2> QED BY <1>0, <2>1, <2>2, Zenon DEF WorktreeRecord
<1>2. Owned(run) \in OwnershipRecord
  <2>1. run.number \in 0..MaxNumber BY Types DEF RunRecord
  <2> QED BY <2>1 DEF Owned, OwnershipRecord
<1>3. /\ crashes \in 0..MaxCrashes /\ crashes + 1 # crashes
      /\ crashes < MaxCrashes => crashes + 1 \in 0..MaxCrashes
  BY SupervisedBounds DEF TypeOK
<1>4. CASE /\ run.number = 1 /\ ~worktree.exists
           /\ WriteFiles(<<Files(made, ownership, run),
                           Files(made, Owned(run), run)>>)
  <2>1. PICK a, b : a = Files(made, ownership, run) /\ b = Files(made, Owned(run), run)
    OBVIOUS
  <2>2. /\ a.worktree = made /\ a.ownership = ownership /\ a.run = run
        /\ b.worktree = made /\ b.ownership = Owned(run) /\ b.run = run
    BY <2>1 DEF Files
  <2>3. WriteFiles(<<a, b>>) BY <1>4, <2>1
  <2>4. \/ /\ worktree' = made /\ ownership' = Owned(run)
           /\ run' = run /\ crashes' = crashes
        \/ /\ worktree' = made /\ ownership' = ownership
           /\ run' = run /\ crashes < MaxCrashes /\ crashes' = crashes + 1
    BY <2>2, <2>3, Write2
  <2> QED
    BY <1>1, <1>2, <1>3, <1>4, <2>4, OwnedFields DEF TypeOK, TakesOver, AtHome
<1>5. CASE /\ ownership.status = "released" /\ worktree.exists
           /\ worktree.head = run.number - 1
           /\ WriteFiles(<<Files(worktree, Owned(run), run)>>)
  <2>1. PICK a : a = Files(worktree, Owned(run), run) OBVIOUS
  <2>2. a.worktree = worktree /\ a.ownership = Owned(run) /\ a.run = run
    BY <2>1 DEF Files
  <2>3. WriteFiles(<<a>>) BY <1>5, <2>1
  <2>4. /\ worktree' = worktree /\ ownership' = Owned(run)
        /\ run' = run /\ crashes' = crashes
    BY <2>2, <2>3, Write1
  <2> QED
    BY <1>2, <1>3, <1>5, <2>4, OwnedFields DEF TypeOK, TakesOver, AtHome
<1> QED BY <1>0, <1>4, <1>5 DEF TakeWorktree

LEMMA ExecuteStep ==
  ASSUME Typed, NEW p \in Proc, Execute(p)
  PROVE  TypeOK' /\ (IsPaused \/ LoadsToWork(p) \/ Quiet)
<1> USE DEF Typed
<1>1. "implementation" \in Allocation BY DEF Allocation
<1>2. CASE RefuseOperation("implementation")
  BY <1>1, <1>2, RefuseStep DEF Execute
<1>3. CASE /\ Allowed(run, "implementation") /\ TakeWorktree
           /\ IF crashes' = crashes THEN Enter(p, "baseline", run, 0)
              ELSE UNCHANGED job
           /\ UNCHANGED <<spent, expired>>
  <2>1. /\ run' = run /\ ownership' \in OwnershipRecord
        /\ worktree' \in WorktreeRecord /\ crashes' \in 0..MaxCrashes
        /\ crashes' = crashes => AtHome
    BY <1>3, TakeWorktreeStep
  <2>2. CASE crashes' = crashes /\ Enter(p, "baseline", run, 0)
    <3>1. job' \in [Proc -> JobRecord] /\ Enters(p, "baseline", run, 0)
      BY <2>2, Types, Entered
    <3>2. Room(run, "implementation")
      <4>1. run.usedAlloc["implementation"] \in Nat /\ run.alloc["implementation"] \in Nat
        BY <1>1, Types DEF RunRecord
      <4> QED BY <1>3, <4>1 DEF Allowed, Exhausted, Room
    <3> QED BY <1>3, <2>1, <2>2, <3>1, <3>2 DEF Execute, LoadsToWork, Kept, TypeOK
  <2>3. CASE UNCHANGED job
    BY <1>3, <2>1, <2>3 DEF Quiet, Kept, TypeOK
  <2> QED BY <1>3, <2>2, <2>3
<1> QED BY <1>2, <1>3 DEF Execute

LEMMA BeginStep ==
  ASSUME Typed, NEW p \in Proc, BeginImplementation(p)
  PROVE  TypeOK' /\ BeginsWork(p)
<1> USE DEF Typed
<1>1. PICK m, n, x :
        /\ m = job[p].run /\ n = m.plan.targeted
        /\ x = FirstAttempt(Started(m, "implementation"), n)
  OBVIOUS
<1>2. /\ job[p].step = "baseline" /\ WriteRun(x)
      /\ Enter(p, "implementing", x, 0)
      /\ spent' = spent + 1 /\ UNCHANGED expired
  BY <1>1, Zenon DEF BeginImplementation, FirstAttempt
<1>3. m \in RunRecord /\ n \in Nat /\ 0 \in Nat /\ "implementation" \in Allocation
  BY <1>1, Types DEF Allocation
<1>4. x \in RunRecord /\ Attempted(m, x, "implementation")
  BY <1>1, <1>3, AttemptFields DEF Attempted
<1>5. job' \in [Proc -> JobRecord] /\ Enters(p, "implementing", x, 0)
  BY <1>2, <1>4, Types, Entered
<1> QED
  BY <1>1, <1>2, <1>4, <1>5 DEF WriteRun, BeginsWork, TypeOK

LEMMA RetryStep ==
  ASSUME Typed, NEW p \in Proc, Retry(p)
  PROVE  TypeOK' /\ (IsPaused \/ BeginsRepair(p))
<1> USE DEF Typed
<1>1. "repair" \in Allocation /\ 0 \in Nat BY DEF Allocation
<1>2. CASE RefuseOperation("repair")
  BY <1>1, <1>2, RefuseStep DEF Retry
<1>3. PICK x : x = RepairAttempt(Started(run, "repair")) OBVIOUS
<1>4. CASE /\ Allowed(run, "repair") /\ WriteRun(x)
           /\ Owns("active", run) /\ worktree.exists
           /\ Enter(p, "repairing", x, 0)
           /\ spent' = spent + 1 /\ UNCHANGED expired
  <2>1. x \in RunRecord /\ Attempted(run, x, "repair")
    BY <1>1, <1>3, Types, AttemptFields DEF Attempted
  <2>2. job' \in [Proc -> JobRecord] /\ Enters(p, "repairing", x, 0)
    BY <1>4, <2>1, Types, Entered
  <2>3. Room(run, "repair")
    <3>1. run.usedAlloc["repair"] \in Nat /\ run.alloc["repair"] \in Nat
      BY <1>1, Types DEF RunRecord
    <3> QED BY <1>4, <3>1 DEF Allowed, Exhausted, Room
  <2>4. AtHome BY <1>4 DEF WriteRun, AtHome, Owns
  <2> QED
    BY <1>4, <2>1, <2>2, <2>3, <2>4 DEF Retry, WriteRun, BeginsRepair, TypeOK
<1> QED BY <1>2, <1>3, <1>4, Zenon DEF Retry, RepairAttempt

LEMMA EditStep ==
  ASSUME Typed, NEW p \in Proc, Edit(p)
  PROVE  TypeOK' /\ Quiet
<1> USE DEF Typed
<1>1. PICK n, v : n = worktree.edits + 1 /\ v = worktree.edits + 2 OBVIOUS
<1>2. n \in 0..MaxVersion /\ v \in Version
  BY <1>1, SupervisedBounds DEF TypeOK, WorktreeRecord, Edit, Version
<1>3. worktree' = [worktree EXCEPT !.edits = n, !.version = v]
  BY <1>1, Zenon DEF Edit
<1>4. worktree \in WorktreeRecord BY DEF TypeOK
<1>5. worktree' \in WorktreeRecord
  BY <1>2, <1>3, <1>4, Zenon DEF WorktreeRecord
<1> QED BY <1>5 DEF Edit, TypeOK, Quiet, Kept

LEMMA FinishWorkStep ==
  ASSUME Typed, NEW p \in Proc, NEW ok \in BOOLEAN, FinishWork(p, ok)
  PROVE  TypeOK' /\ EndsWork(p)
<1> USE DEF Typed
<1>1. PICK s, t : /\ s = IF ok THEN "verifying" ELSE "blocked"
                  /\ t = IF ok THEN "awaiting-verification" ELSE "blocked"
  OBVIOUS
<1>2. s \in RunStatus /\ t \in TaskStatus BY <1>1 DEF RunStatus, TaskStatus
<1>3. PICK m, x : m = job[p].run /\ x = Moved(m, s, t) OBVIOUS
<1>6. run' = x /\ UNCHANGED <<ownership, worktree, crashes>>
  BY <1>1, <1>3, Zenon DEF FinishWork, WriteRun, Moved
<1>7. m \in RunRecord BY <1>3, Types
<1>4. /\ x \in RunRecord /\ x.status = s /\ x.task = t
      /\ x.pausedFrom = m.pausedFrom /\ Same(m, x)
  BY <1>2, <1>3, <1>7, StatusWritten
<1>5. job' \in [Proc -> JobRecord] /\ Leaves(p)
  BY Types, Left DEF FinishWork
<1> QED BY <1>1, <1>3, <1>4, <1>5, <1>6 DEF FinishWork, EndsWork, TypeOK

LEMMA VerifyStep ==
  ASSUME Typed, NEW p \in Proc, Verify(p)
  PROVE  TypeOK' /\ (IsPaused \/ LoadsToVerify(p))
<1> USE DEF Typed
<1>1. CASE WriteRun(PausedBy(run, "paused-budget-unverified")) /\ Short
  <2>1. "paused-budget-unverified" \in Paused BY DEF Paused, BudgetPause
  <2>2. /\ run' \in RunRecord /\ run'.status \in Paused /\ run'.task = run.task
        /\ run'.pausedFrom = run.status /\ Same(run, run')
    BY <1>1, <2>1, Types, PausedFields DEF WriteRun
  <2> QED
    BY <1>1, <2>2 DEF Verify, WriteRun, Short, ShortMove, IsPaused, TypeOK
<1>2. CASE /\ ~OverVerification(run)
           /\ Enter(p, "verifying", run, worktree.version)
           /\ UNCHANGED <<run, ownership, worktree, spent, expired, crashes>>
  <2>1. /\ job' \in [Proc -> JobRecord]
        /\ Enters(p, "verifying", run, worktree.version)
    BY <1>2, Types, Entered
  <2> QED BY <1>2, <2>1 DEF Verify, LoadsToVerify, Kept, TypeOK, AtHome, Owns
<1> QED BY <1>1, <1>2 DEF Verify

LEMMA PassVerificationStep ==
  ASSUME Typed, NEW p \in Proc, PassVerification(p)
  PROVE  TypeOK' /\ VerifiesWell(p)
<1> USE DEF Typed
<1>1. PICK m, n, k, v, y, x, o :
        /\ m = job[p].run /\ n = m.plan.targeted /\ k = m.plan.full
        /\ v = job[p].tree /\ y = Spent(m, n, k)
        /\ x = Accepted(y, "checkpoint-complete", "verified", v)
        /\ o = [ownership EXCEPT !.status = "verified"]
  OBVIOUS
<1>2. Verified(m, TRUE) = y BY <1>1 DEF Verified, Spent
<1>3. /\ job[p].step = "verifying" /\ Leave(p) /\ UNCHANGED <<spent, expired>>
      /\ WriteFiles(<<Files(worktree, ownership, x), Files(worktree, o, x)>>)
  BY <1>1, <1>2, Zenon DEF PassVerification, Accepted
<1>4. /\ m \in RunRecord /\ n \in Nat /\ k \in Nat /\ v \in {0} \cup Version
      /\ m.failures \in SUBSET Signature
  BY <1>1, Types
<1>5. "checkpoint-complete" \in RunStatus /\ "verified" \in TaskStatus
  BY DEF RunStatus, TaskStatus
<1>6. /\ x \in RunRecord /\ x.status = "checkpoint-complete"
      /\ x.task = "verified" /\ x.pausedFrom = m.pausedFrom
      /\ SameCeilings(m, x) /\ x.used = m.used /\ x.usedAlloc = m.usedAlloc
      /\ x.fullRuns = m.fullRuns + k /\ SameApproval(m, x)
      /\ x.number = m.number /\ x.attempts = m.attempts
      /\ x.failures = m.failures
      /\ x.decision = m.decision /\ x.reviewedAt = m.reviewedAt
      /\ x.verifiedAt = v
  <2>1. /\ y \in RunRecord /\ y.pausedFrom = m.pausedFrom
        /\ SameCeilings(m, y) /\ y.used = m.used /\ y.usedAlloc = m.usedAlloc
        /\ y.fullRuns = m.fullRuns + k
        /\ SameApproval(m, y) /\ SameHistory(m, y) /\ SameEvidence(m, y)
    <3>1. y = Spent(m, n, k) BY <1>1
    <3> QED BY <1>4, <3>1, SpentFields
  <2>2. /\ x \in RunRecord /\ x.status = "checkpoint-complete"
        /\ x.task = "verified"
        /\ x.verifiedAt = v /\ x.pausedFrom = y.pausedFrom
        /\ SameMeters(y, x) /\ SameApproval(y, x) /\ SameHistory(y, x)
        /\ x.decision = y.decision /\ x.reviewedAt = y.reviewedAt
    <3>1. x = Accepted(y, "checkpoint-complete", "verified", v) BY <1>1
    <3> QED BY <1>4, <1>5, <2>1, <3>1, AcceptedFields
  <2> QED
    BY <2>1, <2>2
    DEF SameMeters, SameCeilings, SameApproval, SameHistory, SameEvidence
<1>7. o \in OwnershipRecord
  <2>1. ownership \in OwnershipRecord BY DEF TypeOK
  <2> QED BY <1>1, <2>1, Zenon DEF OwnershipRecord
<1>8. /\ run' = x /\ worktree' = worktree /\ ownership' \in OwnershipRecord
      /\ crashes' \in 0..MaxCrashes
  <2>1. PICK a, b : a = Files(worktree, ownership, x) /\ b = Files(worktree, o, x)
    OBVIOUS
  <2>2. /\ a.worktree = worktree /\ a.ownership = ownership /\ a.run = x
        /\ b.worktree = worktree /\ b.ownership = o /\ b.run = x
    BY <2>1 DEF Files
  <2>3. WriteFiles(<<a, b>>) BY <1>3, <2>1
  <2> QED BY <1>7, <2>2, <2>3, Write2, SupervisedBounds DEF TypeOK
<1>9. job' \in [Proc -> JobRecord] /\ Leaves(p) BY <1>3, Types, Left
<1>10. Verifies(m, run', k) BY <1>1, <1>6, <1>8 DEF Verifies
<1> QED
  BY <1>1, <1>3, <1>4, <1>6, <1>8, <1>9, <1>10 DEF VerifiesWell, TypeOK

LEMMA FailVerificationStep ==
  ASSUME Typed, NEW p \in Proc, NEW failed \in SUBSET Signature,
         NEW fullRan \in BOOLEAN, NEW twice \in BOOLEAN, NEW policy \in BOOLEAN,
         FailVerification(p, failed, fullRan, twice, policy)
  PROVE  TypeOK' /\ VerifiesBadly(p)
<1> USE DEF Typed
<1>1. PICK m, n, k, f, y :
        /\ m = job[p].run /\ n = m.plan.targeted
        /\ k = IF fullRan THEN m.plan.full ELSE 0
        /\ f = m.failures \cup failed /\ y = Spent(m, n, k)
  OBVIOUS
<1>2. PICK s, t, x :
        /\ s = IF failed \cap m.failures # {} \/ twice \/ policy
               THEN "blocked" ELSE "needs-repair"
        /\ t = IF failed \cap m.failures # {} \/ twice \/ policy
               THEN "blocked" ELSE "repair-ready"
        /\ x = Rejected(y, s, t, f)
  OBVIOUS
<1>3. Verified(m, fullRan) = y BY <1>1 DEF Verified, Spent
<1>4. /\ m \in RunRecord /\ n \in Nat /\ k \in Nat
      /\ m.failures \in SUBSET Signature /\ f \in SUBSET Signature
      /\ m.verifiedAt \in {0} \cup Version
  <2>1. /\ m \in RunRecord /\ n \in Nat /\ k \in Nat
        /\ m.failures \in SUBSET Signature
    BY <1>1, Types
  <2> QED BY <1>1, <2>1 DEF RunRecord
<1>5. y.failures = m.failures BY <1>1, <1>4 DEF Spent, RunRecord
<1>6. /\ job[p].step = "verifying" /\ Leave(p) /\ UNCHANGED <<spent, expired>>
      /\ run' = x /\ UNCHANGED <<ownership, worktree, crashes>>
  BY <1>1, <1>2, <1>3, <1>5, Zenon DEF FailVerification, Rejected, WriteRun
<1>7. s \in RunStatus /\ t \in TaskStatus
  BY <1>2 DEF RunStatus, TaskStatus
<1>8. /\ x \in RunRecord /\ x.status = s /\ x.task = t
      /\ x.pausedFrom = m.pausedFrom
      /\ SameCeilings(m, x) /\ x.used = m.used /\ x.usedAlloc = m.usedAlloc
      /\ x.fullRuns = m.fullRuns + k /\ SameApproval(m, x)
      /\ x.number = m.number /\ x.attempts = m.attempts /\ x.failures = f
      /\ x.decision = m.decision /\ x.reviewedAt = m.reviewedAt
      /\ x.verifiedAt = m.verifiedAt
  <2>1. /\ y \in RunRecord /\ y.pausedFrom = m.pausedFrom
        /\ SameCeilings(m, y) /\ y.used = m.used /\ y.usedAlloc = m.usedAlloc
        /\ y.fullRuns = m.fullRuns + k
        /\ SameApproval(m, y) /\ SameHistory(m, y) /\ SameEvidence(m, y)
    <3>1. y = Spent(m, n, k) BY <1>1
    <3>2. m \in RunRecord /\ n \in Nat /\ k \in Nat BY <1>4
    <3> QED BY <3>1, <3>2, SpentFields
  <2>2. /\ x \in RunRecord /\ x.status = s /\ x.task = t
        /\ x.failures = f /\ x.pausedFrom = y.pausedFrom
        /\ SameMeters(y, x) /\ SameApproval(y, x) /\ SameEvidence(y, x)
        /\ x.number = y.number /\ x.attempts = y.attempts
    BY <1>2, <1>4, <1>7, <2>1, RejectedFields
  <2> QED
    BY <2>1, <2>2
    DEF SameMeters, SameCeilings, SameApproval, SameHistory, SameEvidence
<1>9. job' \in [Proc -> JobRecord] /\ Leaves(p) BY <1>6, Types, Left
<1>10. Verifies(m, run', k) BY <1>1, <1>6, <1>8 DEF Verifies
<1>11. m.failures \subseteq f BY <1>1
<1>12. \/ s = "needs-repair" /\ t = "repair-ready"
       \/ s = "blocked" /\ t = "blocked"
  BY <1>2
<1>13. VerifiesBadly(p)
  BY <1>1, <1>4, <1>6, <1>8, <1>9, <1>10, <1>11, <1>12 DEF VerifiesBadly
<1> QED BY <1>6, <1>8, <1>9, <1>13 DEF TypeOK

LEMMA ReviewStep ==
  ASSUME Typed, NEW p \in Proc, Review(p)
  PROVE  TypeOK' /\ (IsPaused \/ LoadsToReview(p))
<1> USE DEF Typed
<1>1. "reviewer" \in Allocation BY DEF Allocation
<1>2. CASE RefuseOperation("reviewer")
  BY <1>1, <1>2, RefuseStep DEF Review
<1>3. PICK x : x = [Started(run, "reviewer") EXCEPT !.status = "reviewing"]
  OBVIOUS
<1>4. CASE /\ Allowed(run, "reviewer") /\ WriteRun(x)
           /\ Owns("verified", run) /\ worktree.exists
           /\ Enter(p, "reviewing", x, worktree.version)
           /\ spent' = spent + 1 /\ UNCHANGED expired
  <2>1. /\ x \in RunRecord /\ x.status = "reviewing" /\ x.task = run.task
        /\ x.pausedFrom = run.pausedFrom
        /\ Counted(run, x, "reviewer") /\ SameHistory(run, x)
        /\ SameEvidence(run, x) /\ SameApproval(run, x)
    BY <1>3, Types, ReviewFields
  <2>2. /\ job' \in [Proc -> JobRecord]
        /\ Enters(p, "reviewing", x, worktree.version)
    BY <1>4, <2>1, Types, Entered
  <2>3. Room(run, "reviewer")
    <3>1. run.usedAlloc["reviewer"] \in Nat /\ run.alloc["reviewer"] \in Nat
      BY <1>1, Types DEF RunRecord
    <3> QED BY <1>4, <3>1 DEF Allowed, Exhausted, Room
  <2>4. AtHome BY <1>4 DEF WriteRun, AtHome, Owns
  <2> QED
    BY <1>4, <2>1, <2>2, <2>3, <2>4 DEF Review, WriteRun, LoadsToReview, TypeOK
<1> QED BY <1>2, <1>3, <1>4, Zenon DEF Review

LEMMA FinishReviewStep ==
  ASSUME Typed, NEW p \in Proc, NEW decision \in Decision, NEW clean \in BOOLEAN,
         FinishReview(p, decision, clean)
  PROVE  TypeOK' /\ (Judges(p) \/ Quiet)
<1> USE DEF Typed
<1>1. PICK m, v, y : /\ m = job[p].run /\ v = job[p].tree
                     /\ y = Decided(m, decision, v)
  OBVIOUS
<1>2. m \in RunRecord /\ v \in {0} \cup Version /\ m.task \in TaskStatus
  BY <1>1, Types
<1>3. job' \in [Proc -> JobRecord] /\ Leaves(p)
  BY Types, Left DEF FinishReview
<1>4. /\ job[p].step = "reviewing" /\ UNCHANGED <<spent, expired>>
  BY DEF FinishReview
<1>8. /\ y \in RunRecord /\ y.task = m.task /\ y.pausedFrom = m.pausedFrom
      /\ y.number = m.number
      /\ SameMeters(m, y) /\ SameHistory(m, y) /\ SameApproval(m, y)
      /\ y.decision = decision /\ y.reviewedAt = v
      /\ y.verifiedAt = m.verifiedAt
  <2>1. y = Decided(m, decision, v) BY <1>1
  <2>2. /\ y \in RunRecord /\ y.task = m.task /\ y.pausedFrom = m.pausedFrom
        /\ SameMeters(m, y) /\ SameHistory(m, y) /\ SameApproval(m, y)
        /\ y.decision = decision /\ y.reviewedAt = v
        /\ y.verifiedAt = m.verifiedAt
    BY <1>2, <2>1, DecidedFields
  <2> QED BY <2>2 DEF SameHistory
<1>9. ASSUME NEW x, Same(y, x)
      PROVE  /\ SameMeters(m, x) /\ SameHistory(m, x) /\ SameApproval(m, x)
             /\ x.decision = decision /\ x.reviewedAt = v
             /\ x.verifiedAt = m.verifiedAt
  BY <1>8, <1>9
  DEF Same, SameMeters, SameCeilings, SameHistory, SameApproval, SameEvidence
<1>5. CASE decision = "PASS" /\ WriteRun(MovedRun(y, "review-passed"))
  <2>1. PICK x, s : s = "review-passed" /\ x = MovedRun(y, s) OBVIOUS
  <2>2. s \in RunStatus BY <2>1 DEF RunStatus
  <2>3. /\ x \in RunRecord /\ x.status = s /\ x.task = m.task
        /\ x.pausedFrom = m.pausedFrom /\ Same(y, x)
    BY <1>8, <2>1, <2>2, MovedRunFields
  <2>4. run' = x /\ UNCHANGED <<ownership, worktree, crashes>>
    BY <1>5, <2>1 DEF WriteRun
  <2> QED BY <1>1, <1>3, <1>4, <1>5, <1>9, <2>1, <2>3, <2>4 DEF Judges, TypeOK
<1>6. CASE WriteRun(Moved(y, "blocked", "blocked"))
  <2>1. PICK x, s : s = "blocked" /\ x = Moved(y, s, s) OBVIOUS
  <2>2. s \in RunStatus /\ s \in TaskStatus BY <2>1 DEF RunStatus, TaskStatus
  <2>3. /\ x \in RunRecord /\ x.status = s /\ x.task = s
        /\ x.pausedFrom = m.pausedFrom /\ Same(y, x)
    BY <1>8, <2>1, <2>2, StatusWritten
  <2>4. run' = x /\ UNCHANGED <<ownership, worktree, crashes>>
    BY <1>6, <2>1 DEF WriteRun
  <2> QED BY <1>1, <1>3, <1>4, <1>9, <2>1, <2>3, <2>4 DEF Judges, TypeOK
<1>7. CASE /\ decision = "REQUEST_CHANGES"
           /\ WriteFiles(<<Files(worktree, Owned(y), run),
                Files(worktree, Owned(y), Moved(y, "needs-repair", "repair-ready"))>>)
  <2>1. PICK x, s, t : /\ s = "needs-repair" /\ t = "repair-ready"
                       /\ x = Moved(y, s, t)
    OBVIOUS
  <2>2. s \in RunStatus /\ t \in TaskStatus BY <2>1 DEF RunStatus, TaskStatus
  <2>3. /\ x \in RunRecord /\ x.status = s /\ x.task = t
        /\ x.pausedFrom = m.pausedFrom /\ Same(y, x)
    BY <1>8, <2>1, <2>2, StatusWritten
  <2>4. PICK o : o = Owned(y) OBVIOUS
  <2>5. o \in OwnershipRecord
    <3>1. m.number \in 0..MaxNumber BY <1>2 DEF RunRecord
    <3> QED BY <1>8, <2>4, <3>1 DEF Owned, OwnershipRecord
  <2>6. PICK a, b : a = Files(worktree, o, run) /\ b = Files(worktree, o, x)
    OBVIOUS
  <2>7. /\ a.worktree = worktree /\ a.ownership = o /\ a.run = run
        /\ b.worktree = worktree /\ b.ownership = o /\ b.run = x
    BY <2>6 DEF Files
  <2>8. WriteFiles(<<a, b>>) BY <1>7, <2>1, <2>4, <2>6
  <2>9. /\ worktree' = worktree /\ ownership' = o /\ crashes' \in 0..MaxCrashes
        /\ run' = x \/ run' = run
    BY <2>7, <2>8, Write2, SupervisedBounds DEF TypeOK
  <2>10. CASE run' = run
    BY <1>3, <1>4, <2>5, <2>9, <2>10 DEF Quiet, Kept, TypeOK
  <2>11. CASE run' = x
    BY <1>1, <1>3, <1>4, <1>7, <1>9, <2>1, <2>3, <2>5, <2>9, <2>11 DEF Judges, TypeOK
  <2> QED BY <2>9, <2>10, <2>11
<1> QED BY <1>1, <1>5, <1>6, <1>7, Zenon DEF FinishReview, Decided, Moved, MovedRun

LEMMA KillStep ==
  ASSUME Typed, NEW p \in Proc, Kill(p)
  PROVE  TypeOK' /\ Quiet
<1>1. job' \in [Proc -> JobRecord] /\ Leaves(p)
  BY Types, Left DEF Typed, Kill
<1> QED BY <1>1, SupervisedBounds DEF Typed, Kill, TypeOK, Quiet, Kept

LEMMA ApproveStep == Typed /\ Approve => TypeOK' /\ IsApproved
<1> SUFFICES ASSUME Typed, Approve PROVE TypeOK' /\ IsApproved OBVIOUS
<1> USE DEF Typed
<1>1. PICK x : x = [run EXCEPT !.status = "approved", !.task = "ready",
                               !.approved = run.revision]
  OBVIOUS
<1>2. /\ x \in RunRecord /\ x.status = "approved" /\ x.task = "ready"
      /\ x.pausedFrom = run.pausedFrom
      /\ SameMeters(run, x) /\ SameHistory(run, x) /\ SameEvidence(run, x)
      /\ x.revision = run.revision /\ x.approved = run.revision
  BY <1>1, Types, ApproveFields
<1>3. run' = x /\ UNCHANGED <<ownership, worktree, crashes, job, spent>>
  BY <1>1, Zenon DEF Approve, WriteRun
<1>4. expired' \in BOOLEAN BY DEF Approve
<1> QED
  BY <1>2, <1>3, <1>4 DEF Approve, IsApproved, ShortMove, TypeOK

LEMMA PreviewStep == Typed /\ Preview => TypeOK' /\ IsShown
<1> SUFFICES ASSUME Typed, Preview PROVE TypeOK' /\ IsShown OBVIOUS
<1> USE DEF Typed
<1>1. PICK x : x = MovedRun(run, "ready-to-finalize") OBVIOUS
<1>2. "ready-to-finalize" \in RunStatus BY DEF RunStatus
<1>3. /\ x \in RunRecord /\ x.status = "ready-to-finalize" /\ x.task = run.task
      /\ x.pausedFrom = run.pausedFrom /\ Same(run, x)
  BY <1>1, <1>2, Types, MovedRunFields
<1>4. /\ run' = x
      /\ UNCHANGED <<ownership, worktree, crashes, job, spent, expired>>
  BY <1>1, Zenon DEF Preview, WriteRun, Short, MovedRun
<1> QED BY <1>3, <1>4 DEF Preview, IsShown, ShortMove, TypeOK

(* An ownership record of which only the status is new.                    *)
LEMMA OwnershipMoved ==
  ASSUME ownership \in OwnershipRecord,
         NEW s \in {"verified", "released", "rolled-back", "cancelled", "abandoned"},
         NEW o, o = [ownership EXCEPT !.status = s]
  PROVE  o \in OwnershipRecord /\ o.status = s /\ o.number = ownership.number
<1>1. o \in OwnershipRecord BY Zenon DEF OwnershipRecord
<1> QED BY <1>1 DEF OwnershipRecord

LEMMA FinalizeStep == Typed /\ Finalize => TypeOK' /\ (IsDelivered \/ Quiet)
<1> SUFFICES ASSUME Typed, Finalize PROVE TypeOK' /\ (IsDelivered \/ Quiet)
  OBVIOUS
<1> USE DEF Typed
<1>1. PICK x : /\ x = Ended(run, "completed") /\ x \in RunRecord
               /\ x.status = "completed" /\ x.task = "completed"
               /\ x.pausedFrom = run.pausedFrom /\ Same(run, x)
  BY Types, EndedFields
<1>2. PICK o : o = [ownership EXCEPT !.status = "released"] OBVIOUS
<1>3. o \in OwnershipRecord BY <1>2, OwnershipMoved DEF TypeOK
<1>4. /\ Finalizable /\ UNCHANGED <<job, spent, expired>>
      /\ WriteFiles(<<Files(worktree, o, run), Files(worktree, o, x)>>)
  BY <1>1, <1>2, Zenon DEF Finalize, Short
<1>5. PICK a, b : a = Files(worktree, o, run) /\ b = Files(worktree, o, x)
  OBVIOUS
<1>6. /\ a.worktree = worktree /\ a.ownership = o /\ a.run = run
      /\ b.worktree = worktree /\ b.ownership = o /\ b.run = x
  BY <1>5 DEF Files
<1>7. WriteFiles(<<a, b>>) BY <1>4, <1>5
<1>8. /\ worktree' = worktree /\ ownership' = o /\ crashes' \in 0..MaxCrashes
      /\ run' = x \/ run' = run
  BY <1>6, <1>7, Write2, SupervisedBounds DEF TypeOK
<1>9. CASE run' = run
  BY <1>3, <1>4, <1>8, <1>9 DEF Quiet, Kept, TypeOK
<1>10. CASE run' = x
  BY <1>1, <1>2, <1>3, <1>4, <1>8, <1>10 DEF IsDelivered, ShortMove, TypeOK
<1> QED BY <1>8, <1>9, <1>10

LEMMA AdvanceStep ==
  ASSUME Typed, NEW plan \in Plan, Advance(plan)
  PROVE  TypeOK' /\ (IsAdvanced \/ Quiet)
<1> USE DEF Typed
<1>1. PICK w, o, x :
        /\ w = [worktree EXCEPT !.head = @ + 1, !.sealed = worktree.version]
        /\ o = [ownership EXCEPT !.status = "released"]
        /\ x = AdvancedRun(run, plan)
  OBVIOUS
<1>2. /\ AtCheckpointBoundary(run) /\ UNCHANGED <<job, spent, expired>>
      /\ run.number < MaxNumber /\ run.revision < MaxRevision
      /\ worktree.head = run.number - 1
      /\ WriteFiles(<<Files(w, ownership, run), Files(w, o, run), Files(w, o, x)>>)
  BY <1>1, Zenon DEF Advance, Short
<1>3. w \in WorktreeRecord
  <2>1. PICK h, v : h = worktree.head + 1 /\ v = worktree.version OBVIOUS
  <2>2. h \in 0..MaxNumber /\ v \in Version
    <3>1. run.number \in 1..MaxNumber BY Types DEF RunRecord
    <3> QED BY <1>2, <2>1, <3>1, Types, SupervisedBounds
  <2>3. w = [worktree EXCEPT !.head = h, !.sealed = v] BY <1>1, <2>1, Zenon
  <2>4. worktree \in WorktreeRecord BY DEF TypeOK
  <2> QED BY <2>2, <2>3, <2>4, Zenon DEF WorktreeRecord
<1>4. o \in OwnershipRecord BY <1>1, OwnershipMoved DEF TypeOK
<1>5. /\ x \in RunRecord /\ SameMeters(run, x)
      /\ x.task = "proposed" /\ x.number = run.number + 1
      /\ x.attempts = 0 /\ x.decision = "none"
      /\ \/ x.status \in Paused /\ x.pausedFrom = "proposed"
         \/ x.status = "proposed" /\ x.pausedFrom = "none"
  <2>1. x = AdvancedRun(run, plan) BY <1>1
  <2> QED BY <1>2, <2>1, Types, AdvancedFields
<1>6. PICK a, b, c : /\ a = Files(w, ownership, run) /\ b = Files(w, o, run)
                     /\ c = Files(w, o, x)
  OBVIOUS
<1>7. /\ a.worktree = w /\ a.ownership = ownership /\ a.run = run
      /\ b.worktree = w /\ b.ownership = o /\ b.run = run
      /\ c.worktree = w /\ c.ownership = o /\ c.run = x
  BY <1>6 DEF Files
<1>8. WriteFiles(<<a, b, c>>) BY <1>2, <1>6
<1>9. /\ worktree' = w /\ ownership' \in OwnershipRecord
      /\ crashes' \in 0..MaxCrashes /\ (run' = x \/ run' = run)
  BY <1>4, <1>7, <1>8, Write3, SupervisedBounds DEF TypeOK
<1>10. CASE run' = run
  BY <1>2, <1>3, <1>9, <1>10 DEF Quiet, Kept, TypeOK
<1>11. CASE run' = x
  BY <1>2, <1>3, <1>5, <1>9, <1>11 DEF IsAdvanced, ShortMove, TypeOK
<1> QED BY <1>9, <1>10, <1>11

LEMMA ReviseStep ==
  ASSUME Typed, NEW plan \in Plan, Revise(plan)
  PROVE  TypeOK' /\ IsRevised
<1> USE DEF Typed
<1>1. /\ run' = Revised(run, plan) /\ run.revision < MaxRevision
      /\ run.status \in {"proposed", "approved"} /\ run.attempts = 0
      /\ UNCHANGED <<ownership, worktree, crashes, job, spent, expired>>
  BY DEF Revise, WriteRun, Short
<1>2. /\ run' \in RunRecord /\ SameMeters(run, run') /\ SameHistory(run, run')
      /\ SameEvidence(run, run') /\ run'.task = "proposed"
      /\ run'.status = "proposed" /\ run'.pausedFrom = run.pausedFrom
  BY <1>1, Types, RevisedFields
<1> QED BY <1>1, <1>2 DEF IsRevised, ShortMove, TypeOK

LEMMA PauseStep ==
  ASSUME Typed, NEW s \in Paused, Pause(s)
  PROVE  TypeOK' /\ IsPaused
<1> USE DEF Typed
<1>1. PICK h, x : /\ h = (run.hostLimit \/ s = "paused-host-limit")
                  /\ x = Repaused(run, s, run.status, h)
  OBVIOUS
<1>2. /\ s \in RunStatus /\ run.status \in RunStatus \cup {"none"} /\ h \in BOOLEAN
  BY <1>1, Types DEF RunStatus
<1>3. /\ x \in RunRecord /\ x.status = s /\ x.task = run.task
      /\ x.pausedFrom = run.status /\ Same(run, x)
  <2>1. x = Repaused(run, s, run.status, h) BY <1>1
  <2> QED BY <1>2, <2>1, Types, PauseWritten
<1>4. PausedBy(run, s).hostLimit = run.hostLimit
  BY Types DEF PausedBy, RunRecord
<1>5. /\ run' = x
      /\ UNCHANGED <<ownership, worktree, crashes, job, spent, expired>>
      /\ run.status \notin {"completed", "cancelled", "abandoned"}
  BY <1>1, <1>4, Zenon DEF Pause, WriteRun, Short, PausedBy, Repaused
<1> QED BY <1>3, <1>5 DEF IsPaused, ShortMove, TypeOK

LEMMA ResumeStep == Typed /\ Resume => TypeOK' /\ IsResumed
<1> SUFFICES ASSUME Typed, Resume PROVE TypeOK' /\ IsResumed OBVIOUS
<1> USE DEF Typed
<1>1. PICK s, f, h, x :
        /\ s = run.pausedFrom
        /\ f = IF run.pausedFrom \in Paused THEN run.pausedFrom ELSE "none"
        /\ h = (run.hostLimit /\ run.status # "paused-host-limit")
        /\ x = Repaused(run, s, f, h)
  OBVIOUS
<1>2. run.status \in Paused /\ run.pausedFrom \in RunStatus
  BY Types DEF Resume, PauseKnown
<1>3. /\ s \in RunStatus /\ f \in RunStatus \cup {"none"} /\ h \in BOOLEAN
  BY <1>1, <1>2
<1>4. /\ x \in RunRecord /\ x.status = s /\ x.task = run.task
      /\ x.pausedFrom = f /\ Same(run, x)
  <2>1. x = Repaused(run, s, f, h) BY <1>1
  <2>2. run \in RunRecord BY Types
  <2> QED BY <1>3, <2>1, <2>2, PauseWritten
<1>5. /\ run' = x
      /\ UNCHANGED <<ownership, worktree, crashes, job, spent, expired>>
  BY <1>1, Zenon DEF Resume, WriteRun, Short, Repaused
<1> QED BY <1>1, <1>2, <1>4, <1>5 DEF IsResumed, ShortMove, TypeOK

LEMMA AddBudgetStep ==
  ASSUME Typed, NEW a \in Allocation, AddBudget(a)
  PROVE  TypeOK' /\ IsRaised
<1> USE DEF Typed
<1>0. PICK x : x = Raised(run, a) OBVIOUS
<1>1. /\ run' = x /\ run.status # "completed"
      /\ UNCHANGED <<ownership, worktree, crashes, job, spent, expired>>
  BY <1>0, Zenon DEF AddBudget, WriteRun, Short, Raised
<1>2. /\ x \in RunRecord /\ x.status = run.status /\ x.task = run.task
      /\ x.pausedFrom = run.pausedFrom
      /\ x.ops = run.ops + 1 /\ x.alloc = [run.alloc EXCEPT ![a] = @ + 1]
      /\ x.used = run.used /\ x.usedAlloc = run.usedAlloc
      /\ x.maxFull = run.maxFull /\ x.fullRuns = run.fullRuns
      /\ SameHistory(run, x) /\ SameEvidence(run, x)
      /\ SameApproval(run, x)
  <2>1. run \in RunRecord BY Types
  <2> QED BY <1>0, <2>1, RaisedFields
<1>3. x.maxFull >= run.maxFull
  <2>1. run.maxFull \in Nat BY Types DEF RunRecord
  <2> QED BY <1>2, <2>1
<1> QED BY <1>1, <1>2, <1>3 DEF IsRaised, ShortMove, TypeOK

LEMMA AddVerificationStep == Typed /\ AddVerification => TypeOK' /\ IsRaised
<1> SUFFICES ASSUME Typed, AddVerification PROVE TypeOK' /\ IsRaised OBVIOUS
<1> USE DEF Typed
<1>1. /\ VerificationRaised(run, run') /\ run.status # "completed"
      /\ UNCHANGED <<ownership, worktree, crashes, job, spent, expired>>
  BY Zenon DEF AddVerification, WriteRun, Short, VerificationRaised
<1>2. /\ run' \in RunRecord /\ run'.status = run.status /\ run'.task = run.task
      /\ run'.pausedFrom = run.pausedFrom
      /\ run'.ops = run.ops /\ run'.alloc = run.alloc
      /\ run'.used = run.used /\ run'.usedAlloc = run.usedAlloc
      /\ run'.maxFull >= run.maxFull /\ run'.fullRuns = run.fullRuns
      /\ SameHistory(run, run') /\ SameEvidence(run, run')
      /\ SameApproval(run, run')
  BY <1>1, Types, VerificationRaisedFields
<1> QED BY <1>1, <1>2 DEF IsRaised, ShortMove, TypeOK

LEMMA BlockStep == Typed /\ Block => TypeOK' /\ IsClosed
<1> SUFFICES ASSUME Typed, Block PROVE TypeOK' /\ IsClosed OBVIOUS
<1> USE DEF Typed
<1>1. PICK x : /\ x = Ended(run, "blocked") /\ x \in RunRecord
               /\ x.status = "blocked" /\ x.task = "blocked"
               /\ x.pausedFrom = run.pausedFrom /\ Same(run, x)
  BY Types, EndedFields
<1>2. /\ run' = x /\ run.status \notin Terminal
      /\ UNCHANGED <<ownership, worktree, crashes, job, spent, expired>>
  BY <1>1 DEF Block, WriteRun, Short
<1> QED BY <1>1, <1>2 DEF IsClosed, ShortMove, TypeOK

LEMMA EndStep ==
  ASSUME Typed, NEW s \in {"cancelled", "abandoned"}, End(s)
  PROVE  TypeOK' /\ (IsClosed \/ Quiet)
<1> USE DEF Typed
<1>1. PICK x : /\ x = Ended(run, s) /\ x \in RunRecord
               /\ x.status = s /\ x.task = s
               /\ x.pausedFrom = run.pausedFrom /\ Same(run, x)
  BY Types, EndedFields
<1>2. PICK o : o = IF ownership.status = "none" THEN ownership
                   ELSE [ownership EXCEPT !.status = s]
  OBVIOUS
<1>3. o \in OwnershipRecord
  BY <1>2, OwnershipMoved DEF TypeOK
<1>4. /\ run.status \notin Terminal /\ UNCHANGED <<job, spent, expired>>
      /\ WriteFiles(<<Files(worktree, o, run), Files(worktree, o, x)>>)
  BY <1>1, <1>2, Zenon DEF End, Short
<1>5. PICK a, b : a = Files(worktree, o, run) /\ b = Files(worktree, o, x)
  OBVIOUS
<1>6. /\ a.worktree = worktree /\ a.ownership = o /\ a.run = run
      /\ b.worktree = worktree /\ b.ownership = o /\ b.run = x
  BY <1>5 DEF Files
<1>7. WriteFiles(<<a, b>>) BY <1>4, <1>5
<1>8. /\ worktree' = worktree /\ ownership' = o /\ crashes' \in 0..MaxCrashes
      /\ run' = x \/ run' = run
  BY <1>6, <1>7, Write2, SupervisedBounds DEF TypeOK
<1>9. CASE run' = run
  BY <1>3, <1>4, <1>8, <1>9 DEF Quiet, Kept, TypeOK
<1>10. CASE run' = x
  BY <1>1, <1>3, <1>4, <1>8, <1>10 DEF IsClosed, ShortMove, TypeOK
<1> QED BY <1>8, <1>9, <1>10

LEMMA RollbackStep == Typed /\ Rollback => TypeOK' /\ (IsClosed \/ Quiet)
<1> SUFFICES ASSUME Typed, Rollback PROVE TypeOK' /\ (IsClosed \/ Quiet)
  OBVIOUS
<1> USE DEF Typed
<1>1. PICK x : /\ x = Ended(run, "rolled-back") /\ x \in RunRecord
               /\ x.status = "rolled-back" /\ x.task = "rolled-back"
               /\ x.pausedFrom = run.pausedFrom /\ Same(run, x)
  BY Types, EndedFields
<1>2. PICK o : o = [ownership EXCEPT !.status = "rolled-back"] OBVIOUS
<1>3. o \in OwnershipRecord BY <1>2, OwnershipMoved DEF TypeOK
<1>4. RolledBackTree \in WorktreeRecord
  <2>1. 0 \in 0..MaxNumber /\ 1 \in Version /\ TRUE \in BOOLEAN
    BY SupervisedBounds DEF Version
  <2>2. worktree \in WorktreeRecord BY DEF TypeOK
  <2> QED BY <2>1, <2>2, Zenon DEF RolledBackTree, WorktreeRecord
<1>5. PICK w : w = RolledBackTree OBVIOUS
<1>6. /\ run.status \notin Terminal /\ UNCHANGED <<job, spent, expired>>
      /\ WriteFiles(<<Files(w, ownership, run), Files(w, o, run), Files(w, o, x)>>)
  BY <1>1, <1>2, <1>5, Zenon DEF Rollback, Short
<1>7. PICK a, b, c : /\ a = Files(w, ownership, run) /\ b = Files(w, o, run)
                     /\ c = Files(w, o, x)
  OBVIOUS
<1>8. /\ a.worktree = w /\ a.ownership = ownership /\ a.run = run
      /\ b.worktree = w /\ b.ownership = o /\ b.run = run
      /\ c.worktree = w /\ c.ownership = o /\ c.run = x
  BY <1>7 DEF Files
<1>9. WriteFiles(<<a, b, c>>) BY <1>6, <1>7
<1>10. /\ worktree' = w /\ ownership' \in OwnershipRecord
       /\ crashes' \in 0..MaxCrashes /\ (run' = x \/ run' = run)
  BY <1>3, <1>8, <1>9, Write3, SupervisedBounds DEF TypeOK
<1>11. CASE run' = run
  BY <1>4, <1>5, <1>6, <1>10, <1>11 DEF Quiet, Kept, TypeOK
<1>12. CASE run' = x
  BY <1>1, <1>4, <1>5, <1>6, <1>10, <1>12 DEF IsClosed, ShortMove, TypeOK
<1> QED BY <1>10, <1>11, <1>12

LEMMA LongCommandStep == Typed /\ LongCommand => Good
<1> SUFFICES ASSUME Typed, NEW p \in Proc,
               \/ Execute(p) \/ BeginImplementation(p) \/ Retry(p)
               \/ Edit(p) \/ \E ok \in BOOLEAN : FinishWork(p, ok)
               \/ Verify(p) \/ PassVerification(p)
               \/ \E failed \in SUBSET Signature,
                     fullRan, twice, policy \in BOOLEAN :
                    FailVerification(p, failed, fullRan, twice, policy)
               \/ Review(p)
               \/ \E d \in Decision, clean \in BOOLEAN :
                    FinishReview(p, d, clean)
               \/ Kill(p)
             PROVE Good
  BY Zenon DEF LongCommand
<1> USE DEF Good, Moves, ProcessMoves, Controlled
<1>1. CASE Execute(p) \/ BeginImplementation(p) \/ Retry(p) \/ Edit(p) \/ Kill(p)
  BY <1>1, ExecuteStep, BeginStep, RetryStep, EditStep, KillStep
<1>2. CASE Verify(p) \/ PassVerification(p) \/ Review(p)
  BY <1>2, VerifyStep, PassVerificationStep, ReviewStep
<1>3. ASSUME NEW ok \in BOOLEAN, FinishWork(p, ok) PROVE Good
  BY <1>3, FinishWorkStep
<1>4. ASSUME NEW failed \in SUBSET Signature, NEW fullRan \in BOOLEAN,
             NEW twice \in BOOLEAN, NEW policy \in BOOLEAN,
             FailVerification(p, failed, fullRan, twice, policy)
      PROVE Good
  BY <1>4, FailVerificationStep
<1>5. ASSUME NEW d \in Decision, NEW clean \in BOOLEAN, FinishReview(p, d, clean)
      PROVE Good
  BY <1>5, FinishReviewStep
<1> QED BY <1>1, <1>2, <1>3, <1>4, <1>5

LEMMA ControlStep == Typed /\ Control => Good
<1> SUFFICES ASSUME Typed, Control PROVE Good OBVIOUS
<1> USE DEF Good, Moves, Controlled
<1>1. CASE Approve \/ Preview \/ Finalize \/ Resume \/ AddVerification
            \/ Rollback \/ Block
  BY <1>1, ApproveStep, PreviewStep, FinalizeStep, ResumeStep,
     AddVerificationStep, RollbackStep, BlockStep
<1>2. ASSUME NEW plan \in Plan, Advance(plan) \/ Revise(plan) PROVE Good
  BY <1>2, AdvanceStep, ReviseStep
<1>3. ASSUME NEW s \in Paused, Pause(s) PROVE Good
  BY <1>3, PauseStep
<1>4. ASSUME NEW a \in Allocation, AddBudget(a) PROVE Good
  BY <1>4, AddBudgetStep
<1>5. ASSUME NEW s \in {"cancelled", "abandoned"}, End(s) PROVE Good
  BY <1>5, EndStep
<1> QED BY <1>1, <1>2, <1>3, <1>4, <1>5 DEF Control

LEMMA Steps == Typed /\ [Next]_vars => Good
<1> SUFFICES ASSUME Typed, [Next]_vars PROVE Good OBVIOUS
<1>1. CASE Elapse
  BY <1>1 DEF Typed, Elapse, TypeOK, Good, Moves, Quiet, Kept
<1>2. CASE UNCHANGED vars
  BY <1>2 DEF vars, Typed, TypeOK, Good, Moves, Quiet, Kept
<1> QED BY <1>1, <1>2, LongCommandStep, ControlStep DEF Next

LEMMA PauseKnownStep == Typed /\ Moves => PauseKnown'
<1> SUFFICES ASSUME Typed, Moves PROVE PauseKnown' OBVIOUS
<1>1. /\ run.status \in RunStatus /\ "none" \notin RunStatus
      /\ \A s \in {"executing", "verifying", "blocked", "checkpoint-complete",
                   "needs-repair", "reviewing", "review-passed", "approved",
                   "ready-to-finalize", "completed", "proposed", "rolled-back",
                   "cancelled", "abandoned"} : s \notin Paused
  BY Types DEF Typed, RunStatus, Paused, BudgetPause, Terminal
<1>2. CASE Quiet BY <1>2 DEF Quiet, Kept, Typed, PauseKnown
<1>3. ASSUME NEW p \in Proc, ProcessMoves(p) PROVE PauseKnown'
  BY <1>1, <1>3
  DEF Typed, PauseKnown, ProcessMoves, LoadsToWork, LoadsToVerify,
      LoadsToReview, BeginsWork, BeginsRepair, EndsWork, VerifiesWell,
      VerifiesBadly, Judges, Kept, Attempted
<1>4. CASE Controlled
  <2>1. CASE IsPaused BY <1>1, <2>1 DEF IsPaused, PauseKnown
  <2>2. CASE IsResumed BY <1>1, <2>2 DEF IsResumed, PauseKnown, Typed
  <2>3. CASE IsApproved \/ IsShown \/ IsDelivered \/ IsRevised \/ IsClosed
    <3>1. run'.status \in {"approved", "ready-to-finalize", "completed",
                           "proposed", "rolled-back", "cancelled", "abandoned",
                           "blocked"}
      BY <2>3 DEF IsApproved, IsShown, IsDelivered, IsRevised, IsClosed
    <3>2. run'.status \notin Paused BY <3>1 DEF Paused, BudgetPause
    <3> QED BY <3>2, Zenon DEF PauseKnown
  <2>4. CASE IsAdvanced BY <1>1, <2>4 DEF IsAdvanced, PauseKnown
  <2>5. CASE IsRaised BY <2>5 DEF IsRaised, PauseKnown, Typed
  <2> QED BY <1>4, <2>1, <2>2, <2>3, <2>4, <2>5 DEF Controlled
<1> QED BY <1>2, <1>3, <1>4 DEF Moves

LEMMA TypedInit == Init => Typed
<1> SUFFICES ASSUME Init PROVE Typed OBVIOUS
<1>1. PICK f \in Profile, plan \in Plan : run = ProposedRun(f, plan)
  BY DEF Init
<1>2. run \in RunRecord BY <1>1, ProposedType
<1>3. run.status = "proposed" BY <1>1 DEF ProposedRun
<1>4. PauseKnown BY <1>3 DEF PauseKnown, Paused, BudgetPause
<1>5. /\ ownership \in OwnershipRecord /\ worktree \in WorktreeRecord
      /\ job \in [Proc -> JobRecord]
  BY IdleType, SupervisedBounds
  DEF Init, OwnershipRecord, WorktreeRecord, Version
<1>6. spent = 0 /\ expired = FALSE /\ crashes = 0 BY DEF Init
<1>7. 0 \in 0..MaxCrashes BY SupervisedBounds
<1>8. spent \in Nat /\ crashes \in 0..MaxCrashes BY <1>6, <1>7
<1>9. expired \in BOOLEAN BY <1>6, Zenon
<1> QED BY <1>2, <1>4, <1>5, <1>8, <1>9 DEF Typed, TypeOK

LEMMA TypedHolds == Spec => []Typed
<1>1. Typed /\ [Next]_vars => Typed'
  BY Steps, PauseKnownStep DEF Good, Typed
<1> QED BY TypedInit, <1>1, PTL DEF Spec

(* The files of a supervised run and what the processes hold in memory     *)
(* stay well formed, for any number of processes in long commands, any     *)
(* profiles and plans and any bounds: a resume always knows where to       *)
(* (src/supervise; controls.js, pause and resume).                         *)
THEOREM SupervisedTypeCorrect == Spec => []TypeOK
BY TypedHolds, PTL DEF Typed

-----------------------------------------------------------------------------
(* The approved plan. *)

(* The status a run is in, or is paused from. *)
Effective(r) == IF r.status \in Paused THEN r.pausedFrom ELSE r.status

Working ==
  {"approved", "executing", "verifying", "checkpoint-complete", "reviewing",
   "review-passed", "ready-to-finalize", "needs-repair"}

(* A run that works, has worked, or is in the memory of a process, is on   *)
(* the revision that was approved.                                         *)
OnApprovedPlan ==
  /\ run.attempts > 0 \/ Effective(run) \in Working =>
       run.approved = run.revision
  /\ \A p \in Proc : job[p].step # "idle" =>
       job[p].run.approved = job[p].run.revision

LEMMA ApprovedPlanStep ==
  Typed /\ OnApprovedPlan /\ TypeOK' /\ Moves => OnApprovedPlan'
<1> SUFFICES ASSUME Typed, OnApprovedPlan, TypeOK', Moves PROVE OnApprovedPlan'
  OBVIOUS
<1>1. /\ run.status \in RunStatus
      /\ Working \cap (Paused \cup Terminal \cup {"none", "proposed", "blocked"}) = {}
  BY Types DEF Typed, Working, Paused, BudgetPause, Terminal
<1>2. CASE Quiet
  BY <1>2 DEF Quiet, Kept, Leaves, OnApprovedPlan, Effective
<1>3. ASSUME NEW p \in Proc, ProcessMoves(p) PROVE OnApprovedPlan'
  <2>1. CASE LoadsToWork(p) \/ LoadsToVerify(p)
    BY <1>1, <2>1
    DEF LoadsToWork, LoadsToVerify, Enters, Kept, OnApprovedPlan, Effective, Working
  <2>2. CASE LoadsToReview(p) \/ BeginsRepair(p)
    <3>1. run.approved = run.revision
      BY <1>1, <2>2
      DEF LoadsToReview, BeginsRepair, OnApprovedPlan, Effective, Working
    <3> QED
      BY <2>2, <3>1
      DEF LoadsToReview, BeginsRepair, Attempted, Enters, SameApproval,
          OnApprovedPlan
  <2>3. CASE BeginsWork(p)
    BY <2>3 DEF BeginsWork, Attempted, Enters, SameApproval, OnApprovedPlan
  <2>4. CASE EndsWork(p)
    BY <2>4 DEF EndsWork, Same, Leaves, SameApproval, OnApprovedPlan
  <2>5. CASE VerifiesWell(p)
    BY <2>5 DEF VerifiesWell, Verifies, Leaves, SameApproval, OnApprovedPlan
  <2>6. CASE VerifiesBadly(p)
    BY <2>6 DEF VerifiesBadly, Verifies, Leaves, SameApproval, OnApprovedPlan
  <2>7. CASE Judges(p)
    BY <2>7 DEF Judges, Leaves, SameApproval, OnApprovedPlan
  <2> QED
    BY <1>3, <2>1, <2>2, <2>3, <2>4, <2>5, <2>6, <2>7 DEF ProcessMoves
<1>4. CASE Controlled
  <2> USE DEF ShortMove
  <2>1. CASE IsPaused
    <3>1. run.status \notin Paused => Effective(run) = run.status
      BY DEF Effective
    <3>2. Effective(run') = run.status BY <2>1 DEF IsPaused, Effective
    <3> QED
      BY <1>1, <2>1, <3>1, <3>2
      DEF IsPaused, Same, SameApproval, SameHistory, OnApprovedPlan
  <2>2. CASE IsResumed
    <3>1. Effective(run) = run.pausedFrom BY <2>2 DEF IsResumed, Effective
    <3>2. Effective(run') \in {run.pausedFrom, "none"} \cup Paused
      BY <2>2 DEF IsResumed, Effective
    <3> QED
      BY <1>1, <2>2, <3>1, <3>2
      DEF IsResumed, Same, SameApproval, SameHistory, OnApprovedPlan
  <2>3. CASE IsApproved BY <2>3 DEF IsApproved, OnApprovedPlan
  <2>4. CASE IsShown
    <3>1. Effective(run) \in Working
      BY <1>1, <2>4 DEF IsShown, Effective, Working, Paused, BudgetPause
    <3> QED
      BY <2>4, <3>1 DEF IsShown, Same, SameApproval, OnApprovedPlan
  <2>5. CASE IsDelivered
    <3>1. Effective(run) \in Working
      BY <2>5 DEF IsDelivered, Finalizable, Effective, Working, Paused, BudgetPause
    <3> QED
      BY <2>5, <3>1 DEF IsDelivered, Same, SameApproval, OnApprovedPlan
  <2>6. CASE IsAdvanced
    <3>1. Effective(run') = "proposed"
      BY <2>6 DEF IsAdvanced, Effective, Paused, BudgetPause
    <3> QED BY <1>1, <2>6, <3>1 DEF IsAdvanced, OnApprovedPlan
  <2>7. CASE IsRevised
    <3>1. Effective(run') = "proposed" /\ run'.attempts = 0
      BY <2>7 DEF IsRevised, Effective, Paused, BudgetPause, SameHistory
    <3> QED BY <1>1, <2>7, <3>1 DEF IsRevised, OnApprovedPlan
  <2>8. CASE IsRaised
    BY <2>8
    DEF IsRaised, SameApproval, SameHistory, OnApprovedPlan, Effective
  <2>9. CASE IsClosed
    <3>1. Effective(run') \notin Working
      BY <2>9 DEF IsClosed, Effective, Working, Paused, BudgetPause
    <3> QED
      BY <2>9, <3>1 DEF IsClosed, Same, SameApproval, SameHistory, OnApprovedPlan
  <2> QED
    BY <1>4, <2>1, <2>2, <2>3, <2>4, <2>5, <2>6, <2>7, <2>8, <2>9
    DEF Controlled
<1> QED BY <1>2, <1>3, <1>4 DEF Moves

(* Work is only ever recorded on the plan revision the operator approved,  *)
(* for any number of processes in long commands and any bounds: also when  *)
(* the plan is revised while the baseline of the old one runs              *)
(* (execution.js; controls.js, reviseSupervisedRun).                       *)
THEOREM OnlyApprovedPlanRuns == Spec => []ApprovedPlanRuns
<1>1. Init => OnApprovedPlan
  <2> SUFFICES ASSUME Init PROVE OnApprovedPlan OBVIOUS
  <2>1. run.attempts = 0 /\ run.status = "proposed"
    BY DEF Init, ProposedRun
  <2>2. \A p \in Proc : job[p].step = "idle" BY DEF Init, Idle
  <2> QED
    BY <2>1, <2>2 DEF OnApprovedPlan, Effective, Working, Paused, BudgetPause
<1>2. Typed /\ OnApprovedPlan /\ [Next]_vars => OnApprovedPlan'
  BY Steps, ApprovedPlanStep DEF Good
<1>3. OnApprovedPlan => ApprovedPlanRuns
  BY DEF OnApprovedPlan, ApprovedPlanRuns
<1> QED BY <1>1, <1>2, <1>3, TypedHolds, PTL DEF Spec

-----------------------------------------------------------------------------
(* The meters. *)

Balanced(r) ==
  /\ r.used = AllocSum(r.usedAlloc) /\ r.ops = AllocSum(r.alloc)
  /\ \A a \in Allocation : r.usedAlloc[a] <= r.alloc[a]
  /\ r.fullRuns <= r.maxFull

(* run.json, and each memory it will be written from, is within its        *)
(* ceilings; what a process is about to start has room.                    *)
Within ==
  /\ Balanced(run)
  /\ \A p \in Proc : job[p].step # "idle" =>
       /\ Balanced(job[p].run)
       /\ job[p].step = "baseline" => Room(job[p].run, "implementation")
       /\ job[p].step = "verifying" => ~OverVerification(job[p].run)

LEMMA SameBalance ==
  ASSUME NEW r, NEW x, SameMeters(r, x), Balanced(r)
  PROVE  x.used = r.used /\ Balanced(x)
BY DEF SameMeters, SameCeilings, Balanced

LEMMA CountedBalance ==
  ASSUME NEW r \in RunRecord, NEW x, NEW a \in Allocation,
         Counted(r, x, a), Room(r, a), Balanced(r)
  PROVE  x.used = r.used + 1 /\ Balanced(x)
<1>1. PICK u, v, w : /\ u = r.usedAlloc /\ v = r.alloc
                     /\ w = [u EXCEPT ![a] = @ + 1]
  OBVIOUS
<1>2. u \in [Allocation -> Nat] /\ v \in [Allocation -> Nat] /\ r.used \in Nat
  BY <1>1 DEF RunRecord
<1>3. x.usedAlloc = w /\ x.alloc = v BY <1>1 DEF Counted, SameCeilings
<1>4. \A b \in Allocation : w[b] = IF b = a THEN u[b] + 1 ELSE u[b]
  BY <1>1, <1>2
<1>5. \A b \in Allocation : u[b] <= v[b] /\ u[b] \in Nat /\ v[b] \in Nat
  BY <1>1, <1>2 DEF Balanced
<1>6. \A b \in Allocation : w[b] <= v[b]
  <2>1. u[a] < v[a] BY <1>1 DEF Room
  <2> QED BY <1>4, <1>5, <2>1
<1>7. AllocSum(w) = AllocSum(u) + 1
  BY <1>2, <1>4, <1>5 DEF AllocSum, Allocation
<1> QED
  BY <1>1, <1>2, <1>3, <1>6, <1>7 DEF Counted, SameCeilings, Balanced

LEMMA RaisedBalance ==
  ASSUME NEW r \in RunRecord, NEW x \in RunRecord, Balanced(r),
         x.used = r.used, x.usedAlloc = r.usedAlloc,
         x.fullRuns = r.fullRuns, x.maxFull >= r.maxFull,
         \/ x.ops = r.ops /\ x.alloc = r.alloc
         \/ /\ x.ops = r.ops + 1
            /\ \E a \in Allocation : x.alloc = [r.alloc EXCEPT ![a] = @ + 1]
  PROVE  Balanced(x)
<1>1. /\ r.fullRuns \in Nat /\ r.maxFull \in Nat /\ x.maxFull \in Nat
      /\ r.ops \in Nat /\ r.alloc \in [Allocation -> Nat]
      /\ r.usedAlloc \in [Allocation -> Nat]
  BY DEF RunRecord
<1>2. x.fullRuns <= x.maxFull BY <1>1 DEF Balanced
<1>3. CASE x.ops = r.ops /\ x.alloc = r.alloc BY <1>2, <1>3 DEF Balanced
<1>4. ASSUME NEW a \in Allocation, x.ops = r.ops + 1,
             x.alloc = [r.alloc EXCEPT ![a] = @ + 1]
      PROVE  Balanced(x)
  <2>1. PICK u, v, w : u = r.usedAlloc /\ v = r.alloc /\ w = x.alloc OBVIOUS
  <2>2. \A b \in Allocation : w[b] = IF b = a THEN v[b] + 1 ELSE v[b]
    BY <1>1, <1>4, <2>1
  <2>3. \A b \in Allocation : u[b] <= v[b] /\ u[b] \in Nat /\ v[b] \in Nat
    BY <1>1, <2>1 DEF Balanced
  <2>4. AllocSum(w) = AllocSum(v) + 1
    BY <2>2, <2>3 DEF AllocSum, Allocation
  <2>5. \A b \in Allocation : u[b] <= w[b] BY <2>2, <2>3
  <2> QED BY <1>1, <1>2, <1>4, <2>1, <2>4, <2>5 DEF Balanced
<1> QED BY <1>3, <1>4

LEMMA VerifiedBalance ==
  ASSUME NEW r \in RunRecord, NEW x, NEW n \in Nat, Verifies(r, x, n),
         ~OverVerification(r), Balanced(r)
  PROVE  x.used = r.used /\ Balanced(x)
<1>1. /\ r.plan.full \in Nat /\ r.fullRuns \in Nat /\ r.maxFull \in Nat
  BY PlanAssumption DEF RunRecord
<1>2. r.fullRuns + n <= r.maxFull
  BY <1>1 DEF Verifies, OverVerification, Balanced
<1> QED BY <1>2 DEF Verifies, SameCeilings, Balanced

LEMMA WithinStep ==
  ASSUME Typed, Within, TypeOK', Moves
  PROVE  Within'
<1>1. /\ run \in RunRecord /\ run' \in RunRecord
      /\ \A p \in Proc : job[p].run \in RunRecord
  BY Types DEF Typed, TypeOK
<1>2. /\ "implementation" \in Allocation /\ "repair" \in Allocation
      /\ "reviewer" \in Allocation
  BY DEF Allocation
<1>3. CASE Quiet
  BY <1>3 DEF Quiet, Kept, Leaves, Within
<1>4. ASSUME NEW p \in Proc, ProcessMoves(p) PROVE Within'
  <2>1. CASE LoadsToWork(p)
    BY <2>1 DEF LoadsToWork, Enters, Kept, Within
  <2>2. CASE LoadsToVerify(p)
    BY <2>2 DEF LoadsToVerify, Enters, Kept, Within
  <2>3. CASE LoadsToReview(p)
    <3>1. Balanced(run')
      BY <1>1, <1>2, <2>3, CountedBalance DEF LoadsToReview, Within
    <3> QED BY <2>3, <3>1 DEF LoadsToReview, Enters, Within
  <2>4. CASE BeginsWork(p)
    <3>1. Balanced(run')
      BY <1>1, <1>2, <2>4, CountedBalance DEF BeginsWork, Attempted, Within
    <3> QED BY <2>4, <3>1 DEF BeginsWork, Enters, Within
  <2>5. CASE BeginsRepair(p)
    <3>1. Balanced(run')
      BY <1>1, <1>2, <2>5, CountedBalance DEF BeginsRepair, Attempted, Within
    <3> QED BY <2>5, <3>1 DEF BeginsRepair, Enters, Within
  <2>6. CASE EndsWork(p) \/ Judges(p)
    <3>1. /\ job[p].step \notin {"idle", "baseline", "verifying"}
          /\ SameMeters(job[p].run, run') /\ Leaves(p)
      BY <2>6 DEF EndsWork, Judges, Same
    <3>2. Balanced(run') BY <3>1, SameBalance DEF Within
    <3> QED BY <3>1, <3>2 DEF Leaves, Within
  <2>7. CASE VerifiesWell(p) \/ VerifiesBadly(p)
    <3>1. PICK n \in Nat : Verifies(job[p].run, run', n)
      BY <2>7 DEF VerifiesWell, VerifiesBadly
    <3>2. job[p].step = "verifying" /\ Leaves(p)
      BY <2>7 DEF VerifiesWell, VerifiesBadly
    <3>3. Balanced(run')
      BY <1>1, <3>1, <3>2, VerifiedBalance DEF Within
    <3> QED BY <3>2, <3>3 DEF Leaves, Within
  <2> QED
    BY <1>4, <2>1, <2>2, <2>3, <2>4, <2>5, <2>6, <2>7 DEF ProcessMoves
<1>5. CASE Controlled
  <2>1. CASE IsRaised
    <3>1. Balanced(run')
      BY <1>1, <2>1, RaisedBalance DEF IsRaised, Within
    <3> QED BY <2>1, <3>1 DEF IsRaised, ShortMove, Within
  <2>2. CASE SameMeters(run, run') /\ ShortMove
    <3>1. Balanced(run') BY <2>2, SameBalance DEF Within
    <3> QED BY <2>2, <3>1 DEF ShortMove, Within
  <2> QED
    BY <1>5, <2>1, <2>2
    DEF Controlled, IsPaused, IsResumed, IsApproved, IsShown, IsDelivered,
        IsAdvanced, IsRevised, IsClosed, Same
<1> QED BY <1>3, <1>4, <1>5 DEF Moves

LEMMA WithinHolds == Spec => []Within
<1>1. Init => Within
  <2> SUFFICES ASSUME Init PROVE Within OBVIOUS
  <2>1. PICK f \in Profile, plan \in Plan : run = ProposedRun(f, plan)
    BY DEF Init
  <2>2. /\ f.alloc \in [Allocation -> Nat] /\ AllocSum(f.alloc) = f.ops
        /\ f.maxFull \in Nat
    BY ProfileAssumption DEF ValidProfile
  <2>3. /\ run.used = 0 /\ run.usedAlloc = [a \in Allocation |-> 0]
        /\ run.ops = f.ops /\ run.alloc = f.alloc
        /\ run.fullRuns = 0 /\ run.maxFull = f.maxFull
    BY <2>1 DEF ProposedRun
  <2>4. Balanced(run)
    BY <2>2, <2>3 DEF Balanced, AllocSum, Allocation
  <2>5. \A p \in Proc : job[p].step = "idle" BY DEF Init, Idle
  <2> QED BY <2>4, <2>5 DEF Within
<1>2. Typed /\ Within /\ [Next]_vars => Within'
  BY Steps, WithinStep DEF Good
<1> QED BY TypedHolds, <1>1, <1>2, PTL DEF Spec

(* No operation is counted that was not started, in run.json or in the     *)
(* memory it will be written from.                                         *)
NoneInvented ==
  /\ run.used <= spent
  /\ \A p \in Proc : job[p].step # "idle" => job[p].run.used <= spent

(* The meter a move writes is the one of run.json or of the memory of the  *)
(* process that moves, one higher when an operation starts.                *)
LEMMA MeterWritten ==
  ASSUME NEW p \in Proc, ProcessMoves(p)
  PROVE  \/ /\ run'.used = run.used /\ spent' = spent
            /\ job'[p].step # "idle" /\ job'[p].run = run'
         \/ /\ run'.used = run.used + 1 /\ spent' = spent + 1
            /\ job'[p].step # "idle" /\ job'[p].run = run'
         \/ /\ job[p].step # "idle" /\ run'.used = job[p].run.used + 1
            /\ spent' = spent + 1
            /\ job'[p].step # "idle" /\ job'[p].run = run'
         \/ /\ job[p].step # "idle" /\ run'.used = job[p].run.used
            /\ spent' = spent /\ job'[p].step = "idle"
<1>1. CASE LoadsToWork(p) \/ LoadsToVerify(p)
  BY <1>1 DEF LoadsToWork, LoadsToVerify, Enters, Kept
<1>2. CASE LoadsToReview(p) \/ BeginsRepair(p)
  BY <1>2 DEF LoadsToReview, BeginsRepair, Attempted, Counted, Enters
<1>3. CASE BeginsWork(p)
  BY <1>3 DEF BeginsWork, Attempted, Counted, Enters
<1>4. CASE EndsWork(p) \/ VerifiesWell(p) \/ VerifiesBadly(p) \/ Judges(p)
  BY <1>4
  DEF EndsWork, VerifiesWell, VerifiesBadly, Judges, Same, SameMeters,
      Verifies, Leaves
<1> QED BY <1>1, <1>2, <1>3, <1>4 DEF ProcessMoves

LEMMA OthersStay ==
  ASSUME NEW p \in Proc, ProcessMoves(p), NEW q \in Proc, q # p
  PROVE  job'[q] = job[q]
<1>1. Leaves(p) => job'[q] = job[q] BY DEF Leaves
<1>2. LoadsToWork(p) \/ LoadsToVerify(p) \/ LoadsToReview(p)
        \/ BeginsWork(p) \/ BeginsRepair(p) => job'[q] = job[q]
  BY DEF LoadsToWork, LoadsToVerify, LoadsToReview, BeginsWork, BeginsRepair,
         Enters
<1> QED
  BY <1>1, <1>2
  DEF ProcessMoves, EndsWork, VerifiesWell, VerifiesBadly, Judges

LEMMA ProcessMoved ==
  ASSUME NEW p \in Proc, ProcessMoves(p)
  PROVE  job'[p] # job[p]
BY DEF ProcessMoves, LoadsToWork, LoadsToVerify, LoadsToReview, BeginsWork,
       BeginsRepair, EndsWork, VerifiesWell, VerifiesBadly, Judges, Enters,
       Leaves

LEMMA MeterUnderControl ==
  ASSUME Controlled
  PROVE  run'.used = run.used /\ job' = job /\ spent' = spent
BY DEF Controlled, IsPaused, IsResumed, IsApproved, IsShown, IsDelivered,
       IsAdvanced, IsRevised, IsRaised, IsClosed, Same, SameMeters, ShortMove

LEMMA Meters ==
  ASSUME Typed
  PROVE  /\ run.used \in Nat /\ spent \in Nat
         /\ \A p \in Proc : job[p].run.used \in Nat
<1>1. \A r \in RunRecord : r.used \in Nat BY DEF RunRecord
<1> QED BY <1>1, Types DEF Typed, TypeOK

LEMMA NoneInventedStep ==
  ASSUME Typed, NoneInvented, Moves
  PROVE  NoneInvented'
<1>1. CASE Quiet BY <1>1 DEF Quiet, Kept, Leaves, NoneInvented
<1>2. ASSUME NEW p \in Proc, ProcessMoves(p) PROVE NoneInvented'
  <2>1. run'.used <= spent' /\ spent <= spent'
    BY <1>2, Meters, MeterWritten DEF NoneInvented
  <2>2. job'[p].step # "idle" => job'[p].run.used <= spent'
    BY <1>2, <2>1, MeterWritten
  <2>3. ASSUME NEW q \in Proc, q # p, job'[q].step # "idle"
        PROVE  job'[q].run.used <= spent'
    <3>1. job[q].run.used <= spent BY <1>2, <2>3, OthersStay DEF NoneInvented
    <3>2. spent' \in Nat BY <1>2, Meters, MeterWritten
    <3> QED BY <1>2, <2>1, <2>3, <3>1, <3>2, Meters, OthersStay
  <2> QED BY <2>1, <2>2, <2>3 DEF NoneInvented
<1>3. CASE Controlled BY <1>3, MeterUnderControl DEF NoneInvented
<1> QED BY <1>1, <1>2, <1>3 DEF Moves

LEMMA NoneInventedHolds == Spec => []NoneInvented
<1>1. Init => NoneInvented
  <2> SUFFICES ASSUME Init PROVE NoneInvented OBVIOUS
  <2>1. run.used = 0 BY DEF Init, ProposedRun
  <2>2. \A p \in Proc : job[p].step = "idle" BY DEF Init, Idle
  <2> QED BY <2>1, <2>2 DEF Init, NoneInvented
<1>2. Typed /\ NoneInvented /\ [Next]_vars => NoneInvented'
  BY Steps, NoneInventedStep DEF Good
<1> QED BY TypedHolds, <1>1, <1>2, PTL DEF Spec

(* The meters of run.json add up over the allocations, no meter passes its *)
(* ceiling and no operation is counted that was not started, for any       *)
(* number of processes in long commands: also when one writes the run it   *)
(* loaded over what another wrote meanwhile, since each checks the         *)
(* ceilings of the run it loaded (budget.js, verification.js).             *)
THEOREM CeilingsHold == Spec => []CeilingsKept
<1>1. Within /\ NoneInvented => CeilingsKept
  BY DEF Within, NoneInvented, Balanced, CeilingsKept
<1> QED BY <1>1, WithinHolds, NoneInventedHolds, PTL

(* Every operation that a step starts is counted, unless the step is the   *)
(* write of a long command that was overtaken.                             *)
LEMMA CountedOrOvertaken ==
  ASSUME Typed, Moves
  PROVE  \/ run'.used - run.used = spent' - spent
         \/ \E p \in Proc : Overtaken(p) /\ job'[p] # job[p]
<1>1. CASE Quiet BY <1>1, Meters DEF Quiet, Kept
<1>2. ASSUME NEW p \in Proc, ProcessMoves(p),
             run'.used - run.used # spent' - spent
      PROVE  Overtaken(p) /\ job'[p] # job[p]
  <2>1. job[p].step # "idle" /\ job[p].run.used # run.used
    BY <1>2, Meters, MeterWritten
  <2> QED BY <1>2, <2>1, ProcessMoved DEF Overtaken
<1>3. CASE Controlled BY <1>3, Meters, MeterUnderControl
<1> QED BY <1>1, <1>2, <1>3 DEF Moves

(* Nobody but a second long command overtakes a long command.              *)
LEMMA OvertakenByAnother ==
  ASSUME Moves, NEW p \in Proc, Overtaken(p)'
  PROVE  Overtaken(p) \/ \E q \in Proc \ {p} : job'[q] # job[q]
<1>1. CASE Quiet BY <1>1 DEF Quiet, Kept, Leaves, Overtaken
<1>2. ASSUME NEW q \in Proc, ProcessMoves(q)
      PROVE  q # p /\ job'[q] # job[q]
  <2>1. q # p BY <1>2, MeterWritten DEF Overtaken
  <2> QED BY <1>2, <2>1, ProcessMoved
<1>3. CASE Controlled BY <1>3, MeterUnderControl DEF Overtaken
<1> QED BY <1>1, <1>2, <1>3 DEF Moves

(* For any number of processes in long commands, an operation that was     *)
(* started drops out of run.json only with the write of a long command     *)
(* that another long command had overtaken.  Nothing in the code keeps two *)
(* from running at once; what the theorem adds is that controls, refusals, *)
(* pauses, revisions and kills alone never lose one (execution.js,         *)
(* review.js, verification.js, controls.js).                               *)
THEOREM OperationsLostOnlyByOverlap == Spec => LossNeedsOverlap
<1>1. Typed /\ [Next]_vars =>
        [/\ \/ run'.used - run.used = spent' - spent
            \/ \E p \in Proc : Overtaken(p) /\ job'[p] # job[p]
         /\ \A p \in Proc : Overtaken(p)' =>
              Overtaken(p) \/ \E q \in Proc \ {p} : job'[q] # job[q]]_vars
  BY Steps, CountedOrOvertaken, OvertakenByAnother DEF Good
<1> QED BY TypedHolds, <1>1, PTL DEF Spec, LossNeedsOverlap

-----------------------------------------------------------------------------
(* The rest holds while one long command runs at a time.  The code has no  *)
(* lock: of two that run at once, the one that ends last writes the run it *)
(* loaded over what the other wrote.                                       *)
OneCommand == \A p, q \in Proc : p = q

-----------------------------------------------------------------------------
(* The history. *)

Stopped == {"blocked", "cancelled", "abandoned", "rolled-back"}

InReview(r) ==
  \/ r.status = "reviewing"
  \/ r.status \in Paused /\ r.pausedFrom \in {"reviewing"} \cup Paused

(* Where run.json r can be while a process is at step s. *)
AtWork(s, r) ==
  \/ r.task \in Stopped
  \/ s = "baseline" /\ r.task \in {"ready", "proposed"}
  \/ s \in {"implementing", "repairing"} /\ r.task = "executing"
  \/ s = "verifying" /\ r.task = "awaiting-verification"
  \/ s = "reviewing" /\ r.task = "verified" /\ InReview(r)

(* A process remembers the history run.json has: what controls do while it *)
(* works ends the run, or leaves the checkpoint where it is.               *)
Remembered ==
  /\ \A p \in Proc : job[p].step # "idle" =>
       /\ SameHistory(job[p].run, run)
       /\ AtWork(job[p].step, run)
       /\ job[p].step # "baseline" => run.attempts > 0
  /\ run.task \in {"executing", "awaiting-verification", "verified",
                   "repair-ready"} => run.attempts > 0

LEMMA RememberedUnderWork ==
  ASSUME OneCommand, Typed, Remembered, NEW p \in Proc, ProcessMoves(p)
  PROVE  Remembered'
<1>1. \A q \in Proc : q = p BY DEF OneCommand
<1>2. /\ run.attempts \in Nat /\ job[p].run.attempts \in Nat
      /\ job[p].run.number = job[p].run.number
  BY Types DEF Typed, RunRecord
<1>3. CASE LoadsToWork(p)
  <2>1. AtWork("baseline", run) BY <1>3 DEF LoadsToWork, AtWork
  <2> QED
    BY <1>1, <1>3, <2>1
    DEF LoadsToWork, Enters, Kept, SameHistory, Remembered
<1>4. CASE LoadsToVerify(p)
  <2>1. AtWork("verifying", run) /\ run.attempts > 0
    BY <1>4 DEF LoadsToVerify, AtWork, Remembered
  <2> QED
    BY <1>1, <1>4, <2>1
    DEF LoadsToVerify, Enters, Kept, SameHistory, Remembered
<1>5. CASE LoadsToReview(p)
  <2>1. AtWork("reviewing", run') /\ run'.attempts > 0
    BY <1>5 DEF LoadsToReview, AtWork, InReview, SameHistory, Remembered
  <2> QED
    BY <1>1, <1>5, <2>1 DEF LoadsToReview, Enters, SameHistory, Remembered
<1>6. CASE BeginsWork(p)
  <2>1. AtWork("implementing", run') /\ run'.attempts > 0
    BY <1>2, <1>6 DEF BeginsWork, Attempted, AtWork
  <2> QED
    BY <1>1, <1>6, <2>1 DEF BeginsWork, Enters, SameHistory, Remembered
<1>7. CASE BeginsRepair(p)
  <2>1. AtWork("repairing", run') /\ run'.attempts > 0
    BY <1>2, <1>7 DEF BeginsRepair, Attempted, AtWork
  <2> QED
    BY <1>1, <1>7, <2>1 DEF BeginsRepair, Enters, SameHistory, Remembered
<1>8. CASE EndsWork(p) \/ VerifiesWell(p) \/ VerifiesBadly(p) \/ Judges(p)
  <2>1. /\ job[p].step \notin {"idle", "baseline"} /\ Leaves(p)
        /\ run'.attempts = job[p].run.attempts
    BY <1>8
    DEF EndsWork, VerifiesWell, VerifiesBadly, Judges, Same, SameHistory, Verifies
  <2>2. run'.attempts > 0 BY <2>1 DEF Remembered, SameHistory
  <2> QED BY <1>1, <2>1, <2>2 DEF Leaves, Remembered
<1> QED
  BY <1>3, <1>4, <1>5, <1>6, <1>7, <1>8 DEF ProcessMoves

(* A control leaves AtWork: one conjunct per control. *)
LEMMA AtWorkUnderControl ==
  ASSUME Typed, Remembered, Controlled, NEW p \in Proc, job[p].step # "idle"
  PROVE  /\ AtWork(job[p].step, run') /\ SameHistory(run, run')
         /\ job[p].step # "baseline" => run'.attempts > 0
<1>1. PICK s : s = job[p].step OBVIOUS
<1>2. AtWork(s, run) /\ (s # "baseline" => run.attempts > 0)
  BY <1>1 DEF Remembered
<1>3. s \in {"baseline", "implementing", "repairing", "verifying", "reviewing"}
  BY <1>1 DEF Typed, TypeOK, JobRecord
<1>4. CASE IsPaused
  <2>1. AtWork(s, run')
    BY <1>2, <1>4 DEF IsPaused, AtWork, InReview
  <2> QED BY <1>1, <1>2, <1>4, <2>1 DEF IsPaused, Same, SameHistory
<1>5. CASE IsResumed
  <2>1. "reviewing" \notin Paused BY DEF Paused, BudgetPause
  <2>2. InReview(run) => InReview(run')
    BY <1>5, <2>1 DEF IsResumed, InReview
  <2>3. AtWork(s, run')
    BY <1>2, <1>5, <2>2 DEF IsResumed, AtWork
  <2> QED BY <1>1, <1>2, <1>5, <2>3 DEF IsResumed, Same, SameHistory
<1>6. CASE IsApproved
  <2>1. AtWork(s, run') BY <1>2, <1>6 DEF IsApproved, AtWork, Stopped
  <2> QED BY <1>1, <1>2, <1>6, <2>1 DEF IsApproved, SameHistory
<1>7. ~IsShown /\ ~IsDelivered /\ ~IsAdvanced
  <2>1. /\ run.status \in {"review-passed", "ready-to-finalize",
                           "checkpoint-complete"} => ~InReview(run)
        /\ run.pausedFrom = "checkpoint-complete" => ~InReview(run)
                            \/ run.status = "reviewing"
    BY DEF InReview, Paused, BudgetPause
  <2>2. ~InReview(run) => run.task # "verified"
    BY <1>2 DEF AtWork, Stopped
  <2>3. run.status = "paused-budget-safe" => run.status # "reviewing"
    OBVIOUS
  <2> QED
    BY <2>1, <2>2, <2>3
    DEF IsShown, IsDelivered, Finalizable, IsAdvanced, AtCheckpointBoundary
<1>8. CASE IsRevised
  <2>1. s = "baseline" BY <1>2, <1>8 DEF IsRevised
  <2>2. AtWork(s, run') BY <1>8, <2>1 DEF IsRevised, AtWork
  <2> QED BY <1>1, <1>8, <2>1, <2>2 DEF IsRevised
<1>9. CASE IsRaised
  <2>1. AtWork(s, run')
    BY <1>2, <1>9 DEF IsRaised, AtWork, InReview
  <2> QED BY <1>1, <1>2, <1>9, <2>1 DEF IsRaised, SameHistory
<1>10. CASE IsClosed
  <2>1. AtWork(s, run') BY <1>10 DEF IsClosed, AtWork, Stopped
  <2> QED BY <1>1, <1>2, <1>10, <2>1 DEF IsClosed, Same, SameHistory
<1> QED BY <1>4, <1>5, <1>6, <1>7, <1>8, <1>9, <1>10 DEF Controlled

LEMMA RememberedUnderControl ==
  ASSUME Typed, Remembered, Controlled
  PROVE  Remembered'
<1>1. job' = job BY DEF Controlled, IsPaused, IsResumed, IsApproved, IsShown,
                       IsDelivered, IsAdvanced, IsRevised, IsRaised, IsClosed, ShortMove
<1>2. ASSUME NEW p \in Proc, job[p].step # "idle"
      PROVE  /\ SameHistory(job[p].run, run') /\ AtWork(job[p].step, run')
             /\ job[p].step # "baseline" => run'.attempts > 0
  BY <1>2, AtWorkUnderControl DEF Remembered, SameHistory
<1>3. run'.task \in {"executing", "awaiting-verification", "verified",
                     "repair-ready"} => run'.attempts > 0
  <2>1. CASE IsPaused \/ IsResumed \/ IsRaised \/ IsShown
    BY <2>1
    DEF IsPaused, IsResumed, IsRaised, IsShown, Same, SameHistory, Remembered
  <2>2. CASE IsApproved \/ IsDelivered \/ IsAdvanced \/ IsRevised \/ IsClosed
    BY <2>2 DEF IsApproved, IsDelivered, IsAdvanced, IsRevised, IsClosed
  <2> QED BY <2>1, <2>2 DEF Controlled
<1> QED BY <1>1, <1>2, <1>3 DEF Remembered

LEMMA RememberedStep ==
  ASSUME OneCommand, Typed, Remembered, Moves
  PROVE  Remembered'
<1>1. CASE Quiet
  <2>1. \A p \in Proc : job'[p] = job[p] \/ job'[p].step = "idle"
    BY <1>1 DEF Quiet, Leaves
  <2> QED BY <1>1, <2>1 DEF Quiet, Kept, Remembered
<1> QED
  BY <1>1, RememberedUnderWork, RememberedUnderControl DEF Moves

(* What no step may do to the history in run.json. *)
HistoryStands ==
  /\ run'.number >= run.number
  /\ run'.number = run.number =>
       /\ run'.attempts >= run.attempts
       /\ run.failures \subseteq run'.failures

LEMMA HistoryStep ==
  ASSUME Typed, Remembered, Moves
  PROVE  HistoryStands
<1>1. run.number \in Nat /\ run.attempts \in Nat
  BY Types DEF Typed, RunRecord
<1>2. CASE Quiet BY <1>1, <1>2 DEF Quiet, Kept, HistoryStands
<1>3. ASSUME NEW p \in Proc, ProcessMoves(p) PROVE HistoryStands
  <2>1. CASE LoadsToWork(p) \/ LoadsToVerify(p) \/ LoadsToReview(p)
    BY <1>1, <2>1
    DEF LoadsToWork, LoadsToVerify, LoadsToReview, Kept, SameHistory, HistoryStands
  <2>2. CASE BeginsRepair(p)
    BY <1>1, <2>2 DEF BeginsRepair, Attempted, HistoryStands
  <2>3. CASE BeginsWork(p)
    BY <1>1, <2>3 DEF BeginsWork, Attempted, HistoryStands, Remembered, SameHistory
  <2>4. CASE EndsWork(p) \/ VerifiesWell(p) \/ VerifiesBadly(p) \/ Judges(p)
    <3>1. /\ job[p].step # "idle"
          /\ run'.number = job[p].run.number
          /\ run'.attempts = job[p].run.attempts
          /\ job[p].run.failures \subseteq run'.failures
      BY <2>4
      DEF EndsWork, VerifiesWell, VerifiesBadly, Judges, Same, SameHistory,
          Verifies
    <3> QED BY <1>1, <3>1 DEF Remembered, SameHistory, HistoryStands
  <2> QED BY <1>3, <2>1, <2>2, <2>3, <2>4 DEF ProcessMoves
<1>4. CASE Controlled
  <2>1. CASE IsAdvanced BY <1>1, <2>1 DEF IsAdvanced, HistoryStands
  <2>2. CASE SameHistory(run, run') BY <1>1, <2>2 DEF SameHistory, HistoryStands
  <2> QED
    BY <1>4, <2>1, <2>2
    DEF Controlled, IsPaused, IsResumed, IsApproved, IsShown, IsDelivered,
        IsRevised, IsRaised, IsClosed, Same
<1> QED BY <1>2, <1>3, <1>4 DEF Moves

LEMMA RememberedHolds == ASSUME OneCommand PROVE Spec => []Remembered
<1>1. Init => Remembered
  <2> SUFFICES ASSUME Init PROVE Remembered OBVIOUS
  <2>1. run.task = "proposed" BY DEF Init, ProposedRun
  <2>2. \A p \in Proc : job[p].step = "idle" BY DEF Init, Idle
  <2> QED BY <2>1, <2>2 DEF Remembered
<1>2. Typed /\ Remembered /\ [Next]_vars => Remembered'
  BY Steps, RememberedStep DEF Good
<1> QED BY TypedHolds, <1>1, <1>2, PTL DEF Spec

(* While one long command runs at a time, no step rewrites the history of  *)
(* a run: within a checkpoint attempts and failure signatures only grow,   *)
(* and a run never goes back to a checkpoint, also when controls write     *)
(* run.json under a process that will write it from memory (execution.js,  *)
(* verification.js, review.js).                                            *)
THEOREM HistoryIsKept == ASSUME OneCommand PROVE Spec => HistoryKept
<1>1. Typed /\ Remembered /\ [Next]_vars =>
        [/\ run'.number >= run.number
         /\ run'.number = run.number =>
              /\ run'.attempts >= run.attempts
              /\ run.failures \subseteq run'.failures]_vars
  BY Steps, HistoryStep DEF Good, HistoryStands
<1> QED BY TypedHolds, RememberedHolds, <1>1, PTL DEF Spec, HistoryKept

-----------------------------------------------------------------------------
(* What the steps of Next do to the worktree and to ownership.json. *)

Untouched == worktree' = worktree /\ ownership' = ownership

Edits(p) ==
  /\ job[p].step \in {"implementing", "repairing"}
  /\ run' = run /\ job' = job /\ ownership' = ownership
  /\ worktree'.exists = worktree.exists /\ worktree'.head = worktree.head
  /\ worktree'.reset = worktree.reset

Takes(p) ==
  job[p].step = "idle" /\ run.status = "approved" /\ run' = run /\ TakesOver

(* A verification or a review writes the ownership record. *)
Restates(p) ==
  /\ job[p].step \in {"verifying", "reviewing"} /\ worktree' = worktree
  /\ ownership'.status # "none"
  /\ ownership'.number \in {ownership.number, job[p].run.number}

(* finalize, cancel and abandon. *)
Releases ==
  /\ run.status \notin Terminal /\ worktree' = worktree
  /\ ownership.status # "none" /\ ownership'.status # "none"
  /\ ownership'.number = ownership.number

Seals ==
  /\ AtCheckpointBoundary(run) /\ Owns("verified", run)
  /\ worktree.head = run.number - 1
  /\ worktree'.head = worktree.head + 1 /\ worktree'.exists = worktree.exists
  /\ worktree'.version = worktree.version /\ worktree'.reset = worktree.reset
  /\ ownership'.status # "none" /\ ownership'.number = ownership.number

Rolls ==
  /\ run.status \notin Terminal
  /\ worktree'.reset = TRUE /\ worktree'.exists = worktree.exists
  /\ worktree'.head = 0
  /\ ownership.status # "none" /\ ownership'.status # "none"
  /\ ownership'.number = ownership.number

World ==
  \/ Untouched \/ Releases \/ Seals \/ Rolls
  \/ \E p \in Proc : Edits(p) \/ Takes(p) \/ Restates(p)

LEMMA ExecuteWorld ==
  ASSUME Typed, NEW p \in Proc, Execute(p) PROVE Untouched \/ Takes(p)
<1>1. CASE RefuseOperation("implementation")
  BY <1>1 DEF RefuseOperation, WriteRun, Untouched
<1>2. CASE TakeWorktree
  BY <1>2, TakeWorktreeStep DEF Execute, Takes
<1> QED BY <1>1, <1>2 DEF Execute

LEMMA EditWorld ==
  ASSUME Typed, NEW p \in Proc, Edit(p) PROVE Edits(p)
<1>1. PICK n, v : n = worktree.edits + 1 /\ v = worktree.edits + 2 OBVIOUS
<1>2. worktree' = [worktree EXCEPT !.edits = n, !.version = v]
  BY <1>1, Zenon DEF Edit
<1>3. worktree \in WorktreeRecord BY DEF Typed, TypeOK
<1>4. /\ worktree'.exists = worktree.exists /\ worktree'.head = worktree.head
      /\ worktree'.reset = worktree.reset
  BY <1>2, <1>3, Zenon DEF WorktreeRecord
<1> QED BY <1>4 DEF Edit, Edits

LEMMA PassVerificationWorld ==
  ASSUME Typed, NEW p \in Proc, PassVerification(p)
  PROVE  Untouched \/ Restates(p)
<1>1. PICK x, o :
        /\ o = [ownership EXCEPT !.status = "verified"]
        /\ x = [Verified(job[p].run, TRUE) EXCEPT
                  !.status = "checkpoint-complete", !.task = "verified",
                  !.verifiedAt = job[p].tree]
  OBVIOUS
<1>2. job[p].step = "verifying"
      /\ WriteFiles(<<Files(worktree, ownership, x), Files(worktree, o, x)>>)
  BY <1>1, Zenon DEF PassVerification
<1>3. o.status = "verified" /\ o.number = ownership.number
  BY <1>1, OwnershipMoved DEF Typed, TypeOK
<1>4. PICK a, b : a = Files(worktree, ownership, x) /\ b = Files(worktree, o, x)
  OBVIOUS
<1>5. /\ a.worktree = worktree /\ a.ownership = ownership
      /\ b.worktree = worktree /\ b.ownership = o
  BY <1>4 DEF Files
<1>6. WriteFiles(<<a, b>>) BY <1>2, <1>4
<1>7. worktree' = worktree /\ (ownership' = ownership \/ ownership' = o)
  BY <1>5, <1>6, Write2
<1> QED BY <1>2, <1>3, <1>7 DEF Untouched, Restates

LEMMA FinishReviewWorld ==
  ASSUME Typed, NEW p \in Proc, NEW decision \in Decision, NEW clean \in BOOLEAN,
         FinishReview(p, decision, clean)
  PROVE  Untouched \/ Restates(p)
<1>1. PICK m, v, y : /\ m = job[p].run /\ v = job[p].tree
                     /\ y = Decided(m, decision, v)
  OBVIOUS
<1>2. y.number = m.number
  <2>1. m \in RunRecord /\ v \in {0} \cup Version BY <1>1, Types DEF Typed
  <2>2. SameHistory(m, y) BY <1>1, <2>1, DecidedFields
  <2> QED BY <2>2 DEF SameHistory
<1>3. job[p].step = "reviewing" BY DEF FinishReview
<1>4. CASE /\ worktree' = worktree /\ ownership' = ownership
  BY <1>4 DEF Untouched
<1>5. PICK x : x = [y EXCEPT !.status = "needs-repair", !.task = "repair-ready"]
  OBVIOUS
<1>6. CASE WriteFiles(<<Files(worktree, Owned(y), run),
                        Files(worktree, Owned(y), x)>>)
  <2>1. PICK o : o = Owned(y) OBVIOUS
  <2>2. o.status = "active" /\ o.number = m.number BY <1>2, <2>1 DEF Owned
  <2>3. PICK a, b : a = Files(worktree, o, run) /\ b = Files(worktree, o, x)
    OBVIOUS
  <2>4. /\ a.worktree = worktree /\ a.ownership = o
        /\ b.worktree = worktree /\ b.ownership = o
    BY <2>3 DEF Files
  <2>5. WriteFiles(<<a, b>>) BY <1>6, <2>1, <2>3
  <2>6. worktree' = worktree /\ ownership' = o BY <2>4, <2>5, Write2
  <2> QED BY <1>1, <1>3, <2>2, <2>6 DEF Restates
<1> QED
  BY <1>1, <1>4, <1>5, <1>6, Zenon DEF FinishReview, Decided, WriteRun

LEMMA FinalizeWorld == Typed /\ Finalize => Releases
<1> SUFFICES ASSUME Typed, Finalize PROVE Releases OBVIOUS
<1>1. PICK o, x : o = [ownership EXCEPT !.status = "released"]
                  /\ x = Ended(run, "completed")
  OBVIOUS
<1>2. /\ Finalizable
      /\ WriteFiles(<<Files(worktree, o, run), Files(worktree, o, x)>>)
  BY <1>1, Zenon DEF Finalize
<1>3. o.status = "released" /\ o.number = ownership.number
  BY <1>1, OwnershipMoved DEF Typed, TypeOK
<1>4. PICK a, b : a = Files(worktree, o, run) /\ b = Files(worktree, o, x)
  OBVIOUS
<1>5. /\ a.worktree = worktree /\ a.ownership = o
      /\ b.worktree = worktree /\ b.ownership = o
  BY <1>4 DEF Files
<1>6. WriteFiles(<<a, b>>) BY <1>2, <1>4
<1>7. worktree' = worktree /\ ownership' = o BY <1>5, <1>6, Write2
<1>8. run.status \notin Terminal /\ ownership.status # "none"
  BY <1>2 DEF Finalizable, Terminal, Owns
<1> QED BY <1>3, <1>7, <1>8 DEF Releases

LEMMA EndWorld ==
  ASSUME Typed, NEW s \in {"cancelled", "abandoned"}, End(s)
  PROVE  Untouched \/ Releases
<1>1. PICK o, x : /\ x = Ended(run, s)
                  /\ o = IF ownership.status = "none" THEN ownership
                         ELSE [ownership EXCEPT !.status = s]
  OBVIOUS
<1>2. /\ run.status \notin Terminal
      /\ WriteFiles(<<Files(worktree, o, run), Files(worktree, o, x)>>)
  BY <1>1, Zenon DEF End
<1>3. \/ o = ownership
      \/ ownership.status # "none" /\ o.status = s /\ o.number = ownership.number
  BY <1>1, OwnershipMoved DEF Typed, TypeOK
<1>4. PICK a, b : a = Files(worktree, o, run) /\ b = Files(worktree, o, x)
  OBVIOUS
<1>5. /\ a.worktree = worktree /\ a.ownership = o
      /\ b.worktree = worktree /\ b.ownership = o
  BY <1>4 DEF Files
<1>6. WriteFiles(<<a, b>>) BY <1>2, <1>4
<1>7. worktree' = worktree /\ ownership' = o BY <1>5, <1>6, Write2
<1> QED BY <1>2, <1>3, <1>7 DEF Untouched, Releases

LEMMA AdvanceWorld ==
  ASSUME Typed, NEW plan \in Plan, Advance(plan)
  PROVE  Seals
<1>1. PICK w, o, x :
        /\ w = [worktree EXCEPT !.head = @ + 1, !.sealed = worktree.version]
        /\ o = [ownership EXCEPT !.status = "released"]
        /\ x = AdvancedRun(run, plan)
  OBVIOUS
<1>2. /\ AtCheckpointBoundary(run) /\ Owns("verified", run)
      /\ worktree.head = run.number - 1
      /\ WriteFiles(<<Files(w, ownership, run), Files(w, o, run), Files(w, o, x)>>)
  BY <1>1, Zenon DEF Advance
<1>3. /\ w.head = worktree.head + 1 /\ w.exists = worktree.exists
      /\ w.version = worktree.version /\ w.reset = worktree.reset
  <2>1. PICK h, v : h = worktree.head + 1 /\ v = worktree.version OBVIOUS
  <2>2. w = [worktree EXCEPT !.head = h, !.sealed = v] BY <1>1, <2>1, Zenon
  <2>3. worktree \in WorktreeRecord BY DEF Typed, TypeOK
  <2>4. w.head = h /\ w.exists = worktree.exists /\ w.version = worktree.version
        /\ w.reset = worktree.reset
    BY <2>2, <2>3, Zenon DEF WorktreeRecord
  <2> QED BY <2>1, <2>4
<1>4. o.status = "released" /\ o.number = ownership.number
  BY <1>1, OwnershipMoved DEF Typed, TypeOK
<1>5. PICK a, b, c : /\ a = Files(w, ownership, run) /\ b = Files(w, o, run)
                     /\ c = Files(w, o, x)
  OBVIOUS
<1>6. /\ a.worktree = w /\ a.ownership = ownership
      /\ b.worktree = w /\ b.ownership = o
      /\ c.worktree = w /\ c.ownership = o
  BY <1>5 DEF Files
<1>7. WriteFiles(<<a, b, c>>) BY <1>2, <1>5
<1>8. worktree' = w /\ (ownership' = ownership \/ ownership' = o)
  BY <1>6, <1>7, Write3
<1>9. ownership.status = "verified" BY <1>2 DEF Owns
<1> QED BY <1>2, <1>3, <1>4, <1>8, <1>9 DEF Seals

LEMMA RollbackWorld == Typed /\ Rollback => Rolls
<1> SUFFICES ASSUME Typed, Rollback PROVE Rolls OBVIOUS
<1>1. PICK w, o, x :
        /\ w = RolledBackTree
        /\ o = [ownership EXCEPT !.status = "rolled-back"]
        /\ x = Ended(run, "rolled-back")
  OBVIOUS
<1>2. /\ run.status \notin Terminal
      /\ ownership.status \in {"active", "verified", "released"}
      /\ WriteFiles(<<Files(w, ownership, run), Files(w, o, run), Files(w, o, x)>>)
  BY <1>1, Zenon DEF Rollback
<1>3. w.reset = TRUE /\ w.exists = worktree.exists /\ w.head = 0
  <2>1. worktree \in WorktreeRecord BY DEF Typed, TypeOK
  <2> QED BY <1>1, <2>1, Zenon DEF RolledBackTree, WorktreeRecord
<1>4. o.status = "rolled-back" /\ o.number = ownership.number
  BY <1>1, OwnershipMoved DEF Typed, TypeOK
<1>5. PICK a, b, c : /\ a = Files(w, ownership, run) /\ b = Files(w, o, run)
                     /\ c = Files(w, o, x)
  OBVIOUS
<1>6. /\ a.worktree = w /\ a.ownership = ownership
      /\ b.worktree = w /\ b.ownership = o
      /\ c.worktree = w /\ c.ownership = o
  BY <1>5 DEF Files
<1>7. WriteFiles(<<a, b, c>>) BY <1>2, <1>5
<1>8. worktree' = w /\ (ownership' = ownership \/ ownership' = o)
  BY <1>6, <1>7, Write3
<1> QED BY <1>2, <1>3, <1>4, <1>8 DEF Rolls

LEMMA WorldStep == Typed /\ [Next]_vars => World
<1> SUFFICES ASSUME Typed, [Next]_vars PROVE World OBVIOUS
<1> USE DEF World
<1>1. CASE Elapse \/ UNCHANGED vars BY <1>1 DEF Elapse, vars, Untouched
<1>2. ASSUME NEW p \in Proc, Execute(p) \/ Edit(p) \/ PassVerification(p)
      PROVE  World
  BY <1>2, ExecuteWorld, EditWorld, PassVerificationWorld
<1>3. ASSUME NEW p \in Proc, NEW d \in Decision, NEW clean \in BOOLEAN,
             FinishReview(p, d, clean)
      PROVE  World
  BY <1>3, FinishReviewWorld
<1>4. ASSUME NEW p \in Proc, BeginImplementation(p) \/ Kill(p) \/ Verify(p)
      PROVE  World
  BY <1>4 DEF BeginImplementation, Kill, Verify, WriteRun, Untouched
<1>5. ASSUME NEW p \in Proc, Retry(p) \/ Review(p) PROVE World
  BY <1>5 DEF Retry, Review, RefuseOperation, WriteRun, Untouched
<1>6. ASSUME NEW p \in Proc, NEW ok \in BOOLEAN, FinishWork(p, ok) PROVE World
  BY <1>6 DEF FinishWork, WriteRun, Untouched
<1>7. ASSUME NEW p \in Proc, NEW failed \in SUBSET Signature,
             NEW fullRan \in BOOLEAN, NEW twice \in BOOLEAN,
             NEW policy \in BOOLEAN,
             FailVerification(p, failed, fullRan, twice, policy)
      PROVE  World
  BY <1>7 DEF FailVerification, WriteRun, Untouched
<1>8. CASE LongCommand
  BY <1>2, <1>3, <1>4, <1>5, <1>6, <1>7, <1>8, Zenon DEF LongCommand
<1>9. CASE Finalize \/ Rollback BY <1>9, FinalizeWorld, RollbackWorld
<1>10. ASSUME NEW plan \in Plan, Advance(plan) PROVE World
  BY <1>10, AdvanceWorld
<1>11. ASSUME NEW s \in {"cancelled", "abandoned"}, End(s) PROVE World
  BY <1>11, EndWorld
<1>12. CASE Approve \/ Preview \/ Resume \/ AddVerification \/ Block
  BY <1>12
  DEF Approve, Preview, Resume, AddVerification, Block, WriteRun, Untouched
<1>13. ASSUME NEW plan \in Plan, Revise(plan) PROVE World
  BY <1>13 DEF Revise, WriteRun, Untouched
<1>14. ASSUME NEW s \in Paused, Pause(s) PROVE World
  BY <1>14 DEF Pause, WriteRun, Untouched
<1>15. ASSUME NEW a \in Allocation, AddBudget(a) PROVE World
  BY <1>15 DEF AddBudget, WriteRun, Untouched
<1>16. CASE Control
  <2> HIDE DEF World
  <2> QED
    BY <1>9, <1>10, <1>11, <1>12, <1>13, <1>14, <1>15, <1>16 DEF Control
<1> QED BY <1>1, <1>8, <1>16 DEF Next

-----------------------------------------------------------------------------
(* The worktree of a checkpoint. *)

(* The branch is where the ownership record says, unless it was rolled     *)
(* back.                                                                   *)
BranchKnown ==
  /\ ~worktree.exists => ownership.status = "none"
  /\ ownership.status = "none" => worktree.head = 0
  /\ ownership.status # "none" /\ ~worktree.reset =>
       worktree.head \in {ownership.number - 1, ownership.number}

(* The worktree exists, and is recorded as that of the checkpoint of m.    *)
Houses(w, o, m) == w.exists /\ o.status # "none" /\ o.number = m.number

Housed ==
  /\ BranchKnown
  /\ \A p \in Proc : job[p].step # "idle" =>
       Houses(worktree, ownership, job[p].run)

LEMMA HouseKept ==
  ASSUME OneCommand, Housed, World, NEW p \in Proc, job[p].step # "idle"
  PROVE  Houses(worktree', ownership', job[p].run)
<1>1. \A q \in Proc : q = p BY DEF OneCommand
<1>2. Houses(worktree, ownership, job[p].run) BY DEF Housed
<1>3. CASE Untouched \/ Releases \/ Seals \/ Rolls
  BY <1>2, <1>3 DEF Untouched, Releases, Seals, Rolls, Houses
<1>4. CASE Edits(p) \/ Restates(p)
  BY <1>2, <1>4 DEF Edits, Restates, Houses
<1>5. ~Takes(p) BY DEF Takes
<1> QED BY <1>1, <1>3, <1>4, <1>5 DEF World

LEMMA BranchStep ==
  ASSUME Typed, Housed, World
  PROVE  BranchKnown'
<1>1. /\ run.number \in Nat /\ ownership.number \in Nat /\ worktree.head \in Nat
  BY Types DEF Typed, RunRecord, TypeOK, OwnershipRecord, WorktreeRecord
<1>2. BranchKnown BY DEF Housed
<1>3. CASE Untouched BY <1>2, <1>3 DEF Untouched, BranchKnown
<1>4. CASE Releases BY <1>2, <1>4 DEF Releases, BranchKnown
<1>5. CASE Seals
  BY <1>1, <1>2, <1>5 DEF Seals, Owns, BranchKnown
<1>6. CASE Rolls BY <1>2, <1>6 DEF Rolls, BranchKnown
<1>7. ASSUME NEW p \in Proc, Edits(p) PROVE BranchKnown'
  BY <1>2, <1>7 DEF Edits, BranchKnown
<1>8. ASSUME NEW p \in Proc, Takes(p) PROVE BranchKnown'
  <2>1. CASE run.number = 1 /\ ~worktree.exists /\ ownership' \in {ownership, Owned(run)}
    <3>1. ownership.status = "none" /\ worktree.head = 0
      BY <1>2, <2>1 DEF BranchKnown
    <3>2. worktree'.exists /\ worktree'.head = 0
      BY <1>8, <3>1 DEF Takes, TakesOver
    <3> QED BY <2>1, <3>1, <3>2, OwnedFields DEF BranchKnown
  <2>2. CASE worktree.head = run.number - 1 /\ ownership' = Owned(run)
    <3>1. worktree'.exists /\ worktree'.head = worktree.head
      BY <1>8 DEF Takes, TakesOver
    <3> QED BY <2>2, <3>1, OwnedFields DEF BranchKnown
  <2> QED BY <1>8, <2>1, <2>2 DEF Takes, TakesOver
<1>9. ASSUME NEW p \in Proc, Restates(p) PROVE BranchKnown'
  <2>1. Houses(worktree, ownership, job[p].run) BY <1>9 DEF Restates, Housed
  <2> QED BY <1>2, <1>9, <2>1 DEF Restates, Houses, BranchKnown
<1> QED BY <1>3, <1>4, <1>5, <1>6, <1>7, <1>8, <1>9 DEF World

LEMMA HousedStep ==
  ASSUME OneCommand, Typed, Housed, Moves, World
  PROVE  Housed'
<1>1. ASSUME NEW q \in Proc, job'[q].step # "idle"
      PROVE  Houses(worktree', ownership', job'[q].run)
  <2>1. \A p \in Proc : p = q BY DEF OneCommand
  <2>2. CASE job' = job BY <1>1, <2>2, HouseKept
  <2>3. CASE LoadsToWork(q) \/ LoadsToVerify(q) \/ LoadsToReview(q) \/ BeginsRepair(q)
    <3>1. AtHome /\ job'[q].run.number = run.number
      BY <2>3
      DEF LoadsToWork, LoadsToVerify, LoadsToReview, BeginsRepair, Enters,
          SameHistory, Attempted
    <3> QED BY <3>1 DEF AtHome, Houses
  <2>4. CASE BeginsWork(q)
    <3>1. /\ job[q].step # "idle" /\ job'[q].run.number = job[q].run.number
      BY <2>4 DEF BeginsWork, Enters, Attempted
    <3> QED BY <3>1, HouseKept DEF Houses
  <2>5. ~EndsWork(q) /\ ~VerifiesWell(q) /\ ~VerifiesBadly(q) /\ ~Judges(q) /\ ~Leaves(q)
    BY <1>1 DEF EndsWork, VerifiesWell, VerifiesBadly, Judges, Leaves
  <2>6. Controlled => job' = job
    BY DEF Controlled, IsPaused, IsResumed, IsApproved, IsShown, IsDelivered,
           IsAdvanced, IsRevised, IsRaised, IsClosed, ShortMove
  <2> QED
    BY <2>1, <2>2, <2>3, <2>4, <2>5, <2>6 DEF Moves, Quiet, ProcessMoves
<1> QED BY <1>1, BranchStep DEF Housed

LEMMA HousedHolds == ASSUME OneCommand PROVE Spec => []Housed
<1>1. Init => Housed
  BY DEF Init, Idle, Housed, BranchKnown
<1>2. Typed /\ Housed /\ [Next]_vars => Housed'
  BY Steps, WorldStep, HousedStep DEF Good
<1> QED BY TypedHolds, <1>1, <1>2, PTL DEF Spec

(* While one long command runs at a time, a worker runs only in the        *)
(* worktree recorded as its checkpoint's, on top of the checkpoints sealed *)
(* before, whatever is cancelled, rolled back, advanced or killed under it *)
(* (worktree.js; controls.js, advance and rollback).                       *)
THEOREM WorkersOwnTheirWorktree ==
  ASSUME OneCommand PROVE Spec => []WorkerOwnsWorktree
<1>1. Housed => WorkerOwnsWorktree
  BY DEF Housed, Houses, BranchKnown, WorkerOwnsWorktree
<1> QED BY HousedHolds, <1>1, PTL

-----------------------------------------------------------------------------
(* What is delivered. *)

Undecided ==
  {"proposed", "ready", "executing", "awaiting-verification", "repair-ready"}

(* A PASS is of work that was done, verified and not taken up again; what  *)
(* a process will write from memory holds no PASS from before.             *)
Decisions ==
  /\ run.pausedFrom # "completed"
  /\ run.decision = "PASS" => run.attempts > 0 /\ run.task \notin Undecided
  /\ run.status = "completed" => run.task = "completed"
  /\ \A p \in Proc : job[p].step # "idle" =>
       /\ job[p].run.pausedFrom # "completed"
       /\ job[p].step # "reviewing" => job[p].run.decision # "PASS"
       /\ job[p].step = "reviewing" => job[p].run.task = "verified"

(* As long as no rollback resets the worktree, what run.json and a process *)
(* hold as verified and reviewed is what the worktree holds.               *)
Current(v) ==
  /\ run.task = "verified" =>
       /\ run.verifiedAt = v
       /\ run.decision = "PASS" => run.reviewedAt = v
  /\ run.status = "completed" =>
       /\ run.decision = "PASS" /\ run.verifiedAt = v /\ run.reviewedAt = v
       /\ Owns("released", run)
  /\ \A p \in Proc :
       /\ job[p].step \in {"verifying", "reviewing"} => job[p].tree = v
       /\ job[p].step = "reviewing" => job[p].run.verifiedAt = v

Reviewed == Decisions /\ (~worktree.reset => Current(worktree.version))

LEMMA DecisionsUnderWork ==
  ASSUME OneCommand, Typed, Remembered, Decisions, NEW p \in Proc,
         ProcessMoves(p)
  PROVE  Decisions'
<1>1. \A q \in Proc : q = p BY DEF OneCommand
<1>2. CASE LoadsToWork(p) \/ LoadsToVerify(p)
  <2>1. run.decision # "PASS" /\ run.pausedFrom # "completed"
    BY <1>2 DEF LoadsToWork, LoadsToVerify, Decisions, Undecided
  <2> QED
    BY <1>1, <1>2, <2>1
    DEF LoadsToWork, LoadsToVerify, Enters, Kept, Decisions
<1>3. CASE LoadsToReview(p)
  BY <1>1, <1>3
  DEF LoadsToReview, Enters, SameHistory, SameEvidence, Decisions, Undecided
<1>4. CASE BeginsWork(p)
  <2>1. run'.decision # "PASS" /\ run'.pausedFrom # "completed"
    BY <1>4 DEF BeginsWork, Attempted, SameEvidence, Decisions
  <2> QED
    BY <1>1, <1>4, <2>1 DEF BeginsWork, Attempted, Enters, Decisions
<1>5. CASE BeginsRepair(p)
  <2>1. run'.decision # "PASS" /\ run'.pausedFrom # "completed"
    BY <1>5 DEF BeginsRepair, Attempted, SameEvidence, Decisions, Undecided
  <2> QED
    BY <1>1, <1>5, <2>1 DEF BeginsRepair, Attempted, Enters, Decisions
<1>6. CASE EndsWork(p) \/ VerifiesWell(p) \/ VerifiesBadly(p)
  <2>1. /\ job[p].step \notin {"idle", "reviewing"} /\ Leaves(p)
        /\ run'.decision = job[p].run.decision
        /\ run'.pausedFrom = job[p].run.pausedFrom
        /\ run'.status # "completed"
    BY <1>6
    DEF EndsWork, VerifiesWell, VerifiesBadly, Verifies, Same, SameEvidence
  <2>2. run'.decision # "PASS" /\ run'.pausedFrom # "completed"
    BY <2>1 DEF Decisions
  <2> QED BY <1>1, <2>1, <2>2 DEF Leaves, Decisions
<1>7. CASE Judges(p)
  <2>1. /\ job[p].run.task = "verified" /\ job[p].run.pausedFrom # "completed"
        /\ job[p].run.attempts > 0
    BY <1>7 DEF Judges, Decisions, Remembered, SameHistory
  <2>2. run'.attempts > 0 BY <1>7, <2>1 DEF Judges, SameHistory
  <2>3. run'.decision = "PASS" => run'.task \notin Undecided
    BY <1>7, <2>1 DEF Judges, Undecided
  <2> QED
    BY <1>1, <1>7, <2>1, <2>2, <2>3 DEF Judges, Leaves, Decisions
<1> QED
  BY <1>2, <1>3, <1>4, <1>5, <1>6, <1>7 DEF ProcessMoves

LEMMA DecisionsUnderControl ==
  ASSUME Typed, Decisions, Controlled
  PROVE  Decisions'
<1>1. job' = job
  BY DEF Controlled, IsPaused, IsResumed, IsApproved, IsShown, IsDelivered,
         IsAdvanced, IsRevised, IsRaised, IsClosed, ShortMove
<1>2. "completed" \notin Paused /\ "none" \notin Paused
  BY DEF Paused, BudgetPause
<1>3. /\ run'.pausedFrom # "completed"
      /\ run'.status = "completed" => run'.task = "completed"
  <2>1. CASE IsPaused BY <1>2, <2>1 DEF IsPaused
  <2>2. CASE IsResumed BY <1>2, <2>2 DEF IsResumed, Decisions
  <2>3. CASE IsApproved \/ IsShown \/ IsDelivered \/ IsRevised \/ IsClosed
    BY <2>3
    DEF IsApproved, IsShown, IsDelivered, IsRevised, IsClosed, Decisions
  <2>4. CASE IsAdvanced BY <1>2, <2>4 DEF IsAdvanced
  <2>5. CASE IsRaised BY <2>5 DEF IsRaised, Decisions
  <2> QED BY <2>1, <2>2, <2>3, <2>4, <2>5 DEF Controlled
<1>4. run'.decision = "PASS" => run'.attempts > 0 /\ run'.task \notin Undecided
  <2>1. CASE IsPaused \/ IsResumed \/ IsRaised
    BY <2>1
    DEF IsPaused, IsResumed, IsRaised, Same, SameHistory, SameEvidence, Decisions
  <2>2. CASE IsApproved
    BY <2>2 DEF IsApproved, SameEvidence, Decisions, Undecided
  <2>3. CASE IsShown \/ IsDelivered \/ IsClosed
    BY <2>3
    DEF IsShown, IsDelivered, IsClosed, Same, SameHistory, SameEvidence,
        Decisions, Undecided
  <2>4. CASE IsAdvanced BY <2>4 DEF IsAdvanced
  <2>5. CASE IsRevised
    <3>1. run'.decision # "PASS"
      BY <2>5 DEF IsRevised, SameEvidence, Decisions
    <3> QED BY <3>1
  <2> QED BY <2>1, <2>2, <2>3, <2>4, <2>5 DEF Controlled
<1> QED BY <1>1, <1>3, <1>4 DEF Decisions

LEMMA DecisionsStep ==
  ASSUME OneCommand, Typed, Remembered, Decisions, Moves
  PROVE  Decisions'
<1>1. CASE Quiet
  <2>1. \A p \in Proc : job'[p] = job[p] \/ job'[p].step = "idle"
    BY <1>1 DEF Quiet, Leaves
  <2> QED BY <1>1, <2>1 DEF Quiet, Kept, Decisions
<1> QED
  BY <1>1, DecisionsUnderWork, DecisionsUnderControl DEF Moves

(* A worker that edits has neither been verified nor completed. *)
LEMMA CurrentUnderEdit ==
  ASSUME OneCommand, Remembered, Decisions, NEW p \in Proc, Edits(p)
  PROVE  Current(worktree.version)'
<1>1. \A q \in Proc : q = p BY DEF OneCommand
<1>2. AtWork(job[p].step, run) /\ job[p].step \in {"implementing", "repairing"}
  BY <1>1 DEF Edits, Remembered
<1>3. run.task \notin {"verified", "completed"} BY <1>2 DEF AtWork, Stopped
<1>4. run.status # "completed" BY <1>3 DEF Decisions
<1> QED BY <1>1, <1>2, <1>3, <1>4 DEF Edits, Current

LEMMA VersionKept ==
  ASSUME World, ~worktree'.reset, \A p \in Proc : ~Edits(p)
  PROVE  worktree'.version = worktree.version /\ ~worktree.reset
BY DEF World, Untouched, Releases, Seals, Rolls, Takes, TakesOver, Restates

LEMMA CurrentJobs ==
  ASSUME OneCommand, Moves, Current(worktree.version), NEW q \in Proc
  PROVE  /\ job'[q].step \in {"verifying", "reviewing"} =>
              job'[q].tree = worktree.version
         /\ job'[q].step = "reviewing" =>
              job'[q].run.verifiedAt = worktree.version
<1>1. \A p \in Proc : p = q BY DEF OneCommand
<1>2. CASE job' = job BY <1>2 DEF Current
<1>3. Controlled => job' = job
  BY DEF Controlled, IsPaused, IsResumed, IsApproved, IsShown, IsDelivered,
         IsAdvanced, IsRevised, IsRaised, IsClosed, ShortMove
<1>4. CASE LoadsToVerify(q) BY <1>4 DEF LoadsToVerify, Enters
<1>5. CASE LoadsToReview(q)
  BY <1>5 DEF LoadsToReview, Enters, SameEvidence, Current
<1>6. CASE LoadsToWork(q) \/ BeginsWork(q) \/ BeginsRepair(q)
  BY <1>6 DEF LoadsToWork, BeginsWork, BeginsRepair, Enters
<1>7. CASE Leaves(q) BY <1>7 DEF Leaves
<1>8. EndsWork(q) \/ VerifiesWell(q) \/ VerifiesBadly(q) \/ Judges(q) => Leaves(q)
  BY DEF EndsWork, VerifiesWell, VerifiesBadly, Judges
<1> QED
  BY <1>1, <1>2, <1>3, <1>4, <1>5, <1>6, <1>7, <1>8
  DEF Moves, Quiet, ProcessMoves

LEMMA CurrentVerified ==
  ASSUME OneCommand, Typed, Decisions, Moves, Current(worktree.version),
         run'.task = "verified"
  PROVE  /\ run'.verifiedAt = worktree.version
         /\ run'.decision = "PASS" => run'.reviewedAt = worktree.version
<1>1. CASE run.task = "verified" /\ SameEvidence(run, run')
  BY <1>1 DEF SameEvidence, Current
<1>2. CASE Quiet BY <1>1, <1>2 DEF Quiet, Kept, SameEvidence
<1>3. ASSUME NEW p \in Proc, ProcessMoves(p)
      PROVE  /\ run'.verifiedAt = worktree.version
             /\ run'.decision = "PASS" => run'.reviewedAt = worktree.version
  <2>1. CASE LoadsToWork(p) \/ LoadsToVerify(p) \/ LoadsToReview(p)
    BY <1>1, <2>1
    DEF LoadsToWork, LoadsToVerify, LoadsToReview, Kept, SameEvidence
  <2>2. CASE VerifiesWell(p)
    <3>1. job[p].tree = worktree.version /\ job[p].run.decision # "PASS"
      BY <2>2 DEF VerifiesWell, Current, Decisions
    <3> QED BY <2>2, <3>1 DEF VerifiesWell, Verifies
  <2>3. CASE Judges(p)
    <3>1. /\ job[p].tree = worktree.version
          /\ job[p].run.verifiedAt = worktree.version
      BY <2>3 DEF Judges, Current
    <3> QED BY <2>3, <3>1 DEF Judges
  <2>4. ~BeginsWork(p) /\ ~BeginsRepair(p) /\ ~EndsWork(p) /\ ~VerifiesBadly(p)
    BY DEF BeginsWork, BeginsRepair, Attempted, EndsWork, VerifiesBadly
  <2> QED BY <1>3, <2>1, <2>2, <2>3, <2>4 DEF ProcessMoves
<1>4. CASE Controlled
  <2>1. CASE IsPaused \/ IsResumed \/ IsShown \/ IsRaised
    BY <1>1, <2>1 DEF IsPaused, IsResumed, IsShown, IsRaised, Same
  <2>2. ~IsApproved /\ ~IsDelivered /\ ~IsAdvanced /\ ~IsRevised /\ ~IsClosed
    BY DEF IsApproved, IsDelivered, IsAdvanced, IsRevised, IsClosed
  <2> QED BY <1>4, <2>1, <2>2 DEF Controlled
<1> QED BY <1>2, <1>3, <1>4 DEF Moves

LEMMA CurrentCompleted ==
  ASSUME OneCommand, Typed, Remembered, Decisions, Moves, World,
         Current(worktree.version), run'.status = "completed"
  PROVE  /\ run'.decision = "PASS" /\ run'.verifiedAt = worktree.version
         /\ run'.reviewedAt = worktree.version /\ Owns("released", run)'
<1>1. CASE IsDelivered
  <2>1. /\ run.decision = "PASS" /\ run.verifiedAt = worktree.version
        /\ run.reviewedAt = worktree.version
    BY <1>1 DEF IsDelivered, Finalizable, Current
  <2>2. ownership' = [status |-> "released", number |-> run.number]
    BY <1>1 DEF IsDelivered, Finalizable, Owns
  <2> QED
    BY <1>1, <2>1, <2>2
    DEF IsDelivered, Same, SameEvidence, SameHistory, Owns
<1>2. CASE run' = run
  <2>1. run.status = "completed" /\ run.task = "completed"
    BY <1>2 DEF Decisions
  <2>2. \A p \in Proc : job[p].step \notin {"implementing", "repairing",
                                            "verifying", "reviewing"}
    BY <2>1 DEF Remembered, AtWork, Stopped
  <2>3. ownership' = ownership
    <3>1. ~Releases /\ ~Rolls /\ ~Seals
      BY <2>1 DEF Releases, Rolls, Seals, Terminal, AtCheckpointBoundary
    <3>2. \A p \in Proc : ~Edits(p) /\ ~Takes(p) /\ ~Restates(p)
      BY <2>1, <2>2 DEF Edits, Takes, Restates
    <3> QED BY <3>1, <3>2 DEF World, Untouched
  <2> QED BY <1>2, <2>1, <2>3 DEF Current, Owns
<1>3. Quiet => run' = run BY DEF Quiet, Kept
<1>4. ASSUME NEW p \in Proc, ProcessMoves(p) PROVE run' = run
  BY <1>4
  DEF ProcessMoves, LoadsToWork, LoadsToVerify, LoadsToReview, BeginsWork,
      BeginsRepair, Attempted, EndsWork, VerifiesWell, VerifiesBadly, Judges,
      Kept
<1>5. Controlled => IsDelivered
  <2>1. "completed" \notin Paused BY DEF Paused, BudgetPause
  <2> QED
    BY <2>1
    DEF Controlled, IsPaused, IsResumed, IsApproved, IsShown, IsAdvanced,
        IsRevised, IsRaised, IsClosed, Decisions
<1> QED BY <1>1, <1>2, <1>3, <1>4, <1>5 DEF Moves

LEMMA ReviewedStep ==
  ASSUME OneCommand, Typed, Remembered, Reviewed, Moves, World
  PROVE  Reviewed'
<1>1. Decisions /\ Decisions' BY DecisionsStep DEF Reviewed
<1>2. ASSUME ~worktree'.reset PROVE Current(worktree.version)'
  <2>1. CASE \E p \in Proc : Edits(p) BY <1>1, <2>1, CurrentUnderEdit
  <2>2. CASE \A p \in Proc : ~Edits(p)
    <3>1. worktree'.version = worktree.version /\ Current(worktree.version)
      BY <1>2, <2>2, VersionKept DEF Reviewed
    <3> QED
      BY <1>1, <3>1, CurrentVerified, CurrentCompleted, CurrentJobs DEF Current
  <2> QED BY <2>1, <2>2
<1> QED BY <1>1, <1>2 DEF Reviewed

(* While one long command runs at a time, what is delivered is what was    *)
(* verified and reviewed: a completed run has a PASS and a verification of *)
(* exactly the contents of its worktree, on top of the checkpoints sealed  *)
(* before, and has released it, whatever is paused, repaired, advanced or  *)
(* killed on the way (verification.js, review.js, finalize.js).            *)
THEOREM WhatIsDeliveredIsReviewed ==
  ASSUME OneCommand PROVE Spec => []DeliveredIsReviewed
<1>1. Init => Reviewed
  <2> SUFFICES ASSUME Init PROVE Reviewed OBVIOUS
  <2>1. /\ run.status = "proposed" /\ run.task = "proposed"
        /\ run.decision = "none" /\ run.pausedFrom = "none"
    BY DEF Init, ProposedRun
  <2>2. \A p \in Proc : job[p].step = "idle" BY DEF Init, Idle
  <2> QED BY <2>1, <2>2 DEF Reviewed, Decisions, Current
<1>2. Typed /\ Remembered /\ Reviewed /\ [Next]_vars => Reviewed'
  BY Steps, WorldStep, ReviewedStep DEF Good
<1>3. Typed /\ Housed /\ Reviewed => DeliveredIsReviewed
  <2> SUFFICES ASSUME Typed, Housed, Reviewed, run.status = "completed",
                      ~worktree.reset
               PROVE  /\ run.decision = "PASS"
                      /\ run.verifiedAt = worktree.version
                      /\ run.reviewedAt = worktree.version
                      /\ worktree.head \in {run.number - 1, run.number}
                      /\ Owns("released", run)
    BY DEF DeliveredIsReviewed
  <2>1. /\ run.decision = "PASS" /\ run.verifiedAt = worktree.version
        /\ run.reviewedAt = worktree.version /\ Owns("released", run)
    BY DEF Reviewed, Current
  <2>2. ownership.status # "none" /\ ownership.number = run.number
    BY <2>1 DEF Owns
  <2> QED BY <2>1, <2>2 DEF Housed, BranchKnown
<1> QED
  BY TypedHolds, RememberedHolds, HousedHolds, <1>1, <1>2, <1>3, PTL DEF Spec
=============================================================================
