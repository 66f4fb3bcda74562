--------------------------- MODULE SupervisedRun ----------------------------
(***************************************************************************)
(* One supervised run, as the commands of `cewp supervise` and the tools   *)
(* of the MCP server change it (src/supervise).                            *)
(*                                                                         *)
(* The state is run.json, ownership.json and the managed worktree.  A      *)
(* short command loads the files, checks its guards and writes them; it is *)
(* one step here, that may be killed between two writes.  A long command   *)
(* (execute, retry, verify, review) keeps the run it loaded in memory      *)
(* while a worker, a verification command or the reviewer runs, and at the *)
(* end writes the whole of run.json from that memory.  Other commands run  *)
(* meanwhile: there is no lock.  Proc is the set of processes that run     *)
(* long commands.                                                          *)
(*                                                                         *)
(* A helper takes the run record r it reads.  An operator named as a       *)
(* variation of the one it stands before is a deliberate error, as in      *)
(* WorkflowRun.                                                            *)
(***************************************************************************)
EXTENDS Integers, Sequences, FiniteSets

CONSTANTS
  Proc,         \* processes that run long commands
  Profile,      \* budget profiles
  Plan,         \* verification plans: numbers of targeted and full commands
  Signature,    \* failure signatures
  Intervention, \* the operator controls that occur
  MaxNumber,    \* bound on the checkpoints of a run
  MaxRevision,  \* bound on planRevision
  MaxOps,       \* bound on what add-budget raises the operations to
  MaxRuns,      \* bound on what it raises the two verification ceilings to
  MaxVersion,   \* bound on the versions of the worktree's contents
  MaxCrashes    \* bound on the commands killed half way

VARIABLES
  run,        \* run.json
  ownership,  \* ownership.json
  worktree,   \* the managed worktree and its branch
  job,        \* the long command each process is in, with its memory
  spent,      \* managed model operations started so far
  expired,    \* maxElapsedMinutes have passed since the last approval
  crashes     \* how many commands were killed half way

vars == <<run, ownership, worktree, job, spent, expired, crashes>>

Allocation == {"implementation", "repair", "reviewer", "finalization"}
ProtectedAllocation == {"reviewer", "finalization"}

AllocSum(alloc) ==
  alloc["implementation"] + alloc["repair"]
    + alloc["reviewer"] + alloc["finalization"]

BudgetPause == {"paused-budget-safe", "paused-budget-unverified"}
Paused == BudgetPause \cup {"paused-host-limit"}
Terminal == {"completed", "cancelled", "abandoned", "rolled-back"}

RunStatus ==
  {"proposed", "approved", "executing", "verifying", "checkpoint-complete",
   "reviewing", "review-passed", "ready-to-finalize", "needs-repair",
   "blocked"} \cup Paused \cup Terminal

TaskStatus ==
  {"proposed", "ready", "executing", "awaiting-verification", "verified",
   "repair-ready", "blocked"} \cup Terminal

Decision == {"none", "PASS", "REQUEST_CHANGES", "BLOCK"}

(* Version 1 is the base commit; 0 stands for no version. *)
Version == 1..MaxVersion

RunRecord ==
  [status : RunStatus, task : TaskStatus, number : 1..MaxNumber,
   revision : 1..MaxRevision, approved : 0..MaxRevision, plan : Plan,
   attempts : Nat, repairs : Nat, failures : SUBSET Signature,
   verifiedAt : {0} \cup Version, decision : Decision,
   reviewedAt : {0} \cup Version, pausedFrom : RunStatus \cup {"none"},
   ops : Nat, alloc : [Allocation -> Nat], used : Nat,
   usedAlloc : [Allocation -> Nat], maxRepairs : Nat, maxRuns : Nat,
   runs : Nat, maxFull : Nat, fullRuns : Nat, hostLimit : BOOLEAN]

OwnershipRecord ==
  [status : {"none", "active", "verified", "released", "rolled-back",
             "cancelled", "abandoned"},
   number : 0..MaxNumber]

(* head counts the sealed checkpoints on the branch, sealed is the version *)
(* its last commit holds and version what the directory holds; reset says  *)
(* that a rollback has reset it.                                           *)
WorktreeRecord ==
  [exists : BOOLEAN, head : 0..MaxNumber, sealed : Version,
   version : Version, edits : 0..MaxVersion, reset : BOOLEAN]

JobRecord ==
  [step : {"idle", "baseline", "implementing", "repairing", "verifying",
           "reviewing"},
   run : RunRecord, tree : {0} \cup Version]

TypeOK ==
  /\ run \in RunRecord
  /\ ownership \in OwnershipRecord
  /\ worktree \in WorktreeRecord
  /\ job \in [Proc -> JobRecord]
  /\ spent \in Nat
  /\ expired \in BOOLEAN
  /\ crashes \in 0..MaxCrashes

-----------------------------------------------------------------------------
(* profiles.js, state.js: the proposed run. *)

(* A profile is valid when its allocations make up its ceiling.            *)
ValidProfile(f) ==
  /\ f \in [ops : Nat, alloc : [Allocation -> Nat], maxRepairs : Nat,
            maxRuns : Nat, maxFull : Nat]
  /\ AllocSum(f.alloc) = f.ops

(* The ceilings allow for a baseline, a verification and every repair.  A  *)
(* later checkpoint is held against the whole ceilings, not what is left.  *)
Fits(r, plan) ==
  /\ plan.targeted * (2 + r.maxRepairs) <= r.maxRuns
  /\ plan.full <= r.maxFull

ASSUME ProfileAssumption == \A f \in Profile : ValidProfile(f)

ASSUME PlanAssumption ==
  /\ Plan \subseteq [targeted : Nat \ {0}, full : Nat]
  /\ \E f \in Profile, plan \in Plan : Fits(f, plan)

ASSUME SupervisedBounds ==
  /\ MaxNumber \in Nat \ {0} /\ MaxRevision \in Nat \ {0}
  /\ MaxOps \in Nat /\ MaxRuns \in Nat /\ MaxVersion \in Nat \ {0} /\ MaxCrashes \in Nat

ProposedRun(f, plan) ==
  [status |-> "proposed", task |-> "proposed", number |-> 1,
   revision |-> 1, approved |-> 0, plan |-> plan,
   attempts |-> 0, repairs |-> 0, failures |-> {},
   verifiedAt |-> 0, decision |-> "none", reviewedAt |-> 0,
   pausedFrom |-> "none",
   ops |-> f.ops, alloc |-> f.alloc, used |-> 0,
   usedAlloc |-> [a \in Allocation |-> 0], maxRepairs |-> f.maxRepairs,
   maxRuns |-> f.maxRuns, runs |-> 0, maxFull |-> f.maxFull, fullRuns |-> 0,
   hostLimit |-> FALSE]

(* The memory of a process that runs no long command. *)
Idle ==
  [step |-> "idle",
   run |-> ProposedRun(CHOOSE f \in Profile : TRUE, CHOOSE q \in Plan : TRUE),
   tree |-> 0]

Init ==
  /\ \E f \in Profile, plan \in Plan :
       Fits(f, plan) /\ run = ProposedRun(f, plan)
  /\ ownership = [status |-> "none", number |-> 0]
  /\ worktree = [exists |-> FALSE, head |-> 0, sealed |-> 1, version |-> 1,
                 edits |-> 0, reset |-> FALSE]
  /\ job = [p \in Proc |-> Idle]
  /\ spent = 0 /\ expired = FALSE /\ crashes = 0

-----------------------------------------------------------------------------
(* Writing the files. *)

Files(w, o, r) == [worktree |-> w, ownership |-> o, run |-> r]

(* A command writes its files one after the other: writes lists what is on *)
(* disk after each write.  Killed, it leaves any but the last of them.     *)
WriteFiles(writes) ==
  \E n \in 1..Len(writes) :
    /\ worktree' = writes[n].worktree
    /\ ownership' = writes[n].ownership
    /\ run' = writes[n].run
    /\ IF n = Len(writes) THEN UNCHANGED crashes
       ELSE crashes < MaxCrashes /\ crashes' = crashes + 1

WriteRun(newRun) ==
  run' = newRun /\ UNCHANGED <<ownership, worktree, crashes>>

(* Completed, cancelled, abandoned, rolled back or blocked. *)
Ended(r, status) == [r EXCEPT !.status = status, !.task = status]

(* What a short command leaves alone. *)
Short == UNCHANGED <<job, spent, expired>>

(* A process enters a long command with the run it has in memory. *)
Enter(p, step, r, tree) ==
  job' = [job EXCEPT ![p] = [step |-> step, run |-> r, tree |-> tree]]

Leave(p) == job' = [job EXCEPT ![p] = Idle]

-----------------------------------------------------------------------------
(* budget.js *)

CheckpointSafe(r) ==
  r.task \in {"proposed", "ready", "verified", "completed", "cancelled"}

PauseStatus(r) ==
  IF CheckpointSafe(r) THEN "paused-budget-safe" ELSE "paused-budget-unverified"

Exhausted(r, a) ==
  \/ r.used >= r.ops
  \/ expired
  \/ r.usedAlloc[a] >= r.alloc[a]
  \/ r.used * 100 >= 90 * r.ops /\ a \notin ProtectedAllocation

Allowed(r, a) == ~r.hostLimit /\ ~Exhausted(r, a)

PausedBy(r, status) == [r EXCEPT !.status = status, !.pausedFrom = r.status]

(* enforceOperationBudget refuses: the run is paused and the command ends. *)
RefuseOperation(a) ==
  /\ ~Allowed(run, a)
  /\ WriteRun(PausedBy(run, IF run.hostLimit THEN "paused-host-limit"
                            ELSE PauseStatus(run)))
  /\ Short

Started(r, a) ==
  [r EXCEPT !.used = @ + 1, !.usedAlloc[a] = @ + 1]

-----------------------------------------------------------------------------
(* approveSupervisedRun *)

Approve ==
  /\ run.status = "proposed" /\ run.task = "proposed"
  /\ WriteRun([run EXCEPT !.status = "approved", !.task = "ready",
                          !.approved = run.revision])
  /\ expired' = FALSE /\ UNCHANGED <<job, spent>>

-----------------------------------------------------------------------------
(* executeSupervisedCheckpoint: the worktree is made or taken over, the    *)
(* baseline runs, then the worker, and at the end run.json is written from *)
(* the memory of the command.                                              *)

Owns(status, r) == ownership = [status |-> status, number |-> r.number]

Owned(r) == [status |-> "active", number |-> r.number]

TakeWorktreeKeepingOwner ==
  \/ /\ run.number = 1 /\ ~worktree.exists
     /\ WriteFiles(<<Files([worktree EXCEPT !.exists = TRUE], Owned(run), run)>>)
  \/ /\ run.number > 1 /\ worktree.exists /\ worktree.head = run.number - 1
     /\ WriteFiles(<<Files(worktree, ownership, run)>>)

(* createOwnedWorktree for the first checkpoint, else reuseOwnedWorktree.  *)
TakeWorktree ==
  \/ /\ run.number = 1 /\ ~worktree.exists
     /\ LET made == [worktree EXCEPT !.exists = TRUE]
        IN  WriteFiles(<<Files(made, ownership, run),
                         Files(made, Owned(run), run)>>)
  \/ /\ run.number > 1
     /\ ownership = [status |-> "released", number |-> run.number - 1]
     /\ worktree.exists /\ worktree.head = run.number - 1
     /\ worktree.version = worktree.sealed
     /\ WriteFiles(<<Files(worktree, Owned(run), run)>>)

Execute(p) ==
  /\ job[p].step = "idle"
  /\ run.status = "approved" /\ run.task = "ready"
  /\ \/ RefuseOperation("implementation")
     \/ /\ Allowed(run, "implementation")
        /\ TakeWorktree
        /\ IF crashes' = crashes THEN Enter(p, "baseline", run, 0)
           ELSE UNCHANGED job
        /\ UNCHANGED <<spent, expired>>

BeginImplementation(p) ==
  LET r == job[p].run
      started == [Started(r, "implementation") EXCEPT
                    !.status = "executing", !.task = "executing",
                    !.attempts = @ + 1, !.runs = @ + r.plan.targeted]
  IN  /\ job[p].step = "baseline"
      /\ WriteRun(started)
      /\ Enter(p, "implementing", started, 0)
      /\ spent' = spent + 1 /\ UNCHANGED expired

(* The worker changes the worktree. *)
Edit(p) ==
  /\ job[p].step \in {"implementing", "repairing"}
  /\ worktree.edits + 1 < MaxVersion
  /\ worktree' = [worktree EXCEPT !.edits = @ + 1, !.version = worktree.edits + 2]
  /\ UNCHANGED <<run, ownership, job, spent, expired, crashes>>

FinishWorkFromLoaded(p, ok) ==
  /\ job[p].step \in {"implementing", "repairing"}
  /\ WriteRun([job[p].run EXCEPT
       !.status = IF ok THEN "verifying" ELSE "blocked",
       !.task = IF ok THEN "awaiting-verification" ELSE "blocked",
       !.used = @ - 1,
       !.usedAlloc[IF job[p].step = "implementing"
                   THEN "implementation" ELSE "repair"] = @ - 1])
  /\ Leave(p) /\ UNCHANGED <<spent, expired>>

FinishWork(p, ok) ==
  /\ job[p].step \in {"implementing", "repairing"}
  /\ WriteRun([job[p].run EXCEPT
       !.status = IF ok THEN "verifying" ELSE "blocked",
       !.task = IF ok THEN "awaiting-verification" ELSE "blocked"])
  /\ Leave(p) /\ UNCHANGED <<spent, expired>>

(* retrySupervisedCheckpoint *)
Retry(p) ==
  LET started == [Started(run, "repair") EXCEPT
                    !.status = "executing", !.task = "executing",
                    !.attempts = @ + 1, !.repairs = @ + 1]
  IN  /\ job[p].step = "idle"
      /\ run.status = "needs-repair" /\ run.task = "repair-ready"
      /\ \/ RefuseOperation("repair")
         \/ /\ Allowed(run, "repair")
            /\ run.repairs < run.maxRepairs
            /\ Owns("active", run) /\ worktree.exists
            /\ WriteRun(started)
            /\ Enter(p, "repairing", started, 0)
            /\ spent' = spent + 1 /\ UNCHANGED expired

-----------------------------------------------------------------------------
(* verifySupervisedCheckpoint: nothing is written while the commands run.  *)

OverVerificationUncounted(r) ==
  \/ r.runs + r.plan.targeted > r.maxRuns
  \/ r.plan.full > r.maxFull

OverVerification(r) ==
  \/ r.runs + r.plan.targeted > r.maxRuns
  \/ r.plan.full > 0 /\ r.fullRuns + r.plan.full > r.maxFull

Verify(p) ==
  /\ job[p].step = "idle"
  /\ run.status = "verifying" /\ run.task = "awaiting-verification"
  /\ Owns("active", run) /\ worktree.exists
  /\ \/ /\ OverVerification(run)
        /\ WriteRun(PausedBy(run, "paused-budget-unverified"))
        /\ Short
     \/ /\ ~OverVerification(run)
        /\ Enter(p, "verifying", run, worktree.version)
        /\ UNCHANGED <<run, ownership, worktree, spent, expired, crashes>>

(* The full commands run only once the targeted ones passed. *)
Verified(r, fullRan) ==
  [r EXCEPT !.runs = @ + r.plan.targeted,
            !.fullRuns = @ + (IF fullRan THEN r.plan.full ELSE 0)]

PassVerificationKeepingFirst(p) ==
  LET r == job[p].run
      passed == [Verified(r, TRUE) EXCEPT
                   !.status = "checkpoint-complete", !.task = "verified",
                   !.verifiedAt = IF @ = 0 THEN job[p].tree ELSE @]
  IN  /\ job[p].step = "verifying"
      /\ WriteFiles(<<Files(worktree,
           [ownership EXCEPT !.status = "verified"], passed)>>)
      /\ Leave(p) /\ UNCHANGED <<spent, expired>>

PassVerification(p) ==
  LET r == job[p].run
      passed == [Verified(r, TRUE) EXCEPT
                   !.status = "checkpoint-complete", !.task = "verified",
                   !.verifiedAt = job[p].tree]
  IN  /\ job[p].step = "verifying"
      /\ WriteFiles(<<Files(worktree, ownership, passed),
           Files(worktree, [ownership EXCEPT !.status = "verified"], passed)>>)
      /\ Leave(p) /\ UNCHANGED <<spent, expired>>

(* failed holds the signatures of the failed commands, none when only the  *)
(* scope or the test policy is violated; twice says that two of the        *)
(* commands failed with the same one.                                      *)
FailVerification(p, failed, fullRan, twice, policy) ==
  LET r == job[p].run
      blocked == failed \cap r.failures # {} \/ twice \/ policy
  IN  /\ job[p].step = "verifying"
      /\ failed = {} => fullRan /\ ~twice
      /\ Cardinality(failed) <=
           IF fullRan THEN r.plan.full ELSE r.plan.targeted
      /\ twice => Cardinality(failed) <
                    IF fullRan THEN r.plan.full ELSE r.plan.targeted
      /\ WriteRun([Verified(r, fullRan) EXCEPT
           !.status = IF blocked THEN "blocked" ELSE "needs-repair",
           !.task = IF blocked THEN "blocked" ELSE "repair-ready",
           !.failures = @ \cup failed])
      /\ Leave(p) /\ UNCHANGED <<spent, expired>>

-----------------------------------------------------------------------------
(* reviewSupervisedCheckpoint.  The ownership record, too, is kept in      *)
(* memory; a request for changes writes it back as active, first.          *)

Review(p) ==
  LET started == [Started(run, "reviewer") EXCEPT !.status = "reviewing"]
  IN  /\ job[p].step = "idle"
      /\ run.status = "checkpoint-complete" /\ run.task = "verified"
      /\ \/ RefuseOperation("reviewer")
         \/ /\ Allowed(run, "reviewer")
            /\ Owns("verified", run) /\ worktree.exists
            /\ WriteRun(started)
            /\ Enter(p, "reviewing", started, worktree.version)
            /\ spent' = spent + 1 /\ UNCHANGED expired

(* clean says that the reviewer exited normally and in time. *)
FinishReview(p, decision, clean) ==
  LET r == [job[p].run EXCEPT !.decision = decision,
                              !.reviewedAt = job[p].tree]
  IN  /\ job[p].step = "reviewing"
      /\ \/ /\ clean /\ decision = "PASS"
            /\ WriteRun([r EXCEPT !.status = "review-passed"])
         \/ /\ clean /\ decision = "REQUEST_CHANGES"
            /\ LET reopened == [r EXCEPT !.status = "needs-repair",
                                         !.task = "repair-ready"]
               IN  WriteFiles(<<Files(worktree, Owned(r), run),
                                Files(worktree, Owned(r), reopened)>>)
         \/ /\ ~clean \/ decision \in {"BLOCK", "none"}
            /\ WriteRun([r EXCEPT !.status = "blocked", !.task = "blocked"])
      /\ Leave(p) /\ UNCHANGED <<spent, expired>>

-----------------------------------------------------------------------------
(* previewSupervisedReceipt, finalizeSupervisedRun *)

Preview ==
  /\ run.status = "review-passed" /\ run.decision = "PASS"
  /\ ownership.number = run.number /\ worktree.exists
  /\ run.task = "verified"
  /\ WriteRun([run EXCEPT !.status = "ready-to-finalize"])
  /\ Short

Finalizable ==
  /\ run.status = "ready-to-finalize" /\ run.decision = "PASS"
  /\ run.task = "verified" /\ run.verifiedAt # 0
  /\ Owns("verified", run) /\ worktree.exists

FinalizeWithoutRelease ==
  /\ Finalizable
  /\ WriteRun(Ended(run, "completed"))
  /\ Short

(* The ownership is released first. *)
Finalize ==
  LET released == [ownership EXCEPT !.status = "released"]
  IN  /\ Finalizable
      /\ WriteFiles(<<Files(worktree, released, run),
                      Files(worktree, released, Ended(run, "completed"))>>)
      /\ Short

-----------------------------------------------------------------------------
(* controls.js *)

(* sealVerifiedCheckpoint and advanceCompletedCheckpoint: the checkpoint   *)
(* is committed, its ownership released, and the next one proposed.        *)
AdvancedRunRestarting(r, plan) ==
  [r EXCEPT !.status = "proposed", !.task = "proposed",
            !.revision = @ + 1, !.approved = 0, !.plan = plan,
            !.attempts = 0, !.repairs = 0, !.failures = {},
            !.verifiedAt = 0, !.decision = "none", !.reviewedAt = 0]

AdvancedRun(r, plan) ==
  [r EXCEPT !.status = IF r.status \in Paused THEN @ ELSE "proposed",
            !.task = "proposed", !.number = @ + 1,
            !.revision = @ + 1, !.approved = 0, !.plan = plan,
            !.attempts = 0, !.repairs = 0, !.failures = {},
            !.verifiedAt = 0, !.decision = "none", !.reviewedAt = 0,
            !.pausedFrom = IF r.status \in Paused THEN "proposed" ELSE "none"]

AtCheckpointBoundary(r) ==
  /\ r.task = "verified"
  /\ \/ r.status = "checkpoint-complete"
     \/ /\ r.status = "paused-budget-safe"
        /\ r.pausedFrom = "checkpoint-complete"

Advance(plan) ==
  LET committed == [worktree EXCEPT !.head = @ + 1, !.sealed = worktree.version]
      released  == [ownership EXCEPT !.status = "released"]
  IN  /\ AtCheckpointBoundary(run) /\ Fits(run, plan)
      /\ run.number < MaxNumber /\ run.revision < MaxRevision
      /\ Owns("verified", run)
      /\ worktree.exists /\ worktree.head = run.number - 1
      /\ WriteFiles(<<Files(committed, ownership, run),
                      Files(committed, released, run),
                      Files(committed, released, AdvancedRun(run, plan))>>)
      /\ Short

(* reviseSupervisedRun of a checkpoint that was not started. *)
RevisedKeepingApproval(r, plan) ==
  [r EXCEPT !.revision = @ + 1, !.plan = plan]

Revised(r, plan) ==
  [r EXCEPT !.status = "proposed", !.task = "proposed",
            !.revision = @ + 1, !.approved = 0, !.plan = plan]

Revise(plan) ==
  /\ run.status \in {"proposed", "approved"} /\ run.attempts = 0
  /\ Fits(run, plan) /\ run.revision < MaxRevision
  /\ WriteRun(Revised(run, plan))
  /\ Short

(* A pause is refused only on the listed statuses: a paused run and a      *)
(* rolled-back one can be paused.                                          *)
Pause(status) ==
  /\ run.status \notin {"completed", "cancelled", "abandoned"}
  /\ status = "paused-budget-safe" => CheckpointSafe(run)
  /\ status = "paused-budget-unverified" => ~CheckpointSafe(run)
  /\ WriteRun([PausedBy(run, status) EXCEPT
       !.hostLimit = @ \/ status = "paused-host-limit"])
  /\ Short

ResumeWithoutPause ==
  /\ WriteRun([run EXCEPT !.status = run.pausedFrom, !.pausedFrom = "none",
                          !.hostLimit = FALSE])
  /\ Short

Resume ==
  /\ run.status \in Paused
  /\ WriteRun([run EXCEPT
       !.status = run.pausedFrom,
       !.pausedFrom = IF @ \in Paused THEN @ ELSE "none",
       !.hostLimit = @ /\ run.status # "paused-host-limit"])
  /\ Short

AddBudget(a) ==
  /\ run.status \notin {"completed", "cancelled", "abandoned"}
  /\ run.ops < MaxOps
  /\ WriteRun([run EXCEPT !.ops = @ + 1, !.alloc[a] = @ + 1])
  /\ Short

AddVerification ==
  /\ run.status \notin {"completed", "cancelled", "abandoned"}
  /\ run.maxRuns + run.maxFull < MaxRuns
  /\ \/ WriteRun([run EXCEPT !.maxRuns = @ + 1])
     \/ WriteRun([run EXCEPT !.maxFull = @ + 1])
  /\ Short

(* rollbackSupervisedRun: the worktree goes back to the base commit of the *)
(* run, the sealed checkpoints included.                                   *)
RolledBackTree ==
  [worktree EXCEPT !.head = 0, !.sealed = 1, !.version = 1, !.reset = TRUE]

Rollback ==
  LET ended == [ownership EXCEPT !.status = "rolled-back"]
  IN  /\ run.status \notin Terminal
      /\ ownership.status \in {"active", "verified", "released"}
      /\ \/ ownership.number = run.number
         \/ ownership.status = "released" /\ ownership.number < run.number
      /\ worktree.exists
      /\ WriteFiles(<<Files(RolledBackTree, ownership, run),
                      Files(RolledBackTree, ended, run),
                      Files(RolledBackTree, ended, Ended(run, "rolled-back"))>>)
      /\ Short

(* terminalControl: cancel and abandon. *)
End(status) ==
  LET ended == IF ownership.status = "none" THEN ownership
               ELSE [ownership EXCEPT !.status = status]
  IN  /\ run.status \notin Terminal
      /\ WriteFiles(<<Files(worktree, ended, run),
                      Files(worktree, ended, Ended(run, status))>>)
      /\ Short

Block ==
  /\ run.status \notin Terminal
  /\ WriteRun(Ended(run, "blocked"))
  /\ Short

-----------------------------------------------------------------------------
(* A process in a long command is killed. *)
Kill(p) ==
  /\ job[p].step # "idle" /\ crashes < MaxCrashes
  /\ crashes' = crashes + 1 /\ Leave(p)
  /\ UNCHANGED <<run, ownership, worktree, spent, expired>>

(* The elapsed-time ceiling passes. *)
Elapse ==
  /\ ~expired /\ expired' = TRUE
  /\ UNCHANGED <<run, ownership, worktree, job, spent, crashes>>

LongCommand ==
  \E p \in Proc :
    \/ Execute(p) \/ BeginImplementation(p) \/ Retry(p)
    \/ Edit(p) \/ \E ok \in BOOLEAN : FinishWork(p, ok)
    \/ Verify(p) \/ PassVerification(p)
    \/ \E failed \in SUBSET Signature, fullRan, twice, policy \in BOOLEAN :
         FailVerification(p, failed, fullRan, twice, policy)
    \/ Review(p)
    \/ \E d \in Decision, clean \in BOOLEAN : FinishReview(p, d, clean)
    \/ Kill(p)

Control ==
  \/ Approve \/ Preview \/ Finalize
  \/ \E plan \in Plan :
       \/ "advance" \in Intervention /\ Advance(plan)
       \/ "revise" \in Intervention /\ Revise(plan)
  \/ \E status \in Paused \cap Intervention : Pause(status)
  \/ "resume" \in Intervention /\ Resume
  \/ \E a \in Allocation \cap Intervention : AddBudget(a)
  \/ "verification" \in Intervention /\ AddVerification
  \/ "rollback" \in Intervention /\ Rollback
  \/ \E status \in {"cancelled", "abandoned"} \cap Intervention : End(status)
  \/ "block" \in Intervention /\ Block

Next == LongCommand \/ Control \/ Elapse

Spec == Init /\ [][Next]_vars
-----------------------------------------------------------------------------
(* Properties.  CeilingsKept, LossNeedsOverlap and ApprovedPlanRuns hold   *)
(* for any number of long commands at once; the others with one (Proc a    *)
(* singleton), which the code does not enforce, and controls and kills     *)
(* interleaved with it.                                                    *)

(* The meters add up and none is beyond its ceiling or counts an operation *)
(* that was not started, whichever write from the memory of a long command *)
(* wins: each command checks the run it writes from, though another may    *)
(* have counted on the same ceiling meanwhile (budget.js, verification.js).*)
CeilingsKept ==
  /\ run.used = AllocSum(run.usedAlloc)
  /\ run.ops = AllocSum(run.alloc)
  /\ \A a \in Allocation : run.usedAlloc[a] <= run.alloc[a]
  /\ run.fullRuns <= run.maxFull
  /\ run.used <= spent

(* The command of p holds a run whose operations are no longer those of    *)
(* run.json.                                                               *)
Overtaken(p) == job[p].step # "idle" /\ job[p].run.used # run.used

(* Every step counts the operation it starts and loses none, unless it is  *)
(* the write of a long command that was overtaken; and it takes a second   *)
(* long command to overtake one: no control, refusal or kill does, and no  *)
(* command overtakes itself (execution.js, review.js, verification.js).    *)
LossNeedsOverlap ==
  [][/\ \/ run'.used - run.used = spent' - spent
        \/ \E p \in Proc : Overtaken(p) /\ job'[p] # job[p]
     /\ \A p \in Proc : Overtaken(p)' =>
          Overtaken(p) \/ \E q \in Proc \ {p} : job'[q] # job[q]]_vars

(* What is delivered is what was verified and reviewed: a completed run    *)
(* has a PASS and a verification of exactly the contents its worktree      *)
(* holds, on top of the checkpoints sealed before, and has released it.    *)
(* Repairs, cancellations, pauses and kills during the verification or the *)
(* review must not come between.  (For a rollback see SupervisedRunClaims.)*)
DeliveredIsReviewed ==
  run.status = "completed" /\ ~worktree.reset =>
    /\ run.decision = "PASS"
    /\ run.verifiedAt = worktree.version /\ run.reviewedAt = worktree.version
    /\ worktree.head \in {run.number - 1, run.number}
    /\ Owns("released", run)

(* Work is only ever recorded on the plan revision the operator approved,  *)
(* also when the plan is revised while the baseline of the old one runs.   *)
ApprovedPlanRuns == run.attempts > 0 => run.approved = run.revision

(* A worker runs only in the worktree recorded as this checkpoint's, and   *)
(* on top of the checkpoints sealed before (or of this one, when a kill    *)
(* cut its sealing short) as long as no rollback reset it under the worker.*)
WorkerOwnsWorktree ==
  \A p \in Proc :
    job[p].step \in {"baseline", "implementing", "repairing"} =>
      LET n == job[p].run.number
      IN  /\ worktree.exists /\ ownership.number = n
          /\ ~worktree.reset => worktree.head \in {n - 1, n}

(* History is not rewritten: within a checkpoint attempts and failure      *)
(* signatures only grow, and a run never goes back to a checkpoint.        *)
HistoryKept ==
  [][/\ run'.number >= run.number
     /\ run'.number = run.number =>
          /\ run'.attempts >= run.attempts
          /\ run.failures \subseteq run'.failures]_vars

=============================================================================
