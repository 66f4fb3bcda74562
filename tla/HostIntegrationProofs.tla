----------------------- MODULE HostIntegrationProofs -----------------------
(***************************************************************************)
(* Theorems about HostIntegration: who owns a worktree, how often an event *)
(* of the host changes the run, that a stop it reports is final and that   *)
(* no review passes while a limit it reports is in force.                  *)
(***************************************************************************)
EXTENDS HostIntegration, WorkflowRunFinalProofs

(* A step of the workflow run alone leaves what the host added to it. *)
LEMMA HostSteps ==
  ASSUME [HostNext]_allVars
  PROVE  \/ UNCHANGED hostVars
         \/ HostCommand
BY DEF HostNext, allVars

-----------------------------------------------------------------------------
(* The worktree of a supervised run. *)

(* A claim of a worktree that is not in conflict with the rival's record   *)
(* makes the run no second owner of the rival's.                           *)
LEMMA BindingAddsNoOwner ==
  ASSUME ~SecondOwner,
         NEW b \in Binding, NEW replace \in BOOLEAN,
         CreateHostBinding(b, replace)
  PROVE  ~SecondOwner'
<1>1. rival' = rival /\ claim' \in {claim, ClaimFor(b)}
  BY DEF CreateHostBinding, Claimed
<1>2. CASE claim' = claim
  BY <1>1, <1>2 DEF SecondOwner, RivalOwns
<1>3. CASE claim' = ClaimFor(b)
  <2>1. claim'.worktree = b.worktree
    BY <1>3 DEF ClaimFor
  <2>2. ~(RivalOwns /\ b.worktree = RivalWorktree)
    BY DEF CreateHostBinding, RivalConflict
  <2> QED BY <1>1, <2>1, <2>2 DEF SecondOwner, RivalOwns
<1> QED BY <1>1, <1>2, <1>3

(* Over every sequence of bindings, replacements cut short and steps of a  *)
(* supervised run, the step that makes a second owner is the one by which  *)
(* the supervised run takes its worktree back (ownership.js:10,            *)
(* execution.js:193); claim_ownership shows that it does.                  *)
THEOREM SecondOwnerOnlyByReuse == HostSpec => OwnershipExclusive
<1> DEFINE Added == ~SecondOwner /\ SecondOwner' => RivalContinues
<1>1. ASSUME [HostNext]_allVars PROVE Added
  <2> SUFFICES ASSUME ~SecondOwner, ~RivalContinues PROVE ~SecondOwner'
    OBVIOUS
  <2>1. CASE UNCHANGED hostVars
    BY <2>1 DEF hostVars, files, SecondOwner, RivalOwns
  <2>2. ASSUME NEW b \in Binding, NEW replace \in BOOLEAN,
               CreateHostBinding(b, replace)
        PROVE  ~SecondOwner'
    BY <2>2, BindingAddsNoOwner
  <2>3. ASSUME NEW e \in Event, NEW snap \in Snapshot, DeliverEvent(e, snap)
        PROVE  ~SecondOwner'
    BY <2>3 DEF DeliverEvent, files, SecondOwner, RivalOwns
  <2>4. CASE RivalCreates
    BY <2>4 DEF RivalCreates, RivalSteps, files, SecondOwner
  <2>5. CASE RivalReleases
    BY <2>5 DEF RivalReleases, RivalSteps, SecondOwner, RivalOwns
  <2> QED
    BY <1>1, <2>1, <2>2, <2>3, <2>4, <2>5, HostSteps DEF HostCommand
<1>2. [HostNext]_allVars => [Added]_allVars BY <1>1
<1> QED BY <1>2, PTL DEF HostSpec, OwnershipExclusive

(* The worktree a binding names is claimed for the task and attempt the    *)
(* binding names, unless a replacement was killed between its two files    *)
(* (binding.js:366).                                                       *)
THEOREM BindingOwnsWorktree == HostSpec => []BoundWorktreeOwned
<1>1. HostInit => BoundWorktreeOwned
  BY DEF HostInit, NoBinding, BoundWorktreeOwned
<1>2. BoundWorktreeOwned /\ [HostNext]_allVars => BoundWorktreeOwned'
  <2> SUFFICES ASSUME BoundWorktreeOwned, [HostNext]_allVars
               PROVE  BoundWorktreeOwned'
    OBVIOUS
  <2>1. CASE UNCHANGED files
    BY <2>1 DEF files, BoundWorktreeOwned
  <2>2. ASSUME NEW b \in Binding, NEW replace \in BOOLEAN,
               CreateHostBinding(b, replace)
        PROVE  BoundWorktreeOwned'
    <3>1. CASE torn'
      BY <3>1 DEF BoundWorktreeOwned
    <3>2. CASE ~torn'
      <4>1. binding' = Bound(b) /\ claim' = Claimed(b)
        BY <2>2, <3>2 DEF CreateHostBinding
      <4>2. /\ binding'.worktree = b.worktree /\ binding'.task = b.task
            /\ binding'.checkpoint = BoundAttempt(b)
        BY <4>1 DEF Bound
      <4>3. b.worktree # "none" => claim' = ClaimFor(b)
        BY <4>1 DEF Claimed
      <4> QED BY <4>2, <4>3 DEF ClaimFor, BoundWorktreeOwned
    <3> QED BY <3>1, <3>2
  <2>3. ASSUME HostCommand,
               ~ \E b \in Binding, replace \in BOOLEAN :
                   CreateHostBinding(b, replace)
        PROVE  UNCHANGED files
    BY <2>3 DEF HostCommand, DeliverEvent, RivalCreates, RivalReleases,
      RivalContinues, RivalSteps
  <2>4. UNCHANGED hostVars => UNCHANGED files
    BY DEF hostVars
  <2> QED BY <2>1, <2>2, <2>3, <2>4, HostSteps
<1> QED BY <1>1, <1>2, PTL DEF HostSpec

-----------------------------------------------------------------------------
(* How often an event changes the run. *)

(* An event not yet in the ledger has changed the run only if the command  *)
(* that applied it was killed; recording it allows for one change more.    *)
Accounted(e) ==
  /\ applied[e] \in Nat
  /\ ledger[e] = "absent" => applied[e] = IF e \in cut THEN 1 ELSE 0
  /\ ledger[e] # "absent" => applied[e] <= IF e \in cut THEN 2 ELSE 1
  /\ ledger[e] \in HostAction => applied[e] > 0

AccountInv ==
  /\ applied = [e \in Event |-> applied[e]]
  /\ ledger = [e \in Event |-> ledger[e]]
  /\ \A e \in Event : Accounted(e)

LEMMA EventsAreActions ==
  ASSUME NEW e \in Event, NEW snap \in Snapshot
  PROVE  HostEvents(e, snap) \subseteq HostAction
BY DEF HostEvents, HostRule, HostAction

(* What a delivery changes is the account of its own event. *)
LEMMA DeliveryAccounts ==
  ASSUME AccountInv, NEW e \in Event, NEW snap \in Snapshot,
         DeliverEvent(e, snap)
  PROVE  AccountInv'
<1>1. ledger[e] = "absent"
  BY DEF DeliverEvent, Undelivered
<1>2. Accounted(e)
  BY DEF AccountInv
<1>3. CASE UNCHANGED <<ledger, applied, cut>>
  BY <1>3 DEF AccountInv, Accounted
<1>4. ASSUME UNCHANGED <<applied, cut>>, ledger' = [ledger EXCEPT ![e] = "none"]
      PROVE  AccountInv'
  BY <1>1, <1>2, <1>4 DEF AccountInv, Accounted, HostAction
<1>5. ASSUME NEW action \in HostAction,
             applied' = [applied EXCEPT ![e] = @ + 1],
             ledger' = [ledger EXCEPT ![e] = action], UNCHANGED cut
      PROVE  AccountInv'
  <2>1. action # "absent"
    BY DEF HostAction
  <2>2. Accounted(e)'
    BY <1>1, <1>2, <1>5, <2>1 DEF AccountInv, Accounted
  <2>3. ASSUME NEW f \in Event, f # e
        PROVE  Accounted(f)'
    BY <1>5, <2>3 DEF AccountInv, Accounted
  <2> QED BY <1>5, <2>2, <2>3 DEF AccountInv
<1>6. ASSUME applied' = [applied EXCEPT ![e] = @ + 1],
             e \notin cut, cut' = cut \cup {e}, UNCHANGED ledger
      PROVE  AccountInv'
  BY <1>1, <1>2, <1>6 DEF AccountInv, Accounted, HostAction
<1>7. ASSUME NEW action \in HostEvents(e, snap), ApplyThenRecord(e, action)
      PROVE  AccountInv'
  <2>1. action \in HostAction
    BY EventsAreActions
  <2> QED BY <1>3, <1>5, <1>6, <1>7, <2>1 DEF ApplyThenRecord
<1> QED BY <1>4, <1>7 DEF DeliverEvent

LEMMA AccountInit == HostInit => AccountInv
BY DEF HostInit, AccountInv, Accounted, HostAction

LEMMA AccountStep ==
  ASSUME AccountInv, [HostNext]_allVars
  PROVE  AccountInv'
<1>1. CASE UNCHANGED <<ledger, applied, cut>>
  BY <1>1 DEF AccountInv, Accounted
<1>2. ASSUME NEW e \in Event, NEW snap \in Snapshot, DeliverEvent(e, snap)
      PROVE  AccountInv'
  BY <1>2, DeliveryAccounts
<1>3. ASSUME HostCommand,
             ~ \E e \in Event, snap \in Snapshot : DeliverEvent(e, snap)
      PROVE  UNCHANGED <<ledger, applied, cut>>
  BY <1>3 DEF HostCommand, CreateHostBinding, RivalCreates, RivalReleases,
    RivalContinues, RivalSteps
<1>4. UNCHANGED hostVars => UNCHANGED <<ledger, applied, cut>>
  BY DEF hostVars
<1> QED BY <1>1, <1>2, <1>3, <1>4, HostSteps

(* An event changes the run once, and twice at most when the command that  *)
(* applied it was killed before the ledger, however often and in whatever  *)
(* order events are delivered (native-goal.js:308).                        *)
THEOREM EventsApplyOnce == HostSpec => []LedgerAccounts
<1>1. AccountInv => LedgerAccounts
  BY DEF AccountInv, Accounted, LedgerAccounts, HostAction
<1> QED BY <1>1, AccountInit, AccountStep, PTL DEF HostSpec

-----------------------------------------------------------------------------
(* What a stop of the host leaves. *)

StopInv == TypeOK /\ Settled(run) /\ AccountInv /\ StopHolds

(* An intervention of the host is one of an operator, or a lifecycle event.*)
LEMMA InterventionSteps ==
  ASSUME TypeOK, Settled(run), NEW action \in HostAction, Intervene(action)
  PROVE  /\ TypeOK' /\ Settled(run)'
         /\ run.status \in Closed => run'.status \in Closed
         /\ action = "cancel" => run' = run \/ run'.status = "cancelled"
<1>1. CASE PauseHostLimit \/ Interrupt \/ Resume
  <2>1. TypeOK' /\ GoesOn
    BY <1>1, InterventionType, InterventionGoesOn
  <2>2. action # "cancel" \/ \E e \in LifecycleEvent : Lifecycle(e) /\ action = e
    BY DEF Intervene
  <2>3. Settled(run)' BY <2>1 DEF GoesOn, Settled
  <2>4. run.status \notin Closed BY <2>1 DEF GoesOn, Ended
  <2>5. CASE action # "cancel" BY <2>1, <2>3, <2>4, <2>5
  <2>6. CASE Lifecycle("cancel")
    <3>1. RunEdge("cancel").to = "cancelled" BY Zenon DEF RunEdge
    <3>2. run' = run \/ run'.status = RunEdge("cancel").to
      BY <2>6, LifecycleEnds DEF LifecycleEvent
    <3> QED BY <2>1, <2>3, <2>4, <3>1, <3>2
  <2> QED BY <2>2, <2>5, <2>6
<1>2. ASSUME NEW e \in LifecycleEvent, e = action, Lifecycle(e)
      PROVE  /\ TypeOK' /\ Settled(run)'
             /\ run.status \in Closed => run'.status \in Closed
             /\ action = "cancel" => run' = run \/ run'.status = "cancelled"
  <2>1. TypeOK' BY <1>2, InterventionType
  <2>2. /\ Settled(run)'
        /\ run' = run \/ run'.status = RunEdge(e).to
        /\ run.status \in Ended => run'.status \in Closed
    BY <1>2, LifecycleEnds
  <2>3. RunEdge("cancel").to = "cancelled" BY Zenon DEF RunEdge
  <2> QED BY <1>2, <2>1, <2>2, <2>3 DEF Ended
<1> QED BY <1>1, <1>2 DEF Intervene

LEMMA StopDelivery ==
  ASSUME StopInv, NEW e \in Event, NEW snap \in Snapshot,
         DeliverEvent(e, snap)
  PROVE  TypeOK' /\ Settled(run)' /\ StopHolds'
<1>1. ledger = [f \in Event |-> ledger[f]]
  BY DEF StopInv, AccountInv
<1>2. ASSUME UNCHANGED vars, ledger' = [ledger EXCEPT ![e] = "none"]
      PROVE  TypeOK' /\ Settled(run)' /\ StopHolds'
  BY <1>1, <1>2 DEF StopInv, StopHolds, vars, TypeOK, Settled, Members
<1>3. ASSUME NEW action \in HostEvents(e, snap), ApplyThenRecord(e, action)
      PROVE  TypeOK' /\ Settled(run)' /\ StopHolds'
  <2>1. action \in HostAction /\ Intervene(action)
    BY <1>3, EventsAreActions DEF ApplyThenRecord
  <2>2. /\ TypeOK' /\ Settled(run)'
        /\ run.status \in Closed => run'.status \in Closed
        /\ action = "cancel" => run' = run \/ run'.status = "cancelled"
    BY <2>1, InterventionSteps DEF StopInv
  <2>3. (\E f \in Event : ledger[f] = "cancel") => run.status \in Closed
    BY DEF StopInv, StopHolds, Closed
  <2>4. \/ ledger' = ledger
        \/ run' # run /\ ledger' = [ledger EXCEPT ![e] = action]
    BY <1>3 DEF ApplyThenRecord
  <2>5. ASSUME NEW f \in Event, ledger'[f] = "cancel"
        PROVE  run'.status \in Closed
    <3>1. CASE ledger[f] = "cancel" BY <2>2, <2>3, <3>1
    <3>2. CASE ledger[f] # "cancel"
      <4>1. run' # run /\ ledger' = [ledger EXCEPT ![e] = action]
        BY <2>4, <2>5, <3>2
      <4>2. action = "cancel" BY <1>1, <2>5, <3>2, <4>1
      <4> QED BY <2>2, <4>1, <4>2 DEF Closed
    <3> QED BY <3>1, <3>2
  <2> QED BY <2>2, <2>5 DEF StopHolds, Closed
<1> QED BY <1>2, <1>3 DEF DeliverEvent

(* A stop that the ledger records has ended the run for good: no late      *)
(* result, resume, review or later event opens it again, whatever is       *)
(* delivered and in whatever order (native-goal.js, applyEvent).           *)
THEOREM StopIsFinal == HostSpec => []StopHolds
<1>1. HostInit => StopInv
  <2>1. HostInit => TypeOK /\ Settled(run)
    BY InitType, SettledInit DEF HostInit
  <2>2. HostInit => StopHolds BY DEF HostInit, StopHolds
  <2> QED BY <2>1, <2>2, AccountInit DEF StopInv
<1>2. StopInv /\ [HostNext]_allVars => StopInv'
  <2> SUFFICES ASSUME StopInv, [HostNext]_allVars
               PROVE  TypeOK' /\ Settled(run)' /\ StopHolds'
    BY AccountStep DEF StopInv
  <2>1. ASSUME [Next]_vars, UNCHANGED ledger
        PROVE  TypeOK' /\ Settled(run)' /\ StopHolds'
    <3>1. TypeOK' /\ Settled(run)'
      BY <2>1, TypeStep, SettledStep DEF StopInv
    <3>2. run.status \in Closed => run'.status \in Closed
      BY <2>1, ClosedStep DEF StopInv
    <3> QED BY <2>1, <3>1, <3>2 DEF StopInv, StopHolds, Closed
  <2>2. ASSUME NEW e \in Event, NEW snap \in Snapshot, DeliverEvent(e, snap)
        PROVE  TypeOK' /\ Settled(run)' /\ StopHolds'
    BY <2>2, StopDelivery
  <2>3. ASSUME HostCommand,
               ~ \E e \in Event, snap \in Snapshot : DeliverEvent(e, snap)
        PROVE  UNCHANGED vars /\ UNCHANGED ledger
    BY <2>3 DEF HostCommand, CreateHostBinding, RivalCreates, RivalReleases,
      RivalContinues, RivalSteps
  <2>4. CASE HostCommand BY <2>1, <2>2, <2>3, <2>4
  <2>5. CASE (Next /\ UNCHANGED hostVars) \/ UNCHANGED allVars
    BY <2>1, <2>5 DEF allVars, hostVars
  <2> QED BY <2>4, <2>5 DEF HostNext
<1> QED BY <1>1, <1>2, PTL DEF HostSpec, StopInv

-----------------------------------------------------------------------------
(* The run among the events of its host takes the steps of a workflow run, *)
(* whichever interventions the operator takes, so that what these steps    *)
(* keep holds here as well.                                                *)

LEMMA HostRunSteps ==
  ASSUME TypeOK, [HostNext]_allVars
  PROVE  TypeOK' /\ RunStep
<1>1. CASE [Next]_vars BY <1>1, TypeStep, RunSteps
<1>2. ASSUME NEW e \in Event, NEW snap \in Snapshot, DeliverEvent(e, snap)
      PROVE  TypeOK' /\ RunStep
  <2>1. CASE UNCHANGED vars BY <1>1, <2>1
  <2>2. ASSUME NEW action, Intervene(action)
        PROVE  TypeOK' /\ RunStep
    <3>1. \/ Interrupt
          \/ Resume
          \/ PauseHostLimit
          \/ \E l \in LifecycleEvent : Lifecycle(l)
      BY <2>2 DEF Intervene
    <3> QED BY <3>1, InterventionType, OperatorSteps
  <2> QED BY <1>2, <2>1, <2>2 DEF DeliverEvent, ApplyThenRecord
<1>3. ASSUME HostCommand,
             ~ \E e \in Event, snap \in Snapshot : DeliverEvent(e, snap)
      PROVE  UNCHANGED vars
  BY <1>3 DEF HostCommand, CreateHostBinding, RivalCreates, RivalReleases,
    RivalContinues, RivalSteps
<1>4. CASE HostCommand BY <1>1, <1>2, <1>3, <1>4
<1>5. CASE (Next /\ UNCHANGED hostVars) \/ UNCHANGED allVars
  BY <1>1, <1>5 DEF allVars
<1> QED BY <1>4, <1>5 DEF HostNext

LEMMA HostedRunType == HostSpec => []TypeOK
<1>1. HostInit => TypeOK BY InitType DEF HostInit
<1> QED BY <1>1, HostRunSteps, PTL DEF HostSpec

LEMMA HostedBlocked == HostSpec => []BlockedTogether
<1>1. HostInit => BlockedTogether BY BlockedInit DEF HostInit
<1> QED BY <1>1, HostedRunType, HostRunSteps, BlockedStep, PTL DEF HostSpec

LEMMA HostedWork == HostSpec => []Work
<1>1. HostInit => Work BY WorkInit DEF HostInit
<1> QED BY <1>1, HostedRunType, HostRunSteps, WorkStep, PTL DEF HostSpec

(* The events of a host do not bring a started run back to approved: what  *)
(* reads as approved, now or when a pause is lifted, is untouched          *)
(* (native-goal.js, applyEvent; state.js, interveneWorkflowRun).           *)
THEOREM HostedApprovedIsUntouched == HostSpec => []ApprovedUntouched
<1>1. HostInit => ApprovedUntouched /\ ApprovedForgotten
  BY ApprovedInit DEF HostInit
<1> QED
  BY <1>1, HostedRunType, HostedBlocked, HostRunSteps, ApprovedStep, PTL
  DEF HostSpec

-----------------------------------------------------------------------------
(* A limit of the host. *)

(* The limit is set on work under way, which no review has passed: a PASS  *)
(* ends the run's work, and only a revision, which takes the PASS back,    *)
(* can add to it.                                                          *)
LimitInv == PassEndsWork /\ HostLimitHolds

LEMMA LimitInit ==
  ASSUME HostInit
  PROVE  LimitInv
<1>1. PICK d \in Definition : run = ApprovedRun(d) BY DEF HostInit, Init
<1>2. /\ run.status = "approved" /\ run.hostLimit = FALSE
      /\ run.reviewer = ReviewerGate(d)
  BY <1>1, Zenon DEF ApprovedRun
<1> QED BY <1>2 DEF ReviewerGate, LimitInv, PassEndsWork, HostLimitHolds

LEMMA LimitStep ==
  ASSUME TypeOK, TypeOK', BlockedTogether, BlockedTogether', BusyOpen,
         LimitInv, RunStep
  PROVE  LimitInv'
<1> USE DEF LimitInv, PassEndsWork, HostLimitHolds, Pauses, BudgetPauses
<1>1. /\ Members(run) \subseteq Task /\ \A t \in Task : run.task[t] \in TaskRecord
      /\ run.status \in RunStatus
  BY MemberTypes, RowTypes, StatusTypes DEF TypeOK
<1>2. CASE run' = run BY <1>2
<1>3. CASE PauseStep
  BY <1>3 DEF PauseStep, KeepsTasks, Resumable
<1>4. CASE InterruptStep BY <1>4 DEF InterruptStep, KeepsTasks
<1>5. CASE ResumeStep
  <2>1. ResumedStatus \in Resumable
    BY StatusTypes DEF ResumedStatus, Orelse, Resumable
  <2> QED BY <1>5, <2>1 DEF ResumeStep, KeepsTasks, Resumable
<1>6. ASSUME NEW t \in Task, StartStep(t)
      PROVE  LimitInv'
  BY <1>6 DEF StartStep, Steady
<1>7. ASSUME NEW t \in Task, AdvanceStep(t)
      PROVE  LimitInv'
  <2>1. run.reviewer # "passed"
    <3>1. CASE run.task[t].status = "running"
      BY <1>7, <3>1 DEF AdvanceStep, BusyOpen, BusyTasks, Busy
    <3> QED BY <1>7, <3>1 DEF AdvanceStep
  <2>2. run'.status # "paused-host-limit" \/ run'.status = run.status
    BY <1>7 DEF AdvanceStep
  <2> QED BY <1>7, <2>1, <2>2 DEF AdvanceStep, Steady
<1>8. ASSUME NEW t \in Task, BlockStep(t)
      PROVE  LimitInv'
  BY <1>8 DEF BlockStep, Steady
<1>9. CASE FinalPassStep BY <1>9 DEF FinalPassStep
<1>10. ASSUME NEW F \in SUBSET Task, FinalBlockStep(F)
       PROVE  LimitInv'
  BY <1>10 DEF FinalBlockStep
<1>11. CASE FinalizeStep BY <1>11 DEF FinalizeStep, Steady
<1>12. ASSUME NEW e \in LifecycleEvent, CloseStep(e)
       PROVE  LimitInv'
  <2>1. /\ run'.status \in {"timed-out", "cancelled", "rolled-back", "abandoned"}
        /\ run'.status = "timed-out" => run.status \in {"active", "interrupted"}
        /\ run'.status = "cancelled" => run.status \notin
             {"completed", "finalized", "rolled-back", "abandoned"}
    BY <1>12, ClosingTargets, LifecycleSources
    DEF CloseStep, CanRun, LifecycleEvent
  <2> QED BY <1>12, <2>1 DEF CloseStep, Steady
<1>13. ASSUME NEW t \in Task, NEW s \in RunStatus, ReopenStep(t, s)
       PROVE  LimitInv'
  <2>1. /\ run'.reviewer = run.reviewer /\ run'.hostLimit = run.hostLimit
        /\ run'.status \in {"active", "blocked", run.status}
    BY <1>13 DEF ReopenStep, Steady
  <2>2. ASSUME run.reviewer = "passed"
        PROVE  run'.status = run.status
    <3>1. run.status \notin {"blocked", "interrupted", "timed-out"}
      BY <2>2
    <3>2. ~SomeBlocked(run) BY <3>1 DEF BlockedTogether
    <3>3. ~SomeBlocked(run')
      BY <1>1, <1>13, <3>2
      DEF ReopenStep, OthersStay, SomeBlocked, Members, Steady
    <3> QED BY <1>13, <3>1, <3>3 DEF ReopenStep
  <2> QED BY <2>1, <2>2
<1>14. ASSUME NEW d \in Definition, ReviseStep(d)
       PROVE  LimitInv'
  <2>1. run'.reviewer # "passed" /\ run'.hostLimit = run.hostLimit
    BY <1>14 DEF ReviseStep, ReviewerGate
  <2>2. run'.status = "paused-host-limit" => run.status = "paused-host-limit"
    BY <1>14 DEF ReviseStep, RevisedStatus
  <2> QED BY <2>1, <2>2
<1> QED
  BY <1>2, <1>3, <1>4, <1>5, <1>6, <1>7, <1>8, <1>9, <1>10, <1>11, <1>12,
    <1>13, <1>14 DEF RunStep

(* A run that is paused for its host has a limit in force, and no reviewer *)
(* passes a run while it is, whatever resumes, revisions, late results and *)
(* events of the host come in between (budget.js, evaluateWorkflowOperation*)
(* and pauseForWorkflowBudget; state.js, interveneWorkflowRun).            *)
THEOREM NoPassUnderLimit == HostSpec => []HostLimitHolds
<1>1. Work => BusyOpen BY DEF Work
<1>2. LimitInv => HostLimitHolds BY DEF LimitInv
<1> QED
  BY <1>1, <1>2, LimitInit, LimitStep, HostRunSteps, HostedRunType,
    HostedBlocked, HostedWork, PTL DEF HostSpec

-----------------------------------------------------------------------------
(* Type correctness of the binding, the claim and the ledger. *)

FilesOK ==
  /\ binding.mode \in Mode \cup {"none"}
  /\ binding.task \in Task \cup {"none"}
  /\ binding.checkpoint \in 0..MaxAttempts
  /\ binding.worktree \in Worktree \cup {"none"}
  /\ claim \in [worktree : Worktree \cup {"none"}, task : Task \cup {"none"},
                checkpoint : 0..MaxAttempts]
  /\ torn \in BOOLEAN
  /\ rival \in {"none", "active", "released", "continued"}

LedgerOK ==
  /\ ledger \in [Event -> HostAction \cup {"absent", "none"}]
  /\ cut \subseteq Event /\ IsFiniteSet(cut) /\ Cardinality(cut) <= MaxCuts

HostInv == FilesOK /\ LedgerOK /\ AccountInv

LEMMA FilesStep ==
  ASSUME TypeOK, FilesOK, [HostNext]_allVars
  PROVE  FilesOK'
<1> USE DEF FilesOK
<1>1. CASE UNCHANGED <<files, rival>> BY <1>1 DEF files
<1>2. ASSUME NEW b \in Binding, NEW replace \in BOOLEAN,
             CreateHostBinding(b, replace)
      PROVE  FilesOK'
  <2>1. /\ b.mode \in Mode /\ b.task \in Task \cup {"none"}
        /\ b.worktree \in Worktree \cup {"none"}
        /\ b.pinned => b.task # "none"
    BY HostAssumption
  <2>2. BoundAttempt(b) \in 0..MaxAttempts
    <3>1. \A t \in Task : run.task[t].active \in 0..MaxAttempts
      BY DEF TypeOK, RunRecord, TaskRecord
    <3> QED BY <2>1, <3>1, BoundAssumption DEF BoundAttempt
  <2>3. claim' \in {claim, ClaimFor(b)} /\ rival' = rival
    BY <1>2 DEF CreateHostBinding, Claimed
  <2>4. \/ binding' = Bound(b) /\ torn' = FALSE
        \/ binding' = binding /\ torn' = TRUE
    BY <1>2 DEF CreateHostBinding
  <2>5. claim' \in [worktree : Worktree \cup {"none"}, task : Task \cup {"none"},
                    checkpoint : 0..MaxAttempts]
    BY <2>1, <2>2, <2>3 DEF ClaimFor
  <2>6. /\ binding'.mode \in Mode \cup {"none"}
        /\ binding'.task \in Task \cup {"none"}
        /\ binding'.checkpoint \in 0..MaxAttempts
        /\ binding'.worktree \in Worktree \cup {"none"}
        /\ torn' \in BOOLEAN
    <3>1. CASE binding' = Bound(b)
      <4>1. /\ binding'.mode = b.mode /\ binding'.task = b.task
            /\ binding'.checkpoint = BoundAttempt(b)
            /\ binding'.worktree = b.worktree
        BY <3>1 DEF Bound
      <4> QED BY <2>1, <2>2, <2>4, <4>1
    <3> QED BY <2>4, <3>1
  <2> QED BY <2>3, <2>5, <2>6
<1>3. CASE RivalCreates \/ RivalReleases \/ RivalContinues
  BY <1>3 DEF RivalCreates, RivalReleases, RivalContinues, RivalSteps, files
<1>4. ASSUME NEW e \in Event, NEW snap \in Snapshot, DeliverEvent(e, snap)
      PROVE  UNCHANGED <<files, rival>>
  BY <1>4 DEF DeliverEvent
<1>5. UNCHANGED hostVars => UNCHANGED <<files, rival>> BY DEF hostVars
<1> QED BY <1>1, <1>2, <1>3, <1>4, <1>5, HostSteps DEF HostCommand

LEMMA LedgerStep ==
  ASSUME LedgerOK, [HostNext]_allVars
  PROVE  LedgerOK'
<1> USE DEF LedgerOK
<1>1. CASE UNCHANGED <<ledger, cut>> BY <1>1
<1>2. ASSUME NEW e \in Event, NEW snap \in Snapshot, DeliverEvent(e, snap)
      PROVE  LedgerOK'
  <2>1. PICK action \in HostAction \cup {"none"} :
          /\ ledger' = ledger \/ ledger' = [ledger EXCEPT ![e] = action]
          /\ \/ cut' = cut
             \/ e \notin cut /\ Cardinality(cut) < MaxCuts /\ cut' = cut \cup {e}
    <3>1. CASE HostEvents(e, snap) = {}
      BY <1>2, <3>1 DEF DeliverEvent
    <3>2. ASSUME NEW a \in HostEvents(e, snap), ApplyThenRecord(e, a)
          PROVE  /\ a \in HostAction \cup {"none"}
                 /\ ledger' = ledger \/ ledger' = [ledger EXCEPT ![e] = a]
                 /\ \/ cut' = cut
                    \/ /\ e \notin cut /\ Cardinality(cut) < MaxCuts
                       /\ cut' = cut \cup {e}
      BY <3>2, EventsAreActions DEF ApplyThenRecord
    <3> QED BY <1>2, <3>1, <3>2 DEF DeliverEvent
  <2>2. ledger' \in [Event -> HostAction \cup {"absent", "none"}]
    BY <2>1
  <2>3. cut' \subseteq Event /\ IsFiniteSet(cut') /\ Cardinality(cut') <= MaxCuts
    <3>1. CASE e \notin cut /\ Cardinality(cut) < MaxCuts /\ cut' = cut \cup {e}
      <4>1. IsFiniteSet(cut') /\ Cardinality(cut') = Cardinality(cut) + 1
        BY <3>1, FS_AddElement
      <4>2. Cardinality(cut) \in Nat BY FS_CardinalityType
      <4> QED BY <3>1, <4>1, <4>2, HostAssumption
    <3> QED BY <2>1, <3>1
  <2> QED BY <2>2, <2>3
<1>3. ASSUME HostCommand,
             ~ \E e \in Event, snap \in Snapshot : DeliverEvent(e, snap)
      PROVE  UNCHANGED <<ledger, cut>>
  BY <1>3 DEF HostCommand, CreateHostBinding, RivalCreates, RivalReleases,
    RivalContinues, RivalSteps
<1>4. UNCHANGED hostVars => UNCHANGED <<ledger, cut>> BY DEF hostVars
<1> QED BY <1>1, <1>2, <1>3, <1>4, HostSteps

LEMMA HostInvInit ==
  ASSUME HostInit
  PROVE  HostInv
<1>1. FilesOK
  <2>1. /\ binding = NoBinding /\ claim = NoClaim /\ torn = FALSE
        /\ rival = "none" /\ 0 \in 0..MaxAttempts
    BY BoundAssumption DEF HostInit
  <2>2. /\ binding.mode = "none" /\ binding.task = "none"
        /\ binding.checkpoint = 0 /\ binding.worktree = "none"
    BY <2>1 DEF NoBinding
  <2>3. claim \in [worktree : Worktree \cup {"none"},
                  task : Task \cup {"none"}, checkpoint : 0..MaxAttempts]
    BY <2>1 DEF NoClaim
  <2> QED BY <2>1, <2>2, <2>3 DEF FilesOK
<1>2. LedgerOK
  BY FS_EmptySet, HostAssumption DEF HostInit, LedgerOK
<1> QED BY <1>1, <1>2, AccountInit DEF HostInv

(* An event that changed the run twice was cut once. *)
LEMMA AppliedType ==
  ASSUME LedgerOK, AccountInv
  PROVE  applied \in [Event -> 0..(MaxCuts + 1)]
<1>1. ASSUME NEW e \in Event
      PROVE  applied[e] \in 0..(MaxCuts + 1)
  <2>1. /\ applied[e] \in Nat
        /\ applied[e] <= IF e \in cut THEN 2 ELSE 1
    BY DEF AccountInv, Accounted
  <2>2. e \in cut => MaxCuts >= 1
    <3>1. /\ IsFiniteSet(cut) /\ Cardinality(cut) <= MaxCuts
          /\ Cardinality(cut) \in Nat /\ MaxCuts \in Nat
      BY FS_CardinalityType, HostAssumption DEF LedgerOK
    <3>2. cut # {} => Cardinality(cut) # 0
      BY <3>1, FS_EmptySet
    <3> QED BY <3>1, <3>2
  <2> QED BY <2>1, <2>2, HostAssumption
<1> QED BY <1>1 DEF AccountInv

(* The run, its binding, its claim and the ledger stay in their types: a   *)
(* bound checkpoint is an attempt of a task of the run, and an event       *)
(* changes the run at most once more than commands are killed              *)
(* (binding.js, native-goal.js).                                           *)
THEOREM HostTypeCorrect == HostSpec => []HostTypeOK
<1>1. HostInv /\ TypeOK /\ [HostNext]_allVars => HostInv'
  BY FilesStep, LedgerStep, AccountStep DEF HostInv
<1>2. HostInv /\ TypeOK => HostTypeOK
  BY AppliedType DEF HostInv, FilesOK, LedgerOK, HostTypeOK
<1> QED BY <1>1, <1>2, HostInvInit, HostedRunType, PTL DEF HostSpec
=============================================================================
