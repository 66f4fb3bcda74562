# Formal models of the Codex Engineering Workflow Pack

CEWP is a command line (and an MCP server over it) that runs coding agents
under control: an operator approves a plan, agents work in git worktrees,
verification and review evidence is collected, budgets are enforced, and a run
is finalized only through its gates.  All state is in JSON files under `.cewp/`
that each command reads, checks and rewrites.  There is no daemon and no lock;
what is hard is the *protocol* of these files: the order in which commands may
come, what a killed command leaves behind, and what two overlapping commands
do to each other.

Paths below are relative to `src/src` in the repository unless they start with
another directory.

## 1. Inventory

| Component | State it keeps | Operations | What makes it correct |
|---|---|---|---|
| **Workflow run** `workflow/state.js, budget.js, scheduler.js, transitions.js, definition.js, graph.js, revision.js, result.js, review.js` | `run.json` (status, tasks, budget, reviewer gate), one checkpoint and one result file per attempt, reviews, definitions and backups per revision | approve, start, record a result, record a checkpoint or final review, finalize, 15 interventions, revise | work only on completed dependencies and within budget; completed means verified and reviewed evidence; a PASS covers all work; final is final |
| **Supervised run** `supervise/*` | `run.json`, `ownership.json`, a managed worktree and its branch | propose, revise, approve, execute, retry, verify, review, preview, finalize, continue (next checkpoint), pause, resume, add budget, roll back, cancel, abandon, block | what is delivered is exactly what was verified and reviewed; no ceiling is passed and an operation counted is lost to an overlapping command only; one worker per worktree |
| **Coordinator run** `run/basic.js, worktrees.js, dispatch/*, collect.js, finalize.js, cleanup.js, prune.js` | `run.json`, `board.json`, tasks, a worktree registry, reports and reviews | init, create worktrees, dispatch workers (one after the other or in parallel) and a reviewer, collect, finalize, clean up, prune | no work outside its scope is passed on; a decision belongs to the work it reviewed; a worktree in use is not removed |
| **Ownership** `run/ownership.js, control-gates.js` | `ownership.json` of every run | claim, conflict check, release | one owner per task and per worktree |
| **Integration** `integration/*` | host binding, its receipt and ownership claim, native goal ledger, hook trust, effort policy | bind, observe, apply host events to a workflow run, approve trust | a host event is applied once and never claims success; trust lapses with the revision it was given for |
| **Evidence** `evidence/*` | append-only `events.jsonl`; receipts and reports derived from a run | append, verify, render, redact, compare | a report says what the run says |
| **Pilot** `pilot/*` | one record per pilot, with observations | create, observe (supersede), export, status | a superseded observation is not counted |
| **Adapters** `run/adapters/*` | none (external programs) | build arguments, start, copy output | an adapter's failure is not a success |
| **Policy** `run/policy.js` | `policy.json` | read, set | a switched off operation does not start |
| **Views and tools** `workflow/cli.js, progress.js, compiler.js, templates.js, source.js, proposal.js, mcp/*, skills/*, cli/*, lib/*, demo, performance, compatibility, bin, scripts, plugins` | none, or files written once | parse, render, install | not stateful protocols |

Interactions: the native goal ledger and the command line entries call the
workflow run's interventions; the supervised run and the host binding write
ownership records that the ownership check of either reads; the coordinator,
the supervised run and the workflow run share adapters, git helpers and policy;
evidence and pilot read finished runs.

Hard behaviours, in one list (each is in `PROJECT.json` under `hazards`, at its
line, with the properties aimed at it): commands that rewrite a whole file from
memory; several files written by one command, with a kill in between; pauses
that remember a status while results still arrive; retries and reassignments
that skip a check another command makes; decisions (reviews) that outlive the
work they were about; meters kept in five allocations and spent by different
commands; plans revised under a run; agents that still write while another
command looks at, or removes, their worktree; host events that come late, twice
or out of order.

## 2. What is modelled

| Module | Models |
|---|---|
| `WorkflowTransitions` | `transitions.js`: the run, task and checkpoint tables as data, with `CanRun`/`RunEdge` and so on; failure classes, waivable and revision-required sets |
| `WorkflowDefinition` | `definition.js`, `graph.js`, `revision.js`: what a valid definition is: acyclic, no overlapping scopes, allocations that make up the ceiling, verification that fits |
| `WorkflowRun` | `workflow/state.js`, `budget.js`, `scheduler.js`: the whole life of one run |
| `RunGate`, `WorkflowRunGate` | the abstract promise of a run to the operator who finalizes it, and the refinement mapping under which `WorkflowRun` implements it |
| `WorkflowRunProofs`, `WorkflowRunSteps`, `WorkflowRunEvidenceProofs`, `WorkflowRunStatusProofs`, `WorkflowRunFinalProofs` | theorems about `WorkflowRun`, each module building on the one before: types and budget; what one step may do; evidence files; statuses and PASS; finality and the refinement of `RunGate` |
| `WorkflowRunClaims` | a sentence of the documents that the code does not keep |
| `MCWorkflowRun` | the plans TLC uses |
| `HostIntegration`, `MCHostIntegration` | `integration/native-goal.js`, `binding.js` and `run/ownership.js`, composed with `WorkflowRun` |
| `SupervisedRun` | `supervise/*`: the whole life of one supervised run, long commands split |
| `SupervisedRunClaims`, `MCSupervisedRun` | as above, for the supervised run |
| `SupervisedRunProofs` | theorems about `SupervisedRun` |
| `ScopeRules` | `lib/scope-check.js` and the scopes of `workflow/graph.js`, `result.js`: file patterns, their overlap, the files a worktree has changed |
| `CoordinatorRun`, `MCCoordinatorRun` | `run/*`: one coordinator run with its worktrees, dispatch commands, agents, packet, review, finalize, cleanup and policy |
| `CoordinatorRunProofs` | theorems about `ScopeRules` and `CoordinatorRun` |
| `HostIntegrationProofs` | theorems about `HostIntegration` |

How they fit together: `HostIntegration` EXTENDS `WorkflowRun` and adds its own
actions to those of the run, so that a host event goes through the very actions
an operator's intervention does.  `WorkflowRunGate` INSTANCEs `RunGate` with a
mapping of the run's files.  `CoordinatorRun` is built on `ScopeRules`.  Modules
named `MC...` only give constants their values.

### WorkflowRun

State: `run` is run.json (status, a record per task, budget ceilings and
meters, reviewer gate, remembered resume status, revision); `checkpoint[t][n]`
and `result[t][n]` are the files of attempt n of task t; `staged[n]` is the
definition and backup of revision n; `expired` says the elapsed-time ceiling has
passed; `crashes` counts killed commands.  One action per exported operation
and per way it can end: `StartTask` and `RefuseStart`, `RecordSuccess`,
`RecordFailure`, `RefuseResult`, `PassFinalReview`, `BlockCheckpointReview`,
`Lifecycle`, `RetryTask`, `ApplyRevision` ...  `Refuse...` is the path on which
the command pauses the run instead.  A command that writes several files goes
through `Persist`, which either makes all the writes or, while `crashes` is
below `MaxCrashes`, only a first part of them, in the order of the code.  A
command that throws between two writes is `ThrowAfter`.

Abstracted: identifiers, texts and times.  Usage is a number from a small set.
Failure signatures are model values.  Which commands ran is their number.
`expired` replaces the clock; a late review (its own completion time beyond the
ceiling) is a flag of the review, because the code takes that time from the
candidate.  Progress files and the event log are left out: no command of the
run reads them.

### RunGate and its refinement

`RunGate` knows nothing of commands, pauses, budgets or files.  A run is open,
judged, delivered or closed; while it is open anything may change; it is judged
only with every task of its plan accepted on verified evidence and a sufficient
verdict; then plan, evidence and verdict are fixed.  The mapping in
`WorkflowRunGate` reads the phase from the status (`completed` is judged,
`finalized` delivered, `cancelled`, `rolled-back` and `abandoned` closed), the
plan from the tasks in run.json, `verified` from the result and checkpoint
*files*, `accepted` from the tasks that run.json calls completed.  `GateKept ==
Gate!Spec` is checked as a property of `run_lifecycle`, with kills.  It holds
for runs without revisions.  With revisions it does not, for the reason the run
`claim_evidence_gates` shows.  `SupervisedRun` does not implement the same gate,
for the reason `claim_rollback` shows.

### SupervisedRun

State: `run` (run.json of the current checkpoint), `ownership`, `worktree`
(whether it exists, how many checkpoints are sealed on its branch, the version
its directory holds), and `job[p]`, the long command a process is in with the
run it loaded.  Short commands are one step, that can be killed between two
writes.  Long commands (execute, retry, verify, review) start with one step,
spend arbitrary time while a worker edits or commands run, and end by writing
run.json from their memory, as the code does (`execution.js:503`,
`verification.js:241`, `review.js:222`).  Every other command can come in
between.  `spent` (operations really started) and `worktree.reset` are
observations: no guard reads them.

`Proc`, the processes that may be in a long command, is a constant, and all
short commands come in between.  `supervised` has two of them: what it checks
holds whichever write from memory wins, and is proved for any number (section
4).  `LossNeedsOverlap` says what is left of counting then: `Overtaken(p)` is a
command whose remembered run no longer counts what run.json counts, the write of
such a command is the only step that loses an operation, and it takes a second
long command to overtake one.  `supervised_continue` and `claim_rollback` have
one process (`OneCommand`), which the code does not enforce: with two, TLC finds
`HistoryKept`, `WorkerOwnsWorktree` and `DeliveredIsReviewed` violated within a
few steps (two verifications of the same checkpoint, of which the later writes
its older run over a repair or a review that was started meanwhile).

### ScopeRules and CoordinatorRun

`ScopeRules`: a path is a sequence of segments, a pattern a root with or without
the trailing `/**`, an edit is where a file was, where it is now and whether the
change is committed.  `MatchesPattern`, `PatternsOverlap`, `ChangedFiles`,
`OutsideAllowed` and `Forbidden` are the functions of `scope-check.js`.  That
`**` alone is compared as a file name, and that a rename shows its new name
only, is in them.

`CoordinatorRun`: `policy`, `files` (which of registry, prompt bundles, reports,
packet and review exist, and the review's decision), `status` (the status fields
of run, board and tasks), `tree[w]` (worktree, branch, edits, local report), and
two actors.  `cmd` is the dispatch command under way (`exec`, `workers`,
`pipeline`) with the step it is at and what has become of each worker; agents
edit, commit, report and review while it waits.  `op` is one short command with
the writes it has left: `create` adds the worktrees one by one and then writes
the registry, `finalize` writes four files in order, `cleanup` removes the
worktrees it found clean.  Either command can be killed between any two steps
(`CrashCommand`, `CrashOp`); nothing locks the run, so the steps of both
interleave.  `files.covers` is an observation: the workers none of whose
sessions has begun since the packet was made.  A pipeline whose reviewer has
passed reads the review file twice, when the reviewer exits (`EndReviewer`) and
again before it reports (`EndPipeline`); other commands may come in between.  A
killed dispatch command takes its agents with it, as an interrupt of the
terminal does.

Abstracted: the presence of a last message is part of `ok` (exit code 0, no
timeout); HEAD and base commit; whether the main repository is dirty; the
recommended actions a packet lists.  Kept although it may surprise: the
reviewer's policy is checked by the pipeline at its start only; a report, a last
message or a review of an earlier session is accepted as it is; a create that
failed half way cannot be repeated, since branch and directory now exist.

### HostIntegration

`binding`, `claim` (integration/ownership.json), `ledger` and the ownership
record of a `rival` supervised run: "active" for the checkpoint that made the
worktree, "continued" for a later one that took it back.  `DeliverEvent(e, snap)` checks the
binding and the ledger, maps the event with a snapshot of the host's
capabilities, applies the intervention it maps to through `PauseHostLimit`,
`Interrupt`, `Resume` or `Lifecycle`, and writes the ledger last; events come in
any order and any number of times.  `CreateHostBinding` claims the worktree and
then writes the binding, with or without `--replace`.  Commands are sequential
here; a kill falls between two of their writes.  `torn` (the last command that
bound the run was killed half way), `applied` and `cut` are observations that
the properties refer to.  The receipt of a binding is not told apart from the
binding.  A binding pinned to a checkpoint can no longer be loaded once that
attempt has ended, and nothing of the workflow run ever releases its claim: both
are in the model because they are in the code.  `createHostBinding` and
`recordNativeGoalEvent` have no caller in the command line; the tests and the
exported functions are the reference.

## 3. Runs

Bounds are constants named in each module; they are guards, never invariants.

| Run | Instance | Shows |
|---|---|---|
| `run_tasks` | two tasks, free with one worker or two, or chained with two; failures, block, retry, reassign, waive, host limit | the run is blocked exactly while a task is; work starts only on completed dependencies and within the worker limit; recorded evidence is not replaced |
| `run_lifecycle` | with and without reviews; cancel, timeout, rollback, abandon, interrupt, resume, retry; one kill | completed means verified and reviewed files on disk; run.json names no missing file; a PASS covers all the work; finalized is final; the run implements `RunGate` |
| `run_revision` | usages 1 and 2, two revisions (dropping a task, bringing it back, lowering a share), retry, resume, added budget; one kill | well-formed state; meters add up and stay within every share and ceiling, before and after a revision; blocked status |
| `supervised` | the prototype profile, one checkpoint, two processes in long commands at once (interchangeable: symmetry); a revision, a host-limit pause, resume, rollback, block, a raised reviewer share | whichever write from memory wins, no meter passes its ceiling and work is recorded only on the approved plan; a count is lost only by the write of a command that another one overtook |
| `supervised_continue` | the critical profile (two repairs, two reviews, two full verifications), two checkpoints with sealing, one process; a revision, a safe pause, resume, rollback, cancel, block, raised verification ceilings, one kill | delivered is verified and reviewed, over repairs and two reviews; a worker is in its own worktree; history is not rewritten |
| `coordinator` | three files, a pair of scopes that overlaps through a tree pattern and one that does not, two policy modes, one or two edits a worktree, one of them a rename of a file outside its scope onto one inside; create, cleanup, collect, policy, complete beside any dispatch | passed work is written within its scope; two workers passed in parallel have written no file in common; no worker starts in what a failed create left; a pipeline's PASS rests on both workers, a packet of both, a PASS; cleanup loses nothing |
| `coordinator_ends` | the same without edits, with finalize and prompts | a dispatch command ends; run, board and tasks agree however finalize is cut |
| `host` | two tasks, a reserve that pauses early, four host events (limit, active, partial output, stop) in any order and repeated, two bindings, a rival that makes, releases and takes back its worktree; one event cut before its ledger | a host limit keeps a PASS out; events are applied once, or twice after a kill; a recorded stop is for good; only a supervised run taking its worktree back adds a second owner to it; a binding's worktree is the claimed one; a paused run does not come back as untouched |
| `claim_*` | smallest instance that reaches it | one sentence of the documents, violated (section 5) |

Why the bounds are enough: the interesting interactions are between two tasks
(a dependency, or two independent workers), between one attempt and its repair
(two attempts; the third is refused by `maxRepairs`), and between one budget
ceiling and the next operation.  Every refusal path, every pause and every edge
of the tables is reached in one of the instances.  One kill is enough to leave
any one command half done, and everything can follow it; in `CoordinatorRun`
kills are not bounded at all.  Three versions of the worktree are the base, one
worker's and one repair's; `supervised`, which is not about contents, has two.
`MaxOps` and `MaxRuns` bound what the operator adds to the ceilings of a profile:
the ceilings start as those of `profiles.js`, and a run that raises them has room
for one addition.  One worker's edits are a file that may be the other's and a
rename into its scope, the other's is a file of its own; each may be left
uncommitted or be committed; the coordinator always has exactly two workers.

`CHECK_DEADLOCK FALSE` is set for workflow, supervised and host runs: a run that
is cancelled, finalized or out of its bounds stops.  The coordinator's runs check
for deadlock.

**Liveness and fairness.**  `CoordinatorRun` has the one fairness of the project:
`WF_vars(CommandStep)`.  A started dispatch command is one node process that goes
on by itself, and `spawnSync` gives every agent it waits for a timeout, so that
an enabled next step of it is taken sooner or later.  Nothing is assumed of the
agents or of the operator, who may clean up worktrees under it, change the policy
or run any other command for ever.  Under it `DispatchEnds` holds: whatever
happens, the command reaches its end (a kill is one, but the property does not
need it).  The other specifications have no fairness.  Every step of a workflow
run, a supervised run or a host binding is a command somebody chooses to give;
nothing in the code schedules one, retries one or waits for one.  What
corresponds to liveness there is that a run is never wedged; the wedges known are
in section 5 and under `hazards`.

## 4. What is proved

`WorkflowRunProofs` proves, for every set of tasks, valid definitions,
signatures, workers, usages, interventions and every bound:

* `TypeCorrect`: `Spec => []TypeOK`.  `TypeOK` is inductive by itself.  One
  lemma per action family shows that the record written is well formed
  (`StartTaskType`, `RecordSuccessType`, ...), resting on lemmas that read the
  tables once (`RunEdges`, `TaskEdges`, `FailureEdges`, `LifecycleEdges`: the
  target of an edge that exists is a status) and on lemmas about the file
  operations (`PersistType`, `ThrowAfterType`).
* `BudgetConservation`: `Spec => []BudgetConserved`.  The run alone carries the
  invariant (`Balanced(run)`), but that a result keeps the sum needs that the
  meters are numbers, so it is proved relative to `TypeOK`.  Each command either
  leaves the meters (`SameMetersBalanced`), or adds a usage to the total and to
  one allocation after checking that share (`ConsumeBalanced`), or raises a
  share and the ceiling together (`AddBudgetBalanced`), or takes the ceilings of
  a valid definition after checking every meter against them
  (`RevisionBalanced`).  That allocations make up the ceiling initially is the
  assumption `DefinitionAssumption` on the constant, which the code checks
  before it approves (`definition.js`).

`WorkflowRunSteps` states once what a step may do, in the terms the later
invariants need: to the fields of run.json (the lemmas `...Effect`) and to one
task with the files of its attempts (`TaskMoves`: it stays, is promoted, starts
an attempt, succeeds, fails, is reviewed, rejected, closed, blocked, reopened).
Every action, with every prefix of its writes a kill may leave, is one of them.

`WorkflowRunEvidenceProofs`:

* `CompletedAreVerified` (`CompletedVerified`) and `EvidenceIsOnDisk`
  (`EvidenceOnDisk`).  Neither says anything of an attempt that is not completed
  yet, so neither is inductive.  `Evidence` follows every attempt from its start
  (`TaskEvidence`: the attempt at work is the last and has its checkpoint file,
  it has no result yet, a task under review has the result of this very attempt
  and a passed verification).
* `EvidenceIsFrozen` and `EvidenceFrozenOnce` (`EvidenceFrozen`): a closed
  checkpoint is not reopened and a named result not replaced, in a run revised at
  most once.  The invariant adds that the numbers of attempts still to come have
  no result and at most the checkpoint of a start that was killed (`Fresh`), and
  that a task no definition has planned is absent and unattempted (`Unplanned`).
  The hypothesis is needed: with
  a second revision TLC finds a task that was started, dropped, brought back and
  started again over its old files (`state.js:129`).

`WorkflowRunStatusProofs`:

* `BlockedIsTogether` (`BlockedTogether`).
* `WorkIsAdmissible` (`WorkAdmissible`), with `BusyOpen`: a task is at work only
  in a run that is open, also while that is paused or interrupted.
* `ApprovedIsUntouched` (`ApprovedUntouched`): strengthened by what the status to
  resume to and the interruption may remember (`ApprovedForgotten`).
* `PassCoversFirstPlan` and `PassCoversRun` (`PassCoversWork`): until the first
  revision, whatever `MaxRevision` is.  A run in review, or one that remembers
  being in review, has all of its work completed (`Covered`).  That a revision
  breaks it is `claim_evidence_gates`.

`WorkflowRunFinalProofs`:

* `FinalizedIsFinal` (`FinalizedFrozen`).  The status of the run does not carry
  it: recording a result and reassigning look at the task and not at the run's
  status.  The invariant is `Settled(run)`: a run that is finalized, cancelled,
  rolled back or abandoned has no task from which work goes on.  Every step then
  leaves the files alone, or goes from an open status to an open one (`GoesOn`,
  one lemma per group of commands), or is `Finalize` or a lifecycle event
  (`StepOfRun`); the last two establish `Settled` because finalize requires
  completed tasks and a closing event settles every task it knows
  (`LifecycleSettles`).
* `RunKeepsGate` (`GateKept`): the refinement of `RunGate`.  Initial states map to
  initial states, and each step to a step of the gate or a stutter, by the phase
  before and after it; `GateReady` collects what that needs from the invariants
  above.  Its hypothesis `MaxRevision = 1` excludes revisions, as the run does and
  for the reason of `claim_evidence_gates`.

`HostIntegrationProofs` proves, for every set of events, bindings and worktrees:

* `StopIsFinal` (`StopHolds`): from `TypeOK`, `Settled(run)` and the ledger's
  account; a recorded stop was applied (`InterventionSteps`), and a closed run
  stays closed under every step of the run (`ClosedStep`) and of the host.
* `EventsApplyOnce` (`LedgerAccounts`): inductive with a count for each event
  that is not in the ledger yet, which is 1 exactly if its command was killed.
* `SecondOwnerOnlyByReuse` (`OwnershipExclusive`): of all steps, that of a
  supervised run taking its worktree back (`reuseOwnedWorktree`) is the only one
  that gives a worktree a second owner; `BindingAddsNoOwner` says so of bindings,
  replacements and killed replacements.  That a binding and a first checkpoint
  check and claim in one step is the model's granularity.
* `BindingOwnsWorktree` (`BoundWorktreeOwned`), inductive as it stands; it leaves
  out the state a killed replacement leaves behind.
* `HostTypeCorrect` (`HostTypeOK`): `HostInv`, the types of files and ledger with
  the account of events, which bounds how often one was applied.
* `NoPassUnderLimit` (`HostLimitHolds`), with `PassEndsWork`: a PASS stands only
  in a run whose work has ended, on which no limit is set, and what adds work to
  it, a revision, takes the PASS back.
* `HostedApprovedIsUntouched` (`ApprovedUntouched`), from the steps of the run.

`SupervisedRunProofs` shows first that every action is one of about twenty moves
(`Moves` for run.json and the memories, `World` for the worktree and its owner;
the lemmas `...Step` and `...World`, one for each action, with every kill between
its writes).  The invariants are proved from the moves.  For any number of
processes in long commands, any profiles, plans and bounds:

* `SupervisedTypeCorrect` (`TypeOK`), with `PauseKnown`: a paused run knows where
  it was, without which a resume would write "none" as its status.
* `OnlyApprovedPlanRuns` (`ApprovedPlanRuns`), with `OnApprovedPlan`: a run that
  works, or is paused from work, and each run in the memory of a process is on
  the revision that was approved; a revision falls only on a run whose execution
  has recorded no attempt, and the memory it was loaded into overwrites it whole.
* `CeilingsHold` (`CeilingsKept`): the meters run.json records add up and are
  within their ceilings (`Within`), since each command checks the run it will
  write from; and they count nothing that was not started (`NoneInvented`).
* `OperationsLostOnlyByOverlap` (`LossNeedsOverlap`), from two facts of each move:
  it counts what it starts or is the write of an overtaken command
  (`CountedOrOvertaken`), and who overtakes is another long command
  (`OvertakenByAnother`).

For one long command at a time, `OneCommand`: `Proc` has at most one element;
controls, refusals and kills still come between any two of its steps.  The code
does not enforce this, so that the three theorems are about an operator who does
not start a second long command on the run; section 2 says what happens without
it.

* `HistoryIsKept` (`HistoryKept`), with `Remembered`: while a process works, the
  run on disk has the history the process has in memory, and is ended or still at
  the step the process is at (`AtWork`).  This is why writing the old run back
  loses no attempt.
* `WorkersOwnTheirWorktree` (`WorkerOwnsWorktree`), with `Housed`: the branch is
  where the ownership record says, at its checkpoint or just sealed, and a process
  works in the worktree of the checkpoint it remembers.
* `WhatIsDeliveredIsReviewed` (`DeliveredIsReviewed`), with `Reviewed`: a PASS is
  of work that was done and not taken up again, no process will write an older
  PASS back, and, until a rollback resets the worktree, what run.json and the
  processes call verified or reviewed is the version the worktree holds.

`CoordinatorRunProofs` proves, for every set of paths, scopes, edits, policies
and short commands:

* `OverlapSound`: two patterns that one file matches overlap; a statement about
  `ScopeRules` alone, for files and patterns of any length, resting on
  `PrefixesComparable` (of two prefixes of one path one is a prefix of the
  other).
* `CoordinatorTypeCorrect` (`TypeOK`): needs that what a short command has left
  to write is never empty while it writes (`OpTyped`).
* `WorkIsKept` (`WorkKept`): cleanup decides from an older look, but the removal
  of a worktree is git's, without force, and takes nothing uncommitted with it.
* `FinalizeConsistent` (`DoneImpliesCompleted`): strengthened by the relation of
  the files to the writes a killed finalize has left (`FinalizeInv`).
* `PassedWithinScope`, `ParallelWorkDisjoint`, `RegistryIsComplete` and
  `PipelineVerdict`: one invariant, `Inv`, of three parts.  `WorkerInv`: a
  command past its start has a registry, its workers a non-empty scope, and what
  it calls passed has written within it.  Both scope theorems speak of the path a
  file is written at: the old name of a rename is looked at neither by the code
  nor by them (`claim_outside_change`).  `ParallelInv`: a parallel command past its
  preflight has scopes that do not overlap.  `PipelineInv`: past the join both
  workers passed, past collect the packet covers both.  Agents go on editing
  under all of them, except those whose session has ended.

Every invariant and action property of a passing run is stated by a theorem.
Only model-checked: the liveness `DispatchEnds` (fairness is out of the prover's
reach), and the violated claims of section 5.  Acyclicity of definitions is
checked by TLC's evaluation of the assumption.

## 5. Where the code and its documents differ

Each of these is a run that TLC finds violated, with the sentence quoted beside
the property and under `findings`.

* `claim_evidence_gates`: a revision applied to a run that was paused in review
  keeps the status to resume to; resume then leads back to review before tasks
  that are open again, which the code's own assertion forbids
  (`workflow/state.js:190`).
* `claim_rollback`: a verification under way during a rollback restores the
  run, and the emptied worktree can be delivered.
* `claim_outside_change`: `git mv` of a file outside the scope onto one inside it
  passes, since a rename shows only its new name.
* `claim_ownership`: the next checkpoint of a supervised run takes its worktree
  back without looking at the records of others, one of which may have claimed
  it since the release (`supervise/execution.js:193`).

Known and without a run of their own (each is plain from the line named):

* retry and reassign make a pending or blocked task ready without looking at its
  dependencies (`workflow/state.js:1586`; ADR 0004, line 42).  `run_tasks` shows
  that it still cannot start: `startWorkflowTask` checks again.
* a failure that arrives while the run is not active blocks the checkpoint file,
  throws, and leaves the task running (`workflow/state.js:569`;
  `docs/workflow-runtime.md`, line 37).
* waive checks the classification given on the command line in place of the
  blocker's (`workflow/state.js:1609`; `docs/workflow-runtime.md`, line 55).
* pausing a paused supervised run records the pause as the status to resume to
  (`supervise/controls.js:368`; ADR 0003, line 50).
* a result that arrives late sets a paused run active without a resume and keeps
  the host limit (`workflow/state.js:886`).  `HostLimitHolds` shows that no review
  passes that way.
* an old "active" status of the host, delivered after a limit, lifts the pause.

Limits of the properties that hold: `PassCoversWork` and `GateKept` are not
checked with revisions, for the reason of `claim_evidence_gates`.
`EvidenceFrozen` is checked without revisions and proved for one; a task that
one revision drops and a later one brings back starts at attempt 1 again over
its old files (`state.js:129`). `DeliveredIsReviewed` leaves out worktrees that
a rollback has reset, which is what `claim_rollback` is about. `PassWithinScope`
speaks of where a file is now, which is what `claim_outside_change` is about.
`ParallelDisjoint` likewise counts a rename where it ends. `OwnershipExclusive`
says by which step a second owner comes, not that there is none; that there is
one is `claim_ownership`. `BoundWorktreeOwned` leaves out the state a killed
replacement leaves. `LedgerAccounts` allows an event to be applied twice, once
more than the one kill per event that the model has. The theorems under
`OneCommand` do not speak of two long commands at once.

Hazards without a property are of three kinds, each with its reason under
`hazards`: a guard the code does not have, so that no property holds (listed
above); a run that is wedged but in no wrong state, which safety does not see
(a verification, an advance or a finalize killed between two writes); and
a decision other than a rollback that the write of a long command undoes (a
cancel, a block).

## 6. Not modelled

Pilot records, legacy migration, evidence verification and receipts: planned
below.  Prune, runtime views and coordinator verify remove whole old runs or only
read.  Hook trust and effort policy: records compared with a revision and a
digest, that no modelled command reads.  Host observations, control receipts and
goal briefs: appended or derived, never read back by a command of the model.
Adapters, skills, MCP framing, argument parsing, rendering, templates, compiler
requests, demo and release script: they keep no state that a later command
decides on, or only wrap external programs; where their outcome matters it is a
nondeterministic input.  JSON syntax, path containment and digests are taken as
what they decide (accepted or refused, same or different).

## 7. Plan

Done: workflow run, its gate and the refinement; supervised run; coordinator run
with scope rules; host integration with ownership.  Left, in order:

1. `WorkflowRace`: two processes on one run.json, each with the run it loaded
   (`state.js:57`).
2. Proofs: what of `SupervisedRun` survives two long commands at once, beyond the
   types, the plan, the ceilings and the counts; the gate of a run that is revised only before
   its review.
3. Evidence verification, migration and pilot records.
