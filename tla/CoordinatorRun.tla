---------------------------- MODULE CoordinatorRun ----------------------------
(***************************************************************************)
(* One coordinator run: `cewp run worktrees create`, `run dispatch ...`,   *)
(* `run collect`, `run finalize`, `run cleanup` and `policy set` over the  *)
(* files of .cewp/runs/<id>, two worker worktrees and the policy file.     *)
(*                                                                         *)
(* Two commands can be under way: a dispatch command (exec, workers,       *)
(* pipeline), which waits for agents, and one short command, op.  Nothing  *)
(* locks the run, so the steps of both and of the agents interleave.  A    *)
(* killed dispatch command takes its agents with it, as the interrupt of a *)
(* terminal does.                                                          *)
(*                                                                         *)
(* The manager has written one task for each worker.  A command that       *)
(* refuses before it changes anything is no step, except where a dispatch  *)
(* under way fails by it.  Decision "BLOCK" stands for REQUEST_CHANGES too *)
(* and "unclear" for a report without a decision line.                     *)
(*                                                                         *)
(* An operator named as a variation of the one it stands before is a       *)
(* deliberate error, as in WorkflowRun.                                    *)
(***************************************************************************)
EXTENDS ScopeRules, Naturals, FiniteSets

CONSTANTS
  Path,          \* files of the repository
  Scopes,        \* the pairs of task scopes that occur
  Change,        \* the edits each worker's agents make
  Modes,         \* operator policy modes that occur
  Short,         \* the short commands that occur
  OutputIgnored, \* .cewp-worker-output/ is in the repository's .gitignore
  MaxEdits       \* bound on the edits of a worktree

Worker == {"worker-a", "worker-b"}
WorkerOrder == <<"worker-a", "worker-b">>

ASSUME CoordinatorAssumption ==
  /\ Path \subseteq Seq(STRING) \ {<< >>}
  /\ Scopes \subseteq [Worker -> Scope]
  /\ Change \in [Worker -> SUBSET Edit(Path)]
  /\ Modes \subseteq {"safe", "trusted", "full-authority"}
  /\ Short \subseteq {"prompts", "collect", "complete", "policy", "create",
                       "finalize", "cleanup"}
  /\ OutputIgnored \in BOOLEAN
  /\ MaxEdits \in Nat

VARIABLES
  policy,   \* the mode in .cewp/policy.json
  scope,    \* allowedFiles and forbiddenFiles of each worker's task
  status,   \* the status fields of run.json, board.json and the tasks
  files,    \* what else is in the run directory
  tree,     \* each worker's worktree and branch
  cmd,      \* the dispatch command under way
  outcome,  \* what the last dispatch command reported
  op        \* the short command under way, with the writes it has left

vars == <<policy, scope, status, files, tree, cmd, outcome, op>>

Decision == {"none", "PASS", "BLOCK", "unclear"}
Ran == {"out", "todo", "running", "PASS", "FAIL"}

(* POLICY_ACTIONS and the templates of the three modes. *)
PolicyAllows(action) ==
  CASE policy = "safe" -> FALSE
    [] policy = "trusted" -> action \in {"runCommands", "runCewpPipeline"}
    [] policy = "full-authority" -> TRUE

NoCommand ==
  [kind |-> "none", parallel |-> FALSE, step |-> "none",
   ran |-> [w \in Worker |-> "out"]]

NoOp == [kind |-> "none", todo |-> << >>]

Uncommitted(w) == {e \in tree[w].edits : ~e.committed}

(* git status of the worktree prints a line. *)
Dirty(w) == Uncommitted(w) # {} \/ (tree[w].draft /\ ~OutputIgnored)

(* What runDispatchCheck fails on. *)
DispatchReady ==
  files.registry /\ \A w \in Worker : tree[w].present /\ scope[w].allowed # {}

(* getDispatchExecPreview for a worker has no failures. *)
WorkerPreview(w) ==
  /\ files.registry /\ files.prompts
  /\ tree[w].present
  /\ scope[w].allowed # {}

(* getDispatchExecPreview for the reviewer has no failures. *)
ReviewerPreview ==
  /\ files.registry /\ files.prompts
  /\ files.packet
  /\ files.reports

(* getParallelWorkersPreflight: both previews, both lists given, and no    *)
(* pattern of the one overlapping a pattern of the other.                  *)
ParallelReady ==
  /\ \A w \in Worker : WorkerPreview(w) /\ scope[w].forbidden # {}
  /\ ~AllowedOverlap(scope["worker-a"], scope["worker-b"])

Init ==
  /\ policy \in Modes
  /\ scope \in Scopes
  /\ status = [run |-> "planning", board |-> "planning",
               task |-> [w \in Worker |-> "ready"]]
  /\ files = [registry |-> FALSE, prompts |-> FALSE,
              reports |-> FALSE, packet |-> FALSE, covers |-> {},
              review |-> "none"]
  /\ tree = [w \in Worker |-> [present |-> FALSE, branch |-> FALSE,
                               edits |-> {}, draft |-> FALSE]]
  /\ cmd = NoCommand
  /\ outcome = "none"
  /\ op = NoOp

-----------------------------------------------------------------------------
(* The dispatch commands. *)

(* A dispatch command ends and reports o. *)
EndCommand(o) == cmd' = NoCommand /\ outcome' = o

(* dispatch pipeline: three policy checks, then the dispatch check. *)
StartPipeline(parallel) ==
  /\ cmd.kind = "none"
  /\ \A action \in {"runCewpPipeline", "runWorkers", "runReviewer"} :
       PolicyAllows(action)
  /\ IF DispatchReady
       THEN /\ cmd' = [kind |-> "pipeline", parallel |-> parallel,
                       step |-> "prompts", ran |-> [w \in Worker |-> "todo"]]
            /\ outcome' = "none"
       ELSE EndCommand("FAIL")
  /\ UNCHANGED <<policy, scope, status, files, tree, op>>

(* dispatch exec workers. *)
StartWorkers(parallel) ==
  /\ cmd.kind = "none"
  /\ cmd' = [kind |-> "workers", parallel |-> parallel, step |-> "workers",
             ran |-> [w \in Worker |-> "todo"]]
  /\ outcome' = "none"
  /\ UNCHANGED <<policy, scope, status, files, tree, op>>

(* dispatch exec worker-a, worker-b: one worker of its own. *)
StartExecWorker(w) ==
  /\ cmd.kind = "none"
  /\ cmd' = [kind |-> "exec", parallel |-> FALSE, step |-> "running",
             ran |-> [v \in Worker |-> IF v = w THEN "todo" ELSE "out"]]
  /\ outcome' = "none"
  /\ UNCHANGED <<policy, scope, status, files, tree, op>>

(* dispatch exec reviewer: the policy is checked here and not again. *)
StartExecReviewer ==
  /\ cmd.kind = "none"
  /\ PolicyAllows("runReviewer")
  /\ cmd' = [NoCommand EXCEPT !.kind = "exec", !.step = "review"]
  /\ outcome' = "none"
  /\ UNCHANGED <<policy, scope, status, files, tree, op>>

(* The pipeline writes the prompt bundles; runDispatchPrompts would throw  *)
(* without a registry, which the dispatch check has seen.                  *)
PipelinePrompts ==
  /\ cmd.step = "prompts"
  /\ files' = [files EXCEPT !.prompts = TRUE]
  /\ cmd' = [cmd EXCEPT !.step = "workers"]
  /\ UNCHANGED <<policy, scope, status, tree, outcome, op>>

(* runDispatchExecWorkersActual up to the first worker: the policy throws, *)
(* the parallel preflight fails the command.                               *)
BeginWorkers ==
  /\ cmd.step = "workers"
  /\ IF PolicyAllows("runWorkers") /\ (cmd.parallel => ParallelReady)
       THEN cmd' = [cmd EXCEPT !.step = "running"] /\ UNCHANGED outcome
       ELSE EndCommand("FAIL")
  /\ UNCHANGED <<policy, scope, status, files, tree, op>>

(* Sequential workers stop at the first failure; parallel ones all run. *)
InTurn(w) ==
  /\ cmd.step = "running" /\ cmd.ran[w] = "todo"
  /\ \/ cmd.parallel
     \/ w = "worker-a"
     \/ cmd.ran["worker-a"] \in {"out", "PASS"}

(* runDispatchExecActual, in the process itself or in a child process,     *)
(* checks policy and preview again before it starts the adapter.           *)
StartWorker(w) ==
  /\ InTurn(w)
  /\ PolicyAllows("runWorkers") /\ WorkerPreview(w)
  /\ cmd' = [cmd EXCEPT !.ran[w] = "running"]
  /\ files' = [files EXCEPT !.covers = @ \ {w}]
  /\ UNCHANGED <<policy, scope, status, tree, outcome, op>>

(* Policy, preview or the adapter's availability stops the worker; the     *)
(* adapter may be unavailable whatever the rest says.                      *)
RefuseWorker(w) ==
  /\ InTurn(w)
  /\ cmd' = [cmd EXCEPT !.ran[w] = "FAIL"]
  /\ UNCHANGED <<policy, scope, status, files, tree, outcome, op>>

(* The agent changes or renames a file in its worktree, commits what it    *)
(* has, or writes .cewp-worker-output/<role>-report.md.                    *)
EditFile(w) ==
  /\ cmd.ran[w] = "running" /\ tree[w].present
  /\ Cardinality(tree[w].edits) < MaxEdits
  /\ \E e \in Change[w] : tree' = [tree EXCEPT ![w].edits = @ \cup {e}]
  /\ UNCHANGED <<policy, scope, status, files, cmd, outcome, op>>

CommitWork(w) ==
  /\ cmd.ran[w] = "running" /\ tree[w].present
  /\ Uncommitted(w) # {}
  /\ tree' = [tree EXCEPT ![w].edits = {[e EXCEPT !.committed = TRUE] : e \in @}]
  /\ UNCHANGED <<policy, scope, status, files, cmd, outcome, op>>

WriteReport(w) ==
  /\ cmd.ran[w] = "running" /\ tree[w].present
  /\ tree' = [tree EXCEPT ![w].draft = TRUE]
  /\ UNCHANGED <<policy, scope, status, files, cmd, outcome, op>>

(* What the post-check of a worker makes of its session.  ok: exit code 0, *)
(* no timeout, and a last message in adapter-output, which like the report *)
(* in the worktree may be from an earlier session.                         *)
SessionPasses(w, ok) ==
  /\ ok
  /\ tree[w].present
  /\ ScopeClean(tree[w].edits, scope[w])
  /\ tree[w].draft

(* The adapter has returned: the report is copied and the worktree looked  *)
(* at.  Without the worktree git status throws.                            *)
EndWorker(w, ok) ==
  /\ cmd.ran[w] = "running"
  /\ files' = [files EXCEPT !.reports = @ \/ tree[w].draft]
  /\ cmd' = [cmd EXCEPT !.ran[w] = IF SessionPasses(w, ok) THEN "PASS" ELSE "FAIL"]
  /\ UNCHANGED <<policy, scope, status, tree, outcome, op>>

WorkersPassed == \A w \in Worker : cmd.ran[w] \in {"out", "PASS"}

AllWorkersRan == \A w \in Worker : cmd.ran[w] \notin {"todo", "running"}

(* No worker is left to wait for: parallel mode waits for both. *)
WorkersDone ==
  /\ \A w \in Worker : cmd.ran[w] # "running"
  /\ \/ \A w \in Worker : cmd.ran[w] # "todo"
     \/ ~cmd.parallel /\ \E w \in Worker : cmd.ran[w] = "FAIL"

JoinWorkers ==
  /\ cmd.step = "running"
  /\ WorkersDone
  /\ IF WorkersPassed /\ cmd.kind = "pipeline"
       THEN cmd' = [cmd EXCEPT !.step = "collect"] /\ UNCHANGED outcome
       ELSE EndCommand(IF WorkersPassed THEN "PASS" ELSE "FAIL")
  /\ UNCHANGED <<policy, scope, status, files, tree, op>>

(* The workers whose last session is over: the packet shows their work. *)
Settled == {w \in Worker : cmd.ran[w] # "running"}

KeptPacket == [files EXCEPT !.packet = TRUE, !.covers = IF files.packet THEN @ ELSE Settled]

(* runCollect writes review-packets/review-packet.md anew. *)
NewPacket == [files EXCEPT !.packet = TRUE, !.covers = Settled]

PipelineCollect ==
  /\ cmd.step = "collect"
  /\ files' = NewPacket
  /\ cmd' = [cmd EXCEPT !.step = "review"]
  /\ UNCHANGED <<policy, scope, status, tree, outcome, op>>

StartReviewer ==
  /\ cmd.step = "review"
  /\ ReviewerPreview
  /\ cmd' = [cmd EXCEPT !.step = "reviewing"]
  /\ UNCHANGED <<policy, scope, status, files, tree, outcome, op>>

(* The preview fails or the adapter is unavailable. *)
RefuseReviewer ==
  /\ cmd.step = "review"
  /\ EndCommand("FAIL")
  /\ UNCHANGED <<policy, scope, status, files, tree, op>>

(* The reviewer agent writes reviews/reviewer-report.md. *)
WriteReview(decision) ==
  /\ cmd.step = "reviewing"
  /\ files' = [files EXCEPT !.review = decision]
  /\ UNCHANGED <<policy, scope, status, tree, cmd, outcome, op>>

ReviewerDecision(ok) == files.review

(* ok: exit code 0, no timeout, a last message, and git status of the      *)
(* repository as before.  The decision is read from the file, whoever      *)
(* wrote it and when.                                                      *)
ReviewerVerdict(ok) ==
  IF ok /\ files.review \in {"PASS", "BLOCK"} THEN "PASS" ELSE "FAIL"

(* The reviewer's command ends; a pipeline goes on to its own verdict. *)
EndReviewer(ok) ==
  /\ cmd.step = "reviewing"
  /\ IF cmd.kind = "pipeline" /\ ReviewerVerdict(ok) = "PASS"
       THEN cmd' = [cmd EXCEPT !.step = "deciding"] /\ UNCHANGED outcome
       ELSE EndCommand(ReviewerVerdict(ok))
  /\ UNCHANGED <<policy, scope, status, files, tree, op>>

(* The pipeline reads the report a second time, and only PASS passes. *)
EndPipeline ==
  /\ cmd.step = "deciding"
  /\ EndCommand(IF files.review = "PASS" THEN "PASS" ELSE "FAIL")
  /\ UNCHANGED <<policy, scope, status, files, tree, op>>

(* The dispatch command is killed, and its agents with it. *)
CrashCommand ==
  /\ cmd.kind # "none"
  /\ EndCommand("none")
  /\ UNCHANGED <<policy, scope, status, files, tree, op>>

-----------------------------------------------------------------------------
(* The short commands. *)

(* A short command that is one write. *)
DispatchPrompts ==
  /\ op = NoOp
  /\ files.registry
  /\ files' = [files EXCEPT !.prompts = TRUE]
  /\ UNCHANGED <<policy, scope, status, tree, cmd, outcome, op>>

Collect ==
  /\ op = NoOp
  /\ files' = NewPacket
  /\ UNCHANGED <<policy, scope, status, tree, cmd, outcome, op>>

(* dispatch complete: a result made by hand becomes the role's output. *)
CompleteWorker ==
  /\ op = NoOp
  /\ files' = [files EXCEPT !.reports = TRUE]
  /\ UNCHANGED <<policy, scope, status, tree, cmd, outcome, op>>

CompleteReviewer(decision) ==
  /\ op = NoOp
  /\ files' = [files EXCEPT !.review = decision]
  /\ UNCHANGED <<policy, scope, status, tree, cmd, outcome, op>>

(* policy set, policy reset. *)
SetPolicy(mode) ==
  /\ op = NoOp
  /\ policy' = mode
  /\ UNCHANGED <<scope, status, files, tree, cmd, outcome, op>>

(* worktrees create: no worktree path and no branch may exist; then one    *)
(* git worktree add for each task, and the registry when all are there.    *)
StartCreate ==
  /\ op = NoOp
  /\ \A w \in Worker : ~tree[w].present /\ ~tree[w].branch
  /\ op' = [kind |-> "create", todo |-> WorkerOrder]
  /\ UNCHANGED <<policy, scope, status, files, tree, cmd, outcome>>

AddWorktree ==
  /\ op.kind = "create" /\ op.todo # << >>
  /\ tree' = [tree EXCEPT ![Head(op.todo)].present = TRUE,
                          ![Head(op.todo)].branch = TRUE]
  /\ op' = [op EXCEPT !.todo = Tail(@)]
  /\ UNCHANGED <<policy, scope, status, files, cmd, outcome>>

(* git worktree add fails: the command throws and takes nothing back. *)
AddWorktreeFails ==
  /\ op.kind = "create" /\ op.todo # << >>
  /\ op' = NoOp
  /\ UNCHANGED <<policy, scope, status, files, tree, cmd, outcome>>

RegisterEarly ==
  /\ op.kind = "create" /\ Len(op.todo) < 2
  /\ files' = [files EXCEPT !.registry = TRUE]
  /\ op' = IF op.todo = << >> THEN NoOp ELSE op
  /\ UNCHANGED <<policy, scope, status, tree, cmd, outcome>>

RegisterWorktrees ==
  /\ op.kind = "create" /\ op.todo = << >>
  /\ files' = [files EXCEPT !.registry = TRUE]
  /\ op' = NoOp
  /\ UNCHANGED <<policy, scope, status, tree, cmd, outcome>>

TasksFirst == <<"worker-a", "worker-b", "run", "board">>

(* What runFinalize writes, in this order. *)
FinalizeWrites == <<"run", "board", "worker-a", "worker-b">>

FinalizeAllowed == PolicyAllows("finalize") /\ files.review = "PASS"

(* finalize: policy and the newest review are read once. *)
StartFinalize ==
  /\ op = NoOp
  /\ FinalizeAllowed
  /\ op' = [kind |-> "finalize", todo |-> FinalizeWrites]
  /\ UNCHANGED <<policy, scope, status, files, tree, cmd, outcome>>

FinalizeWrite ==
  /\ op.kind = "finalize"
  /\ LET what == Head(op.todo)
     IN  status' = CASE what = "run" -> [status EXCEPT !.run = "completed"]
                     [] what = "board" -> [status EXCEPT !.board = "completed"]
                     [] what \in Worker -> [status EXCEPT !.task[what] = "done"]
  /\ op' = IF Len(op.todo) = 1 THEN NoOp ELSE [op EXCEPT !.todo = Tail(@)]
  /\ UNCHANGED <<policy, scope, files, tree, cmd, outcome>>

(* cleanup --yes: the worktrees that are clean now, to be removed next. *)
StartCleanup ==
  /\ op = NoOp
  /\ PolicyAllows("cleanup") /\ files.registry
  /\ \E removable \in {WorkerOrder, <<"worker-a">>, <<"worker-b">>} :
       /\ ToSet(removable) = {w \in Worker : tree[w].present /\ ~Dirty(w)}
       /\ op' = [kind |-> "cleanup", todo |-> removable]
  /\ UNCHANGED <<policy, scope, status, files, tree, cmd, outcome>>

(* Removed by force, or removed by git only if still clean. *)
ForcedRemoval(w) == TRUE
GitRemoves(w) == ~Dirty(w)

(* git worktree remove without --force; when it refuses, cleanup throws.   *)
(* The branch stays, and with it what was committed.                       *)
RemoveWorktree ==
  /\ op.kind = "cleanup"
  /\ LET w == Head(op.todo)
     IN  IF GitRemoves(w)
           THEN /\ tree' = [tree EXCEPT ![w].present = FALSE, ![w].draft = FALSE,
                                        ![w].edits = @ \ Uncommitted(w)]
                /\ op' = IF Len(op.todo) = 1 THEN NoOp ELSE [op EXCEPT !.todo = Tail(@)]
           ELSE op' = NoOp /\ UNCHANGED tree
  /\ UNCHANGED <<policy, scope, status, files, cmd, outcome>>

(* The short command is killed between two writes. *)
CrashOp ==
  /\ op # NoOp
  /\ op' = NoOp
  /\ UNCHANGED <<policy, scope, status, files, tree, cmd, outcome>>

-----------------------------------------------------------------------------
(* The agents and the dispatch command that waits for them. *)
Agent ==
  \/ \E w \in Worker : EditFile(w) \/ CommitWork(w) \/ WriteReport(w)
  \/ \E d \in Decision \ {"none"} : WriteReview(d)

(* The steps a started dispatch command takes by itself. *)
CommandStep ==
  \/ PipelinePrompts
  \/ BeginWorkers
  \/ \E w \in Worker : StartWorker(w)
  \/ \E w \in Worker : RefuseWorker(w)
  \/ \E w \in Worker, ok \in BOOLEAN : EndWorker(w, ok)
  \/ JoinWorkers
  \/ PipelineCollect
  \/ StartReviewer
  \/ RefuseReviewer
  \/ \E ok \in BOOLEAN : EndReviewer(ok)
  \/ EndPipeline

StartCommand ==
  \/ \E parallel \in BOOLEAN : StartPipeline(parallel) \/ StartWorkers(parallel)
  \/ \E w \in Worker : StartExecWorker(w)
  \/ StartExecReviewer

Operator ==
  \/ "prompts" \in Short /\ DispatchPrompts
  \/ "collect" \in Short /\ Collect
  \/ "complete" \in Short /\ CompleteWorker
  \/ "complete" \in Short /\ \E d \in Decision \ {"none"} : CompleteReviewer(d)
  \/ "policy" \in Short /\ \E mode \in Modes : SetPolicy(mode)
  \/ "create" \in Short /\ StartCreate
  \/ "finalize" \in Short /\ StartFinalize
  \/ "cleanup" \in Short /\ StartCleanup
  \/ AddWorktree \/ AddWorktreeFails \/ RegisterWorktrees
  \/ FinalizeWrite
  \/ RemoveWorktree

Next ==
  \/ StartCommand
  \/ CommandStep
  \/ Agent
  \/ Operator
  \/ CrashCommand
  \/ CrashOp

(* A dispatch command goes on until it ends: it is one node process, and   *)
(* spawnSync gives every agent a timeout.                                  *)
Spec == Init /\ [][Next]_vars /\ WF_vars(CommandStep)

-----------------------------------------------------------------------------
(* Every variable has its type. *)
TypeOK ==
  /\ policy \in Modes
  /\ scope \in Scopes
  /\ status \in [run : {"planning", "completed"}, board : {"planning", "completed"},
                 task : [Worker -> {"ready", "done"}]]
  /\ files \in [registry : BOOLEAN, prompts : BOOLEAN,
                reports : BOOLEAN, packet : BOOLEAN, covers : SUBSET Worker,
                review : Decision]
  /\ tree \in [Worker -> [present : BOOLEAN, branch : BOOLEAN,
                          edits : SUBSET Edit(Path),
                          draft : BOOLEAN]]
  /\ cmd \in [kind : {"none", "exec", "workers", "pipeline"}, parallel : BOOLEAN,
              step : {"none", "prompts", "workers", "running", "collect",
                      "review", "reviewing", "deciding"},
              ran : [Worker -> Ran]]
  /\ outcome \in {"none", "PASS", "FAIL"}
  /\ op.kind \in {"none", "create", "finalize", "cleanup"}

(* A worker the command has passed has, since the base commit, written     *)
(* allowed files only and no forbidden one, whatever it committed and      *)
(* whatever an earlier session left behind (exec.js, findScopeWarnings).   *)
(* A rename counts at its new name: that a file outside the scope may have *)
(* been moved away from there is OutsideChangeFails, which does not hold.  *)
PassWithinScope ==
  \A w \in Worker : cmd.ran[w] = "PASS" =>
    \A e \in tree[w].edits :
      /\ \E p \in scope[w].allowed : MatchesPattern(e.path, p)
      /\ \A p \in scope[w].forbidden : ~MatchesPattern(e.path, p)

(* Two workers that one parallel command has passed have written no file   *)
(* in common, in these and in earlier sessions (workers.js, the preflight);*)
(* a rename counts at its new name.                                        *)
ParallelDisjoint ==
  cmd.parallel /\ (\A w \in Worker : cmd.ran[w] = "PASS") =>
    {e.path : e \in tree["worker-a"].edits} \cap {e.path : e \in tree["worker-b"].edits} = {}

(* A pipeline reports PASS only when both workers it started have passed,  *)
(* the packet its reviewer had was collected after the last session of     *)
(* each, whichever command wrote it, and the decision is PASS; other       *)
(* commands may have written packet and review meanwhile (pipeline.js).    *)
PipelinePasses ==
  [][cmd.kind = "pipeline" /\ outcome' = "PASS" =>
       /\ \A w \in Worker : cmd.ran[w] = "PASS"
       /\ files.covers = Worker
       /\ files.review = "PASS"]_vars

(* However finalize is cut short or repeated, a task that says done is in  *)
(* a board that says completed, and that board in a run that does          *)
(* (finalize.js).                                                          *)
DoneImpliesCompleted ==
  /\ (\E w \in Worker : status.task[w] = "done") => status.board = "completed"
  /\ status.board = "completed" => status.run = "completed"

(* A registry names only worktrees whose branch was made: a create cut     *)
(* short, by a failure of git or a kill, leaves no registry, and no worker *)
(* is ever started in what it left behind (worktrees.js).                  *)
RegistryComplete ==
  /\ files.registry => \A w \in Worker : tree[w].branch
  /\ (\E w \in Worker : cmd.ran[w] = "running") => files.registry

(* No step loses what an agent has written: a change leaves a worktree     *)
(* only into its branch, though cleanup decides from an older look at it   *)
(* (cleanup.js).                                                           *)
WorkKept ==
  [][\A w \in Worker :
       {e.path : e \in tree[w].edits} \subseteq {e.path : e \in tree'[w].edits}]_vars

(* A dispatch command ends, whatever the agents do and whatever else is    *)
(* done to the run meanwhile.                                              *)
DispatchEnds == cmd.kind # "none" ~> cmd.kind = "none"

-----------------------------------------------------------------------------
(* docs/adapter-contract.md:423: "If output is missing, a timeout occurs,  *)
(* the provider exits non-zero, or the provider changes files outside      *)
(* scope, CEWP should report `FAIL` and leave finalize unavailable."       *)
OutsideChangeFails ==
  \A w \in Worker : cmd.ran[w] = "PASS" =>
    \A e \in tree[w].edits : \E p \in scope[w].allowed : MatchesPattern(e.from, p)
=============================================================================
