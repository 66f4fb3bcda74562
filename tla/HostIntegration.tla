-------------------------- MODULE HostIntegration ---------------------------
(***************************************************************************)
(* A workflow run bound to a host session (src/integration/native-goal.js, *)
(* binding.js) and the ownership of worktrees it shares with other runs    *)
(* (src/run/ownership.js, control-gates.js).                               *)
(*                                                                         *)
(* The host reports what becomes of its goal; an event may be delivered    *)
(* late, more than once and in any order.  An accepted event is applied to *)
(* the run as the intervention it maps to, through the same code as an     *)
(* operator's, and then recorded in a ledger that refuses its id from then *)
(* on.  A command can be killed between any two of its writes.             *)
(*                                                                         *)
(* The rival is a supervised run of the same repository: it has a worktree *)
(* of its own, which a binding may name all the same.                      *)
(***************************************************************************)
EXTENDS WorkflowRun

CONSTANTS
  Event,          \* the host events that are delivered
  Binding,        \* the bindings an operator or a host asks for
  Worktree,       \* worktree identities
  RivalWorktree,  \* the one the rival works in
  Owner,          \* the execution owner of the run
  MaxCuts         \* bound on events applied and killed before the ledger

Mode == {"explicit-intake", "attached", "managed-backend", "audit-import"}

(* A worktree is claimed for a task and its active checkpoint. *)
ASSUME HostAssumption ==
  /\ "none" \notin Task \cup Worktree
  /\ Owner \in {"managed", "native", "audit-only"}
  /\ RivalWorktree \in Worktree
  /\ MaxCuts \in Nat
  /\ \A b \in Binding :
       /\ b.mode \in Mode /\ b.pinned \in BOOLEAN
       /\ b.task \in Task \cup {"none"} /\ b.worktree \in Worktree \cup {"none"}
       /\ b.pinned => b.task # "none"
       /\ b.worktree # "none" => b.pinned

VARIABLES
  binding,  \* integration/host-binding.json
  claim,    \* integration/ownership.json
  torn,     \* the last command that bound the run was killed half way
  rival,    \* the rival's ownership.json: its status, and for which checkpoint
  ledger,   \* integration/native-goal-events.jsonl: the action of each event
  applied,  \* how often each event changed the run
  cut       \* the events applied by a command killed before the ledger

files == <<binding, claim, torn>>
hostVars == <<files, rival, ledger, applied, cut>>
allVars == <<vars, hostVars>>

NoBinding ==
  [mode |-> "none", goal |-> "none", task |-> "none", checkpoint |-> 0,
   worktree |-> "none"]
NoClaim == [worktree |-> "none", task |-> "none", checkpoint |-> 0]

HostAction == {"pause-host-limit", "interrupt", "resume", "cancel", "timeout"}

HostTypeOK ==
  /\ TypeOK
  /\ binding.mode \in Mode \cup {"none"}
  /\ binding.task \in Task \cup {"none"}
  /\ binding.checkpoint \in 0..MaxAttempts
  /\ binding.worktree \in Worktree \cup {"none"}
  /\ claim \in [worktree : Worktree \cup {"none"}, task : Task \cup {"none"},
                checkpoint : 0..MaxAttempts]
  /\ torn \in BOOLEAN
  /\ rival \in {"none", "active", "released", "continued"}
  /\ ledger \in [Event -> HostAction \cup {"absent", "none"}]
  /\ applied \in [Event -> 0..(MaxCuts + 1)]
  /\ cut \subseteq Event /\ Cardinality(cut) <= MaxCuts

HostInit ==
  /\ Init
  /\ binding = NoBinding /\ claim = NoClaim /\ torn = FALSE
  /\ rival = "none"
  /\ ledger = [e \in Event |-> "absent"]
  /\ applied = [e \in Event |-> 0]
  /\ cut = {}

-----------------------------------------------------------------------------
(* What an event says, read with a snapshot of the host's capabilities:    *)
(* the path it came by is not supported, its schemas are the snapshot's    *)
(* ("compatible") or others ("drifted").                                   *)

Snapshot == {"unavailable", "drifted", "compatible"}

Available(e, snap) ==
  e.type # "malformed" /\ (e.path = "explicit-intake" \/ snap # "unavailable")

Versioned(e, snap) == e.path # "explicit-intake" /\ snap = "compatible"

StatusState(e, snap) ==
  CASE e.status \in {"budgetLimited", "usageLimited"} -> "paused-host-limit"
    [] e.status = "active" /\ Versioned(e, snap) -> "active"
    [] e.status = "paused" /\ Versioned(e, snap) -> "interrupted"
    [] OTHER -> "unknown"

MappedState(e, snap) ==
  CASE ~Available(e, snap) -> "unknown"
    [] e.type = "partial-output" -> "interrupted"
    [] e.type = "stopped" -> "cancelled"
    [] e.type = "timed-out" -> "timed-out"
    [] e.type \in {"checkpoint", "revised", "attached"} -> "unknown"
    [] OTHER -> StatusState(e, snap)

(* The intervention a state leads to, and the run statuses it does so in. *)
HostRule ==
  { [state |-> "paused-host-limit", event |-> "pause-host-limit",
     from |-> {"active", "review-pending"}],
    [state |-> "interrupted", event |-> "interrupt",
     from |-> {"active", "review-pending"}],
    [state |-> "active", event |-> "resume",
     from |-> {"paused-host-limit", "interrupted", "timed-out"}],
    [state |-> "cancelled", event |-> "cancel",
     from |-> RunStatus \ {"cancelled", "abandoned", "finalized"}],
    [state |-> "timed-out", event |-> "timeout",
     from |-> {"active", "interrupted"}] }

HostEvents(e, snap) ==
  {r.event : r \in {q \in HostRule :
     q.state = MappedState(e, snap) /\ run.status \in q.from}}

-----------------------------------------------------------------------------
(* Bindings and the claim of a worktree. *)

(* loadHostBinding and validateHostBinding: the task is one of the run, a  *)
(* named checkpoint is its active one.                                     *)
NamesActiveWork(task, attempt) ==
  /\ task # "none" => task \in Members(run)
  /\ attempt # 0 => task # "none" /\ run.task[task].active = attempt

Permitted(b) ==
  /\ b.mode = "explicit-intake" => Owner = "native"
  /\ b.mode = "managed-backend" => Owner = "managed"
  /\ b.mode = "audit-import" => Owner = "audit-only"

(* findOwnershipConflict, for a record of another run, and so of another   *)
(* task.                                                                   *)
RivalConflictByTask(w) == FALSE

RivalOwns == rival \in {"active", "continued"}

RivalConflict(w) == RivalOwns /\ w = RivalWorktree

BoundAttempt(b) == IF b.pinned THEN run.task[b.task].active ELSE 0

Bound(b) ==
  [mode |-> b.mode, goal |-> b.goal, task |-> b.task,
   checkpoint |-> BoundAttempt(b), worktree |-> b.worktree]

ClaimFor(b) ==
  [worktree |-> b.worktree, task |-> b.task, checkpoint |-> BoundAttempt(b)]

ClaimedOnce(b) ==
  IF b.worktree = "none" \/ claim # NoClaim THEN claim ELSE ClaimFor(b)

Claimed(b) == IF b.worktree = "none" THEN claim ELSE ClaimFor(b)

(* createHostBinding, with or without --replace: the claim, the binding    *)
(* and its receipt are three files.  A kill before the receipt leaves it   *)
(* to be refused by whoever inspects it, and is not told apart.            *)
CreateHostBinding(b, replace) ==
  /\ binding # NoBinding => replace
  /\ Permitted(b)
  /\ b.task # "none" => b.task \in Members(run)
  /\ b.pinned => run.task[b.task].active # 0
  /\ ~RivalConflict(b.worktree)
  /\ claim' = Claimed(b)
  /\ \/ binding' = Bound(b) /\ torn' = FALSE
     \/ claim' # claim /\ binding' = binding /\ torn' = TRUE
  /\ UNCHANGED <<vars, rival, ledger, applied, cut>>

(* createOwnedWorktree for the first checkpoint, the release that ends a   *)
(* checkpoint, and reuseOwnedWorktree for a later one, which is active     *)
(* again ("continued") without a look at any record but its own.           *)
RivalSteps(to) ==
  rival' = to /\ UNCHANGED <<vars, files, ledger, applied, cut>>

RivalCreates ==
  rival = "none" /\ claim.worktree # RivalWorktree /\ RivalSteps("active")

RivalReleases == RivalOwns /\ RivalSteps("released")

RivalContinues == rival = "released" /\ RivalSteps("continued")

-----------------------------------------------------------------------------
(* recordNativeGoalEvent *)

(* validateEventBinding *)
BoundTo(e) ==
  /\ NamesActiveWork(e.task, e.checkpoint)
  /\ binding # NoBinding
  /\ NamesActiveWork(binding.task, binding.checkpoint)
  /\ binding.goal = e.goal
  /\ e.path = "plugin" => binding.mode = "attached"
  /\ e.path = "explicit-intake" => binding.mode = "explicit-intake"

DeliveredAgain(e) == TRUE

Undelivered(e) == ledger[e] = "absent"

Intervene(action) ==
  \/ action = "pause-host-limit" /\ PauseHostLimit
  \/ action = "interrupt" /\ Interrupt
  \/ action = "resume" /\ Resume
  \/ action \in LifecycleEvent /\ Lifecycle(action)

LedgerFirst(e, action) ==
  /\ ledger' = [ledger EXCEPT ![e] = action]
  /\ \/ Intervene(action) /\ applied' = [applied EXCEPT ![e] = @ + 1]
        /\ UNCHANGED cut
     \/ Cardinality(cut) < MaxCuts /\ cut' = cut \cup {e}
        /\ UNCHANGED <<vars, applied>>

(* A lifecycle intervention that is itself killed half way leaves the run  *)
(* as it was; a kill after it leaves the ledger behind.                    *)
ApplyThenRecord(e, action) ==
  /\ Intervene(action)
  /\ IF run' = run THEN UNCHANGED <<ledger, applied, cut>>
     ELSE /\ applied' = [applied EXCEPT ![e] = @ + 1]
          /\ \/ ledger' = [ledger EXCEPT ![e] = action] /\ UNCHANGED cut
             \/ e \notin cut /\ Cardinality(cut) < MaxCuts
                /\ cut' = cut \cup {e} /\ UNCHANGED ledger

DeliverEvent(e, snap) ==
  /\ BoundTo(e) /\ Undelivered(e)
  /\ UNCHANGED <<files, rival>>
  /\ \/ HostEvents(e, snap) = {} /\ UNCHANGED <<vars, applied, cut>>
        /\ ledger' = [ledger EXCEPT ![e] = "none"]
     \/ \E action \in HostEvents(e, snap) : ApplyThenRecord(e, action)

-----------------------------------------------------------------------------
HostCommand ==
  \/ \E b \in Binding, replace \in BOOLEAN : CreateHostBinding(b, replace)
  \/ \E e \in Event, snap \in Snapshot : DeliverEvent(e, snap)
  \/ RivalCreates
  \/ RivalReleases
  \/ RivalContinues

HostNext == (Next /\ UNCHANGED hostVars) \/ HostCommand

HostSpec == HostInit /\ [][HostNext]_allVars
-----------------------------------------------------------------------------
(* Properties. *)

(* A run paused for its host has a limit to wait out, and no review passes *)
(* while the limit is in force: a late result can set the run going again  *)
(* with the limit still set, and a protected allocation may be left, but   *)
(* the run does not get to a PASS that way (budget.js, state.js).          *)
HostLimitHolds ==
  /\ run.status = "paused-host-limit" => run.hostLimit
  /\ run.hostLimit => run.reviewer # "passed"

(* An event changes the run at most once, however often it is delivered,   *)
(* unless the command that applied it was killed before the ledger, and    *)
(* then once more (the model kills no event's command twice); what the     *)
(* ledger says was done has been done (native-goal.js,                     *)
(* recordNativeGoalEvent).                                                 *)
LedgerAccounts ==
  \A e \in Event :
    /\ applied[e] <= IF e \in cut THEN 2 ELSE 1
    /\ ledger[e] \in HostAction => applied[e] > 0

(* A stop of the host that the ledger records has ended the run for good:  *)
(* no later event, late result or resume of the operator opens it again    *)
(* (native-goal.js, applyEvent).                                           *)
StopHolds ==
  (\E e \in Event : ledger[e] = "cancel") =>
    run.status \in {"cancelled", "rolled-back", "abandoned"}

(* Two runs own one worktree. *)
SecondOwner == RivalOwns /\ claim.worktree = RivalWorktree

(* A worktree gets a second owner by one step only, a supervised run's     *)
(* taking its worktree back for a later checkpoint (claim_ownership).  No  *)
(* binding, replacement or killed replacement and no first checkpoint adds *)
(* one: each looks at the records of the others, and claims, in one step   *)
(* here (ownership.js, binding.js, execution.js).                          *)
OwnershipExclusive ==
  [][~SecondOwner /\ SecondOwner' => RivalContinues]_allVars

(* The worktree a binding names is the one the run has claimed for that    *)
(* very attempt, except in the wake of a replacement that was killed       *)
(* (binding.js, createHostBinding).                                        *)
BoundWorktreeOwned ==
  ~torn /\ binding.worktree # "none" =>
    claim = [worktree |-> binding.worktree, task |-> binding.task,
             checkpoint |-> binding.checkpoint]

-----------------------------------------------------------------------------
(* docs/adr/0002:22 "A new operation must reject: a second active owner    *)
(* for the same task or worktree".  The next checkpoint of a supervised    *)
(* run takes its worktree back without looking at the records of others    *)
(* (supervise/execution.js, reuseOwnedWorktree).                           *)
SecondOwnerRejected == ~SecondOwner
=============================================================================
