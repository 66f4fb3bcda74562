-------------------------- MODULE MCHostIntegration --------------------------
(***************************************************************************)
(* Values for HostIntegration: each of two tasks has a binding of its     *)
(* own, the first in the worktree of the rival.                            *)
(***************************************************************************)
EXTENDS HostIntegration

CONSTANTS t1, t2

MCTask == {t1, t2}

(* One attempt at each of two independent tasks; the reserve is reached    *)
(* after two of five operations.                                           *)
HostPlans ==
  {[tasks |-> MCTask, deps |-> [t \in MCTask |-> {}],
    order |-> [t \in MCTask |-> IF t = t1 THEN 1 ELSE 2],
    targeted |-> [t \in MCTask |-> 1],
    reviewEach |-> FALSE, finalReview |-> TRUE,
    ops |-> 5,
    alloc |-> [implementation |-> 2, repair |-> 0, completion |-> 1,
               reviewer |-> 1, finalization |-> 1],
    protected |-> {"completion", "reviewer", "finalization"},
    reserve |-> 25, maxRepairs |-> 0, maxWorkers |-> 2, maxRuns |-> 4]}

HostEvent(type, status, path) ==
  [type |-> type, status |-> status, path |-> path, goal |-> "goal",
   task |-> "none", checkpoint |-> 0]

MCEvent ==
  { HostEvent("status", "usageLimited", "plugin"),
    HostEvent("resumed", "active", "plugin"),
    [HostEvent("partial-output", "none", "app-server")
       EXCEPT !.task = t1, !.checkpoint = 1],
    HostEvent("stopped", "none", "explicit-intake") }

Request(mode, task, worktree) ==
  [mode |-> mode, goal |-> "goal", task |-> task, pinned |-> task # "none",
   worktree |-> worktree]

MCBinding ==
  {Request("attached", t1, "w1"), Request("explicit-intake", t2, "w2")}
=============================================================================
