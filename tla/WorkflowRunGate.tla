-------------------------- MODULE WorkflowRunGate ---------------------------
(***************************************************************************)
(* A workflow run keeps what RunGate promises: run.json and the evidence   *)
(* files read as the state of a gate.                                      *)
(***************************************************************************)
EXTENDS WorkflowRun

Phase ==
  CASE run.status = "completed" -> "judged"
    [] run.status = "finalized" -> "delivered"
    [] run.status \in {"cancelled", "rolled-back", "abandoned"} -> "closed"
    [] OTHER -> "open"

(* The attempts whose result, checkpoint and checkpoint review stand. *)
Verified ==
  {e \in Task \X Attempt :
     /\ result[e[1]][e[2]] = "succeeded"
     /\ checkpoint[e[1]][e[2]].status = "verified"
     /\ checkpoint[e[1]][e[2]].reviewer \in {"not-required", "passed"}}

Accepted ==
  {<<t, run.task[t].resultOf>> :
     t \in {u \in Members(run) : run.task[u].status = "completed"}}

Gate == INSTANCE RunGate WITH
  phase <- Phase, plan <- Members(run), verified <- Verified,
  accepted <- Accepted, verdict <- run.reviewer

(* Every run of the commands, kills included, is a behaviour of the gate:  *)
(* nothing is finalized that was not judged whole, and neither a late      *)
(* result nor a resume touches what was judged, delivered or closed.       *)
GateKept == Gate!Spec
=============================================================================
