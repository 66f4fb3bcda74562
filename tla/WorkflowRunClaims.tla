------------------------- MODULE WorkflowRunClaims --------------------------
(***************************************************************************)
(* What the documents and messages of the repository say of a workflow run *)
(* and its code does not keep.  Each property states the quoted sentence;  *)
(* the run named with it in PROJECT.json gives the behaviour against it.   *)
(***************************************************************************)
EXTENDS WorkflowRun

(* workflow/progress.js:24 "Workflow run ... claims ... before every task  *)
(* has verified evidence." and its neighbours: what assertEvidenceGates    *)
(* holds of every run it reports on.  A revision keeps the pause status    *)
(* and the status to resume to, whatever tasks it adds or opens, so that a *)
(* pause of a run in review leads back to review before the new work.      *)
EvidenceGates ==
  /\ \A t \in Members(run) :
       run.task[t].status = "completed" =>
         run.task[t].resultOf # 0 /\ run.task[t].verification = "passed"
  /\ run.status \in {"review-pending", "completed", "finalized"} =>
       AllComplete(run)
  /\ run.status \in {"completed", "finalized"} /\ run.defn.finalReview =>
       run.reviewer = "passed"
=============================================================================
