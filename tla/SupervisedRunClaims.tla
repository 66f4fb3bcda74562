------------------------ MODULE SupervisedRunClaims -------------------------
(***************************************************************************)
(* What messages and documents of the repository say of a supervised run   *)
(* and its code does not keep.                                             *)
(***************************************************************************)
EXTENDS SupervisedRun

(* controls.js:521 "Terminal run status ... cannot be changed."  A run     *)
(* that was rolled back is never delivered.  A verification that is under  *)
(* way during the rollback writes run.json and the ownership from its      *)
(* memory, and the emptied worktree goes through review and finalization.  *)
RolledBackNotDelivered == run.status = "completed" => ~worktree.reset
=============================================================================
