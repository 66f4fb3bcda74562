------------------------------ MODULE RunGate -------------------------------
(***************************************************************************)
(* What a controlled run promises to the operator who finalizes it,        *)
(* without a word on commands, pauses, budgets or files.                   *)
(*                                                                         *)
(* While a run is open its plan, its evidence and what it counts as done   *)
(* may change in any way.  It is judged when every task of its plan is     *)
(* accepted on verified evidence and the review it needs has passed.  From *)
(* then on plan, evidence and verdict are fixed: the run is delivered as   *)
(* it was judged, or it is closed.  A delivered run never changes again    *)
(* and a closed one never reopens.                                         *)
(***************************************************************************)
CONSTANTS Task, Attempt

VARIABLES
  phase,     \* "open", "judged", "delivered" or "closed"
  plan,      \* the tasks of the approved definition
  verified,  \* the attempts with verified evidence
  accepted,  \* the attempts that count as the completion of their task
  verdict    \* what the final review has said

gate == <<phase, plan, verified, accepted, verdict>>

Evidence == Task \X Attempt
OpenVerdict == {"not-required", "pending", "blocked"}
Sufficient == {"not-required", "passed"}

Init ==
  /\ phase = "open"
  /\ plan \in SUBSET Task
  /\ verified = {} /\ accepted = {}
  /\ verdict \in {"not-required", "pending"}

(* Anything an open run does, short of being judged. *)
Work ==
  /\ phase = "open" /\ phase' = "open"
  /\ plan' \in SUBSET Task
  /\ verified' \in SUBSET Evidence /\ accepted' \in SUBSET Evidence
  /\ verdict' \in OpenVerdict

Judge ==
  /\ phase = "open" /\ phase' = "judged"
  /\ plan' = plan
  /\ verified' \in SUBSET Evidence
  /\ accepted' \subseteq verified'
  /\ {e[1] : e \in accepted'} = plan
  /\ verdict' \in Sufficient

Deliver ==
  /\ phase = "judged" /\ phase' = "delivered"
  /\ UNCHANGED <<plan, verified, accepted, verdict>>

Close ==
  /\ phase \in {"open", "judged", "closed"} /\ phase' = "closed"
  /\ plan' = plan /\ verdict' = verdict
  /\ verified' \in SUBSET verified /\ accepted' \in SUBSET accepted

Next == Work \/ Judge \/ Deliver \/ Close

Spec == Init /\ [][Next]_gate
=============================================================================
