-------------------------- MODULE MCSupervisedRun ---------------------------
(***************************************************************************)
(* Instances of SupervisedRun for TLC.                                     *)
(***************************************************************************)
EXTENDS SupervisedRunClaims, TLC

(* The prototype profile of profiles.js. *)
Prototype ==
  [ops |-> 6,
   alloc |-> [implementation |-> 3, repair |-> 1, reviewer |-> 1,
              finalization |-> 1],
   maxRepairs |-> 1, maxRuns |-> 3, maxFull |-> 1]

PrototypeProfile == {Prototype}

(* Its critical profile, the only one with a second review.                *)
Critical ==
  [ops |-> 15,
   alloc |-> [implementation |-> 8, repair |-> 4, reviewer |-> 2,
              finalization |-> 1],
   maxRepairs |-> 2, maxRuns |-> 8, maxFull |-> 2]

CriticalProfile == {Critical}

(* One targeted command, with and without a full one. *)
SmallPlans == {[targeted |-> 1, full |-> 0], [targeted |-> 1, full |-> 1]}

FullPlan == {[targeted |-> 1, full |-> 1]}

(* The processes are interchangeable. *)
Processes == Permutations(Proc)
=============================================================================
