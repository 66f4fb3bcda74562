------------------------ MODULE CoordinatorRunProofs ------------------------
(***************************************************************************)
(* Theorems about CoordinatorRun, for every set of paths, scopes, edits    *)
(* and short commands.                                                     *)
(***************************************************************************)
EXTENDS CoordinatorRun, Integers, TLAPS

-----------------------------------------------------------------------------
(* Patterns. *)

LEMMA ShorterPrefix ==
  ASSUME NEW S, NEW r \in Seq(S), NEW s \in Seq(S), NEW t \in Seq(S),
         IsPrefix(r, t), IsPrefix(s, t), Len(r) <= Len(s)
  PROVE  IsPrefix(r, s)
<1>1. SubSeq(r, 1, Len(r)) = SubSeq(t, 1, Len(r)) BY DEF IsPrefix
<1>2. SubSeq(s, 1, Len(s)) = SubSeq(t, 1, Len(s)) BY DEF IsPrefix
<1>3. \A i \in 1..Len(s) : s[i] = t[i]
  BY <1>2, SMTT(20) DEF IsPrefix
<1>4. SubSeq(s, 1, Len(r)) = SubSeq(t, 1, Len(r))
  BY <1>3, SMTT(20) DEF IsPrefix
<1> QED BY <1>1, <1>4 DEF IsPrefix

LEMMA PrefixesComparable ==
  ASSUME NEW S, NEW r \in Seq(S), NEW s \in Seq(S), NEW t \in Seq(S),
         IsPrefix(r, t), IsPrefix(s, t)
  PROVE  IsPrefix(r, s) \/ IsPrefix(s, r)
<1>1. Len(r) \in Nat /\ Len(s) \in Nat OBVIOUS
<1>2. Len(r) <= Len(s) \/ Len(s) <= Len(r) BY <1>1
<1>3. CASE Len(r) <= Len(s) BY <1>3, ShorterPrefix
<1>4. CASE Len(s) <= Len(r) BY <1>4, ShorterPrefix
<1> QED BY <1>2, <1>3, <1>4

(* The overlap check is complete: two patterns that one file matches       *)
(* overlap, whatever the two patterns are.                                 *)
THEOREM OverlapSound ==
  ASSUME NEW path \in Seq(STRING) \ {<< >>},
         NEW p \in Pattern, NEW q \in Pattern,
         MatchesPattern(path, p), MatchesPattern(path, q)
  PROVE  PatternsOverlap(p, q)
<1>1. p.root \in Seq(STRING) /\ p.tree \in BOOLEAN
      /\ q.root \in Seq(STRING) /\ q.tree \in BOOLEAN
  BY DEF Pattern
<1>2. p.tree \/ p.root # << >> BY DEF MatchesPattern
<1>3. q.tree \/ q.root # << >> BY DEF MatchesPattern
<1>4. CASE p.tree /\ q.tree
  <2>1. IsPrefix(p.root, path) /\ IsPrefix(q.root, path)
    BY <1>4 DEF MatchesPattern
  <2>2. IsPrefix(p.root, q.root) \/ IsPrefix(q.root, p.root)
    BY <1>1, <2>1, PrefixesComparable
  <2> QED BY <1>2, <1>3, <1>4, <2>2 DEF PatternsOverlap, WithinTree
<1>5. CASE p.tree /\ ~q.tree
  BY <1>2, <1>3, <1>5 DEF MatchesPattern, PatternsOverlap, WithinTree
<1>6. CASE ~p.tree /\ q.tree
  BY <1>2, <1>3, <1>6 DEF MatchesPattern, PatternsOverlap, WithinTree
<1>7. CASE ~p.tree /\ ~q.tree
  <2>1. p.root = q.root BY <1>7 DEF MatchesPattern
  <2>2. p = [root |-> p.root, tree |-> p.tree] /\ q = [root |-> q.root, tree |-> q.tree]
    BY DEF Pattern
  <2>3. p = q BY <2>1, <2>2, <1>7, <1>1
  <2> QED BY <1>2, <1>3, <2>3 DEF PatternsOverlap
<1> QED BY <1>1, <1>4, <1>5, <1>6, <1>7
-----------------------------------------------------------------------------
(* Type correctness.  op needs more than TypeOK says of it: what a command *)
(* has left to write is never empty when it writes.                        *)

Statuses == [run : {"planning", "completed"}, board : {"planning", "completed"},
             task : [Worker -> {"ready", "done"}]]
Files == [registry : BOOLEAN, prompts : BOOLEAN, reports : BOOLEAN,
          packet : BOOLEAN, covers : SUBSET Worker, review : Decision]
Tree == [present : BOOLEAN, branch : BOOLEAN, edits : SUBSET Edit(Path),
         draft : BOOLEAN]
Steps == {"none", "prompts", "workers", "running", "collect", "review", "reviewing",
          "deciding"}
Commands == [kind : {"none", "exec", "workers", "pipeline"}, parallel : BOOLEAN,
             step : Steps, ran : [Worker -> Ran]]
Kinds == {"none", "create", "finalize", "cleanup"}

(* What is left of a create, a finalize and a cleanup. *)
CreateLeft == {WorkerOrder, <<"worker-b">>, << >>}
FinalizeLeft ==
  {FinalizeWrites, <<"board", "worker-a", "worker-b">>,
   <<"worker-a", "worker-b">>, <<"worker-b">>}

CleanupLeft == {WorkerOrder, <<"worker-a">>, <<"worker-b">>}

OpTyped ==
  /\ op \in [kind : Kinds, todo : CreateLeft \cup FinalizeLeft \cup CleanupLeft]
  /\ op.kind = "create" => op.todo \in CreateLeft
  /\ op.kind = "finalize" => op.todo \in FinalizeLeft
  /\ op.kind = "cleanup" => op.todo \in CleanupLeft

Typed == TypeOK /\ OpTyped

LEMMA TypeParts ==
  TypeOK <=> /\ policy \in Modes
             /\ scope \in Scopes
             /\ status \in Statuses
             /\ files \in Files
             /\ tree \in [Worker -> Tree]
             /\ cmd \in Commands
             /\ outcome \in {"none", "PASS", "FAIL"}
             /\ op.kind \in Kinds
  BY DEF TypeOK, Statuses, Files, Tree, Steps, Commands, Kinds

(* The records written by the commands are well formed. *)
LEMMA NoCommandType == NoCommand \in Commands
  BY DEF NoCommand, Commands, Steps, Ran, Worker

LEMMA CommandType ==
  ASSUME NEW c \in Commands
  PROVE  /\ \A s \in Steps : [c EXCEPT !.step = s] \in Commands
         /\ \A w \in Worker, r \in Ran : [c EXCEPT !.ran[w] = r] \in Commands
  BY Zenon DEF Commands

LEMMA FilesType ==
  ASSUME NEW f \in Files
  PROVE  /\ [f EXCEPT !.registry = TRUE] \in Files
         /\ [f EXCEPT !.prompts = TRUE] \in Files
         /\ \A b \in BOOLEAN : [f EXCEPT !.reports = b] \in Files
         /\ \A d \in Decision : [f EXCEPT !.review = d] \in Files
         /\ \A c \in SUBSET Worker :
              /\ [f EXCEPT !.covers = c] \in Files
              /\ [f EXCEPT !.packet = TRUE, !.covers = c] \in Files
  BY Zenon DEF Files

LEMMA TreeType ==
  ASSUME NEW w \in Worker, NEW t \in [Worker -> Tree]
  PROVE  /\ [t EXCEPT ![w].draft = TRUE] \in [Worker -> Tree]
         /\ [t EXCEPT ![w].present = TRUE, ![w].branch = TRUE] \in [Worker -> Tree]
         /\ \A es \in SUBSET Edit(Path) :
              /\ [t EXCEPT ![w].edits = es] \in [Worker -> Tree]
              /\ [t EXCEPT ![w].present = FALSE, ![w].draft = FALSE, ![w].edits = es]
                   \in [Worker -> Tree]
  BY Zenon DEF Tree

(* What is left after the next write. *)
LEMMA LeftTails ==
  /\ \A l \in CreateLeft \ {<< >>} : Head(l) \in Worker /\ Tail(l) \in CreateLeft
  /\ \A l \in FinalizeLeft :
       /\ Head(l) \in Worker \cup {"run", "board"}
       /\ Len(l) # 1 => Tail(l) \in FinalizeLeft
  /\ \A l \in CleanupLeft :
       /\ Head(l) \in Worker
       /\ Len(l) # 1 => Tail(l) \in CleanupLeft
<1>1. ASSUME NEW l \in CreateLeft \ {<< >>}
      PROVE  Head(l) \in Worker /\ Tail(l) \in CreateLeft
  <2>1. CASE l = <<"worker-a", "worker-b">>
    <3>1. Head(l) = "worker-a" /\ Tail(l) = <<"worker-b">> BY <2>1
    <3> QED BY <3>1 DEF CreateLeft, Worker
  <2>2. CASE l = <<"worker-b">>
    <3>1. Head(l) = "worker-b" /\ Tail(l) = << >> BY <2>2
    <3> QED BY <3>1 DEF CreateLeft, Worker
  <2> QED BY <2>1, <2>2 DEF CreateLeft, WorkerOrder
<1>2. ASSUME NEW l \in FinalizeLeft
      PROVE  /\ Head(l) \in Worker \cup {"run", "board"}
             /\ Len(l) # 1 => Tail(l) \in FinalizeLeft
  <2>1. CASE l = <<"run", "board", "worker-a", "worker-b">>
    <3>1. Head(l) = "run" /\ Tail(l) = <<"board", "worker-a", "worker-b">> BY <2>1
    <3> QED BY <3>1 DEF FinalizeLeft
  <2>2. CASE l = <<"board", "worker-a", "worker-b">>
    <3>1. Head(l) = "board" /\ Tail(l) = <<"worker-a", "worker-b">> BY <2>2
    <3> QED BY <3>1 DEF FinalizeLeft
  <2>3. CASE l = <<"worker-a", "worker-b">>
    <3>1. Head(l) = "worker-a" /\ Tail(l) = <<"worker-b">> BY <2>3
    <3> QED BY <3>1 DEF FinalizeLeft, Worker
  <2>4. CASE l = <<"worker-b">>
    <3>1. Head(l) = "worker-b" /\ Len(l) = 1 BY <2>4
    <3> QED BY <3>1 DEF Worker
  <2> QED BY <2>1, <2>2, <2>3, <2>4 DEF FinalizeLeft, FinalizeWrites
<1>3. ASSUME NEW l \in CleanupLeft
      PROVE  Head(l) \in Worker /\ (Len(l) # 1 => Tail(l) \in CleanupLeft)
  <2>1. CASE l = <<"worker-a", "worker-b">>
    <3>1. Head(l) = "worker-a" /\ Tail(l) = <<"worker-b">> BY <2>1
    <3> QED BY <3>1 DEF CleanupLeft, Worker
  <2>2. CASE l = <<"worker-a">>
    <3>1. Head(l) = "worker-a" /\ Len(l) = 1 BY <2>2
    <3> QED BY <3>1 DEF Worker
  <2>3. CASE l = <<"worker-b">>
    <3>1. Head(l) = "worker-b" /\ Len(l) = 1 BY <2>3
    <3> QED BY <3>1 DEF Worker
  <2> QED BY <2>1, <2>2, <2>3 DEF CleanupLeft, WorkerOrder
<1> QED BY <1>1, <1>2, <1>3

LEMMA NoOpTyped ==
  ASSUME op' = NoOp PROVE OpTyped'
<1>1. op' = [kind |-> "none", todo |-> << >>] BY DEF NoOp
<1>2. << >> \in CreateLeft BY DEF CreateLeft
<1> QED BY <1>1, <1>2 DEF OpTyped, Kinds

LEMMA InitTyped == Init => Typed
<1> SUFFICES ASSUME Init PROVE Typed OBVIOUS
<1>1. policy \in Modes /\ scope \in Scopes BY DEF Init
<1>2. status \in Statuses BY DEF Init, Statuses
<1>3. files \in Files BY DEF Init, Files, Decision
<1>4. tree \in [Worker -> Tree] BY DEF Init, Tree
<1>5. cmd \in Commands BY NoCommandType DEF Init
<1>6. outcome \in {"none", "PASS", "FAIL"} BY DEF Init
<1>7. OpTyped /\ op.kind \in Kinds
  BY DEF Init, NoOp, OpTyped, Kinds, CreateLeft
<1> QED BY <1>1, <1>2, <1>3, <1>4, <1>5, <1>6, <1>7, TypeParts DEF Typed

(* The dispatch command: only cmd and outcome change, and files. *)
LEMMA StartCommandTyped == Typed /\ StartCommand => Typed'
<1> SUFFICES ASSUME Typed, StartCommand PROVE Typed' OBVIOUS
<1>1. TypeOK /\ OpTyped BY DEF Typed
<1>2. UNCHANGED <<policy, scope, status, files, tree, op>>
  BY DEF StartCommand, StartPipeline, StartWorkers, StartExecWorker, StartExecReviewer
<1>3. cmd' \in Commands /\ outcome' \in {"none", "PASS", "FAIL"}
  <2>0. outcome \in {"none", "PASS", "FAIL"} BY <1>1, TypeParts
  <2>1. ASSUME NEW parallel \in BOOLEAN, StartPipeline(parallel)
        PROVE  cmd' \in Commands /\ outcome' \in {"none", "PASS", "FAIL"}
    BY <2>1, NoCommandType DEF StartPipeline, EndCommand, Commands, Steps, Ran
  <2>2. ASSUME NEW parallel \in BOOLEAN, StartWorkers(parallel)
        PROVE  cmd' \in Commands /\ outcome' \in {"none", "PASS", "FAIL"}
    BY <2>2 DEF StartWorkers, Commands, Steps, Ran
  <2>3. ASSUME NEW w \in Worker, StartExecWorker(w)
        PROVE  cmd' \in Commands /\ outcome' \in {"none", "PASS", "FAIL"}
    BY <2>3 DEF StartExecWorker, Commands, Steps, Ran
  <2>4. CASE StartExecReviewer
    <3>1. cmd' = [NoCommand EXCEPT !.kind = "exec", !.step = "review"]
      BY <2>4 DEF StartExecReviewer
    <3>2. cmd' \in Commands BY <3>1 DEF NoCommand, Commands, Steps, Ran
    <3> QED BY <2>4, <3>2 DEF StartExecReviewer
  <2> QED BY <2>1, <2>2, <2>3, <2>4 DEF StartCommand
<1> QED BY <1>1, <1>2, <1>3, TypeParts DEF Typed, TypeOK, OpTyped, Commands, Steps

LEMMA CommandStepTyped == Typed /\ CommandStep => Typed'
<1> SUFFICES ASSUME Typed, CommandStep PROVE Typed' OBVIOUS
<1>1. /\ cmd \in Commands /\ files \in Files
      /\ outcome \in {"none", "PASS", "FAIL"}
      /\ TypeOK /\ OpTyped
  BY TypeParts DEF Typed
<1>2. UNCHANGED <<policy, scope, status, tree, op>>
  BY DEF CommandStep, PipelinePrompts, BeginWorkers, StartWorker, RefuseWorker,
     EndWorker, JoinWorkers, PipelineCollect, StartReviewer, RefuseReviewer, EndReviewer,
     EndPipeline
<1>3. Settled \in SUBSET Worker BY DEF Settled
<1>4. /\ cmd' \in Commands /\ files' \in Files
      /\ outcome' \in {"none", "PASS", "FAIL"}
  <2>1. CASE PipelinePrompts
    BY <1>1, <2>1, CommandType, FilesType DEF PipelinePrompts, Steps
  <2>2. CASE BeginWorkers
    BY <1>1, <2>2, CommandType, NoCommandType DEF BeginWorkers, EndCommand, Steps
  <2>3. ASSUME NEW w \in Worker, StartWorker(w)
        PROVE  cmd' \in Commands /\ files' \in Files /\ UNCHANGED outcome
    <3>1. files.covers \ {w} \in SUBSET Worker BY <1>1 DEF Files
    <3>2. files' = [files EXCEPT !.covers = files.covers \ {w}]
      BY <2>3 DEF StartWorker
    <3>3. files' \in Files BY <1>1, <3>1, <3>2, FilesType
    <3> QED BY <1>1, <2>3, <3>3, CommandType DEF StartWorker, Ran
  <2>4. ASSUME NEW w \in Worker, RefuseWorker(w)
        PROVE  cmd' \in Commands /\ files' \in Files /\ UNCHANGED outcome
    BY <1>1, <2>4, CommandType DEF RefuseWorker, Ran
  <2>5. ASSUME NEW w \in Worker, NEW ok \in BOOLEAN, EndWorker(w, ok)
        PROVE  cmd' \in Commands /\ files' \in Files /\ UNCHANGED outcome
    <3>1. (files.reports \/ tree[w].draft) \in BOOLEAN OBVIOUS
    <3>2. files' = [files EXCEPT !.reports = files.reports \/ tree[w].draft]
      BY <2>5 DEF EndWorker
    <3>3. files' \in Files BY <1>1, <3>1, <3>2, FilesType
    <3>4. (IF SessionPasses(w, ok) THEN "PASS" ELSE "FAIL") \in Ran BY DEF Ran
    <3> QED BY <1>1, <2>5, <3>3, <3>4, CommandType DEF EndWorker
  <2>6. CASE JoinWorkers
    BY <1>1, <2>6, CommandType, NoCommandType DEF JoinWorkers, EndCommand, Steps
  <2>7. CASE PipelineCollect
    BY <1>1, <1>3, <2>7, CommandType, FilesType DEF PipelineCollect, NewPacket, Steps
  <2>8. CASE StartReviewer
    BY <1>1, <2>8, CommandType DEF StartReviewer, Steps
  <2>9. CASE RefuseReviewer
    BY <1>1, <2>9, NoCommandType DEF RefuseReviewer, EndCommand
  <2>10. ASSUME NEW ok \in BOOLEAN, EndReviewer(ok)
         PROVE  /\ cmd' \in Commands /\ UNCHANGED files
                /\ outcome' \in {"none", "PASS", "FAIL"}
    BY <1>1, <2>10, NoCommandType, CommandType
       DEF EndReviewer, EndCommand, ReviewerVerdict, Steps
  <2>11. CASE EndPipeline
    BY <1>1, <2>11, NoCommandType DEF EndPipeline, EndCommand
  <2> QED BY <1>1, <2>1, <2>2, <2>3, <2>4, <2>5, <2>6, <2>7, <2>8, <2>9, <2>10, <2>11
          DEF CommandStep
<1>5. /\ policy \in Modes /\ scope \in Scopes /\ status \in Statuses
      /\ tree \in [Worker -> Tree] /\ op.kind \in Kinds
  BY <1>1, TypeParts
<1>6. TypeOK' BY <1>2, <1>4, <1>5 DEF TypeOK, Statuses, Files, Tree, Commands, Steps, Kinds
<1> QED BY <1>1, <1>2, <1>6 DEF Typed, OpTyped

LEMMA AgentTyped == Typed /\ Agent => Typed'
<1> SUFFICES ASSUME Typed, Agent PROVE Typed' OBVIOUS
<1>1. /\ cmd \in Commands /\ files \in Files /\ tree \in [Worker -> Tree]
      /\ TypeOK /\ OpTyped
  BY TypeParts DEF Typed
<1>2. UNCHANGED <<policy, scope, status, cmd, outcome, op>>
  BY DEF Agent, EditFile, CommitWork, WriteReport, WriteReview
<1>3. files' \in Files /\ tree' \in [Worker -> Tree]
  <2>1. ASSUME NEW w \in Worker, EditFile(w)
        PROVE  UNCHANGED files /\ tree' \in [Worker -> Tree]
    <3>1. PICK e \in Change[w] : tree' = [tree EXCEPT ![w].edits = @ \cup {e}]
      BY <2>1 DEF EditFile
    <3>2. tree[w].edits \cup {e} \in SUBSET Edit(Path)
      BY <1>1, CoordinatorAssumption DEF Tree
    <3>3. tree' = [tree EXCEPT ![w].edits = tree[w].edits \cup {e}]
      BY <1>1, <3>1
    <3> QED BY <1>1, <2>1, <3>2, <3>3, TreeType DEF EditFile
  <2>2. ASSUME NEW w \in Worker, CommitWork(w)
        PROVE  UNCHANGED files /\ tree' \in [Worker -> Tree]
    <3> DEFINE Done == {[e EXCEPT !.committed = TRUE] : e \in tree[w].edits}
    <3>1. tree' = [tree EXCEPT ![w].edits = Done] BY <1>1, <2>2 DEF CommitWork
    <3>2. Done \in SUBSET Edit(Path)
      <4>1. tree[w].edits \subseteq Edit(Path) BY <1>1 DEF Tree
      <4>2. \A e \in Edit(Path) : [e EXCEPT !.committed = TRUE] \in Edit(Path)
        BY DEF Edit
      <4> QED BY <4>1, <4>2
    <3> HIDE DEF Done
    <3>3. [tree EXCEPT ![w].edits = Done] \in [Worker -> Tree]
      BY <1>1, <3>2, TreeType
    <3>4. tree' \in [Worker -> Tree] BY <3>1, <3>3
    <3> QED BY <2>2, <3>4 DEF CommitWork
  <2>3. ASSUME NEW w \in Worker, WriteReport(w)
        PROVE  UNCHANGED files /\ tree' \in [Worker -> Tree]
    BY <1>1, <2>3, TreeType DEF WriteReport
  <2>4. ASSUME NEW d \in Decision \ {"none"}, WriteReview(d)
        PROVE  files' \in Files /\ UNCHANGED tree
    BY <1>1, <2>4, FilesType DEF WriteReview
  <2> QED BY <1>1, <2>1, <2>2, <2>3, <2>4 DEF Agent
<1>4. /\ policy \in Modes /\ scope \in Scopes /\ status \in Statuses
      /\ outcome \in {"none", "PASS", "FAIL"} /\ op.kind \in Kinds
  BY <1>1, TypeParts
<1>5. TypeOK'
  BY <1>1, <1>2, <1>3, <1>4 DEF TypeOK, Statuses, Files, Tree, Commands, Steps, Kinds
<1> QED BY <1>1, <1>2, <1>5 DEF Typed, OpTyped

LEMMA StatusType ==
  ASSUME NEW s \in Statuses
  PROVE  /\ [s EXCEPT !.run = "completed"] \in Statuses
         /\ [s EXCEPT !.board = "completed"] \in Statuses
         /\ \A w \in Worker : [s EXCEPT !.task[w] = "done"] \in Statuses
  BY Zenon DEF Statuses

(* The next state of op when one write is done. *)
LEMMA OpTypeNext ==
  ASSUME OpTyped
  PROVE  /\ op.kind = "create" /\ op.todo # << >> /\ op' = [op EXCEPT !.todo = Tail(@)]
              => OpTyped'
         /\ op.kind \in {"finalize", "cleanup"}
            /\ op' = (IF Len(op.todo) = 1 THEN NoOp ELSE [op EXCEPT !.todo = Tail(@)])
              => OpTyped'
<1> DEFINE Left == CreateLeft \cup FinalizeLeft \cup CleanupLeft
           OpAfter == [op EXCEPT !.todo = Tail(op.todo)]
<1>1. op \in [kind : Kinds, todo : Left] BY DEF OpTyped
<1>2. ASSUME Tail(op.todo) \in Left
      PROVE  /\ OpAfter \in [kind : Kinds, todo : Left]
             /\ OpAfter.kind = op.kind /\ OpAfter.todo = Tail(op.todo)
  <2> HIDE DEF Left
  <2>1. OpAfter \in [kind : Kinds, todo : Left] BY <1>1, <1>2, Zenon
  <2>2. OpAfter.kind = op.kind BY <1>1, <1>2
  <2>3. OpAfter.todo = Tail(op.todo) BY <1>1, <1>2
  <2> QED BY <2>1, <2>2, <2>3
<1> HIDE DEF OpAfter
<1>3. ASSUME op.kind = "create", op.todo # << >>, op' = OpAfter PROVE OpTyped'
  <2>1. op.todo \in CreateLeft \ {<< >>} BY <1>3 DEF OpTyped
  <2>2. Tail(op.todo) \in CreateLeft BY <2>1, LeftTails
  <2> QED BY <1>2, <1>3, <2>2 DEF OpTyped
<1>4. ASSUME op.kind = "finalize", Len(op.todo) # 1, op' = OpAfter PROVE OpTyped'
  <2>1. Tail(op.todo) \in FinalizeLeft BY <1>4, LeftTails DEF OpTyped
  <2> QED BY <1>2, <1>4, <2>1 DEF OpTyped
<1>5. ASSUME op.kind = "cleanup", Len(op.todo) # 1, op' = OpAfter PROVE OpTyped'
  <2>1. Tail(op.todo) \in CleanupLeft BY <1>5, LeftTails DEF OpTyped
  <2> QED BY <1>2, <1>5, <2>1 DEF OpTyped
<1> QED BY <1>3, <1>4, <1>5, NoOpTyped DEF OpAfter

LEMMA OperatorTyped == Typed /\ Operator => Typed'
<1> SUFFICES ASSUME Typed, Operator PROVE Typed' OBVIOUS
<1>1. /\ policy \in Modes /\ scope \in Scopes /\ status \in Statuses
      /\ files \in Files /\ tree \in [Worker -> Tree] /\ cmd \in Commands
      /\ outcome \in {"none", "PASS", "FAIL"} /\ op.kind \in Kinds
      /\ TypeOK /\ OpTyped
  BY TypeParts DEF Typed
<1>2. UNCHANGED <<scope, cmd, outcome>>
  BY DEF Operator, DispatchPrompts, Collect, CompleteWorker, CompleteReviewer, SetPolicy,
     StartCreate, StartFinalize, StartCleanup, AddWorktree, AddWorktreeFails,
     RegisterWorktrees, FinalizeWrite, RemoveWorktree
<1> DEFINE Rest == /\ policy' \in Modes /\ status' \in Statuses
                   /\ files' \in Files /\ tree' \in [Worker -> Tree]
<1>3. Rest /\ OpTyped'
  <2>0. op' = op => OpTyped' BY <1>1 DEF OpTyped
  <2>1. CASE DispatchPrompts
    BY <1>1, <2>0, <2>1, FilesType DEF DispatchPrompts
  <2>2. CASE Collect
    <3>1. Settled \in SUBSET Worker BY DEF Settled
    <3> QED BY <1>1, <2>0, <2>2, <3>1, FilesType DEF Collect, NewPacket
  <2>3. CASE CompleteWorker
    BY <1>1, <2>0, <2>3, FilesType DEF CompleteWorker
  <2>4. ASSUME NEW d \in Decision \ {"none"}, CompleteReviewer(d) PROVE Rest /\ OpTyped'
    BY <1>1, <2>0, <2>4, FilesType DEF CompleteReviewer
  <2>5. ASSUME NEW mode \in Modes, SetPolicy(mode) PROVE Rest /\ OpTyped'
    BY <1>1, <2>0, <2>5 DEF SetPolicy
  <2>6. CASE StartCreate
    BY <1>1, <2>6 DEF StartCreate, OpTyped, Kinds, CreateLeft
  <2>7. CASE StartFinalize
    BY <1>1, <2>7 DEF StartFinalize, OpTyped, Kinds, FinalizeLeft
  <2>8. CASE StartCleanup
    BY <1>1, <2>8 DEF StartCleanup, OpTyped, Kinds, CleanupLeft
  <2>9. CASE AddWorktree
    <3>1. Head(op.todo) \in Worker
      BY <1>1, <2>9, LeftTails DEF AddWorktree, OpTyped
    <3>2. tree' \in [Worker -> Tree] BY <1>1, <2>9, <3>1, TreeType DEF AddWorktree
    <3>3. OpTyped' BY <1>1, <2>9, OpTypeNext DEF AddWorktree
    <3> QED BY <1>1, <2>9, <3>2, <3>3 DEF AddWorktree
  <2>10. CASE AddWorktreeFails
    BY <1>1, <2>10, NoOpTyped DEF AddWorktreeFails
  <2>11. CASE RegisterWorktrees
    BY <1>1, <2>11, NoOpTyped, FilesType DEF RegisterWorktrees
  <2>12. CASE FinalizeWrite
    <3>1. Head(op.todo) \in Worker \cup {"run", "board"}
      BY <1>1, <2>12, LeftTails DEF FinalizeWrite, OpTyped
    <3>2. status' \in Statuses
      BY <1>1, <2>12, <3>1, StatusType DEF FinalizeWrite
    <3>3. OpTyped' BY <1>1, <2>12, OpTypeNext DEF FinalizeWrite
    <3> QED BY <1>1, <2>12, <3>2, <3>3 DEF FinalizeWrite
  <2>13. CASE RemoveWorktree
    <3> DEFINE w == Head(op.todo)
               Left == tree[w].edits \ Uncommitted(w)
    <3>1. w \in Worker
      BY <1>1, <2>13, LeftTails DEF RemoveWorktree, OpTyped
    <3>2. Left \in SUBSET Edit(Path) BY <1>1, <3>1 DEF Tree
    <3>3. [tree EXCEPT ![w].present = FALSE, ![w].draft = FALSE, ![w].edits = Left]
            \in [Worker -> Tree]
      <4> HIDE DEF w, Left
      <4> QED BY <1>1, <3>1, <3>2, TreeType
    <3>4. tree' \in [Worker -> Tree]
      BY <1>1, <2>13, <3>1, <3>3 DEF RemoveWorktree
    <3>5. OpTyped' BY <1>1, <2>13, OpTypeNext, NoOpTyped DEF RemoveWorktree
    <3> QED BY <1>1, <2>13, <3>4, <3>5 DEF RemoveWorktree
  <2> QED BY <2>1, <2>2, <2>3, <2>4, <2>5, <2>6, <2>7, <2>8, <2>9, <2>10, <2>11,
             <2>12, <2>13 DEF Operator
<1>4. op'.kind \in Kinds BY <1>3 DEF OpTyped
<1> QED BY <1>1, <1>2, <1>3, <1>4
        DEF Typed, TypeOK, Statuses, Files, Tree, Commands, Steps, Kinds

LEMMA TypedStep == Typed /\ [Next]_vars => Typed'
<1> SUFFICES ASSUME Typed, [Next]_vars PROVE Typed' OBVIOUS
<1>1. CASE StartCommand BY <1>1, StartCommandTyped
<1>2. CASE CommandStep BY <1>2, CommandStepTyped
<1>3. CASE Agent BY <1>3, AgentTyped
<1>4. CASE Operator BY <1>4, OperatorTyped
<1>5. CASE CrashCommand
  <2>1. cmd' \in Commands /\ outcome' = "none"
    BY <1>5, NoCommandType DEF CrashCommand, EndCommand
  <2> QED BY <1>5, <2>1 DEF Typed, TypeOK, OpTyped, CrashCommand, Commands, Steps
<1>6. CASE CrashOp
  <2>1. OpTyped' /\ op'.kind \in Kinds BY <1>6, NoOpTyped DEF CrashOp, NoOp, Kinds
  <2> QED BY <1>6, <2>1 DEF Typed, TypeOK, CrashOp, Kinds
<1>7. CASE UNCHANGED vars BY <1>7 DEF Typed, TypeOK, OpTyped, vars
<1> QED BY <1>1, <1>2, <1>3, <1>4, <1>5, <1>6, <1>7 DEF Next

(* Whatever commands run beside each other and whichever of them are       *)
(* killed, the files of the run stay well formed (src/run).                *)
THEOREM CoordinatorTypeCorrect == Spec => []TypeOK
<1>1. Init => Typed BY InitTyped
<1>2. Typed /\ [Next]_vars => Typed' BY TypedStep
<1>3. Typed => TypeOK BY DEF Typed
<1> QED BY <1>1, <1>2, <1>3, PTL DEF Spec

-----------------------------------------------------------------------------
(* What the commands leave on the disk. *)

(* No change an agent has made is ever taken out of its worktree           *)
(* uncommitted (cleanup.js).                                               *)
THEOREM WorkIsKept == Spec => WorkKept
<1> DEFINE Kept == \A w \in Worker :
             {e.path : e \in tree[w].edits} \subseteq {e.path : e \in tree'[w].edits}
<1>1. ASSUME Typed, Next PROVE Kept
  <2>0. tree \in [Worker -> Tree] /\ OpTyped BY <1>1, TypeParts DEF Typed
  <2>1. UNCHANGED tree => Kept OBVIOUS
  <2>2. ASSUME NEW w \in Worker, EditFile(w) PROVE Kept
    <3>1. PICK e \in Change[w] : tree' = [tree EXCEPT ![w].edits = @ \cup {e}]
      BY <2>2 DEF EditFile
    <3>2. \A v \in Worker : tree[v].edits \subseteq tree'[v].edits
      BY <2>0, <3>1 DEF Tree
    <3> QED BY <3>2
  <2>3. ASSUME NEW w \in Worker, CommitWork(w) PROVE Kept
    <3>1. tree' = [tree EXCEPT ![w].edits = {[e EXCEPT !.committed = TRUE] : e \in tree[w].edits}]
      BY <2>0, <2>3 DEF CommitWork
    <3>2. tree'[w].edits = {[e EXCEPT !.committed = TRUE] : e \in tree[w].edits}
      BY <2>0, <3>1 DEF Tree
    <3>3. \A v \in Worker \ {w} : tree'[v] = tree[v] BY <2>0, <3>1
    <3>4. \A e \in tree[w].edits :
            [e EXCEPT !.committed = TRUE] \in tree'[w].edits
            /\ [e EXCEPT !.committed = TRUE].path = e.path
      <4>1. \A e \in Edit(Path) : [e EXCEPT !.committed = TRUE].path = e.path BY DEF Edit
      <4>2. tree[w].edits \subseteq Edit(Path) BY <2>0 DEF Tree
      <4> QED BY <3>2, <4>1, <4>2
    <3> QED BY <3>3, <3>4
  <2>4. ASSUME NEW w \in Worker, WriteReport(w) PROVE Kept
    <3>1. \A v \in Worker : tree'[v].edits = tree[v].edits
      BY <2>0, <2>4 DEF WriteReport, Tree
    <3> QED BY <3>1
  <2>5. CASE AddWorktree
    <3>1. Head(op.todo) \in Worker BY <2>0, <2>5, LeftTails DEF AddWorktree, OpTyped
    <3>2. \A v \in Worker : tree'[v].edits = tree[v].edits
      BY <2>0, <2>5, <3>1 DEF AddWorktree, Tree
    <3> QED BY <3>2
  <2>6. CASE RemoveWorktree
    <3> DEFINE w == Head(op.todo)
    <3>1. w \in Worker BY <2>0, <2>6, LeftTails DEF RemoveWorktree, OpTyped
    <3>2. CASE GitRemoves(w)
      <4>1. Uncommitted(w) = {} BY <3>2 DEF GitRemoves, Dirty
      <4>2. tree' = [tree EXCEPT ![w].present = FALSE, ![w].draft = FALSE,
                                 ![w].edits = tree[w].edits \ Uncommitted(w)]
        BY <2>0, <2>6, <3>1, <3>2 DEF RemoveWorktree
      <4> HIDE DEF w
      <4>3. \A v \in Worker : tree'[v].edits = tree[v].edits
        BY <2>0, <3>1, <4>1, <4>2 DEF Tree
      <4> QED BY <4>3
    <3>3. CASE ~GitRemoves(w) BY <2>1, <2>6, <3>3 DEF RemoveWorktree
    <3> QED BY <3>2, <3>3
  <2>7. CASE StartCommand \/ CommandStep \/ CrashCommand \/ CrashOp
    BY <2>1, <2>7 DEF StartCommand, StartPipeline, StartWorkers, StartExecWorker,
       StartExecReviewer, CommandStep, PipelinePrompts, BeginWorkers, StartWorker,
       RefuseWorker, EndWorker, JoinWorkers, PipelineCollect, StartReviewer,
       RefuseReviewer, EndReviewer, EndPipeline, CrashCommand, CrashOp
  <2>8. CASE Agent BY <2>1, <2>2, <2>3, <2>4, <2>8 DEF Agent, WriteReview
  <2>9. CASE Operator
    <3>1. CASE AddWorktree BY <2>5, <3>1
    <3>2. CASE RemoveWorktree BY <2>6, <3>2
    <3>3. CASE UNCHANGED tree BY <2>1, <3>3
    <3> QED
      BY <2>9, <3>1, <3>2, <3>3 DEF Operator, DispatchPrompts, Collect, CompleteWorker,
         CompleteReviewer, SetPolicy, StartCreate, StartFinalize, StartCleanup,
         AddWorktreeFails, RegisterWorktrees, FinalizeWrite
  <2> QED BY <1>1, <2>7, <2>8, <2>9 DEF Next
<1>2. Typed /\ [Next]_vars => [Kept]_vars BY <1>1
<1>3. Typed /\ [Next]_vars => Typed' BY TypedStep
<1>4. Init => Typed BY InitTyped
<1> QED BY <1>2, <1>3, <1>4, PTL DEF Spec, WorkKept
-----------------------------------------------------------------------------
(* The order of the writes: create and finalize, cut short or repeated.    *)

CreateInv ==
  /\ files.registry => \A w \in Worker : tree[w].branch
  /\ op.kind = "create" =>
       /\ op.todo \in {<<"worker-b">>, << >>} => tree["worker-a"].branch
       /\ op.todo = << >> => tree["worker-b"].branch

LEMMA DifferentLefts ==
  /\ WorkerOrder # <<"worker-b">> /\ WorkerOrder # << >> /\ <<"worker-b">> # << >>
  /\ FinalizeWrites # <<"board", "worker-a", "worker-b">>
  /\ FinalizeWrites # <<"worker-a", "worker-b">>
  /\ FinalizeWrites # <<"worker-b">>
  /\ <<"board", "worker-a", "worker-b">> # <<"worker-a", "worker-b">>
  /\ <<"board", "worker-a", "worker-b">> # <<"worker-b">>
  /\ <<"worker-a", "worker-b">> # <<"worker-b">>
  BY DEF WorkerOrder, FinalizeWrites

(* No step takes a branch away, or a registry, and one alone makes it. *)
LEMMA BranchesStay ==
  ASSUME Typed, [Next]_vars
  PROVE  /\ \A w \in Worker : tree[w].branch => tree'[w].branch
         /\ files.registry => files'.registry
         /\ files'.registry => files.registry \/ RegisterWorktrees
<1>1. tree \in [Worker -> Tree] /\ files \in Files /\ OpTyped BY TypeParts DEF Typed
<1> DEFINE Trees == \A w \in Worker : tree[w].branch => tree'[w].branch
           Registry == /\ files.registry => files'.registry
                       /\ files'.registry => files.registry \/ RegisterWorktrees
<1>2. UNCHANGED tree => Trees OBVIOUS
<1>3. UNCHANGED files => Registry OBVIOUS
<1>5. CASE StartCommand
  BY <1>2, <1>3, <1>5 DEF StartCommand, StartPipeline, StartWorkers, StartExecWorker,
     StartExecReviewer
<1>6. CASE CommandStep
  <2>1. Trees
    BY <1>2, <1>6 DEF CommandStep, PipelinePrompts, BeginWorkers, StartWorker,
       RefuseWorker, EndWorker, JoinWorkers, PipelineCollect, StartReviewer,
       RefuseReviewer, EndReviewer, EndPipeline
  <2>2. CASE PipelinePrompts \/ PipelineCollect
    BY <1>1, <2>1, <2>2 DEF PipelinePrompts, PipelineCollect, NewPacket, Files
  <2>3. ASSUME NEW w \in Worker, StartWorker(w) PROVE Registry
    BY <1>1, <2>3 DEF StartWorker, Files
  <2>4. ASSUME NEW w \in Worker, NEW ok \in BOOLEAN, EndWorker(w, ok) PROVE Registry
    <3>1. files' = [files EXCEPT !.reports = files.reports \/ tree[w].draft]
      BY <2>4 DEF EndWorker
    <3> QED BY <1>1, <3>1 DEF Files
  <2>5. CASE UNCHANGED files BY <1>3, <2>1, <2>5
  <2> QED
    BY <1>6, <2>1, <2>2, <2>3, <2>4, <2>5 DEF CommandStep, BeginWorkers, RefuseWorker,
       JoinWorkers, StartReviewer, RefuseReviewer, EndReviewer, EndPipeline
<1>7. CASE Agent
  <2>1. Registry
    BY <1>1, <1>3, <1>7 DEF Agent, EditFile, CommitWork, WriteReport, WriteReview, Files
  <2>2. ASSUME NEW w \in Worker, EditFile(w) PROVE Trees
    <3>1. PICK e \in Change[w] : tree' = [tree EXCEPT ![w].edits = @ \cup {e}]
      BY <2>2 DEF EditFile
    <3> QED BY <1>1, <3>1 DEF Tree
  <2>3. ASSUME NEW w \in Worker, CommitWork(w) \/ WriteReport(w) PROVE Trees
    BY <1>1, <2>3 DEF CommitWork, WriteReport, Tree
  <2>4. CASE UNCHANGED tree BY <1>2, <2>1, <2>4
  <2> QED BY <1>7, <2>1, <2>2, <2>3, <2>4 DEF Agent, WriteReview
<1>8. CASE Operator
  <2>1. Registry
    <3>1. CASE DispatchPrompts \/ Collect \/ CompleteWorker \/ RegisterWorktrees
      BY <1>1, <3>1
         DEF DispatchPrompts, Collect, NewPacket, CompleteWorker, RegisterWorktrees, Files
    <3>2. ASSUME NEW d \in Decision, CompleteReviewer(d) PROVE Registry
      BY <1>1, <3>2 DEF CompleteReviewer, Files
    <3>3. CASE UNCHANGED files BY <1>3, <3>3
    <3> QED
      BY <1>8, <3>1, <3>2, <3>3 DEF Operator, SetPolicy, StartCreate, StartFinalize,
         StartCleanup, AddWorktree, AddWorktreeFails, FinalizeWrite, RemoveWorktree
  <2>2. CASE AddWorktree
    <3>1. Head(op.todo) \in Worker BY <1>1, <2>2, LeftTails DEF AddWorktree, OpTyped
    <3> QED BY <1>1, <2>1, <2>2, <3>1 DEF AddWorktree, Tree
  <2>3. CASE RemoveWorktree
    <3>1. Head(op.todo) \in Worker BY <1>1, <2>3, LeftTails DEF RemoveWorktree, OpTyped
    <3> QED BY <1>1, <1>2, <2>1, <2>3, <3>1 DEF RemoveWorktree, Tree
  <2>4. CASE UNCHANGED tree BY <1>2, <2>1, <2>4
  <2> QED
    BY <1>8, <2>2, <2>3, <2>4 DEF Operator, DispatchPrompts, Collect, CompleteWorker,
       CompleteReviewer, SetPolicy, StartCreate, StartFinalize, StartCleanup,
       AddWorktreeFails, RegisterWorktrees, FinalizeWrite
<1>9. CASE CrashCommand \/ CrashOp \/ UNCHANGED vars
  BY <1>2, <1>3, <1>9 DEF CrashCommand, CrashOp, vars
<1> QED BY <1>5, <1>6, <1>7, <1>8, <1>9 DEF Next

(* Only the short commands move op and status. *)
LEMMA OpSteps ==
  ASSUME [Next]_vars
  PROVE  \/ UNCHANGED <<op, status>>
         \/ op' = NoOp /\ UNCHANGED status
         \/ StartCreate \/ AddWorktree \/ StartFinalize \/ FinalizeWrite
         \/ StartCleanup \/ RemoveWorktree
<1>1. CASE StartCommand \/ CommandStep \/ Agent
  BY <1>1 DEF StartCommand, StartPipeline, StartWorkers, StartExecWorker,
     StartExecReviewer, CommandStep, PipelinePrompts, BeginWorkers, StartWorker,
     RefuseWorker, EndWorker, JoinWorkers, PipelineCollect, StartReviewer,
     RefuseReviewer, EndReviewer, EndPipeline, Agent, EditFile, CommitWork, WriteReport,
     WriteReview
<1>2. CASE Operator
  BY <1>2 DEF Operator, DispatchPrompts, Collect, CompleteWorker, CompleteReviewer,
     SetPolicy, AddWorktreeFails, RegisterWorktrees
<1>3. CASE CrashCommand \/ CrashOp \/ UNCHANGED vars
  BY <1>3 DEF CrashCommand, CrashOp, vars
<1> QED BY <1>1, <1>2, <1>3 DEF Next

(* What op is after each of its steps. *)
LEMMA OpAfterStep ==
  ASSUME Typed
  PROVE  /\ AddWorktree => op'.kind = op.kind /\ op'.todo = Tail(op.todo)
         /\ FinalizeWrite \/ RemoveWorktree =>
              \/ op' = NoOp
              \/ op'.kind = op.kind /\ op'.todo = Tail(op.todo)
<1> DEFINE Left == CreateLeft \cup FinalizeLeft \cup CleanupLeft
           OpAfter == [op EXCEPT !.todo = Tail(op.todo)]
<1>1. op \in [kind : Kinds, todo : Left] BY DEF Typed, OpTyped
<1> HIDE DEF Left
<1>2. OpAfter.kind = op.kind /\ OpAfter.todo = Tail(op.todo) BY <1>1
<1>3. AddWorktree => op' = OpAfter BY DEF AddWorktree
<1>4. FinalizeWrite \/ RemoveWorktree => op' = NoOp \/ op' = OpAfter
  BY DEF FinalizeWrite, RemoveWorktree
<1> HIDE DEF OpAfter
<1> QED BY <1>2, <1>3, <1>4

LEMMA CreateStep ==
  ASSUME Typed, CreateInv, [Next]_vars
  PROVE  CreateInv'
<1>1. tree \in [Worker -> Tree] /\ OpTyped BY TypeParts DEF Typed
<1>2. files'.registry => \A w \in Worker : tree'[w].branch
  <2>1. CASE files.registry BY <2>1, BranchesStay DEF CreateInv
  <2>2. CASE RegisterWorktrees
    BY <2>2, BranchesStay DEF CreateInv, RegisterWorktrees, Worker
  <2> QED BY <2>1, <2>2, BranchesStay
<1>3. "worker-a" \in Worker /\ "worker-b" \in Worker BY DEF Worker
<1>4. op'.kind = "create" =>
       /\ op'.todo \in {<<"worker-b">>, << >>} => tree'["worker-a"].branch
       /\ op'.todo = << >> => tree'["worker-b"].branch
  <2>1. CASE op' = op BY <1>3, <2>1, BranchesStay DEF CreateInv
  <2>2. CASE op' = NoOp BY <2>2 DEF NoOp
  <2>3. CASE StartCreate BY <2>3, DifferentLefts DEF StartCreate
  <2>4. CASE AddWorktree
    <3>1. op.todo \in {WorkerOrder, <<"worker-b">>}
      BY <1>1, <2>4 DEF AddWorktree, OpTyped, CreateLeft
    <3>2. op'.todo = Tail(op.todo) BY <2>4, OpAfterStep
    <3>3. CASE op.todo = WorkerOrder
      <4>1. Head(op.todo) = "worker-a" /\ Tail(op.todo) = <<"worker-b">>
        BY <3>3 DEF WorkerOrder
      <4>2. tree'["worker-a"].branch BY <1>1, <1>3, <2>4, <4>1 DEF AddWorktree, Tree
      <4> QED BY <3>2, <4>1, <4>2, DifferentLefts
    <3>4. CASE op.todo = <<"worker-b">>
      <4>1. Head(op.todo) = "worker-b" /\ Tail(op.todo) = << >> BY <3>4
      <4>2. tree'["worker-b"].branch BY <1>1, <1>3, <2>4, <4>1 DEF AddWorktree, Tree
      <4>3. tree["worker-a"].branch BY <2>4, <3>4 DEF AddWorktree, CreateInv
      <4> QED BY <1>3, <4>2, <4>3, BranchesStay
    <3> QED BY <3>1, <3>3, <3>4
  <2>5. CASE StartFinalize \/ StartCleanup BY <2>5 DEF StartFinalize, StartCleanup
  <2>6. CASE FinalizeWrite \/ RemoveWorktree
    <3>1. op.kind # "create" BY <2>6 DEF FinalizeWrite, RemoveWorktree
    <3>2. op' = NoOp \/ op'.kind = op.kind BY <2>6, OpAfterStep
    <3> QED BY <2>2, <3>1, <3>2
  <2> QED BY <2>1, <2>2, <2>3, <2>4, <2>5, <2>6, OpSteps
<1> QED BY <1>2, <1>4 DEF CreateInv

FinalizeInv ==
  /\ DoneImpliesCompleted
  /\ op.kind = "finalize" =>
       /\ op.todo # FinalizeWrites => status.run = "completed"
       /\ op.todo \in {<<"worker-a", "worker-b">>, <<"worker-b">>}
            => status.board = "completed"

LEMMA FinalizeStep ==
  ASSUME Typed, FinalizeInv, [Next]_vars
  PROVE  FinalizeInv'
<1>1. status \in Statuses /\ OpTyped BY TypeParts DEF Typed
<1>2. CASE UNCHANGED <<op, status>> BY <1>2 DEF FinalizeInv, DoneImpliesCompleted
<1>3. CASE op' = NoOp /\ UNCHANGED status
  BY <1>3 DEF FinalizeInv, DoneImpliesCompleted, NoOp
<1>4. CASE StartCreate \/ StartCleanup
  BY <1>4 DEF FinalizeInv, DoneImpliesCompleted, StartCreate, StartCleanup
<1>5. CASE AddWorktree \/ RemoveWorktree
  BY <1>5, OpAfterStep
     DEF FinalizeInv, DoneImpliesCompleted, AddWorktree, RemoveWorktree, NoOp
<1>6. CASE StartFinalize
  BY <1>6, DifferentLefts DEF FinalizeInv, DoneImpliesCompleted, StartFinalize
<1>7. CASE FinalizeWrite
  <2>1. op.kind = "finalize" /\ op.todo \in FinalizeLeft
    BY <1>1, <1>7 DEF FinalizeWrite, OpTyped
  <2>2. op' = NoOp \/ op'.todo = Tail(op.todo) BY <1>7, OpAfterStep
  <2>3. NoOp.kind = "none" BY DEF NoOp
  <2>4. CASE op.todo = FinalizeWrites
    <3>1. Head(op.todo) = "run" /\ Tail(op.todo) = <<"board", "worker-a", "worker-b">>
      BY <2>4 DEF FinalizeWrites
    <3>2. status' = [status EXCEPT !.run = "completed"]
      BY <1>7, <3>1 DEF FinalizeWrite, Worker
    <3>3. status'.run = "completed" /\ status'.board = status.board
          /\ status'.task = status.task
      BY <1>1, <3>2 DEF Statuses
    <3> QED BY <2>2, <2>3, <3>1, <3>3, DifferentLefts
            DEF FinalizeInv, DoneImpliesCompleted
  <2>5. CASE op.todo = <<"board", "worker-a", "worker-b">>
    <3>1. Head(op.todo) = "board" /\ Tail(op.todo) = <<"worker-a", "worker-b">>
      BY <2>5
    <3>2. status' = [status EXCEPT !.board = "completed"]
      BY <1>7, <3>1 DEF FinalizeWrite, Worker
    <3>3. status'.board = "completed" /\ status'.run = status.run
          /\ status'.task = status.task
      BY <1>1, <3>2 DEF Statuses
    <3>4. status.run = "completed" BY <2>1, <2>5, DifferentLefts DEF FinalizeInv
    <3> QED BY <2>2, <2>3, <3>1, <3>3, <3>4 DEF FinalizeInv, DoneImpliesCompleted
  <2>6. CASE op.todo \in {<<"worker-a", "worker-b">>, <<"worker-b">>}
    <3>1. Head(op.todo) \in Worker BY <2>6 DEF Worker
    <3>2. status' = [status EXCEPT !.task[Head(op.todo)] = "done"]
      BY <1>7, <3>1 DEF FinalizeWrite, Worker
    <3>3. status'.board = status.board /\ status'.run = status.run
      BY <1>1, <3>2 DEF Statuses
    <3>4. status.board = "completed" /\ status.run = "completed"
      BY <2>1, <2>6, DifferentLefts DEF FinalizeInv
    <3> QED BY <3>3, <3>4 DEF FinalizeInv, DoneImpliesCompleted
  <2> QED BY <2>1, <2>4, <2>5, <2>6 DEF FinalizeLeft
<1> QED BY <1>2, <1>3, <1>4, <1>5, <1>6, <1>7, OpSteps

(* finalize can be killed between any two of its writes and repeated: what *)
(* it has written never contradicts itself (finalize.js).                  *)
THEOREM FinalizeConsistent == Spec => []DoneImpliesCompleted
<1>1. Init => Typed /\ FinalizeInv
  <2>1. Init => FinalizeInv BY DEF Init, FinalizeInv, DoneImpliesCompleted, NoOp
  <2> QED BY <2>1, InitTyped
<1>2. Typed /\ FinalizeInv /\ [Next]_vars => Typed' /\ FinalizeInv'
  BY TypedStep, FinalizeStep
<1>3. FinalizeInv => DoneImpliesCompleted BY DEF FinalizeInv
<1> QED BY <1>1, <1>2, <1>3, PTL DEF Spec

-----------------------------------------------------------------------------
(* The dispatch command and its agents. *)

Before == {"none", "prompts", "workers"}

InScope(w) ==
  \A e \in tree[w].edits :
    /\ \E p \in scope[w].allowed : MatchesPattern(e.path, p)
    /\ \A p \in scope[w].forbidden : ~MatchesPattern(e.path, p)

(* A worker is started in a registered worktree with a list of files, and  *)
(* no agent touches the worktree of a worker that has passed.              *)
WorkerInv ==
  \A w \in Worker :
    /\ cmd.step \in Before => cmd.ran[w] \in {"out", "todo"}
    /\ cmd.ran[w] \in {"running", "PASS"} =>
         files.registry /\ scope[w].allowed # {}
    /\ cmd.ran[w] = "PASS" => InScope(w)

ParallelInv ==
  cmd.parallel /\ cmd.step \notin Before =>
    ~AllowedOverlap(scope["worker-a"], scope["worker-b"])

(* What a pipeline has behind it at each of its steps. *)
PipelineInv ==
  /\ cmd.kind # "none" => outcome = "none"
  /\ cmd.kind = "pipeline" =>
       /\ \A w \in Worker : cmd.ran[w] # "out"
       /\ cmd.step \in {"collect", "review", "reviewing", "deciding"} =>
            \A w \in Worker : cmd.ran[w] = "PASS"
       /\ cmd.step \in {"review", "reviewing", "deciding"} => files.covers = Worker

DispatchInv == WorkerInv /\ ParallelInv /\ PipelineInv

LEMMA CommandFields ==
  ASSUME NEW c \in Commands
  PROVE  /\ \A s : LET d == [c EXCEPT !.step = s]
                   IN  /\ d.kind = c.kind /\ d.parallel = c.parallel
                       /\ d.step = s /\ d.ran = c.ran
         /\ \A w \in Worker : \A r :
              LET d == [c EXCEPT !.ran[w] = r]
              IN  /\ d.kind = c.kind /\ d.parallel = c.parallel /\ d.step = c.step
                  /\ d.ran[w] = r
                  /\ \A v \in Worker \ {w} : d.ran[v] = c.ran[v]
  BY DEF Commands

LEMMA NoCommandFields ==
  /\ NoCommand.kind = "none" /\ NoCommand.step = "none" /\ ~NoCommand.parallel
  /\ \A w \in Worker : NoCommand.ran[w] = "out"
  BY DEF NoCommand

LEMMA NoCommandDispatch ==
  ASSUME cmd' = NoCommand PROVE DispatchInv'
  BY NoCommandFields DEF DispatchInv, WorkerInv, ParallelInv, PipelineInv, Before

LEMMA StartDispatch ==
  ASSUME Typed, StartCommand PROVE DispatchInv'
<1>1. ASSUME NEW parallel \in BOOLEAN, StartPipeline(parallel) PROVE DispatchInv'
  <2>1. CASE DispatchReady
    BY <1>1, <2>1 DEF StartPipeline, DispatchInv, WorkerInv, ParallelInv, PipelineInv, Before
  <2>2. CASE ~DispatchReady
    BY <1>1, <2>2, NoCommandDispatch DEF StartPipeline, EndCommand
  <2> QED BY <2>1, <2>2
<1>2. ASSUME NEW parallel \in BOOLEAN, StartWorkers(parallel) PROVE DispatchInv'
  BY <1>2 DEF StartWorkers, DispatchInv, WorkerInv, ParallelInv, PipelineInv, Before
<1>3. ASSUME NEW w \in Worker, StartExecWorker(w) PROVE DispatchInv'
  BY <1>3 DEF StartExecWorker, DispatchInv, WorkerInv, ParallelInv, PipelineInv, Before
<1>4. CASE StartExecReviewer
  <2>1. cmd' = [NoCommand EXCEPT !.kind = "exec", !.step = "review"] /\ outcome' = "none"
    BY <1>4 DEF StartExecReviewer
  <2>2. /\ cmd'.kind = "exec" /\ cmd'.step = "review" /\ ~cmd'.parallel
        /\ \A w \in Worker : cmd'.ran[w] = "out"
    BY <2>1 DEF NoCommand
  <2> QED BY <2>1, <2>2 DEF DispatchInv, WorkerInv, ParallelInv, PipelineInv
<1> QED BY <1>1, <1>2, <1>3, <1>4 DEF StartCommand

(* findScopeWarnings says nothing only of a worktree that is in scope. *)
LEMMA CleanInScope ==
  ASSUME NEW w \in Worker, ScopeClean(tree[w].edits, scope[w]), scope[w].allowed # {}
  PROVE  InScope(w)
<1>1. \A e \in tree[w].edits : e.path \in ChangedFiles(tree[w].edits)
  BY DEF ChangedFiles, StatusFiles
<1>2. ASSUME NEW e \in tree[w].edits
      PROVE  /\ \E p \in scope[w].allowed : MatchesPattern(e.path, p)
             /\ \A p \in scope[w].forbidden : ~MatchesPattern(e.path, p)
  <2>1. e.path \notin OutsideAllowed(ChangedFiles(tree[w].edits), scope[w])
    BY DEF ScopeClean
  <2>2. e.path \notin Forbidden(ChangedFiles(tree[w].edits), scope[w])
    BY DEF ScopeClean
  <2> QED BY <1>1, <2>1, <2>2 DEF OutsideAllowed, Forbidden
<1> QED BY <1>2 DEF InScope

LEMMA CommandStepDispatch ==
  ASSUME Typed, DispatchInv, CommandStep
  PROVE  DispatchInv'
<1>1. /\ cmd \in Commands /\ files \in Files /\ tree \in [Worker -> Tree]
  BY TypeParts DEF Typed
<1>2. WorkerInv /\ ParallelInv /\ PipelineInv BY DEF DispatchInv
<1>3. UNCHANGED <<scope, tree>> /\ (\A w : InScope(w)' <=> InScope(w))
  BY DEF CommandStep, PipelinePrompts, BeginWorkers, StartWorker, RefuseWorker,
     EndWorker, JoinWorkers, PipelineCollect, StartReviewer, RefuseReviewer,
     EndReviewer, EndPipeline, InScope
<1>4. CASE PipelinePrompts
  <2>1. files'.registry = files.registry /\ files'.covers = files.covers
        /\ UNCHANGED outcome
    BY <1>1, <1>4 DEF PipelinePrompts, Files
  <2>2. /\ cmd'.step = "workers" /\ cmd.step = "prompts"
        /\ UNCHANGED <<cmd.kind, cmd.parallel, cmd.ran>>
    BY <1>1, <1>4, CommandFields DEF PipelinePrompts
  <2> QED BY <1>2, <1>3, <2>1, <2>2
          DEF DispatchInv, WorkerInv, ParallelInv, PipelineInv, Before
<1>5. CASE BeginWorkers
  <2>1. CASE cmd' = [cmd EXCEPT !.step = "running"] /\ UNCHANGED outcome
    <3>1. /\ cmd'.step = "running" /\ cmd.step = "workers"
          /\ UNCHANGED <<cmd.kind, cmd.parallel, cmd.ran, files>>
      BY <1>1, <1>5, <2>1, CommandFields DEF BeginWorkers
    <3>2. cmd.parallel => ParallelReady
      BY <1>5, <2>1, <3>1, NoCommandFields DEF BeginWorkers, EndCommand
    <3> QED BY <1>2, <1>3, <2>1, <3>1, <3>2
            DEF DispatchInv, WorkerInv, ParallelInv, PipelineInv, Before, ParallelReady
  <2>2. CASE cmd' = NoCommand BY <2>2, NoCommandDispatch
  <2> QED BY <1>5, <2>1, <2>2 DEF BeginWorkers, EndCommand
<1>6. ASSUME NEW w \in Worker, StartWorker(w) PROVE DispatchInv'
  <2>1. /\ files'.registry /\ scope[w].allowed # {} /\ UNCHANGED outcome
        /\ files.registry /\ cmd.step = "running"
    BY <1>1, <1>6 DEF StartWorker, WorkerPreview, Files, InTurn
  <2>2. /\ UNCHANGED <<cmd.kind, cmd.parallel, cmd.step>>
        /\ cmd'.ran[w] = "running"
        /\ \A v \in Worker \ {w} : cmd'.ran[v] = cmd.ran[v]
    <3>1. cmd' = [cmd EXCEPT !.ran[w] = "running"] BY <1>6 DEF StartWorker
    <3> QED BY <1>1, <3>1, CommandFields
  <2> QED BY <1>2, <1>3, <2>1, <2>2
          DEF DispatchInv, WorkerInv, ParallelInv, PipelineInv, Before
<1>7. ASSUME NEW w \in Worker, RefuseWorker(w) PROVE DispatchInv'
  <2>1. UNCHANGED <<files, outcome>> /\ cmd.step = "running"
    BY <1>7 DEF RefuseWorker, InTurn
  <2>2. /\ UNCHANGED <<cmd.kind, cmd.parallel, cmd.step>>
        /\ cmd'.ran[w] = "FAIL"
        /\ \A v \in Worker \ {w} : cmd'.ran[v] = cmd.ran[v]
    BY <1>1, <1>7, CommandFields DEF RefuseWorker
  <2> QED BY <1>2, <1>3, <2>1, <2>2
          DEF DispatchInv, WorkerInv, ParallelInv, PipelineInv, Before
<1>8. ASSUME NEW w \in Worker, NEW ok \in BOOLEAN, EndWorker(w, ok) PROVE DispatchInv'
  <2>0. files' = [files EXCEPT !.reports = files.reports \/ tree[w].draft]
    BY <1>8 DEF EndWorker
  <2>1. /\ files'.registry = files.registry /\ files'.covers = files.covers
        /\ UNCHANGED outcome
    BY <1>1, <1>8, <2>0 DEF EndWorker, Files
  <2>2. /\ UNCHANGED <<cmd.kind, cmd.parallel, cmd.step>>
        /\ cmd.ran[w] = "running"
        /\ cmd'.ran[w] = IF SessionPasses(w, ok) THEN "PASS" ELSE "FAIL"
        /\ \A v \in Worker \ {w} : cmd'.ran[v] = cmd.ran[v]
    BY <1>1, <1>8, CommandFields DEF EndWorker
  <2>3. cmd.step \notin Before /\ files.registry /\ scope[w].allowed # {}
    BY <1>2, <2>2 DEF WorkerInv
  <2>4. cmd'.ran[w] = "PASS" => InScope(w)
    BY <2>2, <2>3, CleanInScope DEF SessionPasses
  <2>5. cmd.kind = "pipeline" =>
          cmd.step \notin {"collect", "review", "reviewing", "deciding"}
    BY <1>2, <2>2 DEF PipelineInv
  <2>6. WorkerInv' BY <1>2, <1>3, <2>1, <2>2, <2>3, <2>4 DEF WorkerInv
  <2>7. ParallelInv' BY <1>2, <1>3, <2>2 DEF ParallelInv
  <2>8. PipelineInv' BY <1>2, <2>1, <2>2, <2>5 DEF PipelineInv
  <2> QED BY <2>6, <2>7, <2>8 DEF DispatchInv
<1>9. CASE JoinWorkers
  <2>1. CASE cmd' = NoCommand BY <2>1, NoCommandDispatch
  <2>2. CASE WorkersPassed /\ cmd.kind = "pipeline"
    <3>1. /\ cmd'.step = "collect" /\ cmd.step = "running"
          /\ UNCHANGED <<cmd.kind, cmd.parallel, cmd.ran, files, outcome>>
      <4>1. cmd' = [cmd EXCEPT !.step = "collect"] /\ UNCHANGED <<files, outcome>>
        BY <1>9, <2>2 DEF JoinWorkers
      <4>2. cmd.step = "running" BY <1>9 DEF JoinWorkers
      <4> QED BY <1>1, <4>1, <4>2, CommandFields
    <3>2. \A w \in Worker : cmd.ran[w] = "PASS"
      BY <1>2, <2>2 DEF PipelineInv, WorkersPassed
    <3> QED BY <1>2, <1>3, <3>1, <3>2
            DEF DispatchInv, WorkerInv, ParallelInv, PipelineInv, Before
  <2> QED BY <1>9, <2>1, <2>2 DEF JoinWorkers, EndCommand
<1>10. CASE PipelineCollect
  <2>1. files'.registry = files.registry /\ files'.covers = Settled /\ UNCHANGED outcome
    BY <1>1, <1>10 DEF PipelineCollect, NewPacket, Files
  <2>2. /\ cmd'.step = "review" /\ cmd.step = "collect"
        /\ UNCHANGED <<cmd.kind, cmd.parallel, cmd.ran>>
    BY <1>1, <1>10, CommandFields DEF PipelineCollect
  <2>3. cmd.kind = "pipeline" => Settled = Worker
    BY <1>2, <2>2 DEF PipelineInv, Settled
  <2> QED BY <1>2, <1>3, <2>1, <2>2, <2>3
          DEF DispatchInv, WorkerInv, ParallelInv, PipelineInv, Before
<1>11. CASE StartReviewer
  <2>1. /\ cmd'.step = "reviewing" /\ cmd.step = "review"
        /\ UNCHANGED <<cmd.kind, cmd.parallel, cmd.ran, files, outcome>>
    BY <1>1, <1>11, CommandFields DEF StartReviewer
  <2> QED BY <1>2, <1>3, <2>1
          DEF DispatchInv, WorkerInv, ParallelInv, PipelineInv, Before
<1>12. ASSUME NEW ok \in BOOLEAN, EndReviewer(ok) PROVE DispatchInv'
  <2>1. CASE cmd.kind = "pipeline" /\ ReviewerVerdict(ok) = "PASS"
    <3>1. cmd' = [cmd EXCEPT !.step = "deciding"] /\ UNCHANGED <<files, outcome>>
      BY <1>12, <2>1 DEF EndReviewer
    <3>2. /\ cmd'.step = "deciding" /\ cmd.step = "reviewing"
          /\ UNCHANGED <<cmd.kind, cmd.parallel, cmd.ran>>
      BY <1>1, <1>12, <3>1, CommandFields DEF EndReviewer
    <3> QED BY <1>2, <1>3, <3>1, <3>2
            DEF DispatchInv, WorkerInv, ParallelInv, PipelineInv, Before
  <2>2. CASE cmd' = NoCommand BY <2>2, NoCommandDispatch
  <2> QED BY <1>12, <2>1, <2>2 DEF EndReviewer, EndCommand
<1>13. CASE RefuseReviewer \/ EndPipeline
  BY <1>13, NoCommandDispatch DEF RefuseReviewer, EndPipeline, EndCommand
<1> QED BY <1>4, <1>5, <1>6, <1>7, <1>8, <1>9, <1>10, <1>11, <1>12, <1>13
        DEF CommandStep

(* The other actors leave cmd alone, and the edits of a worker whose agent *)
(* does not run.                                                           *)
LEMMA ElsewhereFrame ==
  ASSUME Typed, Agent \/ Operator \/ CrashOp \/ UNCHANGED vars
  PROVE  /\ UNCHANGED <<scope, cmd, outcome>>
         /\ files'.covers \in {files.covers, Settled}
         /\ \A w \in Worker : cmd.ran[w] # "running" =>
              tree'[w].edits \subseteq tree[w].edits
<1> DEFINE Covers == files'.covers \in {files.covers, Settled}
           Edits == \A w \in Worker : cmd.ran[w] # "running" =>
                      tree'[w].edits \subseteq tree[w].edits
<1>1. tree \in [Worker -> Tree] /\ files \in Files /\ OpTyped BY TypeParts DEF Typed
<1>2. UNCHANGED <<scope, cmd, outcome>>
  BY DEF Agent, EditFile, CommitWork, WriteReport, WriteReview, Operator, DispatchPrompts,
     Collect, CompleteWorker, CompleteReviewer, SetPolicy, StartCreate, StartFinalize,
     StartCleanup, AddWorktree, AddWorktreeFails, RegisterWorktrees, FinalizeWrite,
     RemoveWorktree, CrashOp, vars
<1>3. UNCHANGED files => Covers OBVIOUS
<1>4. UNCHANGED tree => Edits OBVIOUS
<1>5. ASSUME NEW w \in Worker, EditFile(w) \/ CommitWork(w) PROVE Covers /\ Edits
  <2>1. UNCHANGED files /\ cmd.ran[w] = "running" BY <1>5 DEF EditFile, CommitWork
  <2>2. \A v \in Worker \ {w} : tree'[v] = tree[v]
    BY <1>1, <1>5 DEF EditFile, CommitWork
  <2> QED BY <1>3, <2>1, <2>2
<1>6. ASSUME NEW w \in Worker, WriteReport(w) PROVE Covers /\ Edits
  <2>1. \A v \in Worker : tree'[v].edits = tree[v].edits
    BY <1>1, <1>6 DEF WriteReport, Tree
  <2> QED BY <1>3, <1>6, <2>1 DEF WriteReport
<1>7. ASSUME NEW d \in Decision, WriteReview(d) \/ CompleteReviewer(d)
      PROVE  Covers /\ Edits
  BY <1>1, <1>4, <1>7 DEF WriteReview, CompleteReviewer, Files
<1>8. ASSUME Agent PROVE Covers /\ Edits
  BY <1>5, <1>6, <1>7, <1>8 DEF Agent
<1>9. ASSUME Operator PROVE Covers /\ Edits
  <2>1. CASE DispatchPrompts \/ Collect \/ CompleteWorker \/ RegisterWorktrees
    BY <1>1, <1>4, <2>1
       DEF DispatchPrompts, Collect, NewPacket, CompleteWorker, RegisterWorktrees, Files
  <2>2. CASE AddWorktree
    <3>1. Head(op.todo) \in Worker BY <1>1, <2>2, LeftTails DEF AddWorktree, OpTyped
    <3>2. \A v \in Worker : tree'[v].edits = tree[v].edits
      BY <1>1, <2>2, <3>1 DEF AddWorktree, Tree
    <3> QED BY <1>3, <2>2, <3>2 DEF AddWorktree
  <2>3. CASE RemoveWorktree
    <3> DEFINE w == Head(op.todo)
    <3>1. w \in Worker BY <1>1, <2>3, LeftTails DEF RemoveWorktree, OpTyped
    <3>2. UNCHANGED files BY <2>3 DEF RemoveWorktree
    <3>3. \/ UNCHANGED tree
          \/ tree' = [tree EXCEPT ![w].present = FALSE, ![w].draft = FALSE,
                                  ![w].edits = tree[w].edits \ Uncommitted(w)]
      BY <1>1, <2>3, <3>1 DEF RemoveWorktree
    <3> HIDE DEF w
    <3>4. Edits BY <1>1, <1>4, <3>1, <3>3 DEF Tree
    <3> QED BY <1>3, <3>2, <3>4
  <2>4. CASE UNCHANGED <<files, tree>> BY <1>3, <1>4, <2>4
  <2> QED
    BY <1>7, <1>9, <2>1, <2>2, <2>3, <2>4 DEF Operator, SetPolicy, StartCreate,
       StartFinalize, StartCleanup, AddWorktreeFails, FinalizeWrite
<1>10. CrashOp \/ UNCHANGED vars => Covers /\ Edits
  BY <1>3, <1>4 DEF CrashOp, vars
<1> QED BY <1>2, <1>8, <1>9, <1>10

LEMMA DispatchStep ==
  ASSUME Typed, DispatchInv, [Next]_vars
  PROVE  DispatchInv'
<1>1. CASE StartCommand BY <1>1, StartDispatch
<1>2. CASE CommandStep BY <1>2, CommandStepDispatch
<1>3. CASE CrashCommand BY <1>3, NoCommandDispatch DEF CrashCommand, EndCommand
<1>4. CASE Agent \/ Operator \/ CrashOp \/ UNCHANGED vars
  <2>1. WorkerInv /\ ParallelInv /\ PipelineInv BY DEF DispatchInv
  <2>2. /\ UNCHANGED <<scope, cmd, outcome>>
        /\ files'.covers \in {files.covers, Settled}
        /\ \A w \in Worker : cmd.ran[w] # "running" =>
             tree'[w].edits \subseteq tree[w].edits
    BY <1>4, ElsewhereFrame
  <2>3. files.registry => files'.registry BY BranchesStay
  <2>4. \A w \in Worker : cmd.ran[w] = "PASS" /\ InScope(w) => InScope(w)'
    BY <2>2 DEF InScope
  <2>5. WorkerInv' BY <2>1, <2>2, <2>3, <2>4 DEF WorkerInv
  <2>6. ParallelInv' BY <2>1, <2>2 DEF ParallelInv
  <2>7. (\A w \in Worker : cmd.ran[w] = "PASS") => Settled = Worker BY DEF Settled
  <2>8. PipelineInv' BY <2>1, <2>2, <2>7 DEF PipelineInv
  <2> QED BY <2>5, <2>6, <2>8 DEF DispatchInv
<1> QED BY <1>1, <1>2, <1>3, <1>4 DEF Next

Inv == Typed /\ CreateInv /\ DispatchInv

LEMMA InitInv == Init => Inv
<1> SUFFICES ASSUME Init PROVE Inv OBVIOUS
<1>1. Typed BY InitTyped
<1>2. CreateInv BY DEF Init, CreateInv, NoOp
<1>3. DispatchInv
  BY NoCommandFields DEF Init, DispatchInv, WorkerInv, ParallelInv, PipelineInv, Before
<1> QED BY <1>1, <1>2, <1>3 DEF Inv

LEMMA StepInv == Inv /\ [Next]_vars => Inv'
  BY TypedStep, CreateStep, DispatchStep DEF Inv

(* No worker that counts as passed has written a file outside its scope:   *)
(* not in an earlier session, not committed, not while others look.  What  *)
(* git shows of a rename is its new name, so a file may have been moved    *)
(* into the scope from outside (exec.js, scope-check.js).                  *)
THEOREM PassedWithinScope == Spec => []PassWithinScope
<1>1. Inv => PassWithinScope
  BY DEF Inv, DispatchInv, WorkerInv, InScope, PassWithinScope
<1> QED BY <1>1, InitInv, StepInv, PTL DEF Spec

(* Workers passed in parallel have written no file in common, by the       *)
(* preflight's look at their patterns alone (workers.js, scope-check.js);  *)
(* renames count at their new names, as in PassWithinScope.                *)
THEOREM ParallelWorkDisjoint == Spec => []ParallelDisjoint
<1>1. Inv => ParallelDisjoint
  <2> SUFFICES ASSUME Inv, cmd.parallel, \A w \in Worker : cmd.ran[w] = "PASS",
                      NEW e \in tree["worker-a"].edits, NEW f \in tree["worker-b"].edits,
                      e.path = f.path
               PROVE  FALSE
    BY DEF ParallelDisjoint
  <2>1. "worker-a" \in Worker /\ "worker-b" \in Worker BY DEF Worker
  <2>2. TypeOK /\ WorkerInv /\ ParallelInv BY DEF Inv, Typed, DispatchInv
  <2>3. cmd.step \notin Before BY <2>1, <2>2 DEF WorkerInv
  <2>4. InScope("worker-a") /\ InScope("worker-b") BY <2>1, <2>2 DEF WorkerInv
  <2>5. PICK p \in scope["worker-a"].allowed : MatchesPattern(e.path, p)
    BY <2>4 DEF InScope
  <2>6. PICK q \in scope["worker-b"].allowed : MatchesPattern(f.path, q)
    BY <2>4 DEF InScope
  <2>7. e \in Edit(Path) BY <2>1, <2>2 DEF TypeOK
  <2>8. e.path \in Seq(STRING) \ {<< >>}
    BY <2>7, CoordinatorAssumption DEF Edit
  <2>9. scope["worker-a"] \in Scope /\ scope["worker-b"] \in Scope
    BY <2>1, <2>2, CoordinatorAssumption DEF TypeOK
  <2>10. p \in Pattern /\ q \in Pattern BY <2>9 DEF Scope
  <2>11. MatchesPattern(e.path, q) BY <2>6
  <2>12. PatternsOverlap(p, q) BY <2>5, <2>8, <2>10, <2>11, OverlapSound
  <2>13. AllowedOverlap(scope["worker-a"], scope["worker-b"])
    BY <2>12 DEF AllowedOverlap
  <2> QED BY <2>2, <2>3, <2>13 DEF ParallelInv
<1> QED BY <1>1, InitInv, StepInv, PTL DEF Spec

(* A create that git or a kill cuts short leaves no registry, and without  *)
(* one no agent is started.                                                *)
THEOREM RegistryIsComplete == Spec => []RegistryComplete
<1>1. Inv => RegistryComplete
  BY DEF Inv, CreateInv, DispatchInv, WorkerInv, RegistryComplete
<1> QED BY <1>1, InitInv, StepInv, PTL DEF Spec

(* The verdict of a pipeline rests on both workers, a packet that shows    *)
(* both and a decision that is PASS, whatever else was done meanwhile.     *)
THEOREM PipelineVerdict == Spec => PipelinePasses
<1> DEFINE Earned == cmd.kind = "pipeline" /\ outcome' = "PASS" =>
             /\ \A w \in Worker : cmd.ran[w] = "PASS"
             /\ files.covers = Worker
             /\ files.review = "PASS"
<1>1. ASSUME Inv, Next PROVE Earned
  <2> SUFFICES ASSUME cmd.kind = "pipeline", outcome' = "PASS"
               PROVE  /\ \A w \in Worker : cmd.ran[w] = "PASS"
                      /\ files.covers = Worker /\ files.review = "PASS"
    OBVIOUS
  <2>1. PipelineInv BY <1>1 DEF Inv, DispatchInv
  <2>2. outcome # outcome' BY <2>1 DEF PipelineInv
  <2>3. ~StartCommand
    BY DEF StartCommand, StartPipeline, StartWorkers, StartExecWorker, StartExecReviewer
  <2>4. ~(Agent \/ Operator \/ CrashOp)
    BY <1>1, <2>2, ElsewhereFrame DEF Inv
  <2>5. ~CrashCommand BY DEF CrashCommand, EndCommand
  <2>6. ASSUME NEW ok \in BOOLEAN, EndReviewer(ok) PROVE FALSE
    BY <2>2, <2>6 DEF EndReviewer, EndCommand
  <2>7. EndPipeline
    BY <1>1, <2>2, <2>3, <2>4, <2>5, <2>6 DEF Next, CommandStep, PipelinePrompts,
       BeginWorkers, StartWorker, RefuseWorker, EndWorker, JoinWorkers, PipelineCollect,
       StartReviewer, RefuseReviewer, EndCommand
  <2>8. files.review = "PASS" BY <2>7 DEF EndPipeline, EndCommand
  <2> QED BY <2>1, <2>7, <2>8 DEF EndPipeline, PipelineInv
<1>2. Inv /\ [Next]_vars => [Earned]_vars BY <1>1
<1> QED BY <1>2, InitInv, StepInv, PTL DEF Spec, PipelinePasses
=============================================================================
