------------------------------ MODULE ScopeRules ------------------------------
(***************************************************************************)
(* Which files a task may touch: the file patterns of src/lib/scope-check  *)
(* (coordinator and supervised runs) and the scopes of src/workflow        *)
(* (graph.js, result.js).                                                  *)
(*                                                                         *)
(* A path is a sequence of segments.  A pattern is [root, tree]: tree for  *)
(* "root/**" and for "**" (whose root is empty), else the one path root.   *)
(* A scope is [allowed, forbidden], two sets of patterns.  An edit is what *)
(* git reports of one file: where it was, where it is now and whether the  *)
(* change is committed; from = path unless git shows a rename.             *)
(***************************************************************************)
EXTENDS Sequences, SequencesExt

Pattern == [root : Seq(STRING), tree : BOOLEAN]
Scope == [allowed : SUBSET Pattern, forbidden : SUBSET Pattern]
Edit(Path) == [path : Path, from : Path, committed : BOOLEAN]

(* pathMatchesPattern: "**" alone does not end in "/**", so it is compared *)
(* as a file name and no file of a repository matches it.                  *)
MatchesPattern(path, pattern) ==
  IF pattern.tree
    THEN pattern.root # << >> /\ IsPrefix(pattern.root, path)
    ELSE path = pattern.root

(* pathIsWithinTreePattern, where "**" covers everything. *)
WithinTree(pattern, tree) == tree.tree /\ IsPrefix(tree.root, pattern.root)

PatternsEqual(p, q) == p = q

(* allowedFilePatternsOverlap; an empty entry overlaps nothing. *)
PatternsOverlap(p, q) ==
  /\ p.tree \/ p.root # << >>
  /\ q.tree \/ q.root # << >>
  /\ p = q \/ WithinTree(q, p) \/ WithinTree(p, q)

(* getAllowedFilesOverlap: some entry of the one and some of the other. *)
AllowedOverlap(s, t) ==
  \E p \in s.allowed, q \in t.allowed : PatternsOverlap(p, q)

StatusFiles(edits) == {e.path : e \in {x \in edits : ~x.committed}}

(* parseChangedFile keeps the new name of a rename only, and git diff      *)
(* --name-only prints no other.                                            *)
ChangedFiles(edits) ==
  StatusFiles(edits) \cup {e.path : e \in {x \in edits : x.committed}}

OutsideAllowed(files, scope) ==
  {f \in files : scope.allowed # {} /\ \A p \in scope.allowed : ~MatchesPattern(f, p)}

Forbidden(files, scope) ==
  {f \in files : \E p \in scope.forbidden : MatchesPattern(f, p)}

(* findScopeWarnings has nothing to say. *)
ScopeClean(edits, scope) ==
  /\ OutsideAllowed(ChangedFiles(edits), scope) = {}
  /\ Forbidden(ChangedFiles(edits), scope) = {}

-----------------------------------------------------------------------------
(* The workflow's scopes: a plain file name is a root like any other. *)

(* pathMatchesScope of workflow/result.js. *)
MatchesScope(path, pattern) == IsPrefix(pattern.root, path)

(* scopesOverlap of workflow/graph.js. *)
ScopesOverlap(p, q) == IsPrefix(p.root, q.root) \/ IsPrefix(q.root, p.root)
=============================================================================
