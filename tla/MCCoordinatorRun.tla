--------------------------- MODULE MCCoordinatorRun ---------------------------
(***************************************************************************)
(* Values for the constants of CoordinatorRun: a source directory with two *)
(* files and one document.  The first pair of scopes overlaps through a    *)
(* tree pattern only; the second does not overlap.                         *)
(***************************************************************************)
EXTENDS CoordinatorRun

A == <<"src", "a">>
B == <<"src", "b">>
Doc == <<"doc">>

File(path) == [root |-> path, tree |-> FALSE]
Tree(path) == [root |-> path, tree |-> TRUE]

TaskScopes(a, b) ==
  [w \in Worker |-> [allowed |-> IF w = "worker-a" THEN a ELSE b,
                     forbidden |-> {Tree(Doc)}]]

MCPath == {A, B, Doc}
MCScopes == {TaskScopes({Tree(<<"src">>)}, {File(B)}), TaskScopes({File(A)}, {File(B)})}
Write(path) == [path |-> path, from |-> path, committed |-> FALSE]

Rename(from, path) == [path |-> path, from |-> from, committed |-> FALSE]

(* worker-a may write a file that is worker-b's, or move the document to    *)
(* one of its own.                                                         *)
MCChange ==
  [w \in Worker |-> {Write(B)} \cup IF w = "worker-a" THEN {Rename(Doc, A)} ELSE {}]

(* git mv of the document onto a file in scope. *)
MCRename == [w \in Worker |-> {Rename(Doc, B)}]

MCModes == {"safe", "full-authority"}
=============================================================================
