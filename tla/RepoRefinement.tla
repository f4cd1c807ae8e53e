--------------------------- MODULE RepoRefinement ---------------------------
(***************************************************************************)
(* Repo implements History when a single handle works on the repository.   *)
(* The log is the commit objects without the history fields, what is       *)
(* staged is the last complete content of index.json; locks, locals, the   *)
(* store and the torn states of index.json map to nothing.                 *)
(***************************************************************************)
EXTENDS Repo

Log == [c \in DOMAIN commits |->
          [tree |-> commits[c].tree, parent |-> commits[c].parent,
           staged |-> commits[c].loaded]]

H == INSTANCE History WITH log <- Log, staged <- index

(* Every step of every operation is a step of the abstract repository or    *)
(* does not show: crashes and I/O errors at any point of add, remove,       *)
(* patch_fields, commit, branch and checkout included.                      *)
ImplementsHistory == H!Spec
=============================================================================
