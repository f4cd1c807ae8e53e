------------------------------- MODULE Trees -------------------------------
(***************************************************************************)
(* The tree algebra of omp-core: what paths::put_at and paths::delete_at   *)
(* do to a root tree, seen as a function from full paths to the entry      *)
(* stored there.  Directories are not entries of their own: a directory    *)
(* exists exactly when some file lies under it, which is what pruning      *)
(* empty trees in delete_inner and creating them in put_inner amounts to.  *)
(* NestedTrees checks this flat view against the recursive code.           *)
(*                                                                         *)
(* A staging index (Index in api.rs) is a function from paths to what is   *)
(* staged there.  Overlay is the reference meaning of "apply the index".   *)
(***************************************************************************)
CONSTANTS
    Paths,      \* the paths a run uses
    Under,      \* pairs <<p, q>>: q lies strictly below p, p being a directory of q
    Values,     \* object hashes a leaf entry may carry (manifests, config blobs)
    NoFile,     \* no entry at this path
    NoChange,   \* nothing staged at this path
    Deleted     \* StagedKind::Delete

ASSUME PathAssumption ==
    /\ Under \subseteq Paths \X Paths
    /\ \A p \in Paths : <<p, p>> \notin Under
    /\ \A p, q, r \in Paths :
           <<p, q>> \in Under /\ <<q, r>> \in Under => <<p, r>> \in Under

ASSUME ValueAssumption ==
    /\ NoFile \notin Values
    /\ NoChange \notin Values
    /\ Deleted \notin Values
    /\ NoChange # Deleted

Tree   == [Paths -> Values \cup {NoFile}]
Staged == [Paths -> Values \cup {NoChange, Deleted}]

EmptyTree == [p \in Paths |-> NoFile]       \* root = None
NoChanges == [p \in Paths |-> NoChange]     \* Index::default()

Below(p, q) == <<p, q>> \in Under

(* A put walks down from the root and refuses a segment that is not a tree. *)
PutBlocked(tr, p) == \E q \in Paths : Below(q, p) /\ tr[q] # NoFile

(* The leaf insert replaces whatever was there, a whole subtree included.   *)
PutAt(tr, p, v) ==
    [q \in Paths |-> IF q = p THEN v
                     ELSE IF Below(p, q) THEN NoFile ELSE tr[q]]

(* Deleting a directory drops its subtree; deleting nothing is a no-op.     *)
DeleteAt(tr, p) ==
    [q \in Paths |-> IF q = p \/ Below(p, q) THEN NoFile ELSE tr[q]]

(* Faulty: the kind of the change is not looked at.                         *)
ApplyAsPut(tr, p, x) == PutAt(tr, p, x)

(* One staged change.                                                       *)
ApplyChange(tr, p, x) == IF x = Deleted THEN DeleteAt(tr, p) ELSE PutAt(tr, p, x)

StagedPaths(m) == {p \in Paths : m[p] # NoChange}

(* No staged path lies below another one.                                   *)
PrefixFree(m) == \A p, q \in StagedPaths(m) : ~Below(p, q)

(* The reference: every staged change applied to tr, in no particular order.*)
Overlay(tr, m) ==
    [q \in Paths |->
        IF m[q] \in Values THEN m[q]
        ELSE IF m[q] = Deleted \/ \E p \in StagedPaths(m) : Below(p, q)
        THEN NoFile
        ELSE tr[q]]

(* No file lies below another file: the tree has a nested form.             *)
WellFormed(tr) ==
    \A p, q \in Paths : Below(p, q) => tr[p] = NoFile \/ tr[q] = NoFile
=============================================================================
