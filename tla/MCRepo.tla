------------------------------ MODULE MCRepo ------------------------------
(* Small instances of Repo: a directory "notes" that may also be a file,    *)
(* a note in it, and a schema; a small file and the manifest a reprobe or a *)
(* patch makes of it, and a chunked file.                                   *)
EXTENDS RepoRefinement, TLC

CONSTANTS notes, note, other, schema, \* paths
          f, fr, k, kp, s,          \* values
          b, c1, c2, ck, lost       \* source objects

HandleSymmetry == Permutations(Handles)

MCUnder == {<<notes, note>>} \cap (Paths \X Paths)
MCParts == [v \in Values |-> CASE v \in {f, fr} -> <<b>>
                               [] v = k -> <<c1, c2, ck>>
                               [] v = kp -> <<lost>>
                               [] OTHER -> <<>>]
MCInputs == {<<notes, f>>, <<other, f>>, <<note, f>>, <<note, k>>, <<schema, s>>}
              \cap (Paths \X Values)
MCRebuilt == [v \in Values |-> IF v = f /\ fr \in Values THEN fr ELSE v]
(* A patch of a small file gives the manifest a reprobe gives, or itself.   *)
(* For a chunked file build_manifest hashes the body of the chunks object   *)
(* as if it were a blob: a source that nobody puts.                         *)
MCPatched == [v \in Values |-> CASE v = f /\ fr \in Values -> fr
                                 [] v = k /\ kp \in Values -> kp
                                 [] OTHER -> v]
=============================================================================
