---------------------------- MODULE NestedTrees ----------------------------
(***************************************************************************)
(* The recursive tree code of omp-core (crates/omp-core/src/paths.rs),     *)
(* checked against the flat view that Trees takes of it.                   *)
(*                                                                         *)
(* A tree object is a function from the names in it to entries; its hash   *)
(* is its value, so two equal trees have one hash.  The root that is None  *)
(* in the code is the empty tree here: no stored tree is empty.            *)
(***************************************************************************)
EXTENDS Trees, Integers, Sequences, FiniteSets, SequencesExt

CONSTANTS Names,    \* path components, numbered in their byte order
          Depth     \* the longest path of a run

ASSUME NestedAssumption ==
    /\ Names \subseteq Nat /\ IsFiniteSet(Names)
    /\ Depth \in Nat
    /\ Paths = UNION {[1 .. n -> Names] : n \in 1 .. Depth}
    /\ Under = {pair \in Paths \X Paths : IsStrictPrefix(pair[1], pair[2])}

VARIABLES nested,   \* what put_at and delete_at made of the root tree
          flat      \* the same operations by the definitions of Trees

treeVars == <<nested, flat>>

None == <<>>
Leaf(v) == [mode |-> "leaf", hash |-> v]
Dir(t)  == [mode |-> "tree", sub |-> t]

(* The tree objects with at most d levels: what the recursive functions are *)
(* defined on.                                                              *)
TreesOf[d \in 0 .. Depth] ==
    IF d = 0 THEN {None}
    ELSE LET entries == [mode : {"leaf"}, hash : Values] \cup [mode : {"tree"}, sub : TreesOf[d - 1]]
         IN  UNION {[names -> entries] : names \in SUBSET Names}

TreeObjects == TreesOf[Depth]

Ok(t) == <<t>>
Err   == <<>>

Insert(t, n, e) == [m \in DOMAIN t \cup {n} |-> IF m = n THEN e ELSE t[m]]
Drop(t, n)      == [m \in DOMAIN t \ {n} |-> t[m]]
IsDir(t, n)     == n \in DOMAIN t /\ t[n].mode = "tree"

LeafInTheWay(t, n) == n \in DOMAIN t /\ ~IsDir(t, n)

(* put_inner: create the trees on the way down, refuse to enter a leaf.     *)
PutInner(e) ==
    LET put[parts \in Paths] ==
            [t \in TreeObjects |->
                LET n == Head(parts)
                    child == IF IsDir(t, n) THEN t[n].sub ELSE None
                    made == put[Tail(parts)][child]
                IN  IF Len(parts) = 1 THEN Ok(Insert(t, n, e))
                    ELSE IF LeafInTheWay(t, n) \/ made = Err THEN Err
                    ELSE Ok(Insert(t, n, Dir(made[1])))]
    IN  put

(* Faulty: a tree that has become empty stays.                              *)
Unpruned(t, n, child) == Insert(t, n, Dir(child))

Pruned(t, n, child) == IF child = None THEN Drop(t, n) ELSE Insert(t, n, Dir(child))

(* delete_inner: drop the entry, prune the trees that become empty.         *)
DeleteInner[parts \in Paths] ==
    [t \in TreeObjects |->
        LET n == Head(parts)
        IN  IF Len(parts) = 1 THEN Drop(t, n)
            ELSE IF ~IsDir(t, n) THEN t
            ELSE Pruned(t, n, DeleteInner[Tail(parts)][t[n].sub])]

(* get_at: one entry after the other; a leaf in the middle is as none.      *)
GetAt(t, parts) ==
    LET at[i \in 0 .. Len(parts)] ==
            IF i = 0 THEN Ok(Dir(t))
            ELSE IF at[i - 1] = Err \/ at[i - 1][1].mode # "tree" THEN Err
            ELSE LET sub == at[i - 1][1].sub
                 IN  IF parts[i] \in DOMAIN sub THEN Ok(sub[parts[i]]) ELSE Err
    IN  at[Len(parts)]

InOrder(t) ==
    CHOOSE s \in [1 .. Cardinality(DOMAIN t) -> DOMAIN t] :
        \A i, j \in DOMAIN s : i < j => s[i] < s[j]

(* walk_inner: the leaves, depth first, names in order at every level.      *)
WalkInner[t \in TreeObjects] ==
    [prefix \in Seq(Names) |->
        LET names == InOrder(t)
            under(n) == IF IsDir(t, n) THEN WalkInner[t[n].sub][Append(prefix, n)]
                        ELSE <<[path |-> Append(prefix, n), hash |-> t[n].hash]>>
        IN  FlattenSeq([i \in DOMAIN names |-> under(names[i])])]

TreeInit == nested = None /\ flat = EmptyTree

Put(p, v) ==
    LET made == PutInner(Leaf(v))[p][nested]
    IN  IF made = Err
        THEN UNCHANGED treeVars
        ELSE nested' = made[1] /\ flat' = PutAt(flat, p, v)

Delete(p) ==
    /\ nested # None        \* commit_with_keys skips a delete when there is no root
    /\ nested' = DeleteInner[p][nested]
    /\ flat' = DeleteAt(flat, p)

TreeNext == \E p \in Paths : Delete(p) \/ \E v \in Values : Put(p, v)

TreeSpec == TreeInit /\ [][TreeNext]_treeVars

-----------------------------------------------------------------------------
(* The trees that hold exactly the leaves of tr at and below each prefix.   *)
Nest(tr) ==
    LET nest[prefix \in Paths \cup {<<>>}] ==
            LET at(n) == Append(prefix, n)
                used == {n \in Names : \E q \in Paths : tr[q] # NoFile /\ IsPrefix(at(n), q)}
            IN  [n \in used |-> IF tr[at(n)] # NoFile THEN Leaf(tr[at(n)]) ELSE Dir(nest[at(n)])]
    IN  nest

(* Equal contents have equal root hashes: the tree that a history of puts   *)
(* and deletes leaves depends on the files alone, with no empty directory   *)
(* left behind by a delete and no file hidden below another.                *)
RootCanonical == nested = Nest(flat)[<<>>]

(* put_at conflicts exactly when a directory of the path is a file, and     *)
(* then the caller keeps the root it had.                                   *)
PutConflicts ==
    \A p \in Paths, v \in Values :
        (PutInner(Leaf(v))[p][nested] = Err) = PutBlocked(flat, p)

(* get_at finds a leaf where there is one, a directory exactly above the    *)
(* leaves, and nothing elsewhere, below a leaf included.                    *)
GetAgrees ==
    \A p \in Paths :
        LET e == GetAt(nested, p)
        IN  IF flat[p] # NoFile THEN e = Ok(Leaf(flat[p]))
            ELSE (e # Err) = (\E q \in Paths : Below(p, q) /\ flat[q] # NoFile)

(* p comes before q, component by component.                                *)
Before(p, q) ==
    \E i \in DOMAIN p \cap DOMAIN q :
        p[i] < q[i] /\ \A j \in 1 .. i - 1 : p[j] = q[j]

(* walk yields every file once, in strictly increasing path order.          *)
WalkInOrder ==
    LET w == WalkInner[nested][<<>>]
    IN  /\ {w[i] : i \in DOMAIN w} =
               {[path |-> p, hash |-> flat[p]] : p \in {q \in Paths : flat[q] # NoFile}}
        /\ \A i \in 1 .. Len(w) - 1 : Before(w[i].path, w[i + 1].path)

(* The recursive code is the map from paths to files its callers take it    *)
(* for: it builds the canonical tree, refuses the puts it has to refuse,    *)
(* and reads back what is there (paths.rs).                                 *)
TreeCodeExact == RootCanonical /\ PutConflicts /\ GetAgrees /\ WalkInOrder
=============================================================================
