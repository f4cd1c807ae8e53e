----------------------------- MODULE RepoProofs -----------------------------
(***************************************************************************)
(* Theorems about Repo, for any number of handles, paths, values and       *)
(* branches and any bound on the commits; then what holds when a single    *)
(* handle works on the repository, and that Repo then implements History.  *)
(***************************************************************************)
EXTENDS RepoRefinement, SequenceTheorems, TLAPS

USE DEF disk, locals

LEMMA NoEditType == NoEdit \in Edit
  BY RepoAssumption DEF NoEdit, Edit

LEMMA TreeOpsType ==
  ASSUME NEW tr \in Tree, NEW p \in Paths, NEW x \in Values \cup {Deleted}
  PROVE  ApplyChange(tr, p, x) \in Tree
  BY DEF ApplyChange, PutAt, DeleteAt, Tree

LEMMA EmptyTypes == EmptyTree \in Tree /\ NoChanges \in Staged
  BY DEF EmptyTree, NoChanges, Tree, Staged

LEMMA TodoType ==
  ASSUME NEW v \in Values
  PROVE  Append(Parts[v], v) \in Seq(Blobs \cup Values)
  <1>1. Parts[v] \in Seq(Blobs)
    BY RepoAssumption
  <1>2. Parts[v] \in Seq(Blobs \cup Values)
    BY <1>1
  <1> QED
    BY <1>2

(* What taking the head off a non-empty sequence leaves.                    *)
LEMMA TailLen ==
  ASSUME NEW S, NEW q \in Seq(S), Len(q) > 0
  PROVE  /\ Len(q) \in Nat
         /\ Len(Tail(q)) = Len(q) - 1
         /\ Head(q) = q[1]
         /\ Tail(q) \in Seq(S)
         /\ \A i \in 1 .. Len(q) - 1 : Tail(q)[i] = q[i + 1]
  <1>1. q # <<>>
    BY EmptySeq
  <1>2. Len(q) \in Nat /\ Head(q) = q[1]
    BY <1>1, LenProperties
  <1> QED
    BY <1>1, <1>2, HeadTailProperties

(* TypeOK alone is not inductive: a put needs an object to put, and a turn  *)
(* of the apply loop keeps the root a tree because what it applies is staged.*)
PutPending == \A h \in Handles : pc[h] = "put" => Len(todo[h]) > 0
PendStaged == \A h \in Handles : pc[h] = "apply" => pend[h] \subseteq StagedPaths(idx[h])
TypeInv == TypeOK /\ PutPending /\ PendStaged

LEMMA HeadCommitType == TypeOK => HeadCommit \in Ref
  BY DEF TypeOK, HeadVal, HeadCommit

LEMMA TreeOfType == ASSUME TypeOK, NEW c PROVE TreeOf(c) \in Tree
  <1>1. CASE c \in DOMAIN commits
    <2>1. commits[c] \in Commit
      BY <1>1 DEF TypeOK
    <2> QED
      BY <1>1, <2>1 DEF TreeOf, Commit
  <1>2. CASE c \notin DOMAIN commits
    BY <1>2, EmptyTypes DEF TreeOf
  <1> QED
    BY <1>1, <1>2

LEMMA FinishType ==
  ASSUME TypeOK, NEW h \in Handles, Finish(h)
  PROVE  /\ refsLock' \in Handles \cup {Nobody}
         /\ pc' \in [Handles -> Pcs]
         /\ todo' \in [Handles -> Seq(Blobs \cup Values)]
         /\ edit' \in [Handles -> Edit]
         /\ idx' \in [Handles -> Staged]
         /\ loaded' \in [Handles -> Staged]
         /\ pend' \in [Handles -> SUBSET Paths]
         /\ root' \in [Handles -> Tree]
         /\ base' \in [Handles -> Ref]
         /\ new' \in [Handles -> Ref]
         /\ dest' \in [Handles -> HeadVal]
  <1>1. <<>> \in Seq(Blobs \cup Values) /\ Unborn \in Ref /\ NoDest \in HeadVal
    BY DEF Unborn, Ref, NoDest, HeadVal
  <1> QED
    BY <1>1, EmptyTypes, NoEditType DEF TypeOK, Finish, DropRefsLock, Pcs

(* patch_fields puts one manifest, of a file that is there.                 *)
LEMMA PutPatchedType ==
  ASSUME TypeOK, NEW h \in Handles, NEW p \in Paths, NEW v \in Values,
         PutPatched(h, p, v), UNCHANGED disk
  PROVE  TypeOK'
  <1>1. Patched[v] \in Values
    BY RepoAssumption
  <1>2. <<Patched[v]>> \in Seq(Blobs \cup Values)
    BY <1>1
  <1> QED
    BY <1>1, <1>2 DEF PutPatched, TypeOK, Pcs, Edit

(* What a step does to the handles that do not take it: nothing.            *)
LEMMA StepLocal ==
  ASSUME TypeOK, NEW h \in Handles, NEW g \in Handles, g # h,
         Begin(h) \/ Step(h) \/ Abort(h)
  PROVE  /\ pc'[g] = pc[g] /\ todo'[g] = todo[g] /\ edit'[g] = edit[g]
         /\ idx'[g] = idx[g] /\ loaded'[g] = loaded[g] /\ pend'[g] = pend[g]
         /\ root'[g] = root[g] /\ base'[g] = base[g] /\ new'[g] = new[g]
         /\ dest'[g] = dest[g]
  <1> USE DEF TypeOK
  <1>1. CASE Begin(h)
    BY <1>1 DEF Begin, BeginAdd, BeginRemove, PatchStaged, PatchUnstaged, PutPatched, BeginCommit, BeginBranch,
                CheckoutBranch, CheckoutDetached
  <1>2. CASE Step(h)
    <2>1. CASE PutObject(h) \/ LoadIndex(h) \/ SaveTruncate(h) \/ LockRefs(h)
      BY <2>1 DEF PutObject, LoadIndex, SaveTruncate, LockRefs
    <2>2. CASE LoadFails(h) \/ SaveWrite(h) \/ HeadMissing(h) \/ ApplyFails(h) \/ WriteBranch(h)
      BY <2>2 DEF LoadFails, SaveWrite, HeadMissing, ApplyFails, WriteBranch, Finish
    <2>3. CASE \E S \in SUBSET Paths : Reprobe(h, S)
      BY <2>3 DEF Reprobe
    <2>4. CASE ReadBase(h) \/ \E p \in Paths : Apply(h, p)
      BY <2>4 DEF ReadBase, Apply
    <2>5. CASE PutCommit(h) \/ ReadTarget(h) \/ Advance(h)
      BY <2>5 DEF PutCommit, ReadTarget, Advance
    <2>6. CASE ResolvePatch(h)
      BY <2>6 DEF ResolvePatch, PutPatched, Finish
    <2> QED
      BY <1>2, <2>1, <2>2, <2>3, <2>4, <2>5, <2>6 DEF Step
  <1>3. CASE Abort(h)
    BY <1>3 DEF Abort, Finish
  <1> QED
    BY <1>1, <1>2, <1>3

LEMMA PutStep == TypeInv /\ [Next]_vars => PutPending'
  <1> SUFFICES ASSUME TypeInv, [Next]_vars PROVE PutPending'
    OBVIOUS
  <1> USE DEF TypeInv, PutPending
  <1>0. CASE UNCHANGED vars
    BY <1>0 DEF vars
  <1>1. ASSUME NEW h \in Handles, Begin(h) \/ Step(h) \/ Abort(h) PROVE PutPending'
    <2> SUFFICES ASSUME pc'[h] = "put" PROVE Len(todo'[h]) > 0
      BY <1>1, StepLocal
    <2>1. ASSUME NEW p \in Paths, NEW v \in Values, BeginAdd(h, p, v) PROVE Len(todo'[h]) > 0
      <3>1. todo'[h] = Append(Parts[v], v)
        BY <2>1 DEF BeginAdd, PutOrder, TypeOK
      <3>2. Parts[v] \in Seq(Blobs \cup Values)
        BY RepoAssumption
      <3>3. Len(Append(Parts[v], v)) = Len(Parts[v]) + 1 /\ Len(Parts[v]) \in Nat
        BY <3>2
      <3> QED
        BY <3>1, <3>3
    <2>2. CASE PutObject(h)
      <3>1. todo[h] \in Seq(Blobs \cup Values) /\ Len(todo[h]) > 0 /\ Len(todo[h]) # 1
        BY <2>2 DEF PutObject, TypeOK
      <3>2. todo'[h] = Tail(todo[h])
        BY <2>2 DEF PutObject, TypeOK
      <3>3. Len(todo[h]) \in Nat /\ Len(Tail(todo[h])) = Len(todo[h]) - 1
        BY <3>1, TailLen
      <3>4. Len(todo[h]) - 1 > 0
        <4>1. \A n \in Nat : n > 0 /\ n # 1 => n - 1 > 0
          OBVIOUS
        <4> QED
          BY <3>1, <3>3, <4>1
      <3> QED
        BY <3>2, <3>3, <3>4
    <2>3. ASSUME NEW p, NEW v, PutPatched(h, p, v) PROVE Len(todo'[h]) > 0
      BY <2>3 DEF PutPatched, TypeOK
    <2> QED
      BY <1>1, <2>1, <2>2, <2>3 DEF TypeOK, Finish, Abort,
         Begin, BeginRemove, PatchStaged, PatchUnstaged, BeginCommit, BeginBranch, CheckoutBranch,
         CheckoutDetached, Step, LoadIndex, ResolvePatch, SaveTruncate, LockRefs, LoadFails,
         SaveWrite, HeadMissing, ApplyFails, WriteBranch, Reprobe, PutCommit,
         ReadTarget, Advance, ReadBase, Apply
  <1> QED
    BY <1>0, <1>1 DEF Next

LEMMA PendStep == TypeInv /\ [Next]_vars => PendStaged'
  <1> SUFFICES ASSUME TypeInv, [Next]_vars PROVE PendStaged'
    OBVIOUS
  <1> USE DEF TypeInv, PendStaged
  <1>0. CASE UNCHANGED vars
    BY <1>0 DEF vars
  <1>1. ASSUME NEW h \in Handles, Begin(h) \/ Step(h) \/ Abort(h) PROVE PendStaged'
    <2> SUFFICES ASSUME pc'[h] = "apply" PROVE pend'[h] \subseteq StagedPaths(idx'[h])
      BY <1>1, StepLocal
    <2>1. CASE ReadBase(h)
      BY <2>1 DEF ReadBase, TypeOK
    <2>2. ASSUME NEW p \in Paths, Apply(h, p) PROVE pend'[h] \subseteq StagedPaths(idx'[h])
      BY <2>2 DEF Apply, TypeOK
    <2> QED
      BY <1>1, <2>1, <2>2 DEF TypeOK, Finish, Abort,
         Begin, BeginAdd, BeginRemove, PatchStaged, PatchUnstaged, PutPatched, BeginCommit, BeginBranch, CheckoutBranch,
         CheckoutDetached, Step, PutObject, LoadIndex, ResolvePatch, SaveTruncate, LockRefs, LoadFails,
         SaveWrite, HeadMissing, ApplyFails, WriteBranch, Reprobe, PutCommit,
         ReadTarget, Advance
  <1> QED
    BY <1>0, <1>1 DEF Next

(* Every reachable state is well typed: in particular every root a commit   *)
(* builds is a tree, whatever was staged.                                   *)
THEOREM TypeCorrect == Spec => []TypeInv
  <1>1. Init => TypeInv
    <2> SUFFICES ASSUME Init PROVE TypeInv
      OBVIOUS
    <2>1. <<>> \in Seq(Blobs \cup Values) /\ <<>> \in Seq(Commit)
          /\ Unborn \in Ref /\ NoDest \in HeadVal
      BY DEF Unborn, Ref, NoDest, HeadVal
    <2>2. head \in HeadVal
      BY RepoAssumption DEF Init, HeadVal, Unborn, Ref
    <2> QED
      BY <2>1, <2>2, EmptyTypes, NoEditType DEF Init, TypeInv, PutPending, PendStaged, TypeOK, Pcs
  <1>2. TypeInv /\ [Next]_vars => TypeOK'
    <2> SUFFICES ASSUME TypeInv, [Next]_vars PROVE TypeOK'
      OBVIOUS
    <2> USE DEF TypeInv
    <2>0. CASE UNCHANGED vars
      BY <2>0 DEF TypeOK, vars
    <2>1. ASSUME NEW h \in Handles, Begin(h) PROVE TypeOK'
      <3>1. ASSUME NEW p \in Paths, NEW v \in Values, BeginAdd(h, p, v) PROVE TypeOK'
        BY <3>1, TodoType DEF BeginAdd, PutOrder, TypeOK, Pcs, Edit
      <3>2. ASSUME NEW p \in Paths, BeginRemove(h, p) PROVE TypeOK'
        BY <3>2 DEF BeginRemove, PatchStaged, PatchUnstaged, PutPatched, TypeOK, Pcs, Edit
      <3>3. CASE BeginCommit(h)
        BY <3>3 DEF BeginCommit, TypeOK, Pcs, CommitPcs
      <3>4. ASSUME NEW b \in Branches, NEW c \in Starts, BeginBranch(h, b, c) PROVE TypeOK'
        <4>1. c \in Ref
          BY DEF Starts, TypeOK, Ref
        <4> QED
          BY <3>4, <4>1 DEF BeginBranch, TypeOK, Pcs, HeadVal
      <3>5. ASSUME NEW b \in Branches, CheckoutBranch(h, b) PROVE TypeOK'
        BY <3>5 DEF CheckoutBranch, TypeOK, HeadVal, Unborn, Ref
      <3>6. ASSUME NEW c \in Starts, CheckoutDetached(h, c) PROVE TypeOK'
        <4>1. c \in Ref
          BY DEF Starts, TypeOK, Ref
        <4> QED
          BY <3>6, <4>1 DEF CheckoutDetached, TypeOK, HeadVal
      <3>7. ASSUME NEW p \in Paths, PatchStaged(h, p) PROVE TypeOK'
        BY <3>7, PutPatchedType DEF PatchStaged, HasSource
      <3>8. ASSUME NEW p \in Paths, PatchUnstaged(h, p) PROVE TypeOK'
        BY <3>8 DEF PatchUnstaged, TypeOK, Pcs, Edit
      <3> QED
        BY <2>1, <3>1, <3>2, <3>3, <3>4, <3>5, <3>6, <3>7, <3>8 DEF Begin
    <2>2. ASSUME NEW h \in Handles, Step(h) PROVE TypeOK'
      <3>1. CASE PutObject(h)
        <4>1. todo[h] \in Seq(Blobs \cup Values) /\ Len(todo[h]) > 0
          BY <3>1 DEF PutObject, TypeOK, PutPending
        <4>2. Head(todo[h]) \in Blobs \cup Values /\ Tail(todo[h]) \in Seq(Blobs \cup Values)
          BY <4>1
        <4> QED
          BY <3>1, <4>2 DEF PutObject, TypeOK, Pcs
      <3>2. CASE LoadIndex(h)
        BY <3>2 DEF LoadIndex, TypeOK, Pcs, Edit, Staged
      <3>3. CASE LoadFails(h)
        BY <3>3, FinishType DEF LoadFails, TypeOK
      <3>4. CASE SaveTruncate(h)
        BY <3>4 DEF SaveTruncate, TypeOK, Pcs
      <3>5. CASE SaveWrite(h)
        BY <3>5, FinishType DEF SaveWrite, TypeOK
      <3>6. CASE LockRefs(h)
        BY <3>6 DEF LockRefs, TypeOK, Pcs, CommitPcs
      <3>7. ASSUME NEW S \in SUBSET Paths, Reprobe(h, S) PROVE TypeOK'
        <4> DEFINE made(p) == Rebuilt[TreeOf(HeadCommit)[p]]
        <4>1. \A p \in S : made(p) \in Values
          BY <3>7, RepoAssumption DEF Reprobe, Rebuildable
        <4>2. [p \in Paths |-> IF p \in S THEN made(p) ELSE idx[h][p]] \in Staged
          BY <4>1 DEF TypeOK, Staged
        <4> QED
          BY <3>7, <4>1, <4>2 DEF Reprobe, TypeOK, Pcs, CommitPcs
      <3>8. CASE HeadMissing(h)
        BY <3>8, FinishType DEF HeadMissing, TypeOK
      <3>9. CASE ReadBase(h)
        BY <3>9, HeadCommitType, TreeOfType DEF ReadBase, TypeOK, Pcs, CommitPcs, StagedPaths
      <3>10. ASSUME NEW p \in Paths, Apply(h, p) PROVE TypeOK'
        <4>1. idx[h][p] \in Values \cup {Deleted}
          BY <3>10 DEF Apply, TypeOK, PendStaged, StagedPaths, Staged
        <4> QED
          BY <3>10, <4>1, TreeOpsType DEF Apply, TypeOK
      <3>11. CASE ApplyFails(h)
        BY <3>11, FinishType DEF ApplyFails, TypeOK
      <3>12. CASE PutCommit(h)
        BY <3>12, HeadCommitType DEF PutCommit, TypeOK, Pcs, CommitPcs, Commit, Ref
      <3>13. CASE ReadTarget(h)
        BY <3>13 DEF ReadTarget, TypeOK, Pcs, CommitPcs
      <3>14. CASE Advance(h)
        <4>1. new[h] \in Ref /\ dest[h] \in HeadVal
          BY DEF TypeOK
        <4>2. CASE dest[h].branch # NoBranch
          BY <3>14, <4>1, <4>2, EmptyTypes DEF Advance, TypeOK, Pcs
        <4>3. CASE dest[h].branch = NoBranch
          <5>1. head' \in HeadVal
            BY <3>14, <4>1, <4>3 DEF Advance, HeadVal
          <5> QED
            BY <3>14, <4>3, <5>1, EmptyTypes DEF Advance, TypeOK, Pcs
        <4> QED
          BY <4>2, <4>3
      <3>15. CASE WriteBranch(h)
        BY <3>15, FinishType DEF WriteBranch, TypeOK, HeadVal
      <3>16. CASE ResolvePatch(h)
        <4>1. edit[h].path \in Paths
          BY DEF TypeOK, Edit
        <4>2. CASE Finish(h)
          BY <3>16, <4>2, FinishType DEF ResolvePatch, TypeOK
        <4> QED
          BY <3>16, <4>1, <4>2, PutPatchedType DEF ResolvePatch, HasSource
      <3> QED
        BY <2>2, <3>1, <3>2, <3>3, <3>4, <3>5, <3>6, <3>7, <3>8, <3>9, <3>10,
           <3>11, <3>12, <3>13, <3>14, <3>15, <3>16 DEF Step
    <2>3. ASSUME NEW h \in Handles, Abort(h) PROVE TypeOK'
      BY <2>3, FinishType DEF Abort, TypeOK
    <2> QED
      BY <2>0, <2>1, <2>2, <2>3 DEF Next
  <1> QED
    BY <1>1, <1>2, PutStep, PendStep, PTL DEF Spec, TypeInv

(* TypeOK for every instance, whatever the handles interleave.              *)
THEOREM TypeSafe == Spec => []TypeOK
  BY TypeCorrect, PTL DEF TypeInv

------------------------------------------------------------------------------
(***************************************************************************)
(* Nothing reachable is missing from the store (Closed of Repo), for any   *)
(* number of handles and any interleaving, crashes included.               *)
(***************************************************************************)

Known == DOMAIN commits \cup {Unborn, NoSuch}

(* Every ref, and every commit id an operation holds in memory, resolves.   *)
RefInv ==
    /\ \A b \in Branches : branches[b] \in Known
    /\ head.commit \in Known
    /\ \A c \in DOMAIN commits : commits[c].parent \in (1 .. c - 1) \cup {Unborn, NoSuch}
    /\ \A c \in DOMAIN commits : commits[c].base \in (1 .. c - 1) \cup {Unborn, NoSuch}
    /\ \A h \in Handles : base[h] \in Known /\ new[h] \in Known /\ dest[h].commit \in Known

(* A put in progress: what the staged object needs is stored or still to be *)
(* put before it.                                                           *)
PutOK(h) ==
    /\ edit[h].change \in Values
    /\ todo[h][Len(todo[h])] = edit[h].change
    /\ \A j \in 1 .. Len(todo[h]) - 1 : todo[h][j] \in Blobs
    /\ \A i \in DOMAIN Parts[edit[h].change] :
          \/ Parts[edit[h].change][i] \in objects
          \/ \E j \in 1 .. Len(todo[h]) - 1 : todo[h][j] = Parts[edit[h].change][i]

Kept(m) == \A p \in Paths : m[p] \in Values => m[p] \in objects

StoreInv ==
    /\ \A v \in objects \cap Values : Stored(v)
    /\ \A c \in DOMAIN commits : Kept(commits[c].tree)
    /\ Kept(index)
    /\ \A h \in Handles :
          /\ Kept(idx[h])
          /\ Kept(root[h])
          /\ pc[h] = "put" => PutOK(h)
          /\ pc[h] = "load" /\ edit[h].change \in Values => edit[h].change \in objects

-----------------------------------------------------------------------------
(* What putting a commit does to the sequence of commits.                   *)
MadeBy(h) == [tree |-> root[h], parent |-> HeadCommit, base |-> base[h],
              loaded |-> loaded[h], applied |-> idx[h]]

LEMMA PutCommitStep ==
  ASSUME TypeOK, NEW h \in Handles, PutCommit(h)
  PROVE  /\ Len(commits) \in Nat
         /\ DOMAIN commits = 1 .. Len(commits)
         /\ DOMAIN commits' = 1 .. Len(commits) + 1
         /\ \A c \in DOMAIN commits : commits'[c] = commits[c]
         /\ commits'[Len(commits) + 1] = MadeBy(h)
  <1>1. commits \in Seq(Commit) /\ commits' = Append(commits, MadeBy(h))
    BY DEF PutCommit, TypeOK, MadeBy
  <1>2. MadeBy(h) \in Commit
    BY HeadCommitType DEF TypeOK, Commit, MadeBy
  <1> QED
    BY <1>1, <1>2, AppendProperties, LenProperties

(* Only PutCommit adds a commit.                                            *)
LEMMA CommitsFrame ==
  ASSUME [Next]_vars
  PROVE  commits' = commits \/ \E h \in Handles : PutCommit(h)
  <1>1. ASSUME NEW h \in Handles, Begin(h) \/ Abort(h) PROVE commits' = commits
    BY <1>1 DEF Abort, Begin, BeginAdd, BeginRemove, PatchStaged, PatchUnstaged,
       BeginBranch, BeginCommit, CheckoutBranch, CheckoutDetached
  <1>2. ASSUME NEW h \in Handles, Step(h), ~PutCommit(h) PROVE commits' = commits
    BY <1>2 DEF Step, ResolvePatch, PutObject, LoadIndex, LoadFails, SaveTruncate, SaveWrite, LockRefs,
       Reprobe, HeadMissing, ReadBase, Apply, ApplyFails, ReadTarget, Advance, WriteBranch
  <1> QED
    BY <1>1, <1>2 DEF Next, vars

(* Only a commit and branch write a ref.                                    *)
LEMMA BranchesFrame ==
  ASSUME [Next]_vars
  PROVE  branches' = branches \/ \E h \in Handles : Advance(h) \/ WriteBranch(h)
  <1>1. ASSUME NEW h \in Handles, Begin(h) \/ Abort(h) PROVE branches' = branches
    BY <1>1 DEF Abort, Begin, BeginAdd, BeginRemove, PatchStaged, PatchUnstaged,
       BeginBranch, BeginCommit, CheckoutBranch, CheckoutDetached
  <1>2. ASSUME NEW h \in Handles, Step(h), ~Advance(h), ~WriteBranch(h) PROVE branches' = branches
    BY <1>2 DEF Step, ResolvePatch, PutObject, LoadIndex, LoadFails, SaveTruncate, SaveWrite, LockRefs,
       Reprobe, HeadMissing, ReadBase, Apply, ApplyFails, PutCommit, ReadTarget
  <1> QED
    BY <1>1, <1>2 DEF Next, vars

(* Only save_index changes what is staged.                                  *)
LEMMA IndexFrame ==
  ASSUME [Next]_vars
  PROVE  index' = index \/ \E h \in Handles : SaveWrite(h)
  <1>1. ASSUME NEW h \in Handles, Begin(h) \/ Abort(h) PROVE index' = index
    BY <1>1 DEF Abort, Begin, BeginAdd, BeginRemove, PatchStaged, PatchUnstaged,
       BeginBranch, BeginCommit, CheckoutBranch, CheckoutDetached
  <1>2. ASSUME NEW h \in Handles, Step(h), ~SaveWrite(h) PROVE index' = index
    BY <1>2 DEF Step, ResolvePatch, PutObject, LoadIndex, LoadFails, SaveTruncate, LockRefs, Reprobe,
       HeadMissing, ReadBase, Apply, ApplyFails, PutCommit, ReadTarget, Advance, WriteBranch
  <1> QED
    BY <1>1, <1>2 DEF Next, vars

(* The object database only grows.                                          *)
LEMMA Growth ==
  ASSUME TypeOK, [Next]_vars
  PROVE  /\ objects \subseteq objects'
         /\ \A c \in DOMAIN commits : c \in DOMAIN commits' /\ commits'[c] = commits[c]
  <1>0. CASE UNCHANGED vars
    BY <1>0 DEF vars
  <1>1. ASSUME NEW h \in Handles, Begin(h)
        PROVE  objects' = objects /\ commits' = commits
    BY <1>1 DEF Begin, BeginAdd, BeginRemove, PatchStaged, PatchUnstaged, PutPatched, BeginCommit, BeginBranch,
                CheckoutBranch, CheckoutDetached
  <1>2. ASSUME NEW h \in Handles, Step(h), ~PutCommit(h)
        PROVE  objects \subseteq objects' /\ commits' = commits
    BY <1>2 DEF Step, PutObject, LoadIndex, ResolvePatch, LoadFails, SaveTruncate, SaveWrite, LockRefs,
                Reprobe, HeadMissing, ReadBase, Apply, ApplyFails, ReadTarget,
                Advance, WriteBranch
  <1>3. ASSUME NEW h \in Handles, PutCommit(h)
        PROVE  /\ objects' = objects
               /\ \A c \in DOMAIN commits : c \in DOMAIN commits' /\ commits'[c] = commits[c]
    BY <1>3, PutCommitStep DEF PutCommit
  <1>4. ASSUME NEW h \in Handles, Abort(h)
        PROVE  objects' = objects /\ commits' = commits
    BY <1>4 DEF Abort
  <1> QED
    BY <1>0, <1>1, <1>2, <1>3, <1>4 DEF Next

LEMMA HeadKnown == TypeOK /\ RefInv => HeadCommit \in Known
  BY DEF TypeOK, RefInv, HeadVal, HeadCommit

(* Finish resets the memory of h to values that satisfy every clause.       *)
LEMMA FinishLocals ==
  ASSUME TypeOK, NEW h \in Handles, Finish(h)
  PROVE  /\ pc'[h] = "idle" /\ idx'[h] = NoChanges /\ root'[h] = EmptyTree
         /\ base'[h] = Unborn /\ new'[h] = Unborn /\ dest'[h] = NoDest
  BY DEF TypeOK, Finish

LEMMA RefStep == TypeOK /\ RefInv /\ [Next]_vars => RefInv'
  <1> SUFFICES ASSUME TypeOK, RefInv, [Next]_vars PROVE RefInv'
    OBVIOUS
  <1>g. Known \subseteq Known'
    BY Growth DEF Known
  <1>0. CASE UNCHANGED vars
    BY <1>0 DEF vars, RefInv, Known
  <1>1. ASSUME NEW h \in Handles, Begin(h) \/ Step(h) \/ Abort(h) PROVE RefInv'
    <2>1. ASSUME NEW g \in Handles, g # h
          PROVE  base'[g] \in Known' /\ new'[g] \in Known' /\ dest'[g].commit \in Known'
      BY <1>1, <1>g, <2>1, StepLocal DEF RefInv
    <2>2. base'[h] \in Known' /\ new'[h] \in Known' /\ dest'[h].commit \in Known'
      <3>1. CASE Finish(h)
        BY <3>1, FinishLocals DEF Known, NoDest
      <3>2. CASE ReadBase(h)
        BY <3>2, <1>g, HeadKnown DEF ReadBase, TypeOK, RefInv
      <3>3. CASE PutCommit(h)
        <4>1. Len(commits) + 1 \in Known'
          BY <3>3, PutCommitStep DEF Known
        <4> QED
          BY <3>3, <4>1, <1>g DEF PutCommit, TypeOK, RefInv
      <3>4. CASE ReadTarget(h)
        BY <3>4, <1>g DEF ReadTarget, TypeOK, RefInv
      <3>5. ASSUME NEW b \in Branches, NEW c \in Starts, BeginBranch(h, b, c)
            PROVE  base'[h] \in Known' /\ new'[h] \in Known' /\ dest'[h].commit \in Known'
        <4>1. c \in Known'
          BY <1>g DEF Starts, Known
        <4> QED
          BY <3>5, <4>1, <1>g DEF BeginBranch, TypeOK, RefInv
      <3>6. CASE UNCHANGED <<base, new, dest>>
        BY <3>6, <1>g DEF RefInv
      <3> QED
        BY <1>1, <3>1, <3>2, <3>3, <3>4, <3>5, <3>6 DEF Abort, Begin, BeginAdd, BeginRemove, PatchStaged, PatchUnstaged, PutPatched,
           BeginCommit, CheckoutBranch, CheckoutDetached, Step, PutObject, LoadIndex, ResolvePatch,
           LoadFails, SaveTruncate, SaveWrite, LockRefs, Reprobe, HeadMissing, Apply,
           ApplyFails, Advance, WriteBranch
    <2>3. \A b \in Branches : branches'[b] \in Known'
      <3>1. ASSUME NEW g \in Handles, Advance(g) \/ WriteBranch(g)
            PROVE  \A b \in Branches : branches'[b] \in Known'
        BY <3>1, <1>g DEF Advance, WriteBranch, TypeOK, RefInv
      <3>2. CASE UNCHANGED branches
        BY <3>2, <1>g DEF RefInv
      <3> QED
        BY <3>1, <3>2, BranchesFrame
    <2>4. head'.commit \in Known'
      <3>1. CASE Advance(h)
        BY <3>1, <1>g DEF Advance, TypeOK, RefInv
      <3>2. ASSUME NEW b \in Branches, CheckoutBranch(h, b) PROVE head'.commit \in Known'
        BY <3>2 DEF CheckoutBranch, Known
      <3>3. ASSUME NEW c \in Starts, CheckoutDetached(h, c) PROVE head'.commit \in Known'
        BY <3>3, <1>g DEF CheckoutDetached, Starts, Known
      <3>4. CASE UNCHANGED head
        BY <3>4, <1>g DEF RefInv
      <3> QED
        BY <1>1, <3>1, <3>2, <3>3, <3>4 DEF Abort, Begin, BeginAdd, BeginRemove, PatchStaged, PatchUnstaged, PutPatched, BeginBranch,
           BeginCommit, Step, PutObject, LoadIndex, ResolvePatch,
           LoadFails, SaveTruncate, SaveWrite, LockRefs, Reprobe, HeadMissing, ReadBase, Apply,
           ApplyFails, PutCommit, ReadTarget, WriteBranch
    <2>5. \A c \in DOMAIN commits' :
             /\ commits'[c].parent \in (1 .. c - 1) \cup {Unborn, NoSuch}
             /\ commits'[c].base \in (1 .. c - 1) \cup {Unborn, NoSuch}
      <3>1. ASSUME NEW g \in Handles, PutCommit(g)
            PROVE  \A c \in DOMAIN commits' :
                      /\ commits'[c].parent \in (1 .. c - 1) \cup {Unborn, NoSuch}
                      /\ commits'[c].base \in (1 .. c - 1) \cup {Unborn, NoSuch}
        <4>1. HeadCommit \in Known /\ base[g] \in Known
          BY HeadKnown DEF RefInv
        <4>2. MadeBy(g).parent = HeadCommit /\ MadeBy(g).base = base[g]
          BY DEF MadeBy
        <4> QED
          BY <3>1, <4>1, <4>2, PutCommitStep DEF RefInv, Known
      <3>2. CASE commits' = commits
        BY <3>2 DEF RefInv
      <3> QED
        BY <3>1, <3>2, CommitsFrame
    <2> QED
      BY <2>1, <2>2, <2>3, <2>4, <2>5 DEF RefInv
  <1> QED
    BY <1>0, <1>1 DEF Next

-----------------------------------------------------------------------------
(* One put of an ingest: the object it stores has everything it needs.      *)
LEMMA PutObjectStep ==
  ASSUME TypeInv, StoreInv, NEW h \in Handles, PutObject(h)
  PROVE  /\ \A v \in objects' \cap Values : Stored(v)'
         /\ pc'[h] = "put" => PutOK(h)'
         /\ pc'[h] = "load" => edit'[h].change \in objects'
  <1> DEFINE q == todo[h]
             v == edit[h].change
  <1>1. q \in Seq(Blobs \cup Values) /\ Len(q) > 0 /\ PutOK(h)
    BY DEF PutObject, TypeInv, TypeOK, PutPending, StoreInv
  <1>2. /\ todo'[h] = Tail(q) /\ objects' = objects \cup {q[1]} /\ edit'[h] = edit[h]
        /\ pc'[h] = IF Len(q) = 1 THEN "load" ELSE "put"
    BY <1>1, TailLen DEF PutObject, TypeInv, TypeOK
  <1>3. /\ Len(q) \in Nat /\ Len(Tail(q)) = Len(q) - 1
        /\ \A i \in 1 .. Len(q) - 1 : Tail(q)[i] = q[i + 1]
    BY <1>1, TailLen
  <1>4. CASE Len(q) = 1
    <2>1. q[1] = v /\ \A i \in DOMAIN Parts[v] : Parts[v][i] \in objects
      BY <1>1, <1>4 DEF PutOK
    <2> QED
      BY <1>2, <1>4, <2>1 DEF StoreInv, Stored
  <1>5. CASE Len(q) # 1
    <2>1. Len(q) - 1 \in Nat /\ Len(q) - 1 > 0
      <3>1. \A n \in Nat : n > 0 /\ n # 1 => n - 1 \in Nat /\ n - 1 > 0
        OBVIOUS
      <3> QED
        BY <1>1, <1>3, <1>5, <3>1
    <2>2. q[1] \in Blobs
      BY <1>1, <2>1 DEF PutOK
    <2>3. \A w \in objects' \cap Values : Stored(w)'
      BY <1>2, <2>2, RepoAssumption DEF StoreInv, Stored
    <2>4. Tail(q)[Len(Tail(q))] = v
      BY <1>1, <1>3, <2>1 DEF PutOK
    <2>5. \A j \in 1 .. Len(Tail(q)) - 1 : Tail(q)[j] \in Blobs
      BY <1>1, <1>3, <2>1 DEF PutOK
    <2>6. ASSUME NEW i \in DOMAIN Parts[v]
          PROVE  \/ Parts[v][i] \in objects'
                 \/ \E j \in 1 .. Len(Tail(q)) - 1 : Tail(q)[j] = Parts[v][i]
      <3>1. CASE Parts[v][i] \in objects
        BY <3>1, <1>2
      <3>2. ASSUME NEW j \in 1 .. Len(q) - 1, q[j] = Parts[v][i]
            PROVE  \/ Parts[v][i] \in objects'
                   \/ \E k \in 1 .. Len(Tail(q)) - 1 : Tail(q)[k] = Parts[v][i]
        <4>1. CASE j = 1
          BY <3>2, <4>1, <1>2
        <4>2. CASE j # 1
          <5>1. j - 1 \in 1 .. Len(Tail(q)) - 1 /\ Tail(q)[j - 1] = q[j]
            BY <4>2, <1>3, <2>1
          <5> QED
            BY <5>1, <3>2
        <4> QED
          BY <4>1, <4>2
      <3> QED
        BY <1>1, <3>1, <3>2 DEF PutOK
    <2>7. PutOK(h)'
      BY <1>1, <1>2, <2>4, <2>5, <2>6 DEF PutOK
    <2> QED
      BY <1>2, <1>5, <2>3, <2>7
  <1> QED
    BY <1>4, <1>5

(* What reprobe_one makes shares the source of the manifest it replaces.    *)
LEMMA ReprobeStored ==
  ASSUME TypeOK, StoreInv, NEW h \in Handles, NEW S \in SUBSET Paths, Reprobe(h, S)
  PROVE  \A v \in objects' \cap Values : Stored(v)'
  <1> DEFINE made(p) == Rebuilt[TreeOf(HeadCommit)[p]]
  <1>1. objects' = objects \cup {made(p) : p \in S}
    BY DEF Reprobe
  <1>2. ASSUME NEW p \in S
        PROVE  \A i \in DOMAIN Parts[made(p)] : Parts[made(p)][i] \in objects
    <2> DEFINE u == TreeOf(HeadCommit)[p]
    <2>1. u \in Values /\ Len(Parts[u]) = 1 /\ Parts[u][1] \in objects
      BY DEF Reprobe, Rebuildable
    <2>2. Parts[u] \in Seq(Blobs) /\ Parts[made(p)] = Parts[u]
      BY <2>1, RepoAssumption
    <2>3. DOMAIN Parts[u] = 1 .. 1
      BY <2>1, <2>2, LenProperties
    <2> QED
      BY <2>1, <2>2, <2>3
  <1> QED
    BY <1>1, <1>2 DEF StoreInv, Stored

(* patch_fields puts a manifest whose source is already stored.             *)
LEMMA PatchPutOK ==
  ASSUME TypeOK, StoreInv, PatchKeepsSource, NEW h \in Handles, NEW p \in Paths,
         NEW v, v \in objects, HasSource(v), PutPatched(h, p, v), UNCHANGED disk
  PROVE  PutOK(h)'
  <1>1. v \in Values /\ Patched[v] \in Values /\ Parts[Patched[v]] = Parts[v]
    BY RepoAssumption DEF HasSource, PatchKeepsSource
  <1>2. todo'[h] = <<Patched[v]>> /\ edit'[h].change = Patched[v] /\ objects' = objects
    BY DEF PutPatched, TypeOK
  <1>3. \A i \in DOMAIN Parts[v] : Parts[v][i] \in objects
    BY <1>1 DEF StoreInv, Stored
  <1>4. Len(todo'[h]) = 1 /\ todo'[h][1] = Patched[v] /\ 1 .. Len(todo'[h]) - 1 = {}
    BY <1>2
  <1> QED
    BY <1>1, <1>2, <1>3, <1>4 DEF PutOK

LEMMA StoreStep ==
  ASSUME PatchKeepsSource
  PROVE  TypeInv /\ RefInv /\ StoreInv /\ [Next]_vars => StoreInv'
  <1> SUFFICES ASSUME TypeInv, RefInv, StoreInv, [Next]_vars PROVE StoreInv'
    OBVIOUS
  <1> USE DEF TypeInv
  <1>g. objects \subseteq objects'
    BY Growth
  <1>e. Kept(EmptyTree) /\ Kept(NoChanges) /\ Kept(EmptyTree)' /\ Kept(NoChanges)'
    BY ValueAssumption DEF Kept, EmptyTree, NoChanges
  <1>0. CASE UNCHANGED vars
    BY <1>0 DEF vars, StoreInv, Kept, Stored, PutOK
  <1>1. ASSUME NEW h \in Handles, Begin(h) \/ Step(h) \/ Abort(h) PROVE StoreInv'
    <2>1. \A v \in objects' \cap Values : Stored(v)'
      <3>1. CASE PutObject(h)
        BY <3>1, PutObjectStep
      <3>2. CASE \E S \in SUBSET Paths : Reprobe(h, S)
        BY <3>2, ReprobeStored
      <3>3. CASE objects' = objects
        BY <3>3 DEF StoreInv, Stored
      <3> QED
        BY <1>1, <3>1, <3>2, <3>3 DEF Abort, Begin, BeginAdd, BeginRemove, PatchStaged, PatchUnstaged, PutPatched, BeginBranch,
           BeginCommit, CheckoutBranch, CheckoutDetached, Step, LoadIndex, ResolvePatch,
           LoadFails, SaveTruncate, SaveWrite, LockRefs, HeadMissing, ReadBase, Apply,
           ApplyFails, PutCommit, ReadTarget, Advance, WriteBranch
    <2>2. \A c \in DOMAIN commits' : Kept(commits[c].tree)'
      <3>1. ASSUME NEW g \in Handles, PutCommit(g)
            PROVE  \A c \in DOMAIN commits' : Kept(commits[c].tree)'
        <4>1. MadeBy(g).tree = root[g]
          BY DEF MadeBy
        <4> QED
          BY <3>1, <4>1, <1>g, PutCommitStep DEF StoreInv, Kept
      <3>2. CASE commits' = commits
        BY <3>2, <1>g DEF StoreInv, Kept
      <3> QED
        BY <3>1, <3>2, CommitsFrame
    <2>3. Kept(index)'
      <3>1. ASSUME NEW g \in Handles, SaveWrite(g) PROVE Kept(index)'
        BY <3>1, <1>g DEF SaveWrite, StoreInv, Kept
      <3>2. CASE index' = index
        BY <3>2, <1>g DEF StoreInv, Kept
      <3> QED
        BY <3>1, <3>2, IndexFrame
    <2>4. Kept(idx[h])'
      <3>1. CASE Finish(h) \/ Advance(h)
        <4>1. idx'[h] = NoChanges
          BY <3>1, FinishLocals DEF Advance, TypeOK
        <4> QED
          BY <4>1, <1>e DEF Kept
      <3>2. CASE LoadIndex(h)
        <4>1. idx'[h] = [index EXCEPT ![edit[h].path] = edit[h].change]
              /\ index \in Staged /\ pc[h] = "load"
          BY <3>2 DEF LoadIndex, TypeOK
        <4> QED
          BY <4>1, <1>g DEF StoreInv, Kept, Staged
      <3>3. CASE BeginCommit(h)
        BY <3>3, <1>g DEF BeginCommit, TypeOK, StoreInv, Kept
      <3>4. ASSUME NEW S \in SUBSET Paths, Reprobe(h, S) PROVE Kept(idx[h])'
        BY <3>4, <1>g DEF Reprobe, TypeOK, StoreInv, Kept
      <3>5. CASE UNCHANGED idx
        BY <3>5, <1>g DEF StoreInv, Kept
      <3> QED
        BY <1>1, <3>1, <3>2, <3>3, <3>4, <3>5 DEF Abort, Begin, BeginAdd, BeginRemove, PatchStaged, PatchUnstaged, PutPatched,
           BeginBranch, CheckoutBranch, CheckoutDetached, Step, PutObject, ResolvePatch,
           LoadFails, SaveTruncate, SaveWrite, LockRefs, HeadMissing, ReadBase, Apply,
           ApplyFails, PutCommit, ReadTarget, WriteBranch
    <2>5. Kept(root[h])'
      <3>1. CASE Finish(h)
        <4>1. root'[h] = EmptyTree
          BY <3>1, FinishLocals
        <4> QED
          BY <4>1, <1>e DEF Kept
      <3>2. CASE ReadBase(h)
        <4>1. Kept(TreeOf(HeadCommit))
          BY <1>e DEF StoreInv, TreeOf
        <4> QED
          BY <3>2, <4>1, <1>g DEF ReadBase, TypeOK, Kept
      <3>3. ASSUME NEW p \in Paths, Apply(h, p) PROVE Kept(root[h])'
        <4>1. root'[h] = ApplyChange(root[h], p, idx[h][p])
          BY <3>3 DEF Apply, TypeOK
        <4>2. Kept(ApplyChange(root[h], p, idx[h][p]))
          BY ValueAssumption DEF StoreInv, Kept, ApplyChange, PutAt, DeleteAt
        <4> QED
          BY <4>1, <4>2, <1>g DEF Kept
      <3>4. CASE UNCHANGED root
        BY <3>4, <1>g DEF StoreInv, Kept
      <3> QED
        BY <1>1, <3>1, <3>2, <3>3, <3>4 DEF Abort, Begin, BeginAdd, BeginRemove, PatchStaged, PatchUnstaged, PutPatched, BeginBranch,
           BeginCommit, CheckoutBranch, CheckoutDetached, Step, PutObject, LoadIndex, ResolvePatch,
           LoadFails, SaveTruncate, SaveWrite, LockRefs, Reprobe, HeadMissing,
           ApplyFails, PutCommit, ReadTarget, Advance, WriteBranch
    <2>6. (pc[h] = "put" => PutOK(h))'
      <3>1. ASSUME NEW p \in Paths, NEW v \in Values, BeginAdd(h, p, v) PROVE PutOK(h)'
        <4>1. todo'[h] = Append(Parts[v], v) /\ edit'[h].change = v
          BY <3>1 DEF BeginAdd, PutOrder, TypeOK
        <4>2. Parts[v] \in Seq(Blobs) /\ Parts[v] \in Seq(Blobs \cup Values)
          BY RepoAssumption
        <4>3. /\ Len(Parts[v]) \in Nat /\ DOMAIN Parts[v] = 1 .. Len(Parts[v])
              /\ \A i \in 1 .. Len(Parts[v]) : Parts[v][i] \in Blobs
          BY <4>2, LenProperties
        <4>4. /\ Len(todo'[h]) = Len(Parts[v]) + 1
              /\ \A i \in 1 .. Len(Parts[v]) : todo'[h][i] = Parts[v][i]
              /\ todo'[h][Len(Parts[v]) + 1] = v
          BY <4>1, <4>2, AppendProperties
        <4> QED
          BY <4>1, <4>3, <4>4 DEF PutOK
      <3>2. CASE PutObject(h)
        BY <3>2, PutObjectStep
      <3>3. ASSUME NEW p \in Paths, PatchStaged(h, p) PROVE PutOK(h)'
        <4>1. index[p] \in objects /\ HasSource(index[p]) /\ PutPatched(h, p, index[p])
          BY <3>3 DEF PatchStaged, HasSource, StoreInv, Kept
        <4> QED
          BY <3>3, <4>1, PatchPutOK DEF PatchStaged
      <3>4. ASSUME ResolvePatch(h), pc'[h] = "put" PROVE PutOK(h)'
        <4> DEFINE v == TreeOf(HeadCommit)[edit[h].path]
        <4>1. HasSource(v) /\ PutPatched(h, edit[h].path, v) /\ edit[h].path \in Paths
          BY <3>4, FinishLocals DEF ResolvePatch, TypeOK, Edit
        <4>2. Kept(TreeOf(HeadCommit))
          BY <1>e DEF StoreInv, TreeOf
        <4>3. v \in objects
          BY <4>1, <4>2 DEF Kept, HasSource
        <4> QED
          BY <3>4, <4>1, <4>3, PatchPutOK DEF ResolvePatch
      <3> QED
        BY <1>1, <3>1, <3>2, <3>3, <3>4 DEF TypeOK, Finish, Abort, Begin, BeginRemove, PatchUnstaged, BeginBranch,
           BeginCommit, CheckoutBranch, CheckoutDetached, Step, LoadIndex,
           LoadFails, SaveTruncate, SaveWrite, LockRefs, Reprobe, HeadMissing, ReadBase, Apply,
           ApplyFails, PutCommit, ReadTarget, Advance, WriteBranch
    <2>7. (pc[h] = "load" /\ edit[h].change \in Values => edit[h].change \in objects)'
      <3>1. CASE PutObject(h)
        BY <3>1, PutObjectStep
      <3>2. ASSUME NEW p \in Paths, BeginRemove(h, p) PROVE edit'[h].change \notin Values
        BY <3>2, ValueAssumption DEF BeginRemove, TypeOK
      <3>3. ASSUME NEW p \in Paths, PatchStaged(h, p) \/ PatchUnstaged(h, p) PROVE pc'[h] # "load"
        BY <3>3 DEF PatchStaged, PatchUnstaged, PutPatched, TypeOK
      <3>4. CASE ResolvePatch(h)
        <4>1. pc'[h] # "load"
          BY <3>4, FinishLocals DEF ResolvePatch, PutPatched, TypeOK
        <4> QED
          BY <4>1
      <3> QED
        BY <1>1, <3>1, <3>2, <3>3, <3>4 DEF TypeOK, Finish, Abort, Begin, BeginAdd, BeginBranch,
           BeginCommit, CheckoutBranch, CheckoutDetached, Step, LoadIndex,
           LoadFails, SaveTruncate, SaveWrite, LockRefs, Reprobe, HeadMissing, ReadBase, Apply,
           ApplyFails, PutCommit, ReadTarget, Advance, WriteBranch
    <2>8. ASSUME NEW g \in Handles, g # h
          PROVE  /\ Kept(idx[g])' /\ Kept(root[g])'
                 /\ (pc[g] = "put" => PutOK(g))'
                 /\ (pc[g] = "load" /\ edit[g].change \in Values
                        => edit[g].change \in objects)'
      <3>1. /\ pc'[g] = pc[g] /\ todo'[g] = todo[g] /\ edit'[g] = edit[g]
            /\ idx'[g] = idx[g] /\ root'[g] = root[g]
        BY <1>1, <2>8, StepLocal
      <3>2. Kept(idx[g])' /\ Kept(root[g])'
        BY <3>1, <1>g DEF StoreInv, Kept
      <3>3. PutOK(g) => PutOK(g)'
        BY <3>1, <1>g DEF PutOK
      <3> QED
        BY <3>1, <3>2, <3>3, <1>g DEF StoreInv
    <2> QED
      BY <2>1, <2>2, <2>3, <2>4, <2>5, <2>6, <2>7, <2>8 DEF StoreInv
  <1> QED
    BY <1>0, <1>1 DEF Next

(* Nothing reachable is ever missing from the store: add's order of puts,   *)
(* the checks of put_at and the order of put and ref write in a commit are  *)
(* enough, with any number of handles interleaving and crashing anywhere,   *)
(* as long as patch_fields makes manifests with the source they had.        *)
THEOREM StoreClosed == ASSUME PatchKeepsSource PROVE Spec => []Closed
  <1>1. Init => RefInv
    BY DEF Init, RefInv, Known, NoDest, Unborn
  <1>2. Init => StoreInv
    BY ValueAssumption DEF Init, StoreInv, Kept, NoChanges, EmptyTree
  <1>3. RefInv /\ StoreInv => Closed
    BY DEF RefInv, StoreInv, Closed, SourcesStored, Kept, Known
  <1> QED
    BY <1>1, <1>2, <1>3, TypeCorrect, RefStep, StoreStep, PTL DEF Spec, TypeInv

------------------------------------------------------------------------------
(***************************************************************************)
(* What a commit contains: the loop of commit_with_keys over a HashMap     *)
(* keeps the tree well formed and, when no staged path lies below another, *)
(* ends with the overlay of the staged changes whatever the order.  And    *)
(* what a repository with a single handle gets on top.                     *)
(***************************************************************************)

(* The part of m that the loop has already applied.                         *)
Without(m, P) == [p \in Paths |-> IF p \in P THEN NoChange ELSE m[p]]

(* put_at and delete_at leave no file below a file.                         *)
LEMMA ApplyWellFormed ==
  ASSUME NEW tr \in Tree, WellFormed(tr), NEW p \in Paths, NEW x \in Values \cup {Deleted},
         x # Deleted => ~PutBlocked(tr, p)
  PROVE  WellFormed(ApplyChange(tr, p, x))
  <1>1. CASE x = Deleted
    BY <1>1 DEF ApplyChange, DeleteAt, WellFormed, Tree
  <1>2. CASE x # Deleted
    <2> DEFINE t == PutAt(tr, p, x)
    <2> SUFFICES ASSUME NEW a \in Paths, NEW b \in Paths, Below(a, b)
                 PROVE  t[a] = NoFile \/ t[b] = NoFile
      BY <1>2 DEF ApplyChange, WellFormed
    <2>1. CASE a = p
      BY <2>1, PathAssumption DEF PutAt, Below
    <2>2. CASE b = p
      BY <1>2, <2>2, PathAssumption DEF PutAt, PutBlocked, Below
    <2>3. CASE a # p /\ b # p
      BY <2>3 DEF PutAt, WellFormed
    <2> QED
      BY <2>1, <2>2, <2>3
  <1> QED
    BY <1>1, <1>2

(* One turn of the loop applies one more of the staged changes.             *)
LEMMA ApplyOverlay ==
  ASSUME NEW tr \in Tree, NEW m \in Staged, PrefixFree(m),
         NEW P \in SUBSET Paths, NEW p \in P, m[p] # NoChange
  PROVE  ApplyChange(Overlay(tr, Without(m, P)), p, m[p]) = Overlay(tr, Without(m, P \ {p}))
  <1> DEFINE o == Overlay(tr, Without(m, P))
             n == Overlay(tr, Without(m, P \ {p}))
             a == ApplyChange(o, p, m[p])
  <1>0. p \in Paths /\ m[p] \in Values \cup {Deleted}
    BY DEF Staged
  <1>1. StagedPaths(Without(m, P \ {p})) = StagedPaths(Without(m, P)) \cup {p}
    BY <1>0 DEF StagedPaths, Without
  <1>2. ASSUME NEW q \in Paths PROVE a[q] = n[q]
    <2>1. CASE q = p
      <3>1. Without(m, P \ {p})[q] = m[p]
        BY <2>1 DEF Without
      <3>2. n[q] = IF m[p] \in Values THEN m[p] ELSE NoFile
        BY <1>0, <3>1 DEF Overlay
      <3>3. a[q] = IF m[p] = Deleted THEN NoFile ELSE m[p]
        BY <2>1 DEF ApplyChange, PutAt, DeleteAt
      <3> QED
        BY <1>0, <3>2, <3>3, ValueAssumption
    <2>2. CASE q # p /\ Below(p, q)
      <3>1. m[q] = NoChange
        BY <2>2, <1>0 DEF PrefixFree, StagedPaths
      <3>2. Without(m, P \ {p})[q] = NoChange
        BY <3>1 DEF Without
      <3>3. n[q] = NoFile
        BY <1>0, <1>1, <2>2, <3>2, ValueAssumption DEF Overlay
      <3>4. a[q] = NoFile
        BY <2>2 DEF ApplyChange, PutAt, DeleteAt
      <3> QED
        BY <3>3, <3>4
    <2>3. CASE q # p /\ ~Below(p, q)
      <3>1. Without(m, P \ {p})[q] = Without(m, P)[q]
        BY <2>3 DEF Without
      <3>2. (\E r \in StagedPaths(Without(m, P)) : Below(r, q))
              <=> (\E r \in StagedPaths(Without(m, P \ {p})) : Below(r, q))
        BY <1>1, <2>3
      <3>3. n[q] = o[q]
        BY <3>1, <3>2 DEF Overlay
      <3>4. a[q] = o[q]
        BY <2>3 DEF ApplyChange, PutAt, DeleteAt
      <3> QED
        BY <3>3, <3>4
    <2> QED
      BY <2>1, <2>2, <2>3
  <1>3. a = [q \in Paths |-> a[q]]
    BY DEF ApplyChange, PutAt, DeleteAt
  <1>4. n = [q \in Paths |-> n[q]]
    BY DEF Overlay
  <1> QED
    BY <1>2, <1>3, <1>4

LEMMA OverlayNothing ==
  ASSUME NEW tr \in Tree, NEW m \in Staged
  PROVE  Overlay(tr, Without(m, StagedPaths(m))) = tr /\ Without(m, {}) = m
  <1>1. \A p \in Paths : Without(m, StagedPaths(m))[p] = NoChange
    BY DEF Without, StagedPaths
  <1>2. StagedPaths(Without(m, StagedPaths(m))) = {}
    BY <1>1 DEF StagedPaths
  <1>3. Overlay(tr, Without(m, StagedPaths(m))) = tr
    BY <1>1, <1>2, ValueAssumption DEF Overlay, Tree
  <1>4. Without(m, {}) = m
    BY DEF Without, Staged
  <1> QED
    BY <1>3, <1>4

-----------------------------------------------------------------------------
(* The loop of a commit in progress.                                        *)
LoopOK(h) ==
    /\ WellFormed(root[h])
    /\ PrefixFree(idx[h]) =>
          root[h] = Overlay(TreeOf(base[h]), Without(idx[h], pend[h]))

LoopInv == \A h \in Handles : pc[h] = "apply" => LoopOK(h)

(* A commit object never changes, so neither does the tree it names.        *)
LEMMA TreeStable ==
  ASSUME TypeInv, TypeInv', [Next]_vars, NEW c \in Known
  PROVE  /\ c \in DOMAIN commits <=> c \in DOMAIN commits'
         /\ TreeOf(c)' = TreeOf(c)
  <1>1. Unborn \notin DOMAIN commits' /\ NoSuch \notin DOMAIN commits'
    BY DEF TypeInv, TypeOK, Unborn, NoSuch
  <1>2. c \in DOMAIN commits <=> c \in DOMAIN commits'
    BY <1>1, Growth DEF Known, TypeInv
  <1> QED
    BY <1>2, Growth DEF TreeOf, TypeInv

LEMMA LoopStep ==
  ASSUME TypeInv, TypeInv', RefInv, CommitsWellFormed, LoopInv, [Next]_vars
  PROVE  LoopInv'
  <1>0. CASE UNCHANGED vars
    BY <1>0 DEF vars, LoopInv, LoopOK, TreeOf
  <1>1. ASSUME NEW h \in Handles, Begin(h) \/ Step(h) \/ Abort(h) PROVE LoopInv'
    <2>1. ASSUME NEW g \in Handles, g # h, pc'[g] = "apply" PROVE LoopOK(g)'
      <3>1. /\ pc[g] = "apply" /\ root'[g] = root[g] /\ idx'[g] = idx[g]
            /\ pend'[g] = pend[g] /\ base'[g] = base[g]
        BY <1>1, <2>1, StepLocal DEF TypeInv
      <3>2. TreeOf(base[g])' = TreeOf(base[g])
        <4>1. base[g] \in Known
          BY DEF RefInv
        <4>2. PICK c \in Known : c = base[g]
          BY <4>1
        <4>3. TreeOf(c)' = TreeOf(c)
          BY TreeStable
        <4> QED
          BY <3>1, <4>2, <4>3 DEF TreeOf
      <3> QED
        BY <3>1, <3>2 DEF LoopInv, LoopOK
    <2>2. ASSUME pc'[h] = "apply" PROVE LoopOK(h)'
      <3>1. CASE ReadBase(h)
        <4>1. /\ root'[h] = TreeOf(HeadCommit) /\ base'[h] = HeadCommit
              /\ pend'[h] = StagedPaths(idx[h]) /\ idx' = idx /\ commits' = commits
          BY <3>1 DEF ReadBase, TypeInv, TypeOK
        <4>2. TreeOf(HeadCommit) \in Tree /\ idx[h] \in Staged
          BY TreeOfType DEF TypeInv, TypeOK
        <4>3. WellFormed(TreeOf(HeadCommit))
          BY DEF CommitsWellFormed, TreeOf, EmptyTree, WellFormed
        <4>4. Overlay(TreeOf(HeadCommit), Without(idx[h], StagedPaths(idx[h]))) = TreeOf(HeadCommit)
          BY <4>2, OverlayNothing
        <4>5. TreeOf(base[h])' = TreeOf(HeadCommit)
          BY <4>1 DEF TreeOf
        <4> QED
          BY <4>1, <4>3, <4>4, <4>5 DEF LoopOK
      <3>2. ASSUME NEW p \in Paths, Apply(h, p) PROVE LoopOK(h)'
        <4>1. /\ pc[h] = "apply" /\ p \in pend[h]
              /\ root'[h] = ApplyChange(root[h], p, idx[h][p])
              /\ pend'[h] = pend[h] \ {p} /\ idx' = idx /\ base' = base /\ commits' = commits
          BY <3>2 DEF Apply, TypeInv, TypeOK
        <4>2. /\ root[h] \in Tree /\ idx[h] \in Staged /\ pend[h] \in SUBSET Paths
              /\ idx[h][p] # NoChange /\ idx[h][p] \in Values \cup {Deleted}
          BY <4>1 DEF TypeInv, TypeOK, PendStaged, StagedPaths, Staged
        <4>3. idx[h][p] # Deleted => ~PutBlocked(root[h], p)
          BY <3>2 DEF Apply, ApplyFailsAt
        <4>4. WellFormed(ApplyChange(root[h], p, idx[h][p]))
          BY <4>1, <4>2, <4>3, ApplyWellFormed DEF LoopInv, LoopOK
        <4>5. ASSUME PrefixFree(idx[h])
              PROVE  ApplyChange(root[h], p, idx[h][p])
                       = Overlay(TreeOf(base[h]), Without(idx[h], pend[h] \ {p}))
          <5>1. root[h] = Overlay(TreeOf(base[h]), Without(idx[h], pend[h]))
            BY <4>1, <4>5 DEF LoopInv, LoopOK
          <5>2. TreeOf(base[h]) \in Tree
            BY TreeOfType DEF TypeInv
          <5> QED
            BY <4>1, <4>2, <4>5, <5>1, <5>2, ApplyOverlay
        <4> QED
          BY <4>1, <4>4, <4>5 DEF LoopOK, TreeOf
      <3>3. CASE UNCHANGED <<pc, root, idx, pend, base, commits>>
        BY <2>2, <3>3 DEF LoopInv, LoopOK, TreeOf
      <3> QED
        BY <1>1, <2>2, <3>1, <3>2, <3>3 DEF TypeInv, TypeOK, Finish, Abort, Begin, BeginAdd,
           BeginRemove, PatchStaged, PatchUnstaged, PutPatched, BeginBranch, BeginCommit, CheckoutBranch, CheckoutDetached, Step,
           PutObject, LoadIndex, ResolvePatch, LoadFails, SaveTruncate, SaveWrite, LockRefs, Reprobe,
           HeadMissing, ApplyFails, PutCommit, ReadTarget, Advance, WriteBranch
    <2> QED
      BY <2>1, <2>2 DEF LoopInv
  <1> QED
    BY <1>0, <1>1 DEF Next

(* A commit is put with the tree its loop has reached.                      *)
LEMMA CommitStep ==
  ASSUME TypeInv, TypeInv', RefInv, CommitsWellFormed, CommitIsOverlay, LoopInv, [Next]_vars
  PROVE  CommitsWellFormed' /\ CommitIsOverlay'
  <1>1. CASE commits' = commits
    BY <1>1 DEF CommitsWellFormed, CommitIsOverlay, TreeOf
  <1>2. ASSUME NEW h \in Handles, PutCommit(h) PROVE CommitsWellFormed' /\ CommitIsOverlay'
    <2>1. /\ pc[h] = "apply" /\ pend[h] = {} /\ root[h] \in Tree /\ idx[h] \in Staged
          /\ TreeOf(base[h]) \in Tree
      BY <1>2, TreeOfType DEF PutCommit, TypeInv, TypeOK
    <2>2. /\ MadeBy(h).tree = root[h] /\ MadeBy(h).applied = idx[h] /\ MadeBy(h).base = base[h]
      BY DEF MadeBy
    <2>3. CommitsWellFormed'
      BY <1>2, <2>1, <2>2, PutCommitStep DEF CommitsWellFormed, LoopInv, LoopOK, TypeInv
    <2>4. ASSUME NEW c \in DOMAIN commits', PrefixFree(commits'[c].applied)
          PROVE  commits'[c].tree = Overlay(TreeOf(commits[c].base)', commits'[c].applied)
      <3>1. CASE c \in DOMAIN commits
        <4>1. commits'[c] = commits[c]
          BY <3>1, Growth DEF TypeInv
        <4>2. commits[c].base \in Known
          BY <3>1 DEF RefInv, Known, TypeInv, TypeOK
        <4>3. PICK d \in Known : d = commits[c].base
          BY <4>2
        <4>4. TreeOf(d)' = TreeOf(d)
          BY TreeStable
        <4>5. TreeOf(commits[c].base)' = TreeOf(commits[c].base)
          BY <4>1, <4>3, <4>4 DEF TreeOf
        <4> QED
          BY <2>4, <3>1, <4>1, <4>5 DEF CommitIsOverlay
      <3>2. CASE c \notin DOMAIN commits
        <4>1. commits'[c] = MadeBy(h)
          BY <1>2, <2>4, <3>2, PutCommitStep DEF TypeInv
        <4>2. base[h] \in Known
          BY DEF RefInv
        <4>3. PICK d \in Known : d = base[h]
          BY <4>2
        <4>4. TreeOf(d)' = TreeOf(d)
          BY TreeStable
        <4>5. TreeOf(commits[c].base)' = TreeOf(base[h])
          BY <2>2, <4>1, <4>3, <4>4 DEF TreeOf
        <4>6. root[h] = Overlay(TreeOf(base[h]), Without(idx[h], {}))
          BY <2>1, <2>2, <2>4, <4>1 DEF LoopInv, LoopOK
        <4>7. Without(idx[h], {}) = idx[h]
          BY <2>1, OverlayNothing
        <4> QED
          BY <2>2, <4>1, <4>5, <4>6, <4>7
      <3> QED
        BY <3>1, <3>2
    <2> QED
      BY <2>3, <2>4 DEF CommitIsOverlay
  <1> QED
    BY <1>1, <1>2, CommitsFrame

(* The trees of commits: well formed, and independent of the order in which *)
(* the HashMap of staged changes is walked.                                 *)
THEOREM CommitTrees == Spec => [](CommitsWellFormed /\ CommitIsOverlay)
  <1>1. Init => RefInv /\ CommitsWellFormed /\ CommitIsOverlay /\ LoopInv
    BY DEF Init, RefInv, Known, NoDest, Unborn, CommitsWellFormed, CommitIsOverlay, LoopInv
  <1>2. TypeInv /\ RefInv /\ [Next]_vars => RefInv'
    BY RefStep DEF TypeInv
  <1>3. TypeInv /\ TypeInv' /\ RefInv /\ CommitsWellFormed /\ CommitIsOverlay /\ LoopInv
          /\ [Next]_vars => CommitsWellFormed' /\ CommitIsOverlay' /\ LoopInv'
    BY LoopStep, CommitStep
  <1> QED
    BY <1>1, <1>2, <1>3, TypeCorrect, PTL DEF Spec

-----------------------------------------------------------------------------
(* What a repository gets when a single handle works on it: its write_lock *)
(* is held for the whole of every operation, so nothing an operation read  *)
(* can be stale when it writes.  With two handles TLC refutes these.       *)

Solo == \A g, h \in Handles : g = h

(* What the one operation in progress has read is still so.                 *)
Fresh(h) ==
    /\ pc[h] = "apply" => base[h] = HeadCommit
    /\ pc[h] \in {"target", "advance"} =>
          /\ new[h] \in DOMAIN commits
          /\ new[h] = Len(commits)
          /\ commits[new[h]].parent = HeadCommit
          /\ commits[new[h]].loaded = index
    /\ pc[h] = "advance" => dest[h] = head
    /\ pc[h] = "branch" => branches[dest[h].branch] = Unborn
    /\ pc[h] \in CommitPcs => loaded[h] = index
    /\ pc[h] \in {"truncate", "write"} =>
          \/ \E p \in Paths : idx[h] = [index EXCEPT ![p] = idx[h][p]]
          \/ /\ idx[h] = NoChanges
             /\ commits # <<>>
             /\ commits[Len(commits)].loaded = index

FreshInv == \A h \in Handles : Fresh(h)

LEMMA FreshStep ==
  ASSUME Solo, TypeInv, FreshInv, NEW h \in Handles, Begin(h) \/ Step(h) \/ Abort(h)
  PROVE  Fresh(h)'
  <1> USE DEF TypeInv, TypeOK
  <1>0. Fresh(h)
    BY DEF FreshInv
  <1>1. CASE Begin(h)
    <2>1. ASSUME NEW b \in Branches, NEW c \in Starts, BeginBranch(h, b, c) PROVE Fresh(h)'
      BY <2>1 DEF BeginBranch, Fresh, CommitPcs
    <2>2. CASE BeginCommit(h)
      BY <2>2 DEF BeginCommit, Fresh, CommitPcs
    <2> QED
      BY <1>1, <2>1, <2>2 DEF Begin, BeginAdd, BeginRemove, PatchStaged, PatchUnstaged, PutPatched, CheckoutBranch,
         CheckoutDetached, Fresh, CommitPcs
  <1>2. CASE Finish(h)
    BY <1>2 DEF Finish, Fresh, CommitPcs
  <1>3. CASE PutObject(h) \/ SaveTruncate(h) \/ LockRefs(h)
    BY <1>0, <1>3 DEF PutObject, SaveTruncate, LockRefs, Fresh, CommitPcs
  <1>4. CASE LoadIndex(h)
    <2>1. /\ idx'[h] = [index EXCEPT ![edit[h].path] = edit[h].change] /\ index' = index
          /\ edit[h].path \in Paths /\ pc'[h] = "truncate"
      BY <1>4 DEF LoadIndex, Edit
    <2>2. idx'[h] = [index EXCEPT ![edit[h].path] = idx'[h][edit[h].path]]
      BY <2>1 DEF Staged
    <2> QED
      BY <2>1, <2>2 DEF Fresh, CommitPcs
  <1>5. CASE \E S \in SUBSET Paths : Reprobe(h, S)
    BY <1>0, <1>5 DEF Reprobe, Fresh, CommitPcs
  <1>6. CASE ReadBase(h)
    BY <1>0, <1>6 DEF ReadBase, Fresh, CommitPcs, HeadCommit
  <1>7. CASE \E p \in Paths : Apply(h, p)
    BY <1>0, <1>7 DEF Apply, Fresh, CommitPcs, HeadCommit
  <1>8. CASE PutCommit(h)
    <2>1. /\ pc[h] = "apply" /\ pc'[h] = "target" /\ new'[h] = Len(commits) + 1
          /\ loaded' = loaded /\ branches' = branches /\ head' = head /\ index' = index
      BY <1>8 DEF PutCommit
    <2>2. MadeBy(h).parent = HeadCommit /\ MadeBy(h).loaded = loaded[h] /\ loaded[h] = index
      BY <1>0, <2>1 DEF MadeBy, Fresh, CommitPcs
    <2>3. Len(commits') = Len(commits) + 1
      BY <1>8 DEF PutCommit
    <2>4. HeadCommit' = HeadCommit
      BY <2>1 DEF HeadCommit
    <2>5. new'[h] \in DOMAIN commits' /\ commits'[new'[h]] = MadeBy(h)
      BY <1>8, <2>1, PutCommitStep
    <2> QED
      BY <2>1, <2>2, <2>3, <2>4, <2>5 DEF Fresh, CommitPcs
  <1>9. CASE ReadTarget(h)
    BY <1>0, <1>9 DEF ReadTarget, Fresh, CommitPcs, HeadCommit
  <1>10. CASE Advance(h)
    <2>1. /\ idx'[h] = NoChanges /\ index' = index /\ commits' = commits
          /\ pc[h] = "advance" /\ pc'[h] = "truncate"
      BY <1>10 DEF Advance
    <2>2. commits # <<>> /\ commits[Len(commits)].loaded = index
      BY <1>0, <2>1 DEF Fresh
    <2> QED
      BY <2>1, <2>2 DEF Fresh, CommitPcs
  <1>11. ASSUME NEW p \in Paths, NEW v, PutPatched(h, p, v) PROVE Fresh(h)'
    BY <1>11 DEF PutPatched, Fresh, CommitPcs
  <1>12. CASE ResolvePatch(h)
    <2>1. edit[h].path \in Paths
      BY DEF Edit
    <2> QED
      BY <1>2, <1>11, <1>12, <2>1 DEF ResolvePatch
  <1> QED
    BY <1>1, <1>2, <1>3, <1>4, <1>5, <1>6, <1>7, <1>8, <1>9, <1>10, <1>12
       DEF Step, Abort, LoadFails, SaveWrite, HeadMissing, ApplyFails, WriteBranch

LEMMA FreshNext == ASSUME Solo PROVE TypeInv /\ FreshInv /\ [Next]_vars => FreshInv'
  <1> SUFFICES ASSUME TypeInv, FreshInv, [Next]_vars PROVE FreshInv'
    OBVIOUS
  <1>0. CASE UNCHANGED vars
    BY <1>0 DEF vars, FreshInv, Fresh, HeadCommit
  <1>1. ASSUME NEW h \in Handles, Begin(h) \/ Step(h) \/ Abort(h) PROVE FreshInv'
    BY <1>1, FreshStep DEF FreshInv, Solo
  <1> QED
    BY <1>0, <1>1 DEF Next

LEMMA FreshInit == Init => FreshInv
  BY DEF Init, FreshInv, Fresh, CommitPcs

(* With a single handle, head_tree and head_commit agree: every commit      *)
(* starts from the tree of the commit it names as its parent.               *)
THEOREM SoloParent == ASSUME Solo PROVE Spec => []CommitOnParent
  <1>1. Init => CommitOnParent
    BY DEF Init, CommitOnParent
  <1>2. TypeInv /\ FreshInv /\ CommitOnParent /\ [Next]_vars => CommitOnParent'
    <2> SUFFICES ASSUME TypeInv, FreshInv, CommitOnParent, [Next]_vars PROVE CommitOnParent'
      OBVIOUS
    <2>1. CASE commits' = commits
      BY <2>1 DEF CommitOnParent
    <2>2. ASSUME NEW h \in Handles, PutCommit(h) PROVE CommitOnParent'
      <3>1. base[h] = HeadCommit
        BY <2>2 DEF PutCommit, FreshInv, Fresh
      <3>2. MadeBy(h).base = MadeBy(h).parent
        BY <3>1 DEF MadeBy
      <3> QED
        BY <2>2, <3>2, PutCommitStep DEF CommitOnParent, TypeInv
    <2> QED
      BY <2>1, <2>2, CommitsFrame
  <1> QED
    BY <1>1, <1>2, FreshInit, FreshNext, TypeCorrect, PTL DEF Spec

(* With a single handle a branch only moves from a commit to its child.     *)
THEOREM SoloBranches == ASSUME Solo PROVE Spec => BranchesAdvance
  <1> DEFINE Moves == \A b \in Branches :
                        branches'[b] # branches[b] /\ branches[b] # Unborn =>
                            /\ branches'[b] \in DOMAIN commits
                            /\ commits[branches'[b]].parent = branches[b]
  <1>1. TypeInv /\ FreshInv /\ [Next]_vars => [Moves]_vars
    <2> SUFFICES ASSUME TypeInv, FreshInv, [Next]_vars PROVE [Moves]_vars
      OBVIOUS
    <2>1. CASE UNCHANGED vars
      BY <2>1
    <2>2. CASE branches' = branches
      BY <2>2
    <2>3. ASSUME NEW h \in Handles, WriteBranch(h) PROVE Moves
      BY <2>3 DEF WriteBranch, FreshInv, Fresh, TypeInv, TypeOK
    <2>4. ASSUME NEW h \in Handles, Advance(h) PROVE Moves
      <3>1. /\ dest[h] = head /\ new[h] \in DOMAIN commits
            /\ commits[new[h]].parent = HeadCommit
        BY <2>4 DEF Advance, FreshInv, Fresh
      <3> QED
        BY <2>4, <3>1 DEF Advance, HeadCommit, TypeInv, TypeOK
    <2> QED
      BY <2>1, <2>2, <2>3, <2>4, BranchesFrame
  <1> QED
    BY <1>1, FreshInit, FreshNext, TypeCorrect, PTL DEF Spec, BranchesAdvance

(* With a single handle no staged change is dropped: the index changes one  *)
(* path at a time, or is emptied by a commit that loaded all of it.         *)
THEOREM SoloStaged == ASSUME Solo PROVE Spec => StagedChangesKept
  <1> DEFINE Moves == index' # index =>
                        \/ \E p \in Paths : index' = [index EXCEPT ![p] = index'[p]]
                        \/ /\ index' = NoChanges
                           /\ commits # <<>>
                           /\ commits[Len(commits)].loaded = index
  <1>1. TypeInv /\ FreshInv /\ [Next]_vars => [Moves]_vars
    <2> SUFFICES ASSUME TypeInv, FreshInv, [Next]_vars PROVE [Moves]_vars
      OBVIOUS
    <2>1. CASE UNCHANGED vars
      BY <2>1
    <2>2. CASE index' = index
      BY <2>2
    <2>3. ASSUME NEW h \in Handles, SaveWrite(h), index' # index PROVE Moves
      <3>1. index' = idx[h] /\ pc[h] = "write"
        BY <2>3 DEF SaveWrite
      <3> QED
        BY <3>1 DEF FreshInv, Fresh
    <2> QED
      BY <2>1, <2>2, <2>3, IndexFrame
  <1> QED
    BY <1>1, FreshInit, FreshNext, TypeCorrect, PTL DEF Spec, StagedChangesKept

------------------------------------------------------------------------------
(***************************************************************************)
(* A repository with a single handle implements History: whatever is       *)
(* staged, committed, branched and checked out, and wherever a crash or an *)
(* I/O error cuts an operation short, what the disk shows is a behaviour   *)
(* of the abstract repository.                                             *)
(***************************************************************************)

(* What the operation in progress carries from one step to the next, beyond *)
(* Fresh: an index that reprobing has changed only where it may, a base     *)
(* that exists, and for branch a name and a resolved start.                 *)
Carried(h) ==
    /\ pc[h] \in {"lock", "reprobe"} => idx[h] = loaded[h]
    /\ pc[h] \in {"base", "apply"} =>
          \A p \in Paths : idx[h][p] # loaded[h][p] =>
              /\ idx[h][p] \in Values
              /\ TreeOf(HeadCommit)[p] \in Values
              /\ \E s \in SchemaPaths : loaded[h][s] \in Values
    /\ pc[h] = "apply" => base[h] # NoSuch
    /\ pc[h] = "branch" => /\ dest[h].branch \in Branches
                           /\ dest[h].commit \in DOMAIN commits \cup {NoSuch}

CarriedInv == \A h \in Handles : Carried(h)

LEMMA CarriedStep ==
  ASSUME TypeInv, CarriedInv, NEW h \in Handles, Begin(h) \/ Step(h) \/ Abort(h)
  PROVE  Carried(h)'
  <1> USE DEF TypeInv, TypeOK
  <1>0. Carried(h)
    BY DEF CarriedInv
  <1>1. CASE Begin(h)
    <2>1. ASSUME NEW b \in Branches, NEW c \in Starts, BeginBranch(h, b, c) PROVE Carried(h)'
      BY <2>1 DEF BeginBranch, Starts, Carried
    <2>2. CASE BeginCommit(h)
      BY <2>2 DEF BeginCommit, Carried
    <2> QED
      BY <1>0, <1>1, <2>1, <2>2 DEF Begin, BeginAdd, BeginRemove, PatchStaged, PatchUnstaged, PutPatched,
         CheckoutBranch, CheckoutDetached, Carried
  <1>2. CASE Finish(h)
    BY <1>2 DEF Finish, Carried
  <1>3. CASE PutObject(h) \/ LoadIndex(h) \/ SaveTruncate(h) \/ LockRefs(h) \/ PutCommit(h)
             \/ ReadTarget(h) \/ Advance(h)
    BY <1>0, <1>3 DEF PutObject, LoadIndex, SaveTruncate, LockRefs, PutCommit, ReadTarget, Advance, Carried
  <1>4. ASSUME NEW S \in SUBSET Paths, Reprobe(h, S) PROVE Carried(h)'
    <2>1. /\ pc[h] = "reprobe" /\ pc'[h] = "base" /\ loaded' = loaded
          /\ commits' = commits /\ branches' = branches /\ head' = head
      BY <1>4 DEF Reprobe
    <2>2. idx[h] = loaded[h]
      BY <1>0, <2>1 DEF Carried
    <2>3. HeadCommit' = HeadCommit /\ TreeOf(HeadCommit)' = TreeOf(HeadCommit)
      BY <2>1 DEF HeadCommit, TreeOf
    <2>4. ASSUME NEW p \in Paths, idx'[h][p] # loaded'[h][p]
          PROVE  /\ idx'[h][p] \in Values
                 /\ TreeOf(HeadCommit)'[p] \in Values
                 /\ \E s \in SchemaPaths : loaded'[h][s] \in Values
      <3>1. p \in S /\ idx'[h][p] = Rebuilt[TreeOf(HeadCommit)[p]]
        BY <1>4, <2>1, <2>2, <2>4 DEF Reprobe
      <3>2. S \subseteq Rebuildable(TreeOf(HeadCommit)) /\ SchemaChanged(idx[h], TreeOf(HeadCommit))
        BY <1>4, <3>1 DEF Reprobe
      <3>3. TreeOf(HeadCommit)[p] \in Values
        BY <3>1, <3>2 DEF Rebuildable
      <3>4. idx'[h][p] \in Values
        BY <3>1, <3>3, RepoAssumption
      <3> QED
        BY <2>1, <2>2, <2>3, <3>2, <3>3, <3>4 DEF SchemaChanged
    <2> QED
      BY <2>1, <2>3, <2>4 DEF Carried
  <1>5. CASE ReadBase(h)
    <2>1. /\ pc[h] = "base" /\ pc'[h] = "apply" /\ base'[h] = HeadCommit /\ HeadCommit # NoSuch
          /\ idx' = idx /\ loaded' = loaded /\ commits' = commits /\ branches' = branches /\ head' = head
      BY <1>5 DEF ReadBase
    <2>2. TreeOf(HeadCommit)' = TreeOf(HeadCommit)
      BY <2>1 DEF HeadCommit, TreeOf
    <2> QED
      BY <1>0, <2>1, <2>2 DEF Carried
  <1>6. CASE \E p \in Paths : Apply(h, p)
    <2>1. /\ pc' = pc /\ base' = base /\ idx' = idx /\ loaded' = loaded /\ dest' = dest
          /\ commits' = commits /\ branches' = branches /\ head' = head
      BY <1>6 DEF Apply
    <2>2. TreeOf(HeadCommit)' = TreeOf(HeadCommit)
      BY <2>1 DEF HeadCommit, TreeOf
    <2> QED
      BY <1>0, <2>1, <2>2 DEF Carried
  <1>7. ASSUME NEW p \in Paths, NEW v, PutPatched(h, p, v) PROVE Carried(h)'
    BY <1>7 DEF PutPatched, Carried
  <1>8. CASE ResolvePatch(h)
    <2>1. edit[h].path \in Paths
      BY DEF Edit
    <2> QED
      BY <1>2, <1>7, <1>8, <2>1 DEF ResolvePatch
  <1> QED
    BY <1>1, <1>2, <1>3, <1>4, <1>5, <1>6, <1>8
       DEF Step, Abort, LoadFails, SaveWrite, HeadMissing, ApplyFails, WriteBranch

LEMMA CarriedNext == ASSUME Solo PROVE TypeInv /\ CarriedInv /\ [Next]_vars => CarriedInv'
  <1> SUFFICES ASSUME TypeInv, CarriedInv, [Next]_vars PROVE CarriedInv'
    OBVIOUS
  <1>0. CASE UNCHANGED vars
    BY <1>0 DEF vars, CarriedInv, Carried, HeadCommit, TreeOf
  <1>1. ASSUME NEW h \in Handles, Begin(h) \/ Step(h) \/ Abort(h) PROVE CarriedInv'
    BY <1>1, CarriedStep DEF CarriedInv, Solo
  <1> QED
    BY <1>0, <1>1 DEF Next

LEMMA CarriedInit == Init => CarriedInv
  BY DEF Init, CarriedInv, Carried

-----------------------------------------------------------------------------
(* Only a commit at a detached HEAD and a checkout write HEAD.              *)
LEMMA HeadFrame ==
  ASSUME [Next]_vars
  PROVE  \/ head' = head
         \/ \E h \in Handles : \/ Advance(h)
                               \/ \E b \in Branches : CheckoutBranch(h, b)
                               \/ \E c \in Starts : CheckoutDetached(h, c)
  <1>1. ASSUME NEW h \in Handles, Step(h), ~Advance(h) PROVE head' = head
    BY <1>1 DEF Step, ResolvePatch, PutObject, LoadIndex, LoadFails, SaveTruncate, SaveWrite, LockRefs,
       Reprobe, HeadMissing, ReadBase, Apply, ApplyFails, PutCommit, ReadTarget, WriteBranch
  <1>2. ASSUME NEW h \in Handles, Begin(h) \/ Abort(h),
               \A b \in Branches : ~CheckoutBranch(h, b), \A c \in Starts : ~CheckoutDetached(h, c)
        PROVE  head' = head
    BY <1>2 DEF Abort, Begin, BeginAdd, BeginRemove, PatchStaged, PatchUnstaged,
       BeginBranch, BeginCommit
  <1> QED
    BY <1>1, <1>2 DEF Next, vars

(* The abstract log is a sequence as long as the commits.                   *)
LEMMA LogSeq ==
  ASSUME TypeOK
  PROVE  /\ DOMAIN Log = DOMAIN commits
         /\ Len(Log) = Len(commits)
         /\ Len(commits) \in Nat /\ DOMAIN commits = 1 .. Len(commits)
         /\ commits # <<>> => Log # <<>>
         /\ \A c \in DOMAIN commits : Log[c] = [tree |-> commits[c].tree, parent |-> commits[c].parent,
                                                staged |-> commits[c].loaded]
  <1>1. Len(commits) \in Nat /\ DOMAIN commits = 1 .. Len(commits)
    BY LenProperties DEF TypeOK
  <1>2. DOMAIN Log = DOMAIN commits
    BY DEF Log
  <1>3. Len(Log) = Len(commits)
    BY <1>1, <1>2
  <1>4. commits # <<>> => Log # <<>>
    <2>1. commits # <<>> => Len(commits) # 0
      BY EmptySeq DEF TypeOK
    <2>2. Log = <<>> => Len(Log) = 0
      OBVIOUS
    <2> QED
      BY <1>3, <2>1, <2>2
  <1> QED
    BY <1>1, <1>2, <1>3, <1>4 DEF Log

(* Putting a commit object appends its record to the log.                   *)
LEMMA LogAppend ==
  ASSUME TypeOK, NEW h \in Handles, PutCommit(h)
  PROVE  Log' = Append(Log, [tree |-> root[h], parent |-> HeadCommit, staged |-> loaded[h]])
  <1> DEFINE e == [tree |-> root[h], parent |-> HeadCommit, staged |-> loaded[h]]
             n == Len(commits)
             Rec == [tree : Tree, parent : Ref, staged : Staged]
  <1>1. /\ n \in Nat /\ DOMAIN commits = 1 .. n /\ DOMAIN commits' = 1 .. n + 1
        /\ \A c \in 1 .. n : commits'[c] = commits[c]
        /\ commits'[n + 1] = MadeBy(h)
    BY PutCommitStep
  <1>2. Log' = [c \in 1 .. n + 1 |-> [tree |-> commits'[c].tree, parent |-> commits'[c].parent,
                                       staged |-> commits'[c].loaded]]
    BY <1>1 DEF Log
  <1>3. Log = [c \in 1 .. n |-> [tree |-> commits[c].tree, parent |-> commits[c].parent,
                                  staged |-> commits[c].loaded]]
    BY <1>1 DEF Log
  <1>4. Log'[n + 1] = e
    BY <1>1, <1>2 DEF MadeBy
  <1>5. \A c \in 1 .. n : Log'[c] = Log[c]
    BY <1>1, <1>2, <1>3
  <1>6. Log \in Seq(Rec) /\ Len(Log) = n
    <2>1. \A c \in 1 .. n : commits[c] \in Commit
      BY <1>1 DEF TypeOK
    <2>2. \A c \in 1 .. n : Log[c] \in Rec
      BY <1>3, <2>1 DEF Commit
    <2> QED
      BY <1>1, <1>3, <2>2
  <1>7. e \in Rec
    BY HeadCommitType DEF TypeOK
  <1>8. /\ Append(Log, e) \in Seq(Rec) /\ Len(Append(Log, e)) = n + 1
        /\ \A c \in 1 .. n : Append(Log, e)[c] = Log[c]
        /\ Append(Log, e)[n + 1] = e
    BY <1>6, <1>7, AppendProperties
  <1>9. Append(Log, e) = [c \in 1 .. n + 1 |-> Append(Log, e)[c]]
    BY <1>8
  <1>10. Log' = [c \in 1 .. n + 1 |-> Log'[c]]
    BY <1>2
  <1>11. \A c \in 1 .. n + 1 : Log'[c] = Append(Log, e)[c]
    BY <1>1, <1>4, <1>5, <1>8
  <1> QED
    BY <1>9, <1>10, <1>11

LEMMA RefineInit == Init => H!Init
  <1> SUFFICES ASSUME Init PROVE H!Init
    OBVIOUS
  <1>1. commits = <<>>
    BY DEF Init
  <1>2. Log = <<>>
    BY <1>1 DEF Log
  <1> QED
    BY <1>2 DEF Init, H!Init, H!Unborn, Unborn, H!NoChanges, NoChanges

-----------------------------------------------------------------------------
AbstractVars == <<Log, branches, head, index>>

LEMMA SameTip == H!Tip = HeadCommit
  BY DEF H!Tip, HeadCommit

LEMMA SameTree ==
  ASSUME TypeOK, NEW c
  PROVE  H!At(c) = TreeOf(c)
  BY LogSeq DEF H!At, TreeOf, H!EmptyTree, EmptyTree

(* save_index is Stage, Clear, or does not show.                            *)
LEMMA RefineSave ==
  ASSUME TypeInv, FreshInv, NEW h \in Handles, SaveWrite(h)
  PROVE  H!Next \/ UNCHANGED AbstractVars
  <1> USE DEF TypeInv
  <1>1. commits' = commits /\ branches' = branches /\ head' = head /\ pc[h] = "write"
    BY DEF SaveWrite
  <1>2. Log' = Log
    BY <1>1 DEF Log
  <1>3. CASE index' = index
    BY <1>1, <1>2, <1>3 DEF AbstractVars
  <1>4. CASE index' # index
    <2>1. index' = idx[h]
      BY <1>4 DEF SaveWrite
    <2>2. Fresh(h)
      BY DEF FreshInv
    <2>3. CASE \E p \in Paths : idx[h] = [index EXCEPT ![p] = idx[h][p]]
      <3>1. PICK p \in Paths : idx[h] = [index EXCEPT ![p] = idx[h][p]]
        BY <2>3
      <3>2. idx[h][p] \in Values \cup {NoChange, Deleted}
        BY DEF TypeOK, Staged
      <3>3. H!Stage(p, idx[h][p])
        BY <1>1, <1>2, <2>1, <3>1 DEF H!Stage
      <3> QED
        BY <3>2, <3>3 DEF H!Next
    <2>4. CASE idx[h] = NoChanges /\ commits # <<>> /\ commits[Len(commits)].loaded = index
      <3>1. Log # <<>> /\ Log[Len(Log)].staged = index
        <4>1. Len(commits) \in DOMAIN commits
          BY <2>4, LogSeq, EmptySeq DEF TypeOK
        <4> QED
          BY <2>4, <4>1, LogSeq
      <3>2. H!Clear
        BY <1>1, <1>2, <2>1, <2>4, <3>1 DEF H!Clear, H!NoChanges, NoChanges
      <3> QED
        BY <3>2 DEF H!Next
    <2> QED
      BY <1>1, <2>2, <2>3, <2>4 DEF Fresh
  <1> QED
    BY <1>3, <1>4

(* Moving the branch, or the detached HEAD, is Land.                        *)
LEMMA RefineAdvance ==
  ASSUME TypeInv, FreshInv, NEW h \in Handles, Advance(h)
  PROVE  H!Next
  <1> USE DEF TypeInv
  <1>1. /\ commits' = commits /\ index' = index /\ pc[h] = "advance"
    BY DEF Advance
  <1>2. Log' = Log
    BY <1>1 DEF Log
  <1>3. /\ dest[h] = head /\ new[h] = Len(commits) /\ new[h] \in DOMAIN commits
        /\ commits[new[h]].parent = HeadCommit /\ commits[new[h]].loaded = index
    BY <1>1 DEF FreshInv, Fresh
  <1>4. /\ Log # <<>> /\ Len(Log) = new[h]
        /\ Log[Len(Log)].parent = H!Tip /\ Log[Len(Log)].staged = index
    BY <1>3, LogSeq, SameTip
  <1>5. CASE head.branch = NoBranch
    BY <1>1, <1>2, <1>3, <1>4, <1>5 DEF Advance, H!Land, H!Next
  <1>6. CASE head.branch # NoBranch
    BY <1>1, <1>2, <1>3, <1>4, <1>6 DEF Advance, H!Land, H!Next
  <1> QED
    BY <1>5, <1>6

(* Putting the commit object is Record.                                     *)
LEMMA RefinePut ==
  ASSUME TypeInv, FreshInv, CarriedInv, LoopInv, NEW h \in Handles, PutCommit(h)
  PROVE  H!Next
  <1> USE DEF TypeInv
  <1>1. /\ branches' = branches /\ head' = head /\ index' = index
        /\ pc[h] = "apply" /\ pend[h] = {}
    BY DEF PutCommit
  <1>2. base[h] = HeadCommit /\ base[h] # NoSuch /\ loaded[h] = index
    BY <1>1 DEF FreshInv, Fresh, CarriedInv, Carried, CommitPcs
  <1>3. root[h] \in Tree /\ idx[h] \in Staged
    BY DEF TypeOK
  <1>4. Log' = Append(Log, [tree |-> root[h], parent |-> H!Tip, staged |-> index])
    BY <1>2, LogAppend, SameTip
  <1>5. LoopOK(h) /\ Without(idx[h], {}) = idx[h]
    BY <1>1, <1>3, OverlayNothing, EmptyTypes DEF LoopInv
  <1>6. WellFormed(root[h]) /\ (PrefixFree(idx[h]) => root[h] = Overlay(H!At(H!Tip), idx[h]))
    BY <1>1, <1>2, <1>5, SameTip, SameTree DEF LoopOK
  <1>7. H!WellFormed(root[h]) <=> WellFormed(root[h])
    BY DEF H!WellFormed, WellFormed, H!Below, Below
  <1>8. H!PrefixFree(idx[h]) <=> PrefixFree(idx[h])
    BY DEF H!PrefixFree, PrefixFree, H!StagedPaths, StagedPaths, H!Below, Below
  <1>9. H!Overlay(H!At(H!Tip), idx[h]) = Overlay(H!At(H!Tip), idx[h])
    BY DEF H!Overlay, Overlay, H!StagedPaths, StagedPaths, H!Below, Below
  <1>10. H!Applies(idx[h])
    BY <1>1, <1>2, SameTip, SameTree DEF H!Applies, CarriedInv, Carried
  <1>11. H!Tip # H!NoSuch
    BY <1>2, SameTip DEF H!NoSuch, NoSuch
  <1>12. idx[h] \in H!Staged /\ root[h] \in H!Tree
    BY <1>3 DEF H!Staged, Staged, H!Tree, Tree
  <1>13. \E m \in H!Staged : /\ H!Applies(m)
                             /\ H!PrefixFree(m) => root[h] = H!Overlay(H!At(H!Tip), m)
    BY <1>6, <1>8, <1>9, <1>10, <1>12
  <1>14. H!Record(root[h])
    BY <1>1, <1>4, <1>6, <1>7, <1>11, <1>13 DEF H!Record
  <1> QED
    BY <1>12, <1>14 DEF H!Next

LEMMA RefineBranch ==
  ASSUME TypeInv, FreshInv, CarriedInv, NEW h \in Handles, WriteBranch(h)
  PROVE  H!Next
  <1> USE DEF TypeInv
  <1>1. /\ commits' = commits /\ index' = index /\ head' = head /\ pc[h] = "branch"
        /\ branches' = [branches EXCEPT ![dest[h].branch] = dest[h].commit]
    BY DEF WriteBranch
  <1>2. Log' = Log
    BY <1>1 DEF Log
  <1>3. /\ branches[dest[h].branch] = Unborn /\ dest[h].branch \in Branches
        /\ dest[h].commit \in DOMAIN commits \cup {NoSuch}
    BY <1>1 DEF FreshInv, Fresh, CarriedInv, Carried
  <1>4. dest[h].commit \in H!Names
    BY <1>3, LogSeq DEF H!Names, H!NoSuch, NoSuch
  <1>5. H!Branch(dest[h].branch, dest[h].commit)
    BY <1>1, <1>2, <1>3, <1>4 DEF H!Branch, H!Unborn, Unborn
  <1> QED
    BY <1>3, <1>4, <1>5 DEF H!Next

LEMMA RefineCheckout ==
  ASSUME TypeInv, NEW h \in Handles,
         \/ \E b \in Branches : CheckoutBranch(h, b)
         \/ \E c \in Starts : CheckoutDetached(h, c)
  PROVE  H!Next
  <1> USE DEF TypeInv
  <1>1. commits' = commits /\ branches' = branches /\ index' = index
    BY DEF CheckoutBranch, CheckoutDetached
  <1>2. Log' = Log
    BY <1>1 DEF Log
  <1>3. ASSUME NEW b \in Branches, CheckoutBranch(h, b) PROVE H!Next
    <2>1. H!Checkout(b)
      BY <1>1, <1>2, <1>3 DEF CheckoutBranch, H!Checkout, H!Unborn, Unborn
    <2> QED
      BY <2>1 DEF H!Next
  <1>4. ASSUME NEW c \in Starts, CheckoutDetached(h, c) PROVE H!Next
    <2>1. c \in H!Names
      BY <1>4, LogSeq DEF Starts, H!Names, H!NoSuch, NoSuch
    <2>2. H!Detach(c)
      BY <1>1, <1>2, <1>4, <2>1 DEF CheckoutDetached, H!Detach
    <2> QED
      BY <2>1, <2>2 DEF H!Next
  <1> QED
    BY <1>3, <1>4

LEMMA RefineNext ==
  TypeInv /\ FreshInv /\ CarriedInv /\ LoopInv /\ [Next]_vars => [H!Next]_(H!vars)
  <1> SUFFICES ASSUME TypeInv, FreshInv, CarriedInv, LoopInv, [Next]_vars
               PROVE  H!Next \/ UNCHANGED AbstractVars
    BY DEF H!vars, AbstractVars
  <1>1. ASSUME NEW h \in Handles, SaveWrite(h) PROVE H!Next \/ UNCHANGED AbstractVars
    BY <1>1, RefineSave
  <1>2. ASSUME NEW h \in Handles, Advance(h) PROVE H!Next
    BY <1>2, RefineAdvance
  <1>3. ASSUME NEW h \in Handles, PutCommit(h) PROVE H!Next
    BY <1>3, RefinePut
  <1>4. ASSUME NEW h \in Handles, WriteBranch(h) PROVE H!Next
    BY <1>4, RefineBranch
  <1>5. ASSUME NEW h \in Handles,
               \/ \E b \in Branches : CheckoutBranch(h, b)
               \/ \E c \in Starts : CheckoutDetached(h, c)
        PROVE  H!Next
    BY <1>5, RefineCheckout
  <1>6. CASE commits' = commits /\ branches' = branches /\ head' = head /\ index' = index
    BY <1>6 DEF AbstractVars, Log
  <1> QED
    BY <1>1, <1>2, <1>3, <1>4, <1>5, <1>6, CommitsFrame, BranchesFrame, HeadFrame, IndexFrame

(* A repository with a single handle implements the abstract history.       *)
THEOREM SoloImplements == ASSUME Solo PROVE Spec => ImplementsHistory
  <1>1. Init => RefInv /\ CommitsWellFormed /\ CommitIsOverlay /\ LoopInv
    BY DEF Init, RefInv, Known, NoDest, Unborn, CommitsWellFormed, CommitIsOverlay, LoopInv
  <1>2. TypeInv /\ RefInv /\ [Next]_vars => RefInv'
    BY RefStep DEF TypeInv
  <1>3. TypeInv /\ TypeInv' /\ RefInv /\ CommitsWellFormed /\ CommitIsOverlay /\ LoopInv
          /\ [Next]_vars => CommitsWellFormed' /\ CommitIsOverlay' /\ LoopInv'
    BY LoopStep, CommitStep
  <1> QED
    BY <1>1, <1>2, <1>3, TypeCorrect, FreshInit, FreshNext, CarriedInit, CarriedNext,
       RefineInit, RefineNext, PTL DEF Spec, ImplementsHistory, H!Spec
=============================================================================
