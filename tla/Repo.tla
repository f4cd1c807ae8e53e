-------------------------------- MODULE Repo --------------------------------
(***************************************************************************)
(* The write path of an OMP repository (crates/omp-core/src/api.rs): the   *)
(* content-addressed store, the refs, HEAD, the staging index on disk, and *)
(* the handles that work on them.                                          *)
(*                                                                         *)
(* A handle is one opened Repo: a server's cached tenant handle, or the    *)
(* one an `omp` command opens.  Its write_lock serialises its writers for  *)
(* the whole of an operation, so a handle runs one operation at a time and *)
(* pc[h] = "idle" says that its write_lock is free.  Two handles share     *)
(* only the files below .omp/; between them, refs.lock is the only lock    *)
(* and only a commit takes it.  Each step is one access to a shared file,  *)
(* so the steps of two handles interleave as the files allow.              *)
(*                                                                         *)
(* Objects are abstract: Parts[v] lists what an ingest puts before the     *)
(* object v that it stages (a blob; or chunk blobs and a chunks object).   *)
(* Commit objects carry the author's timestamp, so each commit is a fresh  *)
(* object, numbered in the order of its put.                               *)
(***************************************************************************)
EXTENDS Trees, Integers, Sequences, FiniteSets

CONSTANTS
    Handles,
    Blobs,         \* source objects: blobs and chunks objects
    Parts,         \* value -> the source objects put before it, in order
    SchemaPaths,   \* schemas/<type>/schema.toml
    Inputs,        \* pairs <<path, value>> that a run may add
    Rebuilt,       \* manifest -> the manifest reprobe_one makes of it
    Patched,       \* manifest -> the manifest patch_fields makes of it
    Branches,
    Main,          \* the branch HEAD names after init
    NoBranch,      \* HEAD is detached
    Nobody,        \* refs.lock is free
    MaxCommits     \* bound on the commits of a run

NoSuch == -1       \* a well-formed hash that names no object
Unborn == 0        \* the ref file does not exist

ASSUME RepoAssumption ==
    /\ Paths # {}
    /\ Parts \in [Values -> Seq(Blobs)]
    /\ \A v \in Values \cap Blobs : Parts[v] = <<>>
    /\ SchemaPaths \subseteq Paths
    /\ Inputs \subseteq Paths \X Values
    /\ Rebuilt \in [Values -> Values]
    /\ \A v \in Values : Parts[Rebuilt[v]] = Parts[v]
    /\ Patched \in [Values -> Values]
    /\ Main \in Branches
    /\ NoBranch \notin Branches
    /\ Nobody \notin Handles

VARIABLES
    \* .omp/ on disk
    objects,    \* blobs, chunks objects and manifests under objects/
    commits,    \* commit objects, in the order of their put
    branches,   \* refs/heads/*
    head,       \* HEAD
    index,      \* last complete content of index.json
    idxState,   \* whether index.json can be parsed
    refsLock,   \* holder of refs.lock
    \* the operation a handle is running
    pc, todo, edit, idx, loaded, pend, root, base, new, dest

disk   == <<objects, commits, branches, head, index, idxState>>
locals == <<pc, todo, edit, idx, loaded, pend, root, base, new, dest>>
vars   == <<disk, refsLock, locals>>

Ref     == Nat \cup {NoSuch}
HeadVal == [branch : Branches \cup {NoBranch}, commit : Ref]
Edit    == [path : Paths, change : Values \cup {NoChange, Deleted}]
NoDest  == [branch |-> NoBranch, commit |-> Unborn]
NoEdit  == [path |-> CHOOSE p \in Paths : TRUE, change |-> NoChange]

(* base, loaded and applied are history: the commit whose tree was read,    *)
(* the index that was loaded, and the index that reprobing left.            *)
Commit == [tree : Tree, parent : Ref, base : Ref,
           loaded : Staged, applied : Staged]

CommitPcs == {"lock", "reprobe", "base", "apply", "target", "advance"}
Pcs == {"idle", "resolve", "put", "load", "truncate", "write", "branch"} \cup CommitPcs

HeadCommit == IF head.branch = NoBranch THEN head.commit ELSE branches[head.branch]
TreeOf(c)  == IF c \in DOMAIN commits THEN commits[c].tree ELSE EmptyTree

Init ==
    /\ objects = {}
    /\ commits = <<>>
    /\ branches = [b \in Branches |-> Unborn]
    /\ head = [branch |-> Main, commit |-> Unborn]
    /\ index = NoChanges
    /\ idxState = "ok"
    /\ refsLock = Nobody
    /\ pc = [h \in Handles |-> "idle"]
    /\ todo = [h \in Handles |-> <<>>]
    /\ edit = [h \in Handles |-> NoEdit]
    /\ idx = [h \in Handles |-> NoChanges]
    /\ loaded = [h \in Handles |-> NoChanges]
    /\ pend = [h \in Handles |-> {}]
    /\ root = [h \in Handles |-> EmptyTree]
    /\ base = [h \in Handles |-> Unborn]
    /\ new = [h \in Handles |-> Unborn]
    /\ dest = [h \in Handles |-> NoDest]

-----------------------------------------------------------------------------
(* Faulty: the guard of refs.lock is never dropped.                         *)
KeepRefsLock(h) == UNCHANGED refsLock

DropRefsLock(h) == refsLock' = IF refsLock = h THEN Nobody ELSE refsLock

(* The operation of h returns, or its process dies: the guards are dropped  *)
(* and so is everything held in memory.                                     *)
Finish(h) ==
    /\ pc' = [pc EXCEPT ![h] = "idle"]
    /\ todo' = [todo EXCEPT ![h] = <<>>]
    /\ edit' = [edit EXCEPT ![h] = NoEdit]
    /\ idx' = [idx EXCEPT ![h] = NoChanges]
    /\ loaded' = [loaded EXCEPT ![h] = NoChanges]
    /\ pend' = [pend EXCEPT ![h] = {}]
    /\ root' = [root EXCEPT ![h] = EmptyTree]
    /\ base' = [base EXCEPT ![h] = Unborn]
    /\ new' = [new EXCEPT ![h] = Unborn]
    /\ dest' = [dest EXCEPT ![h] = NoDest]
    /\ DropRefsLock(h)

(* An I/O error returned with `?` from any step, or a crash of the process: *)
(* what was written stays, nothing is undone.                               *)
Abort(h) ==
    /\ pc[h] # "idle"
    /\ Finish(h)
    /\ UNCHANGED disk

-----------------------------------------------------------------------------
(* The bound of a run: staging and committing stop after MaxCommits commits.*)
Room == Len(commits) + Cardinality({g \in Handles : pc[g] \in CommitPcs}) < MaxCommits

(* Faulty: the manifest is put before the source it points at.              *)
ManifestFirst(v) == <<v>> \o Parts[v]

PutOrder(v) == Append(Parts[v], v)

(* add: read HEAD for config, schemas and probes, put the source objects,   *)
(* put the staged object, stage it.  A file that is refused changes nothing.*)
BeginAdd(h, p, v) ==
    /\ pc[h] = "idle"
    /\ Room
    /\ HeadCommit # NoSuch
    /\ <<p, v>> \in Inputs
    /\ pc' = [pc EXCEPT ![h] = "put"]
    /\ todo' = [todo EXCEPT ![h] = PutOrder(v)]
    /\ edit' = [edit EXCEPT ![h] = [path |-> p, change |-> v]]
    /\ UNCHANGED <<disk, refsLock, idx, loaded, pend, root, base, new, dest>>

PutObject(h) ==
    /\ pc[h] = "put"
    /\ objects' = objects \cup {Head(todo[h])}
    /\ todo' = [todo EXCEPT ![h] = Tail(todo[h])]
    /\ pc' = [pc EXCEPT ![h] = IF Len(todo[h]) = 1 THEN "load" ELSE "put"]
    /\ UNCHANGED <<commits, branches, head, index, idxState, refsLock,
                   edit, idx, loaded, pend, root, base, new, dest>>

BeginRemove(h, p) ==
    /\ pc[h] = "idle"
    /\ Room
    /\ pc' = [pc EXCEPT ![h] = "load"]
    /\ edit' = [edit EXCEPT ![h] = [path |-> p, change |-> Deleted]]
    /\ UNCHANGED <<disk, refsLock, todo, idx, loaded, pend, root, base, new, dest>>

(* patch_fields: read the manifest that is staged at p or, when nothing is, *)
(* the one in HEAD, and its source; put a manifest with the new fields.     *)
HasSource(v) == v \in Values /\ Parts[v] # <<>> /\ Parts[v][Len(Parts[v])] \in objects

PutPatched(h, p, v) ==
    /\ pc' = [pc EXCEPT ![h] = "put"]
    /\ todo' = [todo EXCEPT ![h] = <<Patched[v]>>]
    /\ edit' = [edit EXCEPT ![h] = [path |-> p, change |-> Patched[v]]]
    /\ UNCHANGED <<refsLock, idx, loaded, pend, root, base, new, dest>>

PatchStaged(h, p) ==
    /\ pc[h] = "idle"
    /\ Room
    /\ idxState = "ok"
    /\ HasSource(index[p])
    /\ HeadCommit # NoSuch
    /\ PutPatched(h, p, index[p])
    /\ UNCHANGED disk

PatchUnstaged(h, p) ==
    /\ pc[h] = "idle"
    /\ Room
    /\ idxState = "ok"
    /\ index[p] = NoChange
    /\ pc' = [pc EXCEPT ![h] = "resolve"]
    /\ edit' = [edit EXCEPT ![h] = [path |-> p, change |-> NoChange]]
    /\ UNCHANGED <<disk, refsLock, todo, idx, loaded, pend, root, base, new, dest>>

ResolvePatch(h) ==
    /\ pc[h] = "resolve"
    /\ LET v == TreeOf(HeadCommit)[edit[h].path]
       IN  IF HasSource(v) THEN PutPatched(h, edit[h].path, v) ELSE Finish(h)
    /\ UNCHANGED disk

(* stage_upsert and remove: load_index, insert one entry, save_index.       *)
LoadIndex(h) ==
    /\ pc[h] = "load"
    /\ idxState = "ok"
    /\ idx' = [idx EXCEPT ![h] = [index EXCEPT ![edit[h].path] = edit[h].change]]
    /\ pc' = [pc EXCEPT ![h] = "truncate"]
    /\ UNCHANGED <<disk, refsLock, todo, edit, loaded, pend, root, base, new, dest>>

LoadFails(h) ==
    /\ pc[h] = "load"
    /\ idxState # "ok"
    /\ Finish(h)
    /\ UNCHANGED disk

(* save_index is fs::write: open with O_TRUNC, then write.  Between the two *)
(* index.json is empty, which load_index reports as corrupt.                *)
SaveTruncate(h) ==
    /\ pc[h] = "truncate"
    /\ idxState' = "empty"
    /\ pc' = [pc EXCEPT ![h] = "write"]
    /\ UNCHANGED <<objects, commits, branches, head, index, refsLock,
                   todo, edit, idx, loaded, pend, root, base, new, dest>>

(* A write at offset 0 over what another handle wrote after our truncate    *)
(* leaves that content's tail behind unless ours is at least as long.       *)
SaveWrite(h) ==
    /\ pc[h] = "write"
    /\ \/ index' = idx[h] /\ idxState' = "ok"
       \/ idxState # "empty" /\ idxState' = "garbled" /\ UNCHANGED index
    /\ Finish(h)
    /\ UNCHANGED <<objects, commits, branches, head>>

-----------------------------------------------------------------------------
(* commit_with_keys: the index is loaded before refs.lock is taken.         *)
BeginCommit(h) ==
    /\ pc[h] = "idle"
    /\ idxState = "ok"
    /\ index # NoChanges
    /\ Room
    /\ idx' = [idx EXCEPT ![h] = index]
    /\ loaded' = [loaded EXCEPT ![h] = index]
    /\ pc' = [pc EXCEPT ![h] = "lock"]
    /\ UNCHANGED <<disk, refsLock, todo, edit, pend, root, base, new, dest>>

LockRefs(h) ==
    /\ pc[h] = "lock"
    /\ refsLock = Nobody
    /\ refsLock' = h
    /\ pc' = [pc EXCEPT ![h] = "reprobe"]
    /\ UNCHANGED <<disk, todo, edit, idx, loaded, pend, root, base, new, dest>>

(* Faulty: every commit reprobes the types that HEAD has a schema for.      *)
SchemaKnown(m, tr) == \E s \in SchemaPaths : tr[s] \in Values

(* A staged schema that HEAD does not already have.                         *)
SchemaStaged(m) == \E s \in SchemaPaths : m[s] \in Values
SchemaChanged(m, tr) == \E s \in SchemaPaths : m[s] \in Values /\ m[s] # tr[s]

(* The files reprobe_one can rebuild: their source is one stored blob.      *)
Rebuildable(tr) ==
    {p \in Paths \ SchemaPaths :
        /\ tr[p] \in Values
        /\ Rebuilt[tr[p]] # tr[p]
        /\ Len(Parts[tr[p]]) = 1
        /\ Parts[tr[p]][1] \in objects}

(* run_auto_reprobe: any of the rebuildable files of HEAD may be of another *)
(* type or fail its probes; the others enter the index, whatever it held at *)
(* their path.  OMP_DEFER_REPROBE is S = {}.                                *)
Reprobe(h, S) ==
    /\ pc[h] = "reprobe"
    /\ S # {} => /\ HeadCommit # NoSuch
                 /\ SchemaChanged(idx[h], TreeOf(HeadCommit))
                 /\ S \subseteq Rebuildable(TreeOf(HeadCommit))
    /\ LET made(p) == Rebuilt[TreeOf(HeadCommit)[p]]
       IN  /\ objects' = objects \cup {made(p) : p \in S}
           /\ idx' = [idx EXCEPT ![h] =
                        [p \in Paths |-> IF p \in S THEN made(p) ELSE idx[h][p]]]
    /\ pc' = [pc EXCEPT ![h] = "base"]
    /\ UNCHANGED <<commits, branches, head, index, idxState, refsLock,
                   todo, edit, loaded, pend, root, base, new, dest>>

(* head_tree fails when HEAD names no commit object.                        *)
HeadMissing(h) ==
    /\ \/ pc[h] = "reprobe" /\ SchemaStaged(idx[h])
       \/ pc[h] = "base"
    /\ HeadCommit = NoSuch
    /\ Finish(h)
    /\ UNCHANGED disk

ReadBase(h) ==
    /\ pc[h] = "base"
    /\ HeadCommit # NoSuch
    /\ base' = [base EXCEPT ![h] = HeadCommit]
    /\ root' = [root EXCEPT ![h] = TreeOf(HeadCommit)]
    /\ pend' = [pend EXCEPT ![h] = StagedPaths(idx[h])]
    /\ pc' = [pc EXCEPT ![h] = "apply"]
    /\ UNCHANGED <<disk, refsLock, todo, edit, idx, loaded, new, dest>>

(* One turn of the loop over idx.entries.values(), a HashMap: any order.    *)
(* put_at stores the new trees bottom-up before it returns their root.      *)
ApplyFailsAt(h, p) ==
    /\ idx[h][p] # Deleted
    /\ idx[h][p] \notin objects \/ PutBlocked(root[h], p)

(* Faulty: a turn starts from the tree of HEAD again.                       *)
ApplyToBase(h, p) ==
    /\ pc[h] = "apply"
    /\ p \in pend[h]
    /\ ~ApplyFailsAt(h, p)
    /\ root' = [root EXCEPT ![h] = ApplyChange(TreeOf(base[h]), p, idx[h][p])]
    /\ pend' = [pend EXCEPT ![h] = pend[h] \ {p}]
    /\ UNCHANGED <<disk, refsLock, pc, todo, edit, idx, loaded, base, new, dest>>

Apply(h, p) ==
    /\ pc[h] = "apply"
    /\ p \in pend[h]
    /\ ~ApplyFailsAt(h, p)
    /\ root' = [root EXCEPT ![h] = ApplyChange(root[h], p, idx[h][p])]
    /\ pend' = [pend EXCEPT ![h] = pend[h] \ {p}]
    /\ UNCHANGED <<disk, refsLock, pc, todo, edit, idx, loaded, base, new, dest>>

(* A segment that is a file, or nothing left to commit: the commit returns  *)
(* Conflict and the index stays as it was.                                  *)
ApplyFails(h) ==
    /\ pc[h] = "apply"
    /\ \/ \E p \in pend[h] : ApplyFailsAt(h, p)
       \/ pend[h] = {} /\ root[h] = EmptyTree
    /\ Finish(h)
    /\ UNCHANGED disk

PutCommit(h) ==
    /\ pc[h] = "apply"
    /\ pend[h] = {}
    /\ root[h] # EmptyTree
    /\ commits' = Append(commits,
                         [tree |-> root[h], parent |-> HeadCommit, base |-> base[h],
                          loaded |-> loaded[h], applied |-> idx[h]])
    /\ new' = [new EXCEPT ![h] = Len(commits) + 1]
    /\ pc' = [pc EXCEPT ![h] = "target"]
    /\ UNCHANGED <<objects, branches, head, index, idxState, refsLock,
                   todo, edit, idx, loaded, pend, root, base, dest>>

ReadTarget(h) ==
    /\ pc[h] = "target"
    /\ dest' = [dest EXCEPT ![h] = head]
    /\ pc' = [pc EXCEPT ![h] = "advance"]
    /\ UNCHANGED <<disk, refsLock, todo, edit, idx, loaded, pend, root, base, new>>

(* Move the branch HEAD named, or HEAD itself; then clear the index.        *)
Advance(h) ==
    /\ pc[h] = "advance"
    /\ IF dest[h].branch # NoBranch
       THEN /\ branches' = [branches EXCEPT ![dest[h].branch] = new[h]]
            /\ UNCHANGED head
       ELSE /\ head' = [branch |-> NoBranch, commit |-> new[h]]
            /\ UNCHANGED branches
    /\ idx' = [idx EXCEPT ![h] = NoChanges]
    /\ pc' = [pc EXCEPT ![h] = "truncate"]
    /\ UNCHANGED <<objects, commits, index, idxState, refsLock,
                   todo, edit, loaded, pend, root, base, new, dest>>

-----------------------------------------------------------------------------
(* resolve_ref accepts any well-formed hash without looking the object up.  *)
Starts == DOMAIN commits \cup {NoSuch}

(* branch: the existence check and the write are two file accesses, and     *)
(* refs.lock is not taken.                                                  *)
BeginBranch(h, b, c) ==
    /\ pc[h] = "idle"
    /\ c \in Starts
    /\ branches[b] = Unborn
    /\ dest' = [dest EXCEPT ![h] = [branch |-> b, commit |-> c]]
    /\ pc' = [pc EXCEPT ![h] = "branch"]
    /\ UNCHANGED <<disk, refsLock, todo, edit, idx, loaded, pend, root, base, new>>

WriteBranch(h) ==
    /\ pc[h] = "branch"
    /\ branches' = [branches EXCEPT ![dest[h].branch] = dest[h].commit]
    /\ Finish(h)
    /\ UNCHANGED <<objects, commits, head, index, idxState>>

(* checkout writes HEAD and leaves the index alone.                         *)
CheckoutBranch(h, b) ==
    /\ pc[h] = "idle"
    /\ branches[b] # Unborn
    /\ head' = [branch |-> b, commit |-> Unborn]
    /\ UNCHANGED <<objects, commits, branches, index, idxState, refsLock, locals>>

CheckoutDetached(h, c) ==
    /\ pc[h] = "idle"
    /\ c \in Starts
    /\ head' = [branch |-> NoBranch, commit |-> c]
    /\ UNCHANGED <<objects, commits, branches, index, idxState, refsLock, locals>>

-----------------------------------------------------------------------------
(* The steps an operation takes once it has begun.                          *)
Step(h) ==
    \/ ResolvePatch(h) \/ PutObject(h) \/ LoadIndex(h) \/ LoadFails(h)
    \/ SaveTruncate(h) \/ SaveWrite(h)
    \/ LockRefs(h)
    \/ \E S \in SUBSET Paths : Reprobe(h, S)
    \/ HeadMissing(h) \/ ReadBase(h)
    \/ \E p \in Paths : Apply(h, p)
    \/ ApplyFails(h) \/ PutCommit(h) \/ ReadTarget(h) \/ Advance(h)
    \/ WriteBranch(h)

Begin(h) ==
    \/ \E p \in Paths, v \in Values : BeginAdd(h, p, v)
    \/ \E p \in Paths : BeginRemove(h, p) \/ PatchStaged(h, p) \/ PatchUnstaged(h, p)
    \/ BeginCommit(h)
    \/ \E b \in Branches, c \in Starts : BeginBranch(h, b, c)
    \/ \E b \in Branches : CheckoutBranch(h, b)
    \/ \E c \in Starts : CheckoutDetached(h, c)

Next == \E h \in Handles : Begin(h) \/ Step(h) \/ Abort(h)

Spec == Init /\ [][Next]_vars

(* A running thread keeps running, and the kernel grants a contended flock  *)
(* to its waiters in turn.                                                  *)
Fairness == \A h \in Handles : WF_vars(Step(h)) /\ SF_vars(LockRefs(h))

FairSpec == Spec /\ Fairness

-----------------------------------------------------------------------------
(* Everything is of its type.                                               *)
TypeOK ==
    /\ objects \subseteq Blobs \cup Values
    /\ commits \in Seq(Commit)
    /\ branches \in [Branches -> Ref]
    /\ head \in HeadVal
    /\ index \in Staged
    /\ idxState \in {"ok", "empty", "garbled"}
    /\ refsLock \in Handles \cup {Nobody}
    /\ pc \in [Handles -> Pcs]
    /\ todo \in [Handles -> Seq(Blobs \cup Values)]
    /\ edit \in [Handles -> Edit]
    /\ idx \in [Handles -> Staged]
    /\ loaded \in [Handles -> Staged]
    /\ pend \in [Handles -> SUBSET Paths]
    /\ root \in [Handles -> Tree]
    /\ base \in [Handles -> Ref]
    /\ new \in [Handles -> Ref]
    /\ dest \in [Handles -> HeadVal]

Stored(v) == v \in objects /\ \A i \in DOMAIN Parts[v] : Parts[v][i] \in objects

(* What patch_fields' comment says of it; it is so for single-blob files.   *)
PatchKeepsSource == \A v \in Values : Parts[v] # <<>> => Parts[Patched[v]] = Parts[v]

(* Every stored manifest has its whole source stored: the raw bytes it      *)
(* points at through source_hash can be read back.                          *)
SourcesStored == \A v \in objects \cap Values : Stored(v)

(* Whatever crashes and whichever handles interleave, nothing reachable is  *)
(* missing: a stored manifest has its whole source stored (add puts the     *)
(* source first), every file of every commit and of the index is stored,    *)
(* and refs, HEAD and parents name a stored commit, none at all, or the     *)
(* unchecked hash a caller passed to branch or checkout.  Holds as long as  *)
(* patch_fields makes manifests with the source they had.                   *)
Closed ==
    /\ SourcesStored
    /\ \A c \in DOMAIN commits : \A p \in Paths :
           commits[c].tree[p] \in Values => Stored(commits[c].tree[p])
    /\ \A p \in Paths : index[p] \in Values => Stored(index[p])
    /\ \A b \in Branches : branches[b] \in DOMAIN commits \cup {Unborn, NoSuch}
    /\ head.commit \in DOMAIN commits \cup {Unborn, NoSuch}
    /\ \A c \in DOMAIN commits : commits[c].parent \in (1 .. c - 1) \cup {Unborn, NoSuch}

(* No commit holds a file below another file: put_at refuses to walk        *)
(* through a file, and replacing a directory drops what was in it, in       *)
(* whatever order the loop of commit_with_keys meets the staged changes.    *)
CommitsWellFormed == \A c \in DOMAIN commits : WellFormed(commits[c].tree)

(* The order in which commit_with_keys iterates its HashMap does not show:  *)
(* when no staged path lies below another, the tree of the commit is the    *)
(* base tree overlaid with the staged changes, every one of them.  When one *)
(* does lie below another, the order decides between two trees, or between  *)
(* a tree and a Conflict, and only CommitsWellFormed is promised.           *)
CommitIsOverlay ==
    \A c \in DOMAIN commits :
        PrefixFree(commits[c].applied) =>
            commits[c].tree = Overlay(TreeOf(commits[c].base), commits[c].applied)

(* A commit starts from the tree of the very commit it names as its parent  *)
(* (head_tree and head_commit are read at two different times).             *)
CommitOnParent == \A c \in DOMAIN commits : commits[c].base = commits[c].parent

(* A branch only ever moves from a commit to a child of that commit: no     *)
(* commit that a branch has held is lost to it, by a commit, a branch       *)
(* creation, a checkout or a crash.                                         *)
BranchesAdvance ==
    [][\A b \in Branches :
          branches'[b] # branches[b] /\ branches[b] # Unborn =>
              /\ branches'[b] \in DOMAIN commits
              /\ commits[branches'[b]].parent = branches[b]]_vars

(* The index is only emptied by a commit that loaded all of what it held.   *)
ClearedWasLoaded ==
    [][index' # index /\ index' = NoChanges =>
          /\ commits # <<>>
          /\ commits[Len(commits)].loaded = index]_vars

(* Staging one path leaves what is staged at every other path alone, and    *)
(* the index is only emptied by a commit that loaded all of what it held.   *)
StagedChangesKept ==
    [][index' # index =>
          \/ \E p \in Paths : index' = [index EXCEPT ![p] = index'[p]]
          \/ /\ index' = NoChanges
             /\ commits # <<>>
             /\ commits[Len(commits)].loaded = index]_vars

(* Every operation that begins ends, also a commit that waits for refs.lock *)
(* while the commit of another handle holds it: every way out of commit,    *)
(* crashes included, drops the guard.                                       *)
OpsEnd == \A h \in Handles : pc[h] # "idle" ~> pc[h] = "idle"
=============================================================================
