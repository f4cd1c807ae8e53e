# TLA+ models of the Open Memory Protocol

OMP is a content-addressed store for files and for structured metadata about
them ("manifests"), with commits, branches, sandboxed WASM probes that fill the
metadata in, and services around it. This directory holds TLA+ modules
translated from the Rust source, TLC configurations that check them on small
instances, and proofs that TLAPS checks for every instance.

Contents: [1 the system](#1-the-system) · [2 modules and code](#2-modules-and-code) ·
[3 runs](#3-runs) · [4 bounds](#4-bounds) · [5 fairness](#5-fairness) ·
[6 proofs](#6-proofs) · [7 where code and words differ](#7-where-code-and-words-differ) ·
[8 not modelled](#8-not-modelled) · [9 plan](#9-plan)

To repeat a run: `tlc -config MCRepoOne.cfg MCRepo`; to repeat a proof:
`tlapm MarketProofs.tla`.

## 1 The system

Paths are below `src/`.

| part | state it keeps | operations | hard behaviour | what makes it correct |
|---|---|---|---|---|
| repository write path (`crates/omp-core/src/api.rs`, `refs.rs`) | `index.json`, refs, HEAD, one `write_lock` per opened `Repo` | add, add_chunked, patch_fields, remove, commit with auto-reprobe, branch, checkout | a server handle and CLI processes on one directory, crashes between two file accesses, HashMap order | nothing reachable is missing; a commit is its base tree overlaid with what was staged and stands on its parent; branches only advance; no staged change is lost |
| object store (`store/disk.rs`, `store/mod.rs`) | objects by hash, ref files, `refs.lock` | put, put_stream, get, read/write ref and HEAD, lock_refs | flock between processes | objects only grow; the lock is returned by every exit |
| hierarchical trees (`paths.rs`, `tree.rs`) | tree objects | put_at, delete_at, get_at, walk | leaf and directory of one name, empty directories | the recursive code computes a map from paths to files; equal file sets have one hash |
| upload sessions (`uploads.rs`, `api.rs`) | a directory of chunk files and `state.toml` per session | open, PATCH, commit, abort, reap | no lock between PATCH, abort, reaper and commit; retries | what is staged is whole; a failed commit keeps its chunks; no self-deadlock |
| manifests, schemas, probes (`engine.rs`, `schema.rs`, `probes/host.rs`, `manifest.rs`, `walker.rs`) | schemas, probes and settings at HEAD and in the index | add, patch, commit with its reprobe | order of derived fields, values reused across a schema change, one cache for all files of a reprobe | a schema is taken exactly when its fields can be ordered; a manifest is what its schema, its recorded probes and the user's fields make of the file, first made or rebuilt |
| query and diff (`query.rs`, `api.rs`) | an opaque cursor at the client | query, next page, diff | recursive descent over any text, pages while commits land | a predicate means what its text says; the pages of a query are the matches of one commit, each once; following a diff leads from one commit to the other |
| garbage collection (`gc.rs`) | none | walk | what only the tenant's keys reach | everything a commit needs is in the walk |
| encryption and shares (`keys.rs`, `share.rs`, `encrypted_manifest.rs`, `crates/omp-crypto`) | wrapped content keys | add, commit, share, revoke, apply | an add, a share or a commit between the halves of a revoke; nonces derived from the key | plaintext comes back; no nonce is used twice; who is revoked stays out |
| audit log (`audit.rs`) | a hash chain | append, read_chain | two appends at once, a crash between the two steps of one | entries appended alone stay in the chain |
| registry and quotas (`registry.rs`, `tenant.rs`) | `tenants.toml`, limits | create, remove, set quotas, quota check | commands without a lock, check before write | the file has the tenants that were created; a write that was checked exceeds the quota by no more than its own objects |
| HTTP server (`crates/omp-server`) | a cache of `Repo` handles | one route per operation | first requests of a tenant, cancelled requests, spawned event publication | one handle, so one lock, per tenant; no route puts a file of an encrypted tenant in plaintext; every request ends |
| event stream (`crates/omp-events`) | a bounded broadcast buffer | publish, subscribe | lagging subscribers | events only of durable commits, none twice; every commit reaches a watcher that keeps up |
| gateway (`crates/omp-gateway`, `crates/omp-tenant-ctx`) | cookies at the browsers, a cache of validated keys | login, callback, refresh, logout, proxy, install | callback URLs opened elsewhere, validations under way during a revocation, restarts with a new signing key, half-done installs | a session stems from a login of its own browser; revoked keys, and sessions of the provider that have ended and that the cookie names, stop within stated times |
| probe builder (`crates/omp-builder`) | job table, semaphore, scratch directories | post, delete, follow the log, run_build | deletion during a build, time limit, broadcast lag | bounded concurrency, true and final outcomes, logs without gaps |
| marketplace (`crates/omp-marketplace`) | two catalogs (memory and JSON file), a blob store without a lock | publish, patch, yank of probes and schemas | shared tmp files, failed flushes, restarts, edits against yanks | entries resolve forever; what was answered is saved |
| store service (`crates/omp-store`, `omp-store-client`, `omp-proto`) | none of its own | the object store over gRPC | | as the object store |
| CLI, frontend, starter probes, byte formats | none | | | round trips; the repository's own tests cover them |

How they interact: every operation reaches the repository through a `Repo`
handle, from the server (one cached handle per tenant) or from an `omp` process
(one handle per command). Handles share only the files under `.omp/`. Upload
sessions end in add or add_chunked of the same handle. The marketplace links
the builder's `build_inline`; the gateway forwards to server, builder and
marketplace and installs marketplace items by several calls to the server.

The hazards that follow from this, each at the line where it bites, are in
`PROJECT.json` under `hazards`, with the properties that would catch them.

## 2 Modules and code

| module | models | extends |
|---|---|---|
| `Trees` | put_at, delete_at and one turn of the commit loop, on a flat view of a tree | |
| `Repo` | the repository write path, step by step | `Trees` |
| `History` | what the repository promises: a log of commits, branches, a staging area | `Trees` |
| `RepoRefinement` | `Repo` mapped to `History` | `Repo`, instance of `History` |
| `NestedTrees` | the recursive tree code, against `Trees` | `Trees` |
| `Predicates` | parser and evaluator of query predicates, and their meaning | |
| `Pages` | pages, cursors and diff over a branch that moves, for any language of predicates | `NestedTrees` |
| `Query` | `Pages` with the language of `Predicates`, and that language by itself | both |
| `Manifests` | schemas, the manifest engine, add, patch and the reprobe of a commit | |
| `Sealed` | encrypted add, commit, show, shares, revocation, the reachability walk | |
| `Audit` | the audit log | |
| `Uploads` | one upload session | |
| `Server` | registry and admin commands, routes, Repo cache, quotas, events | |
| `Gateway` | logins, sessions, API keys, signed contexts, installs | |
| `Marketplace` | catalogs and blob store | |
| `Builder` | jobs, builds and log streams | |
| `MCRepo`, `MCQuery`, `MCManifests`, `MCSealed` (`Sealed` and `Audit`), `MCUploads`, `MCServer`, `MCGateway`, `MCMarketplace`, `MCBuilder` | instances for TLC | their module |
| `RepoProofs` | theorems about `Repo`, then about `Repo` with one handle and that it implements `History` | `RepoRefinement` |
| `PagesProofs` | theorems about `NestedTrees` and `Pages` | `Pages` |
| `StorageProofs` | theorems about `Sealed`, `Audit` and `Uploads`, which share nothing | all three |
| `ManifestProofs`, `ServerProofs`, `GatewayProofs`, `MarketProofs`, `BuilderProofs` | theorems about `Manifests`, `Server`, `Gateway`, `Marketplace`, `Builder` | their module |

`PROJECT.json` maps every definition to its lines. In every module an operator
whose comment begins with "Faulty:" is a plausible mistake in the definition
that follows it; the specification does not use it. With it in the definition's
place TLC finds the property that `PROJECT.json` names under `mutants` violated.

**Repo.** The state is what is on disk (`objects`, `commits`, `branches`, `head`,
`index`, and `idxState`, whether `index.json` can be parsed), the holder of
`refs.lock`, and per handle the operation it is running. A handle's `write_lock`
is held for the whole of an operation, so a handle is a sequential process and
the lock is free exactly when `pc[h] = "idle"`. Each step is one access to a
shared file, in the order of the code:

- add and add_chunked put the sources, then the manifest (`BeginAdd`,
  `PutObject`), then load the index, change one entry, and save it in the two
  system calls of `fs::write` (`LoadIndex`, `SaveTruncate`, `SaveWrite`); remove
  only does the second half; patch_fields first finds its manifest in the index
  or at HEAD (`PatchStaged`, `PatchUnstaged`, `ResolvePatch`);
- commit_with_keys loads the index, waits for `refs.lock`, reprobes, reads the
  base tree, applies the changes one by one in any order (the iteration of a
  `HashMap`), puts the commit, reads HEAD again, moves the branch or HEAD, and
  clears the index (`BeginCommit` … `Advance`, then the save);
- branch tests and writes a ref in two steps, checkout writes HEAD in one;
- `Abort` is an I/O error returned with `?`, or the death of the process, at any
  step. A handle that saves the index and dies between truncating and writing
  leaves an empty file; two handles that save at once may leave a garbled one;
  afterwards every load fails, as in the code.

Objects are abstract values. `Parts` gives what an ingest puts before the
object it stages, `Rebuilt` what reprobe_one makes of a manifest, `Patched` what
patch_fields makes of it. A put is one step: objects are written under a
temporary name and renamed. `base`, `loaded` and `applied` in a commit record are
history variables, written once and read only by properties. `NoSuch` is a
well-formed hash of no object: refs::resolve_ref accepts any 64 hexadecimal digits.

**NestedTrees** has the recursion of put_inner, delete_inner, get_at and walk
over tree objects that are functions from names to entries, and applies the same
calls to the flat view; the properties compare the two after every call. Each
recursive function of the code is a recursive function of the model, on the tree
objects of at most `Depth` levels.

**History** has no files, locks or locals. A commit is three steps, recorded,
landed and cleared, because a crash may fall between any two; what it promises is
that the recorded tree is the tip's tree overlaid with what is staged (and, when
a schema is staged, with rebuilt files), that a branch only moves to a child of
where it was, and that the index is emptied only once what it held is recorded.
`RepoRefinement` maps the commit objects of `Repo` to the log and the last
complete `index.json` to the staging area; everything else maps to nothing.

**Predicates.** A predicate is a sequence of tokens; `Parse` follows the
recursive descent function by function, each of which looks up in one recursive
function what the rules it calls make of the tokens from a place on; `Evaluate`
is the evaluator, with its look-ups without regard to case. `InLanguage` and `Holds`
say what a text means without a parser: by the outermost operator.

**Pages and Query.** A query walks the tree of the commit its `at` names, keeps
the manifests below its prefix, sorts them by the text of their paths, filters
them, and cuts a page; the cursor carries `at` and an offset. The text of a path is
not the path: `a.b/c` sorts before `a/c` and is walked after it, and it begins with
the prefix `a`. So `Pages` has the order of the texts as a constant, and takes a
prefix for the set of paths that begin with it. A client follows the cursors it is
given while commits land. `Diff` merges two walks; it is followed in both
directions. `Pages` has the parser, the evaluator and the meaning of a predicate as
constant operators, and assumes that an accepted predicate selects what it says
(`PredicateAssumption`); `Query` adds the predicates being written, and its
configuration puts those of `Predicates` for the constants. TLC evaluates the
assumption in the run, and `MeansWhatItSays` checks it on every text of tokens.

**Manifests.** HEAD's schemas, probes, settings and manifests, the index, and what
the last offer and the last commit said. `TopoSort` is the algorithm of
schema.rs, `Acyclic` the reference; resolve_source and its fall-backs,
normalisation, probe limits and the probe cache are operators that thread one
record through the fields in order. `Commit` runs the reprobe of all files of the
changed types, with the reuse of old values and the shared cache. A probe is a
function from its bytes, the content and one argument to an outcome, a failure or
too little fuel. `drifted` is history: the paths that were rebuilt from a
manifest which another schema than HEAD's had made.

**Sealed and Audit.** Ciphers are ideal: a ciphertext opens for who has the key and
the associated data. `AddEncrypted`, `CommitEncrypted`, `CreateShare` and
`ApplyShare` are one step each because they run under the write_lock;
revoke_share gives the lock back between reading the old content (`RevokeRead`)
and sealing it under a new key (`RevokeSeal`). `banned` is history: from which key
on a recipient is shut out of a path. An append of the audit log is the read of
the head and the write of it, with no lock between.

**Uploads.** One session directory, one system call per step: the two calls of
`fs::write` that make `state.toml`, the truncating open and the write of a
chunk, each open and read of assemble, and each unlink of remove_dir_all. A
request that has a file open keeps it when it is unlinked. Bytes are pairs of a
position and the version of the client that sent it, which is all that tells a
whole file from a mixed one. `chunk_size_bytes` is read from the repository's
configuration at each commit, so each commit may find another value.

**Marketplace.** Both catalogs are one map whose ids are divided between the two
mutexes, with a copy for the JSON files; a flush is atomic because the file is
renamed into place. A blob put is exists, create, write and rename; both catalogs
share the blob store, which has no lock. A descriptor follows its file through
a rename. `unsaved` and `hurt` are history: which last changes could not be
flushed, and which blobs lost a writer between create and write.

**Builder.** run_build is a sequence of steps between which deletion, followers
and other builds run; each access to the table is one step because it is under
the table's mutex. Each follower has a copy of the log and a bounded queue. Cargo
is an external process that prints, ends, or does neither.

**Server.** Admin commands load `tenants.toml`, truncate it and write it, without a
lock; the server reads it when it starts. A request gets its tenant's `Repo` from
the cache or makes one: look, test for `.omp`, make the directories, write HEAD,
look again and insert. Each route is a record of what it asks for (plaintext
mode, quota, write_lock) and what it does; what it does to index and refs is in
`Repo`, here it is counts of objects, staged entries and sessions. A commit
spawns a task that publishes its event on a broadcast channel; watchers read it
and skip what was overwritten. A request may be cancelled while it awaits. The
owner of an encrypted tenant also works on its directory with `omp enc add` and
`omp enc commit` (`EncAdd`, `EncCommit`, another process, without a quota), between
whose steps any route may be called. `stored` keeps what kinds of objects the
store has: content of files in plaintext, commits made by a route, sealed objects.

**Gateway.** Time is in whole seconds. A login flow goes from `/login` through the
identity provider, which is external, to `/callback` in whatever browser opens
the URL; cookies and contexts are records with an expiry and the generation of
the key that signed them. A request resolves its principal by cookie, by static
token, or by an API key that is cached or asked of the provider; calls to the
provider take time, during which keys are revoked and sessions end. The token of
a login may name no session of the provider; then the cookie names none, and
`Refresh` asks nothing. An install fetches the entry and stages its files one call
at a time.

## 3 Runs

| run | configuration | states | shows |
|---|---|---|---|
| `one_handle` | `MCRepoOne.cfg` | 982,131 | `Closed` and `ImplementsHistory` with one handle, a schema change with its reprobe, patched fields, a branch and detached heads, a crash at every step; `CommitIsOverlay` with two changes of unrelated paths applied in either order, on a base that has a file where a directory comes or the reverse; `TypeOK` |
| `two_handles` | `MCRepoTwo.cfg` | 58,607 | `OpsEnd`: an operation that begins ends, also the commit that waits while another process holds `refs.lock`, with failures and crashes at every step and a torn index |
| `trees_and_queries` | `MCQuery.cfg` | 54,358 | on every tree over two names and three levels `TreeCodeExact`: empty directories vanish (`RootCanonical`), put fails exactly when a leaf is in the way (`PutConflicts`), reads find what is there (`GetAgrees`, `WalkInOrder`); `DiffExact`; for every predicate text up to the bound `MeansWhatItSays`, however it is spelt; `PagesOfOneCommit` while commits land |
| `manifests` | `MCManifests.cfg` | 200,204 | `SchemaAccepted` for every way three fields can refer to each other; `FieldsFollowSources` (`DerivedAgree` and `ProbesReplay`) and `ReprobeAsFresh` over schema, probe and settings changes with failing probes, chunked files and deferred reprobes |
| `encrypted` | `MCSealed.cfg` | 475,636 | `SourcesExact` (`ReadsBack` and `ChunksBound`), `NoNonceReuse`, `RevokedShutOut`, `WalkComplete` with two callers and two recipients; `AuditKept` with two appends at once and crashes |
| `upload_sessions` | `MCUploads.cfg` | 1,609,812 | `StagedWhole`, `RetriesLeaveAWholeChunk`, `FailedCommitKeepsChunks`, `NoSelfDeadlock` with two requests of any kind |
| `server` | `MCServer.cfg` | 141,544 | `WritersExclusive`, `QuotaHolds` with racing first requests, cancellations and a restart, and operations of up to two objects at a quota of one; `NoPlainContent` over all routes between the client's `enc` commands; `RegistryExact`; `EventsTrue`, `CommitsAnnounced` with a channel of one slot; `RequestsEnd` |
| `gateway` | `MCGateway.cfg` | 890,565 | `LoginBound`, `SignOutBound` with two browsers, two flows and cookies with and without a session of the provider; `RevocationBound` with a cache of one entry; `InstallWhole` with two installs at once |
| `marketplace` | `MCMarketplace.cfg` | 973,678 | `BlobsPreserved`, `PublishedBlobsWhole` (unless a writer of the blob's file is at work or died), `AnsweredIsSaved`, `YankHolds` with two requests, a blob that both catalogs use, two faults |
| `builds` | `MCBuilder.cfg` | 565,223 | `CargoContained`, `LogReplayed`, `JobsMoveForward` with two builds, one permit, one follower; `BuildsEnd`: every build ends and reports, if cargo ends |
| `index_race` | `MCRepoLost.cfg` | violation | `ClearedWasLoaded` fails, see section 7 |
| `stale_reuse` | `MCManifestsReplay.cfg` | violation | `ReplaysBitForBit` fails, see section 7 |

The states are the distinct states TLC finds, up to the symmetry that the
configuration declares (handles, requests, browsers, recipients and the like); no
module breaks that symmetry (no `CHOOSE` over them), and runs that check liveness
declare none. Deadlock
checking is off where the system may come to rest: when the bound on commits is
reached, when a session is gone, when every job is done, when no time is left.

## 4 Bounds

- `MaxCommits` 2: the second commit is the first that has a parent, a base tree and
  a schema to compare with.
- `one_handle`: three paths. A file and a directory of one name cannot both be staged
  in what `CommitIsOverlay` is about, but each can be staged over a base that has the
  other; the schema is unrelated to both, so two changes are applied in either
  order. The values are a file, what its reprobe or its patch makes of it, and a
  schema: the smallest on which a reprobe shows. One branch, and HEAD may be
  detached; the theorems have any number of branches.
- `two_handles`: one path, one value, one branch, because what is in question is who
  waits for whom: each handle has every operation, every file access is a step, and
  either may fail or die at each.
- `NestedTrees`: two names and depth three have every shape of a conflict (at the
  root, in the middle, at the end) and pruning over two levels.
- `Uploads`: `Size` 3 with chunks at offsets 0, 1 and 2 of which two overlap, and
  two versions of one: gaps, overlaps, short files and mixed contents all occur.
  `ChunkSizes` {3, 4} takes both branches of upload_commit at its boundary.
- `Marketplace`: `MaxFaults` 2 allows a failed write and a restart after it; the
  probe's README is the schema's text, so that both catalogs store one blob.
- `MCSealed`, `MCServer` and `MCGateway` have a variable `focus`, fixed at the start:
  a behaviour exercises one part (encryption or audit; admin commands, the routes of
  a plaintext tenant, the routes of an encrypted tenant with its client, races or
  events; logins, keys or installs). In `MCSealed` the parts share no state. In
  `MCServer` and `MCGateway` they do: that two parts disturb each other there is
  outside these runs, and inside the theorems.
- `Query`: names spelt `a` and `a.a`, whose paths are not sorted as they are walked;
  `MaxTokens` 5 after an `Openings`: nothing, a `not`, a bracket, an `exists`,
  or a whole negation, conjunction or disjunction, so that every pair of
  connectives meets; two commits of up to four `TrackedPaths`, one of them not a
  user file; page limits 0 to 2, of which 0 is clamped. `Others` are the trees diff
  compares every tree with: one has files where the other has directories. The
  theorems have any names, trees, commits and limits.
- `Manifests`: two files, four contents (small, large enough to be chunked,
  without a schema), schema changes in one field at a time, two commits,
  `MaxStaged` 2. The committed schemas have no probe with a fall-back behind it and
  no probe of type float: there the reuse of old values is not exact (section 7).
- `Sealed`: one path (the theorems have any number), `ChunkSize` 2 and contents of
  one to three units: below, at and above the boundary with a short last chunk.
  `MaxKeys` 3: a revocation, and an add before or between its halves.
- `Server`: `BusCap` 1 makes lag reachable with two commits; one tenant in
  plaintext and one encrypted; one restart. `MaxPut` 2, since add puts a source and a
  manifest, and quotas of one or two objects, so that one put passes the quota;
  `MaxObjects` 3 is the first store that a second overshoot would reach.
- `Gateway`: all lifetimes are one second and `MaxTime` is 4, so that every
  lifetime ends within a behaviour; `Flight`, the longest call to the provider, is
  one second; `CacheMax` 1 makes the cache overflow with two keys.
- `one_handle` has no chunked file, because `Closed` fails for its patch (section 7);
  `Parts` has the chunks, and the theorem covers them.
- `Builder`: `Capacity` 1 in place of 256 lines makes lag reachable, `MaxBuilds` 1
  makes two jobs compete, one line of cargo beside those of the builder
  itself. `Watched` is the job whose log is followed.

## 5 Fairness

- `Repo!Fairness`: weak fairness of a handle's steps (a running thread is
  scheduled) and strong fairness of `LockRefs`, because flock is blocking and the
  kernel wakes waiters as the holder leaves. No fairness of `Begin` or `Abort`. The
  run `two_handles` needs both.
- `Builder!FairSpec`: weak fairness of the task of each job and of its log
  readers (the runtime polls what is ready), strong fairness of `Acquire` because
  tokio's semaphore is first in, first out. Nothing is assumed of cargo in
  `FairSpec`; `LiveSpec` adds that cargo ends, and of the properties only
  `BuildsEnd` uses it. `WaitTimeout` is part of the task: a time limit passes
  sooner or later.
- `Server!Fairness`: weak fairness of each request's steps, of the tasks that
  publish events and of the watchers (the runtime runs what is ready), strong
  fairness of `Begin`, which waits for the write_lock, because the mutex serves its
  waiters. Nothing is assumed of arrivals, cancellations, admin commands or
  restarts.
- The other modules have safety properties only.

## 6 Proofs

All theorems hold for any number of handles, requests, paths, values, blobs,
branches, browsers, flows and keys, any lifetimes and any bound. The constants are
only assumed to have the types and the disjointness that the named assumptions of
the modules state (`RepoAssumption`, `MarketAssumption`, `SealedAssumption` and so
on): sizes, limits and lifetimes are numbers, markers such as `None` differ from what
they mark the absence of, a shard is known for every tenant that can be named, the
contents that are sealed are sequences, a schema has finitely many fields and each
field a source (`SchemasAssumption`: what the deserializer can make of a text, and
that the schemas there to begin with parse). `PagesProofs` needs a little more: names are numbers, finitely many
and with paths of bounded length (any run of the program has but finitely many, and
both bounds are parameters), the texts of different paths differ and are ordered,
and an accepted predicate selects what it says, which is what the run checks of the
parser and the evaluator.

| theorem | statement | rests on |
|---|---|---|
| `RepoProofs!TypeSafe` | `Spec => []TypeOK` | `TypeInv`: a put in progress has something to put, and what the apply loop has left is staged; without them a put could take the head of an empty list and the loop could apply "no change" |
| `RepoProofs!StoreClosed` | `PatchKeepsSource` gives `Spec => []Closed` | `RefInv`: ids held in memory name stored commits; `StoreInv` with `PutOK`: what the object in progress needs is stored or before it in the list, and index, trees and in-memory copies only name stored objects |
| `RepoProofs!CommitTrees` | `Spec => [](CommitsWellFormed /\ CommitIsOverlay)` | `LoopInv`: in the middle of the loop the root is the base overlaid with the part of the index already applied |
| `RepoProofs!SoloParent`, `SoloBranches`, `SoloStaged` | with one handle, `[]CommitOnParent`, `BranchesAdvance`, `StagedChangesKept` | `FreshInv`: what the running operation has read is still so |
| `RepoProofs!SoloImplements` | with one handle, `Spec => ImplementsHistory` | the types, `FreshInv`, `LoopInv`, and `CarriedInv`: what a commit has loaded, or rebuilt, is what the staging area allows; then each step of `Repo` is shown to be a step of `History` or none |
| `PagesProofs!TreesExact` | `TreeSpec => []TreeCodeExact` | `TreeInv`: the tree object is `Nest(flat)`, the one that the files determine, and no file is above another. put_inner, delete_inner, get_at and walk_inner are each shown to map `Nest` of a prefix to what the flat view has there, from the longest prefixes up to the root (`PutNested`, `DeleteNested`, `GetNested`, `WalkNested`); a tree depends on no file outside its prefix (`NestLocal`); a walk is one stretch per name, joined in the order of the names (`Flattened`) |
| `PagesProofs!QueryPages` | `PagesSpec => []PagesOfOneCommit` | `PagesInv`: `TreeInv`; every commit is the tree of some files, and later commits change none before them (`CommitsGrow`); and `SessionInv`: what a client has got is, for one number `stop`, the matches among the first `stop` entries of the sorted list of its commit, and its cursor names that commit and `stop`, or there is no cursor and `stop` is the end. Each page takes up there (`PageIs`, `Advance`) |
| `PagesProofs!DiffsExact` | `PagesSpec => []DiffExact` | `TreeInv`: a walk collected into a map is the files (`EntriesAre`); that the diff of two maps leads from one to the other is then a fact of its own (`DiffFollows`) |
| `ManifestProofs!SchemasAccepted` | `Spec => []SchemaAccepted` | `SortOK`, the invariant of topo_sort's loop: the names put out and the ready ones repeat nothing and are, together, the fields whose dependency has been put out, and every name stands after the one it waits for. A field of least rank shows that the loop cannot stop early when there is a ranking; the order the loop makes is one. The sorting of the ready names is an induction over their number |
| `ManifestProofs!StoredFieldsDerived` | `Spec => [](DerivedAgree /\ StagedReplay)` | `Ingested`, what a successful ingest leaves in a manifest, from `LoopInv` of the loop over the fields: every field put out so far is resolved, and follows its source (`Settled`), which later turns do not touch since the order repeats nothing; what is recorded has fired; no field is a failure. From an empty cache every manifest replays (`FreshReplays`); then `Inv`, with what is known of HEAD's and the staged schemas (`StateInv`) and manifests (`FilesInv`) |
| `ManifestProofs!FieldsFollow` | `PlainProbes` gives `Spec => []FieldsFollowSources` | `PassInv`, the invariant of run_auto_reprobe's two loops over the pairs of a type and a path that are done: for a file that is not done the cache has at its own path only what the probes give, or give rounded (`CacheTrue`), and a file that is rebuilt replays. A visit seeds nothing for another path (`SeedsElsewhere`), and for its own only what replays (`SeedsHere`) |
| `ManifestProofs!ReprobedAsFresh` | `PlainProbes` and `FloatProbes` give `Spec => ReprobeAsFresh` | the second half of `PassInv`: for a file that is not done the cache is exact at its path (`CacheExact`), and one that is done is rebuilt as by an ingest of its own, or reported. Two ingests with caches that are exact at the file's path go the same way, field by field (`Alike`, `IngestAlike`) |
| `StorageProofs!NoncesUnique`, `RevocationShutsOut` | `SealedSpec => []NoNonceReuse`, `[]RevokedShutOut` | `KeyInv`: every key in use has been drawn, each belongs to one path, and every manifest a path ever had, not only the current one, is out of reach of who is banned from its key on |
| `StorageProofs!SourcesAreExact` | `SealedSpec => []SourcesExact` | `SealInv`: every manifest stands with all the objects of its source, a key has one source, every blob is of some manifest; then, by induction on the number of chunks, cutting and joining are inverses, and chunks that open together are all those of one source. The theorem speaks of any number of chunks where the run tries two |
| `StorageProofs!WalkIsComplete` | `SealedSpec => [](WalkComplete /\ Walk(TRUE, {}) \subseteq store)` | the walk covers every commit by its definition; that it leads to nothing that is missing needs `SealInv` and that commits name stored manifests |
| `StorageProofs!AuditIsKept` | `AuditSpec => []AuditKept` | `AuditInv`: the head, and the entry of every append under way, leads to all entries that were appended alone, and an append that is alone so far has no other beside it; a chain is an explicit sequence of entries, which `Link` is shown by induction to find |
| `StorageProofs!StagedIsWhole` | `Spec => []StagedWhole` | `DataInv`: every chunk on disk has its bytes in their places although parts of it may be old, and what assemble holds starts at 0 without a gap; length and position decide, not who wrote |
| `StorageProofs!RetriesAreWhole` | `Spec => []RetriesLeaveAWholeChunk` | `WholeInv`: a chunk file is whole, has a writer with it open or lost one, and is never longer than what is sent for its offset, so that a write leaves nothing of another behind it |
| `StorageProofs!ChunksOutliveFailures` | `Spec => FailedCommitKeepsChunks` | `RemovalOK` of `DataInv`: a commit that has come to the removal has staged |
| `StorageProofs!LockNotReentered` | `Spec => []NoSelfDeadlock` | `LockInv`: the holder of the lock is exactly the commit that is not waiting for it |
| `ServerProofs!OneWriter` | `Spec => []WritersExclusive` | `OneRepo`: a request that has a handle has the one in the cache |
| `ServerProofs!QuotaKept` | `Spec => QuotaHolds` | `QuotaInv`: what the check saw, room for one object, stays true until its own write puts up to `MaxPut`, by `OneWriter`; `RouteMode`: the routes that are checked are for plaintext tenants, to which `EncAdd` and `EncCommit` do not write; `CapTypes`: quotas are numbers |
| `ServerProofs!EncryptedKept` | `Spec => []NoPlainContent` | `ModeInv`: no request of an encrypted tenant is on a plaintext route, what such a tenant has staged is sealed or a deletion, and it has a commit, or one under way in a route, only if something was sealed |
| `ServerProofs!RegistryKept` | `Spec => []RegistryExact` | `RegistryInv`: the one command under way holds what the file is to be, and the file is right unless it is truncated |
| `ServerProofs!EventsAreTrue` | `Spec => []EventsTrue` | `EventInv`: a commit is announced once, by its request, its task or an event in the channel; `SeenInv`: what a watcher has seen lies before its place in the channel |
| `GatewayProofs!LoginIsBound` | `Spec => []LoginBound` | `LoginInv`: a state cookie is of a flow its browser began, and an exchange or a refresh under way carries what its browser may have |
| `GatewayProofs!SignOutIsBound` | `Spec => SignOutBound` | `SignInv`, `WaitInv`: cookies, contexts and refreshes under way expire within their lifetime of the end of the session they name; a call has taken no longer than `Flight`. `Named`, by `LoginInv`: a context with a subject was issued for a user who signed in, for a cookie that names that login's session or none |
| `GatewayProofs!RevocationIsBound` | `Spec => RevocationBound` | `KeyInv`: a cache entry ends one cache lifetime after the last answer that could make it, and an answer began before the revocation |
| `GatewayProofs!InstallIsWhole` | `Spec => InstallWhole` | `InstallInv`: what is not left to stage is staged, while no other install is on the shard |
| `MarketProofs!MarketTypes` | `Spec => []TypeInv` | `Busy`: a request that is under way has an entry, and one that is writing has a blob to write |
| `MarketProofs!Saved` | `Spec => []AnsweredIsSaved` | inductive with types |
| `MarketProofs!BlobsKept` | `Spec => []BlobsPreserved` | `CoverInv`: each blob of the entry a request will upsert has a file or is still on its list |
| `MarketProofs!BlobsWhole` | `Spec => []PublishedBlobsWhole` | `WholeInv`: a file that is neither absent nor whole has a writer whose descriptor leads to it, or lost one; with `BlobsKept` |
| `MarketProofs!YanksHold` | `Spec => YankHolds` | `EditInv`: the copy a patch will write back is still the entry in the catalog, because the mutex is held throughout |
| `BuilderProofs!OutcomesTrue`, `OutcomesFinal` | `Spec => []OkIsBuilt`, `JobsMoveForward` | `BuildInv`: the table agrees with the step its build has reached |
| `BuilderProofs!CargoBounded` | `Spec => []CargoContained` | `PermitInv`: free permits and holders of one add up to `MaxBuilds` |
| `BuilderProofs!LogsReplayed` | `Spec => []LogReplayed` | `StreamInv`: what a follower has, what is in its queue and what the log still gets are parts of the log in rising order |

Some theorems have a hypothesis on purpose. `PatchKeepsSource` (of `StoreClosed`)
says that patch_fields makes a manifest with the source of the one it edits: it is
true for files in one blob and false for chunked files (section 7), and `Closed`
needs nothing else. `Solo` (of the four `Solo` theorems) says that
there is one handle: with two, TLC refutes all four conclusions.
`PlainProbes` (of `FieldsFollow` and `ReprobedAsFresh`) says that no schema gives a
probe a path argument of its own, or puts a fall-back behind a probe, and
`FloatProbes` that a probe which fills a float field does not give whole numbers.
The starter schemas of the program are so, but a user's need not be, and the
conclusions need it: the proof stops, and TLC finds a counterexample of two commits,
where a fall-back's value is seeded into the cache as the probe's answer (section
7). With a path argument the files of a pass meet in one cache entry, so one that
was made by another schema than HEAD's could hand its values to one that was not.
`StoredFieldsDerived` has no such hypothesis.
`SoloParent`, `SoloBranches` and `SoloStaged` say of `Repo` itself what `History`
says of its image, and are not checked by a run of their own beside
`ImplementsHistory`; `OkIsBuilt` is proved only. `AuditIsKept` is about `AuditSpec`,
the audit log by itself; the run `encrypted` has its steps beside those of `Sealed`,
with which it shares no variable.

The types of the modules are part of their inductive invariants (`TypeInv` of
`Marketplace`, `Typed` of `Sealed`, `Shape` of `Builder`, `DataInv` of `Uploads`,
`RequestTypes`, `CapTypes` and `EventTypes` of `Server`, `Types` of `Gateway`).

Chunks, chains and schemas have any length, so some facts need induction. The
lemma `Least` of `StorageProofs`, `ManifestProofs` and `PagesProofs` says that a nonempty set of numbers has a smallest one
(from `WellFoundedInduction`), and `Induction` what follows for a set of numbers that
has 0 and the successor of each member. An induction is then the statement that
the set of numbers a fact holds for is all of them.

Only model-checked: liveness (`OpsEnd`, `BuildsEnd`, `RequestsEnd`,
`CommitsAnnounced`), which needs fairness and ENABLED; and `MeansWhatItSays`, which is
about recursive descent over a text, by an induction over data that the prover
does not take. The run `manifests` also tries schemas outside `PlainProbes`, in which a
probe has a path argument; of those `FieldsFollowSources` and `ReprobeAsFresh` are
only checked, for its two files and two commits.

## 7 Where code and words differ

Kept as runs that find a violation, with the quoted line in `PROJECT.json`:

- `index_race`: commit_with_keys loads the index before it takes `refs.lock`, and
  staging never takes it; what another process stages meanwhile is dropped.
- `stale_reuse`: run_auto_reprobe takes HEAD's schema for the one that made the old
  manifest. A manifest that missed a schema change (deferred, or staged in the
  commit that made it) is rebuilt at the next one with values of the wrong source,
  and records a probe that does not give them.

Seen in the models and not kept as runs of their own:

- With two handles `CommitOnParent`, `BranchesAdvance`, `StagedChangesKept` and
  `ImplementsHistory` fail too: checkout and branch write without `refs.lock`
  (`docs/design/08-deployability.md:34` says "during ref updates and commit staging
  for process-level exclusion").
- A crash in save_index leaves an index that no operation repairs, where
  `docs/design/21-schema-reprobe.md:144` says "written atomically".
- A commit of an upload below chunk_size_bytes returns from add and leaves its
  session until the reaper comes, where the comment at api.rs:1975 says "on
  success we reap it".
- The reaper removes a session whose `state.toml` is still being written.
- Two publications of one version that overlap both succeed and the later one
  replaces the earlier, where `docs/design/23-probe-marketplace.md:142` has a
  UNIQUE constraint.
- An early failure of run_build leaves its scratch directory; `log_buffer` has no
  cap although its comment gives one.
- A reprobe replaces what is staged at the path it rebuilds, a deletion included
  (api.rs:1604).
- patch_fields of a chunked file makes a manifest whose source was never put
  (api.rs:1043).
- A timed-out cargo is killed only after it has closed its output (builder.rs:326).
- Values that a reprobe takes over into the probe cache may be those of a fall-back,
  or rounded to a float, and count as the probe's from then on (api.rs:1744). Two
  commits are enough: a file whose probe gives null gets the value of the fall-back,
  then the schema changes in any field; the value comes back as the probe's answer,
  also for fields that call the same probe without a fall-back, and stays when the
  fall-back itself is dropped, since only the primary sources are compared
  (api.rs:1696).
  A reprobe also drops extra fields, and skips a file whose schema lost a
  user-provided field.
- topo_sort does not look at `field` references in fall-backs; a fall-back of kind
  user_provided reads `<name>.fallback`; docs/design/04 has other words for both.
- In a query integers are compared as 64-bit floats, and `contains` on a list of
  datetimes is never true. A cursor at a branch name is not pinned to a commit
  (api.rs:2159), where the comment at 2021-2022 says otherwise.
- The object quota is checked at add and upload, never at commit, where
  registry.rs:20-21 says "hard-checked per commit". add asks for room for one object
  (api.rs:435) and puts two or more (471-475), where api.rs:394 says that a write
  "won't push this tenant past its quota" and 433-434 that "tight quotas will still
  catch the overrun at commit time". An `omp` process checks no quota. The limit on concurrent writes
  (registry.rs:24) is not implemented.
- The registry is saved with a plain write, so that two admin commands at once, or
  one that is interrupted, lose tenants; the server reads it only when it starts;
  a tenant created again under a deleted one's name finds its directory.
- Events of two commits may be published in either order, and a watcher gets the
  events of all tenants.
- POST /commit and DELETE look at no encryption mode (routes.rs:383, 466). At an
  encrypted tenant a commit through the server takes what `omp enc add` or a DELETE
  staged and puts the commit and its trees in plaintext, the message and the added
  names included, where docs/design/13-end-to-end-encryption.md:56-57 has both
  encrypted and line 130 says that the server "refuses mismatched uploads".
- callback sets a session cookie without a session of the provider when the token
  names none (auth.rs:806); refresh asks the provider only when there is one (872).
  Such a session is renewed for as long as its browser comes back within the grace
  period, whatever became of the provider's session, where
  docs/design/22-workos-auth.md:143 says that a refresh "re-validates the WorkOS
  session". `SignOutBound` bounds the sessions whose cookie names one, and no other.
- A revoked API key is accepted for up to the cache's lifetime plus the time a
  validation takes, since a validation that began before fills the cache after.
- Of two first requests of a tenant the slower may write HEAD after the other has
  answered; a crash before HEAD is written leaves a tenant that stays
  uninitialised.

## 8 Not modelled

- Byte formats, hashing, canonical TOML, CBOR, the characters below the tokens of a
  predicate: pure conversions with unit tests of their own. Hashes are taken to be
  injective.
- The inside of the WASM host and the starter probes; the cryptographic
  primitives, key derivation, the identity file and the sealed names in the trees
  of an encrypted tenant; generated gRPC code and the store service, one call per
  operation of the object store; the CLI's parsing and the frontend.
- In `Server`: `omp` processes other than the `enc` commands of an encrypted tenant on
  a directory the server serves. They check no quota, and plain `omp add` puts
  plaintext also into an encrypted tenant's store; `QuotaHolds` and `NoPlainContent`
  are about what the server does.
- In the modelled parts: reads that change nothing (show, log, list, download); how
  put_stream reads; byte quotas; the server's single-tenant mode, health and
  metrics; the gateway's discovery of endpoints, status pages and streaming; the
  marketplace's one-time rename of `catalog.json`; authentication in front of
  builder and marketplace other than the signed context.
- The loss of writes that were not synced, at a power failure: a crash is the
  death of the process.
- A garbled index is a state of its own, not bytes; a torn object cannot occur
  because of the rename.

## 9 Plan

What would add most from here:

1. `ReprobeAsFresh` for schemas with path arguments, for passes in which no file was
   made by another schema than HEAD's;
2. `Server` composed with `Repo`, with the steps of an operation in place of its
   counts, so that the races at first use meet the commit's own file accesses, and
   with `omp` processes on the same directory;
3. runs of `Server` and `Gateway` in which their parts overlap, and of `Sealed`
   with two paths;
4. an abstract specification of sharing, who may read which version of which
   path, with `Sealed` as its implementation;
5. the single-tenant mode and the byte quotas.
