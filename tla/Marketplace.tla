---------------------------- MODULE Marketplace ----------------------------
(***************************************************************************)
(* The marketplace service (crates/omp-marketplace): probes and schemas    *)
(* are published, edited and yanked by concurrent requests.  Each of the   *)
(* two catalogs is a map in memory behind an async mutex, rewritten to its *)
(* JSON file by tmp + rename on every change.  The bytes are in one blob   *)
(* store that both catalogs share and that has no lock: a blob is written  *)
(* to <hash>.tmp and renamed to <hash>, and two requests that store the    *)
(* same bytes use the same two names.  Listing and downloading change      *)
(* nothing and are left out.                                               *)
(***************************************************************************)
EXTENDS Integers, Sequences, SequencesExt

CONSTANTS
    Reqs,           \* request tasks
    Nobody,         \* a catalog's mutex is free
    Probes,         \* ids of probe entries
    Schemas,        \* ids of schema entries
    Blobs, NoBlob,  \* contents, named by their hash
    NoEntry,        \* the catalog has no such id
    Publications,   \* what publishers send: [id, before, readme, after]
    Readmes,        \* the README bodies of PATCH requests
    MaxFaults       \* bound on failing writes and restarts

Ids == Probes \cup Schemas

ASSUME MarketAssumption ==
    /\ NoBlob \notin Blobs /\ Nobody \notin Reqs
    /\ Probes \cap Schemas = {}
    /\ Publications \subseteq [id : Ids, before : Seq(Blobs), readme : Blobs \cup {NoBlob},
                               after : Seq(Blobs)]
    /\ Readmes \subseteq Blobs
    /\ MaxFaults \in Nat

VARIABLES
    mem,      \* id -> entry, both catalogs in memory
    disk,     \* id -> entry, the two JSON files
    lock,     \* holder of the mutex of each catalog
    path,     \* blob -> what is in the file <hash>
    tmp,      \* blob -> what is in the file <hash>.tmp
    req,      \* the requests
    unsaved,  \* history: ids whose last change could not be flushed
    hurt,     \* history: blobs whose writer died between create and write_all
    faults    \* failing writes and restarts so far

files   == <<path, tmp>>
catalog == <<mem, disk, unsaved>>
vars    == <<mem, disk, lock, path, tmp, req, unsaved, hurt, faults>>

File  == {"none", "empty", "part", "whole"}
Entry == [core : SUBSET Blobs, readme : Blobs \cup {NoBlob}, yanked : BOOLEAN]

Request == [pc    : {"idle", "build", "put", "create", "write", "rename"},
            op    : {"none", "publish", "patch"},
            id    : Ids \cup {NoEntry},
            puts  : Seq(Blobs),
            entry : Entry \cup {NoEntry},
            fd    : {"none", "tmp", "path", "gone"}]

Kind(id)   == IF id \in Probes THEN "probes" ELSE "schemas"
Live(e)    == e # NoEntry /\ ~e.yanked
BlobsOf(e) == e.core \cup ({e.readme} \ {NoBlob})

(* A request: the blobs it has still to put, the entry it will upsert, and  *)
(* which file its open descriptor leads to, "gone" once it has no name.     *)
Idle == [pc |-> "idle", op |-> "none", id |-> NoEntry, puts |-> <<>>,
         entry |-> NoEntry, fd |-> "none"]

Init ==
    /\ mem = [id \in Ids |-> NoEntry] /\ disk = mem
    /\ lock = [k \in {"probes", "schemas"} |-> Nobody]
    /\ path = [b \in Blobs |-> "none"] /\ tmp = path
    /\ req = [r \in Reqs |-> Idle]
    /\ unsaved = {} /\ hurt = {} /\ faults = 0

At(r, s) == req[r].pc = s
Go(r, s) == req' = [req EXCEPT ![r].pc = s]
Free(id) == lock[Kind(id)] = Nobody

(* Request r answers; a guard it holds is dropped.                          *)
Answer(r) ==
    /\ req' = [req EXCEPT ![r] = Idle]
    /\ lock' = [k \in DOMAIN lock |-> IF lock[k] = r THEN Nobody ELSE lock[k]]

(* Something outside the service fails.                                     *)
Fault == faults < MaxFaults /\ faults' = faults + 1

-----------------------------------------------------------------------------

(* The blobs of a publication in the order they are put.                    *)
Puts(p) == p.before \o (IF p.readme = NoBlob THEN <<>> ELSE <<p.readme>>) \o p.after

(* publish_probe, publish_schema: refuse a version that is live, then       *)
(* build a probe, put the blobs in order, and upsert the entry.  The mutex  *)
(* is not held in between.                                                  *)
Publish(r, p) ==
    /\ At(r, "idle")
    /\ Free(p.id)
    /\ ~Live(mem[p.id])
    /\ req' = [req EXCEPT ![r] =
                 [pc    |-> IF p.id \in Probes THEN "build" ELSE "put",
                  op    |-> "publish",
                  id    |-> p.id,
                  puts  |-> Puts(p),
                  entry |-> [core   |-> ToSet(p.before \o p.after),
                             readme |-> p.readme,
                             yanked |-> FALSE],
                  fd    |-> "none"]]
    /\ UNCHANGED <<files, catalog, lock, hurt, faults>>

(* build_inline, which may fail or run into its time limit.                 *)
Build(r) ==
    /\ At(r, "build")
    /\ \/ Go(r, "put") /\ UNCHANGED lock
       \/ Answer(r)
    /\ UNCHANGED <<files, catalog, hurt, faults>>

-----------------------------------------------------------------------------
(* BlobStore::put of the next blob, one system call per step.               *)
Blob(r) == Head(req[r].puts)
NextPut(r) == req' = [req EXCEPT ![r].puts = Tail(@), ![r].pc = "put"]

(* Faulty: a blob that some request is already writing counts as stored.    *)
StoredOrComing(b) == path[b] # "none" \/ tmp[b] # "none"

Stored(b) == path[b] # "none"

CheckExists(r) ==
    /\ At(r, "put")
    /\ req[r].puts # <<>>
    /\ IF Stored(Blob(r)) THEN NextPut(r) ELSE Go(r, "create")
    /\ UNCHANGED <<files, catalog, lock, hurt, faults>>

(* File::create truncates the file if another request has made it.          *)
CreateTmp(r) ==
    /\ At(r, "create")
    /\ tmp' = [tmp EXCEPT ![Blob(r)] = "empty"]
    /\ req' = [req EXCEPT ![r].pc = "write", ![r].fd = "tmp"]
    /\ UNCHANGED <<path, catalog, lock, hurt, faults>>

(* The file r has open holds c afterwards, unless it was whole already: all *)
(* writers of a blob write the same bytes at the same offsets.              *)
Filled(r, c) ==
    LET now(f) == IF f[Blob(r)] = "whole" THEN f ELSE [f EXCEPT ![Blob(r)] = c]
    IN  /\ tmp'  = IF req[r].fd = "tmp" THEN now(tmp) ELSE tmp
        /\ path' = IF req[r].fd = "path" THEN now(path) ELSE path

(* Faulty: one write, which may be short, in place of write_all.            *)
WriteSome(r) ==
    /\ At(r, "write")
    /\ Filled(r, "part")
    /\ req' = [req EXCEPT ![r].pc = "rename", ![r].fd = "none"]
    /\ UNCHANGED <<catalog, lock, hurt, faults>>

WriteAll(r) ==
    /\ At(r, "write")
    /\ Filled(r, "whole")
    /\ req' = [req EXCEPT ![r].pc = "rename", ![r].fd = "none"]
    /\ UNCHANGED <<catalog, lock, hurt, faults>>

(* write_all fails with the file as far as it got, or sync_all fails.       *)
WriteFails(r) ==
    /\ At(r, "write")
    /\ \E c \in {"empty", "part", "whole"} : Filled(r, c)
    /\ hurt' = hurt \cup {Blob(r)}
    /\ Fault
    /\ Answer(r)
    /\ UNCHANGED catalog

(* Who has the renamed file open follows it; who has the file it replaces   *)
(* open keeps a file without a name.                                        *)
Followed(g, b) ==
    IF At(g, "write") /\ Blob(g) = b
    THEN [req[g] EXCEPT !.fd = IF @ = "tmp" THEN "path" ELSE "gone"]
    ELSE req[g]

Rename(r) ==
    /\ At(r, "rename")
    /\ LET b == Blob(r)
       IN  IF tmp[b] = "none"
           THEN Answer(r) /\ UNCHANGED files
           ELSE /\ path' = [path EXCEPT ![b] = tmp[b]]
                /\ tmp' = [tmp EXCEPT ![b] = "none"]
                /\ req' = [g \in Reqs |-> IF g = r THEN [req[r] EXCEPT !.puts = Tail(@), !.pc = "put"]
                                          ELSE Followed(g, b)]
                /\ UNCHANGED lock
    /\ UNCHANGED <<catalog, hurt, faults>>

(* The tmp file cannot be created, or not be renamed.                       *)
PutFails(r) ==
    /\ At(r, "create") \/ At(r, "rename")
    /\ Fault
    /\ Answer(r)
    /\ UNCHANGED <<files, catalog, hurt>>

-----------------------------------------------------------------------------
(* Faulty: the map is written before it is changed.                         *)
FlushFirst(r, id, e) ==
    /\ mem' = [mem EXCEPT ![id] = e]
    /\ \/ /\ disk' = [i \in Ids |-> IF Kind(i) = Kind(id) THEN mem[i] ELSE disk[i]]
          /\ unsaved' = {i \in unsaved : Kind(i) # Kind(id)}
          /\ UNCHANGED faults
       \/ /\ Fault
          /\ unsaved' = unsaved \cup {id}
          /\ UNCHANGED disk
    /\ Answer(r)

(* Catalog::upsert: change the map, then write the whole map to the file.   *)
(* The file is replaced by rename, so a flush happens or does not.          *)
Upsert(r, id, e) ==
    /\ mem' = [mem EXCEPT ![id] = e]
    /\ \/ /\ disk' = [i \in Ids |-> IF Kind(i) = Kind(id) THEN mem'[i] ELSE disk[i]]
          /\ unsaved' = {i \in unsaved : Kind(i) # Kind(id)}
          /\ UNCHANGED faults
       \/ /\ Fault
          /\ unsaved' = unsaved \cup {id}
          /\ UNCHANGED disk
    /\ Answer(r)

(* All blobs are put: publish takes the mutex, patch holds it already.      *)
PutsDone(r) ==
    /\ At(r, "put")
    /\ req[r].puts = <<>>
    /\ lock[Kind(req[r].id)] \in {Nobody, r}
    /\ Upsert(r, req[r].id, req[r].entry)
    /\ UNCHANGED <<files, hurt>>

(* Faulty: the entry is copied and the mutex given back while the README is *)
(* stored.                                                                  *)
PatchUnlocked(r, id, rd) ==
    /\ At(r, "idle")
    /\ Free(id)
    /\ mem[id] # NoEntry
    /\ req' = [req EXCEPT ![r] = [Idle EXCEPT
                 !.pc = "put", !.op = "patch", !.id = id,
                 !.puts = IF rd = NoBlob THEN <<>> ELSE <<rd>>,
                 !.entry = [mem[id] EXCEPT !.readme = rd]]]
    /\ UNCHANGED <<files, catalog, lock, hurt, faults>>

(* patch_probe, patch_schema, by the publisher of the entry: the mutex is   *)
(* held from the copy of the entry to the upsert.  An empty README removes  *)
(* it.                                                                      *)
Patch(r, id, rd) ==
    /\ At(r, "idle")
    /\ Free(id)
    /\ mem[id] # NoEntry
    /\ lock' = [lock EXCEPT ![Kind(id)] = r]
    /\ req' = [req EXCEPT ![r] = [Idle EXCEPT
                 !.pc = "put", !.op = "patch", !.id = id,
                 !.puts = IF rd = NoBlob THEN <<>> ELSE <<rd>>,
                 !.entry = [mem[id] EXCEPT !.readme = rd]]]
    /\ UNCHANGED <<files, catalog, hurt, faults>>

(* A patch of the description alone, which is not part of the model's       *)
(* entries, upserts the entry as it is.                                     *)
PatchDescription(r, id) ==
    /\ At(r, "idle")
    /\ Free(id)
    /\ mem[id] # NoEntry
    /\ Upsert(r, id, mem[id])
    /\ UNCHANGED <<files, hurt>>

(* yank_probe, yank_schema: under the mutex from the read to the upsert.    *)
Yank(r, id) ==
    /\ At(r, "idle")
    /\ Free(id)
    /\ Live(mem[id])
    /\ Upsert(r, id, [mem[id] EXCEPT !.yanked = TRUE])
    /\ UNCHANGED <<files, hurt>>

-----------------------------------------------------------------------------
(* The service dies and starts again: Catalog::open reads the files.        *)
Restart ==
    /\ Fault
    /\ mem' = disk
    /\ unsaved' = {}
    /\ hurt' = hurt \cup {Blob(r) : r \in {g \in Reqs : At(g, "write")}}
    /\ req' = [r \in Reqs |-> Idle]
    /\ lock' = [k \in DOMAIN lock |-> Nobody]
    /\ UNCHANGED <<disk, files>>

Next ==
    \/ Restart
    \/ \E r \in Reqs :
          \/ \E p \in Publications : Publish(r, p)
          \/ Build(r) \/ CheckExists(r) \/ CreateTmp(r) \/ WriteAll(r) \/ WriteFails(r)
          \/ Rename(r) \/ PutFails(r) \/ PutsDone(r)
          \/ \E id \in Ids, rd \in Readmes \cup {NoBlob} : Patch(r, id, rd)
          \/ \E id \in Ids : PatchDescription(r, id) \/ Yank(r, id)

Spec == Init /\ [][Next]_vars

-----------------------------------------------------------------------------
TypeOK ==
    /\ mem \in [Ids -> Entry \cup {NoEntry}]
    /\ disk \in [Ids -> Entry \cup {NoEntry}]
    /\ lock \in [{"probes", "schemas"} -> Reqs \cup {Nobody}]
    /\ path \in [Blobs -> File] /\ tmp \in [Blobs -> File]
    /\ req \in [Reqs -> Request]
    /\ unsaved \subseteq Ids /\ hurt \subseteq Blobs /\ faults \in 0 .. MaxFaults

(* No entry, in memory or in the catalog file, names a blob that has no     *)
(* file: the blobs come first, and nothing ever removes one, so that a      *)
(* yanked entry still resolves.                                             *)
BlobsPreserved ==
    \A id \in Ids : \A e \in {mem[id], disk[id]} \ {NoEntry} :
        \A b \in BlobsOf(e) : path[b] # "none"

(* A blob that an entry names is whole, although two requests that store    *)
(* the same bytes share one tmp file, except while another request has yet  *)
(* to fill the file that was renamed under it, or has died before it could. *)
PublishedBlobsWhole ==
    \A id \in Ids : \A e \in {mem[id], disk[id]} \ {NoEntry} : \A b \in BlobsOf(e) :
        \/ path[b] = "whole"
        \/ \E r \in Reqs : At(r, "write") /\ Blob(r) = b /\ req[r].fd = "path"
        \/ b \in hurt

(* What has been answered with success is in the catalog file, so that a    *)
(* restart only undoes changes that were reported as failed.                *)
AnsweredIsSaved == \A id \in Ids : mem[id] # disk[id] => id \in unsaved

(* A yanked entry only comes back by a new publication, never because an    *)
(* edit of it was under way when it was yanked, or by a restart that        *)
(* undoes a yank that was reported as failed.                               *)
YankHolds ==
    [][\A id \in Ids :
          mem[id] # NoEntry /\ mem[id].yanked /\ Live(mem'[id]) =>
             \/ id \in unsaved
             \/ \E r \in Reqs : req[r].op = "publish" /\ req[r].id = id /\ req'[r] = Idle]_vars
=============================================================================
