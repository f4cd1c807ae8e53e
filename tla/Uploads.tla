------------------------------ MODULE Uploads ------------------------------
(***************************************************************************)
(* One resumable upload session (crates/omp-core/src/uploads.rs and the    *)
(* upload_* operations of api.rs): the directory .omp/uploads/<id>/ with   *)
(* its state.toml and one file per chunk offset, and the requests that     *)
(* work on it at the same time.  PATCH, abort and the reaper take no lock; *)
(* only a commit takes the tenant's write_lock.  Each step is one system   *)
(* call on the directory.  Sessions have random ids and share nothing but  *)
(* the write_lock, so one session is enough.                               *)
(*                                                                         *)
(* A byte is <<position, version>>: where the client wants it in the file, *)
(* and which of the contents the client sent for that position it is.      *)
(***************************************************************************)
EXTENDS Integers, Sequences, FiniteSets, FiniteSetsExt

CONSTANTS
    Reqs,        \* request threads
    Nobody,      \* write_lock is free
    Size,        \* declared_size
    ChunkSizes,  \* what storage.chunk_size_bytes may be when a commit reads it
    Patches      \* the chunks clients send: [off, len, ver]

ASSUME UploadAssumption ==
    /\ Size \in Nat /\ ChunkSizes \subseteq Nat \ {0}
    /\ \A p \in Patches : p.off \in Nat /\ p.len \in Nat
    /\ Nobody \notin Reqs

VARIABLES
    dir,        \* the session directory: "none" before open, "there", "gone"
    toml,       \* state.toml: "none", "empty" or "ok"
    files,      \* chunk.<offset>: offset -> content
    old,        \* the session is older than upload_session_ttl_hours
    opened,     \* upload_open has returned the id
    lock,       \* holder of the tenant's write_lock
    staged,     \* contents that commits have staged
    broken,     \* history: offsets where a PATCH died after truncating
    req         \* the requests

session == <<dir, toml, files, old, opened>>
vars    == <<session, lock, staged, broken, req>>

StateToml  == -1        \* state.toml among the entries of the directory
Content(p) == [i \in 1 .. p.len |-> <<p.off + i - 1, p.ver>>]
Entries    == DOMAIN files \cup (IF toml = "none" THEN {} ELSE {StateToml})

(* A request that is not running: fd says whether the file it has open      *)
(* still has its name, want how many bytes the file's metadata promised.    *)
Idle == [pc |-> "idle", op |-> "none", off |-> 0, data |-> <<>>, fd |-> FALSE,
         want |-> 0, list |-> {}, buf |-> <<>>]

Init ==
    /\ dir = "none" /\ toml = "none" /\ files = <<>>
    /\ old = FALSE /\ opened = FALSE
    /\ lock = Nobody /\ staged = {} /\ broken = {}
    /\ req = [r \in Reqs |-> Idle]

At(r, s)     == req[r].pc = s
Go(r, s)     == req' = [req EXCEPT ![r].pc = s]
Begin(r, o, s) == At(r, "idle") /\ req' = [req EXCEPT ![r] = [Idle EXCEPT !.op = o, !.pc = s]]

(* Request r answers and drops its guard.                                   *)
Answer(r) ==
    /\ req' = [req EXCEPT ![r] = Idle]
    /\ lock' = IF lock = r THEN Nobody ELSE lock

-----------------------------------------------------------------------------
(* upload_open: mkdir, then fs::write of state.toml (create, then write).   *)
OpenDir(r) ==
    /\ dir = "none"
    /\ Begin(r, "open", "create toml")
    /\ dir' = "there"
    /\ UNCHANGED <<toml, files, old, opened, lock, staged, broken>>

OpenCreate(r) ==
    /\ At(r, "create toml")
    /\ IF dir = "there"
       THEN /\ toml' = "empty"
            /\ req' = [req EXCEPT ![r].pc = "write toml", ![r].off = StateToml, ![r].fd = TRUE]
            /\ UNCHANGED lock
       ELSE Answer(r) /\ UNCHANGED toml
    /\ UNCHANGED <<dir, files, old, opened, staged, broken>>

OpenWrite(r) ==
    /\ At(r, "write toml")
    /\ toml' = IF req[r].fd THEN "ok" ELSE toml
    /\ opened' = TRUE
    /\ Answer(r)
    /\ UNCHANGED <<dir, files, old, staged, broken>>

-----------------------------------------------------------------------------
(* write_chunk: the session must be there and the chunk must fit.           *)
Readable == dir = "there" /\ toml = "ok"

Patch(r, p) ==
    /\ opened /\ Readable
    /\ p.off + p.len <= Size
    /\ At(r, "idle")
    /\ req' = [req EXCEPT ![r] = [Idle EXCEPT !.op = "patch", !.pc = "truncate",
                                              !.off = p.off, !.data = Content(p)]]
    /\ UNCHANGED <<session, lock, staged, broken>>

PatchTruncate(r) ==
    /\ At(r, "truncate")
    /\ IF dir = "there"
       THEN /\ files' = [o \in DOMAIN files \cup {req[r].off} |->
                            IF o = req[r].off THEN <<>> ELSE files[o]]
            /\ req' = [req EXCEPT ![r].pc = "write", ![r].fd = TRUE]
            /\ UNCHANGED lock
       ELSE Answer(r) /\ UNCHANGED files
    /\ UNCHANGED <<dir, toml, old, opened, staged, broken>>

(* Faulty: the chunk file is opened for appending.                          *)
Appended(f, d) == f \o d

(* write_all at the start of the file, over what is there.                  *)
Over(f, d) == [i \in 1 .. Max({Len(f), Len(d)}) |-> IF i <= Len(d) THEN d[i] ELSE f[i]]

Written(r, d) ==
    files' = IF req[r].fd THEN [files EXCEPT ![req[r].off] = Over(@, d)] ELSE files

PatchWrite(r) ==
    /\ At(r, "write")
    /\ Written(r, req[r].data)
    /\ Answer(r)
    /\ UNCHANGED <<dir, toml, old, opened, staged, broken>>

(* The disk is full: a prefix is written and the request fails.             *)
PatchFails(r, n) ==
    /\ At(r, "write")
    /\ n < Len(req[r].data)
    /\ Written(r, SubSeq(req[r].data, 1, n))
    /\ broken' = broken \cup {req[r].off}
    /\ Answer(r)
    /\ UNCHANGED <<dir, toml, old, opened, staged>>

-----------------------------------------------------------------------------
(* upload_commit: take the write_lock, read state.toml, list the chunks,    *)
(* read them in order.                                                      *)
Commit(r) ==
    /\ opened
    /\ lock = Nobody
    /\ lock' = r
    /\ Begin(r, "commit", "assemble")
    /\ UNCHANGED <<session, staged, broken>>

Assemble(r) ==
    /\ At(r, "assemble")
    /\ IF Readable THEN Go(r, "list chunks") /\ UNCHANGED lock ELSE Answer(r)
    /\ UNCHANGED <<session, staged, broken>>

ListChunks(r) ==
    /\ At(r, "list chunks")
    /\ IF dir = "there"
       THEN /\ req' = [req EXCEPT ![r].pc = "open chunk", ![r].list = DOMAIN files]
            /\ UNCHANGED lock
       ELSE Answer(r)
    /\ UNCHANGED <<session, staged, broken>>

(* Faulty: chunks are joined whatever their offsets.                        *)
NoGap(r, o) == FALSE

(* The next chunk must start where the last one ended.                      *)
Gap(r, o) == o # Len(req[r].buf)

OpenChunk(r) ==
    /\ At(r, "open chunk")
    /\ req[r].list # {}
    /\ LET o == Min(req[r].list)
       IN  IF Gap(r, o) \/ o \notin DOMAIN files
           THEN Answer(r)
           ELSE /\ req' = [req EXCEPT ![r].pc = "read chunk", ![r].off = o, ![r].fd = TRUE,
                                      ![r].want = Len(files[o])]
                /\ UNCHANGED lock
    /\ UNCHANGED <<session, staged, broken>>

(* read_exact of as many bytes as the metadata said.  data is what an       *)
(* unlinked file held.                                                      *)
ReadChunk(r) ==
    /\ At(r, "read chunk")
    /\ LET now == IF req[r].fd THEN files[req[r].off] ELSE req[r].data
           len == req[r].want
       IN  IF Len(now) < len
           THEN Answer(r)
           ELSE /\ req' = [req EXCEPT ![r].pc = "open chunk",
                                      ![r].buf = @ \o SubSeq(now, 1, len),
                                      ![r].list = @ \ {req[r].off},
                                      ![r].fd = FALSE, ![r].data = <<>>, ![r].want = 0]
                /\ UNCHANGED lock
    /\ UNCHANGED <<session, staged, broken>>

WrongSize(r) == Len(req[r].buf) # Size

(* Faulty: the write_lock is still held when add asks for it.               *)
HoldForAdd == UNCHANGED lock

ReleaseForAdd == lock' = Nobody

(* All chunks are read.  A file below chunk_size_bytes goes through add,    *)
(* which takes the write_lock itself; a large one is staged under the lock  *)
(* already held.                                                            *)
Assembled(r) ==
    /\ At(r, "open chunk")
    /\ req[r].list = {}
    /\ IF WrongSize(r) THEN Answer(r)
       ELSE \E c \in ChunkSizes :
               IF Size >= c THEN Go(r, "add_chunked") /\ UNCHANGED lock
               ELSE Go(r, "relock") /\ ReleaseForAdd
    /\ UNCHANGED <<session, staged, broken>>

Relock(r) ==
    /\ At(r, "relock")
    /\ lock = Nobody
    /\ lock' = r
    /\ Go(r, "add")
    /\ UNCHANGED <<session, staged, broken>>

(* The file is staged.  A small one is answered at once, its session stays. *)
Stage(r) ==
    /\ staged' = staged \cup {req[r].buf}
    /\ \/ At(r, "add_chunked") /\ Go(r, "remove") /\ UNCHANGED lock
       \/ At(r, "add") /\ Answer(r)
    /\ UNCHANGED <<session, broken>>

(* Faulty: the session is removed although nothing was staged.              *)
StageFailsReaped(r) ==
    /\ At(r, "add_chunked")
    /\ Go(r, "remove")
    /\ UNCHANGED <<session, lock, staged, broken>>

(* Ingest refuses the file: the session stays for a retry.                  *)
StageFails(r) ==
    /\ At(r, "add_chunked") \/ At(r, "add")
    /\ Answer(r)
    /\ UNCHANGED <<session, staged, broken>>

-----------------------------------------------------------------------------
(* upload_abort loads the state first, so that an unknown id is an error.   *)
AbortSession(r) ==
    /\ opened /\ Readable
    /\ Begin(r, "abort", "remove")
    /\ UNCHANGED <<session, lock, staged, broken>>

(* reap_stale: old, or its state.toml cannot be read.                       *)
Reap(r) ==
    /\ dir = "there"
    /\ toml # "ok" \/ old
    /\ Begin(r, "reap", "remove")
    /\ UNCHANGED <<session, lock, staged, broken>>

(* remove_dir_all: list the entries, unlink them, remove the directory.     *)
ListEntries(r) ==
    /\ At(r, "remove")
    /\ IF dir = "there"
       THEN /\ req' = [req EXCEPT ![r].pc = "unlink", ![r].list = Entries]
            /\ UNCHANGED lock
       ELSE Answer(r)
    /\ UNCHANGED <<session, staged, broken>>

(* Who has entry e open keeps the inode and loses the name.                 *)
Unlink(r, e) ==
    /\ At(r, "unlink")
    /\ e \in req[r].list
    /\ req' = [g \in Reqs |->
                 IF g = r THEN [req[r] EXCEPT !.list = @ \ {e}]
                 ELSE IF req[g].fd /\ req[g].off = e
                 THEN [req[g] EXCEPT !.fd = FALSE,
                                     !.data = IF At(g, "read chunk") THEN files[e] ELSE @]
                 ELSE req[g]]
    /\ toml' = IF e = StateToml THEN "none" ELSE toml
    /\ files' = [o \in DOMAIN files \ {e} |-> files[o]]
    /\ UNCHANGED <<dir, old, opened, lock, staged, broken>>

(* rmdir fails when a PATCH has created a chunk since the listing, or when  *)
(* another request has removed the directory already.                       *)
RemoveDir(r) ==
    /\ At(r, "unlink")
    /\ req[r].list = {}
    /\ IF dir = "there" /\ Entries = {}
       THEN dir' = "gone" /\ Answer(r)
       ELSE Answer(r) /\ UNCHANGED dir
    /\ UNCHANGED <<toml, files, old, opened, staged, broken>>

-----------------------------------------------------------------------------
Expire ==
    /\ ~old /\ dir # "none"
    /\ old' = TRUE
    /\ UNCHANGED <<dir, toml, files, opened, lock, staged, broken, req>>

(* The server dies: what is on disk stays, the staging index included.      *)
Crash ==
    /\ \E r \in Reqs : ~At(r, "idle")
    /\ broken' = broken \cup {req[r].off : r \in {g \in Reqs : At(g, "write")}}
    /\ req' = [r \in Reqs |-> Idle]
    /\ lock' = Nobody
    /\ UNCHANGED <<session, staged>>

Step(r) ==
    \/ OpenCreate(r) \/ OpenWrite(r)
    \/ PatchTruncate(r) \/ PatchWrite(r) \/ (\E n \in 0 .. Size : PatchFails(r, n))
    \/ Assemble(r) \/ ListChunks(r) \/ OpenChunk(r) \/ ReadChunk(r) \/ Assembled(r)
    \/ Relock(r) \/ Stage(r) \/ StageFails(r)
    \/ ListEntries(r) \/ (\E e \in {StateToml} \cup 0 .. Size : Unlink(r, e)) \/ RemoveDir(r)

Request(r) ==
    \/ OpenDir(r)
    \/ \E p \in Patches : Patch(r, p)
    \/ Commit(r)
    \/ AbortSession(r)
    \/ Reap(r)

Next == Expire \/ Crash \/ \E r \in Reqs : Request(r) \/ Step(r)

Spec == Init /\ [][Next]_vars

-----------------------------------------------------------------------------

(* Whatever PATCHes, retries, aborts and reaps run while a commit reads the *)
(* chunks, a file that is staged has exactly the declared size and every    *)
(* byte stands where a client put it.                                       *)
StagedWhole ==
    \A c \in staged : Len(c) = Size /\ \A i \in 1 .. Size : c[i][1] = i - 1

(* PATCH is idempotent per offset: once no PATCH of a chunk is in flight,   *)
(* the chunk is one that a client sent, whole, however its retries          *)
(* overlapped, unless one of them died half way.  Claimed where the chunks  *)
(* sent for an offset have one length.                                      *)
RetriesLeaveAWholeChunk ==
    \A o \in DOMAIN files :
        \/ \E r \in Reqs : req[r].op = "patch" /\ req[r].off = o
        \/ o \in broken
        \/ \E p, q \in Patches : p.off = o /\ q.off = o /\ p.len # q.len
        \/ \E p \in Patches : p.off = o /\ files[o] = Content(p)

(* Uploaded bytes are only ever deleted once a commit has staged them, or   *)
(* by an abort or the reaper: a commit that fails leaves the session for a  *)
(* retry.                                                                   *)
FailedCommitKeepsChunks ==
    [][\/ DOMAIN files \subseteq DOMAIN files'
       \/ staged # {}
       \/ \E r \in Reqs : req[r].op \in {"abort", "reap"} /\ req[r].pc = "unlink"]_vars

(* The write_lock is not re-entrant: no request ever waits for it while it  *)
(* holds it itself, and only a commit holds it.                             *)
NoSelfDeadlock ==
    \A r \in Reqs :
        /\ req[r].pc = "relock" => lock # r
        /\ lock = r => req[r].op = "commit"
=============================================================================
