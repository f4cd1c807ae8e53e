-------------------------------- MODULE Sealed --------------------------------
(* Client-side encryption in omp-core: add_encrypted, show_encrypted, shares  *)
(* and their revocation, commit_encrypted, and gc::walk, the reachability     *)
(* walk a collector of objects would use.  An object is its content (the      *)
(* store is addressed by content, module Repo); a key is a number, and a      *)
(* ciphertext can be opened by who has its key and its associated data, and   *)
(* by no one else.                                                            *)
EXTENDS Integers, FiniteSets, Sequences, SequencesExt

CONSTANTS
  Paths, Contents,        \* contents are sequences of units
  Recipients,             \* tenants with a published identity key
  Threads,                \* callers of one Repo
  ChunkSize,              \* chunk_size_bytes, in units
  MaxKeys, MaxCommits, MaxShares,   \* bounds of the model
  None

ASSUME SealedAssumption ==
  /\ ChunkSize \in Nat \ {0}
  /\ MaxKeys \in Nat /\ MaxCommits \in Nat /\ MaxShares \in Nat
  /\ \A c \in Contents : c \in Seq(ToSet(c))

VARIABLES
  store,     \* objects
  index,     \* staged manifest of each path
  history,   \* trees of the commits of the branch, the last is HEAD's
  nextKey,   \* the next random key
  calls,     \* revocations between their two halves
  known,     \* content keys the recipients have unwrapped
  banned     \* from which key on a recipient is shut out of a path

sealedVars == <<store, index, history, nextKey, calls, known, banned>>

NoTree == [p \in Paths |-> None]
HeadTree == IF history = <<>> THEN NoTree ELSE history[Len(history)]
Never == MaxKeys + 1
NoCall == [pc |-> "idle"]

--------------------------------------------------------------------------------
(* Sealing and opening.                                                       *)

(* aead::seal, with the nonce that nonce_for_chunk derives from key and index *)
Seal(k, i, aad, part) == [type |-> "blob", key |-> k, nonce |-> i, aad |-> aad, part |-> part]

(* aead::open                                                                 *)
Opens(k, aad, b) == b.type = "blob" /\ b.key = k /\ b.aad = aad

BlobAad == <<"omp-blob">>

(* a chunk is bound to its place and to the number of chunks                  *)
ChunkAad(i, total) == <<"omp-chunk", i, total>>

(* Faulty: a shorter last chunk is left out.                                  *)
ChunksOfWhole(c) ==
  [i \in 1 .. Len(c) \div ChunkSize |-> SubSeq(c, (i - 1) * ChunkSize + 1, i * ChunkSize)]

(* plaintext.chunks(chunk_size): the last may be shorter                      *)
ChunksOf(c) ==
  [i \in 1 .. (Len(c) + ChunkSize - 1) \div ChunkSize |->
     SubSeq(c, (i - 1) * ChunkSize + 1, IF i * ChunkSize < Len(c) THEN i * ChunkSize ELSE Len(c))]

SealSingleBlob(c, k) == Seal(k, 0, BlobAad, c)

SealChunked(c, k) ==
  LET parts == ChunksOf(c) IN
  [type |-> "chunks",
   entries |-> [i \in 1 .. Len(parts) |-> Seal(k, i - 1, ChunkAad(i, Len(parts)), parts[i])]]

SealSource(c, k) == IF Len(c) >= ChunkSize THEN SealChunked(c, k) ELSE SealSingleBlob(c, k)

(* The objects that putting a source puts                                     *)
ObjectsOf(s) == {s} \cup (IF s.type = "chunks" THEN ToSet(s.entries) ELSE {})

(* decrypt_source: None when a part does not open                             *)
DecryptSource(s, k) ==
  IF s.type = "blob" THEN IF Opens(k, BlobAad, s) THEN s.part ELSE None
  ELSE IF \A i \in DOMAIN s.entries : Opens(k, ChunkAad(i, Len(s.entries)), s.entries[i])
       THEN FlattenSeq([i \in DOMAIN s.entries |-> s.entries[i].part])
       ELSE None

(* EncryptedManifestEnvelope::seal: the manifest, with the hash of the        *)
(* plaintext, and the content key wrapped for the tenant itself               *)
Envelope(c, s, k) == [type |-> "manifest", key |-> k, source |-> s, sha256 |-> c]

(* show_encrypted at a path of a tree                                         *)
ShowEncrypted(tree, p) == DecryptSource(tree[p].source, tree[p].key)

(* wrap_to_recipient for each of R                                            *)
Wrap(k, R) == {[to |-> b, key |-> k] : b \in R}
ShareBody(s, k, R) == [type |-> "share", for |-> s, wraps |-> Wrap(k, R)]
SharesOf(objs) == {o \in objs : o.type = "share"}
ManifestsOf(objs) == {o \in objs : o.type = "manifest"}

(* apply_share, unwrap_from_stanza: the keys b can unwrap                     *)
Unwrap(b, objs) == {w.key : w \in {x \in UNION {s.wraps : s \in SharesOf(objs)} : x.to = b}}

--------------------------------------------------------------------------------
SealedInit ==
  /\ store = {} /\ index = NoTree /\ history = <<>>
  /\ nextKey = 1
  /\ calls = [t \in Threads |-> NoCall]
  /\ known = [b \in Recipients |-> {}]
  /\ banned = [p \in Paths |-> [b \in Recipients |-> Never]]

(* Faulty: a path keeps its key.                                              *)
AddUnderOldKey(p, c) ==
  /\ nextKey <= MaxKeys
  /\ LET k == IF HeadTree[p] = None THEN nextKey ELSE HeadTree[p].key
         s == SealSource(c, k)
         e == Envelope(c, s, k)
     IN /\ store' = store \cup ObjectsOf(s) \cup {e}
        /\ index' = [index EXCEPT ![p] = e]
  /\ nextKey' = nextKey + 1
  /\ UNCHANGED <<history, calls, known, banned>>

(* add_encrypted: a fresh content key, the source sealed under it, the        *)
(* envelope put and staged                                                    *)
AddEncrypted(p, c) ==
  /\ nextKey <= MaxKeys
  /\ LET s == SealSource(c, nextKey)
         e == Envelope(c, s, nextKey)
     IN /\ store' = store \cup ObjectsOf(s) \cup {e}
        /\ index' = [index EXCEPT ![p] = e]
  /\ nextKey' = nextKey + 1
  /\ UNCHANGED <<history, calls, known, banned>>

(* commit_encrypted: what is staged goes into HEAD's tree                     *)
CommitEncrypted ==
  /\ index # NoTree /\ Len(history) < MaxCommits
  /\ history' = Append(history,
                  [p \in Paths |-> IF index[p] # None THEN index[p] ELSE HeadTree[p]])
  /\ index' = NoTree
  /\ UNCHANGED <<store, nextKey, calls, known, banned>>

(* create_share at some commit: its manifest's content key, wrapped to each   *)
(* of R                                                                       *)
CreateShare(p, n, R) ==
  /\ n \in DOMAIN history /\ history[n][p] # None
  /\ Cardinality(SharesOf(store)) < MaxShares
  /\ LET e == history[n][p] IN
     /\ store' = store \cup {ShareBody(e.source, e.key, R)}
     /\ banned' = [banned EXCEPT ![p] =
          [b \in Recipients |-> IF b \in R /\ e.key >= @[b] THEN Never ELSE @[b]]]
  /\ UNCHANGED <<index, history, nextKey, calls, known>>

(* revoke_share, 1: the file at HEAD is read after the write_lock is given    *)
(* back; it must open                                                         *)
RevokeRead(t, p, keep) ==
  /\ calls[t].pc = "idle"
  /\ HeadTree[p] # None /\ ShowEncrypted(HeadTree, p) # None
  /\ calls' = [calls EXCEPT ![t] =
       [pc |-> "read", p |-> p, keep |-> keep, key |-> HeadTree[p].key,
        content |-> ShowEncrypted(HeadTree, p)]]
  /\ UNCHANGED <<store, index, history, nextKey, known, banned>>

(* Faulty: the content is sealed under the key it had.                        *)
RevokeSameKey(t) ==
  /\ calls[t].pc = "read" /\ nextKey <= MaxKeys
  /\ Cardinality(SharesOf(store)) < MaxShares
  /\ LET p == calls[t].p
         k == calls[t].key
         s == SealSource(calls[t].content, k)
         e == Envelope(calls[t].content, s, k)
     IN /\ store' = store \cup ObjectsOf(s) \cup {e, ShareBody(s, k, calls[t].keep)}
        /\ index' = [index EXCEPT ![p] = e]
        /\ banned' = [banned EXCEPT ![p] =
             [b \in Recipients |-> IF b \in calls[t].keep THEN Never ELSE k]]
  /\ calls' = [calls EXCEPT ![t] = NoCall]
  /\ UNCHANGED <<history, nextKey, known>>

(* revoke_share, 2: what was read is sealed under a fresh key and staged, and *)
(* a share for those who stay is put                                          *)
RevokeSeal(t) ==
  /\ calls[t].pc = "read" /\ nextKey <= MaxKeys
  /\ Cardinality(SharesOf(store)) < MaxShares
  /\ LET p == calls[t].p
         s == SealSource(calls[t].content, nextKey)
         e == Envelope(calls[t].content, s, nextKey)
     IN /\ store' = store \cup ObjectsOf(s) \cup {e, ShareBody(s, nextKey, calls[t].keep)}
        /\ index' = [index EXCEPT ![p] = e]
        /\ banned' = [banned EXCEPT ![p] =
             [b \in Recipients |-> IF b \in calls[t].keep THEN Never ELSE nextKey]]
  /\ nextKey' = nextKey + 1
  /\ calls' = [calls EXCEPT ![t] = NoCall]
  /\ UNCHANGED <<history, known>>

(* apply_share: b keeps the content key                                       *)
ApplyShare(b, s) ==
  /\ s \in SharesOf(store) /\ \E w \in s.wraps : w.to = b
  /\ known' = [known EXCEPT ![b] = @ \cup Unwrap(b, {s})]
  /\ UNCHANGED <<store, index, history, nextKey, calls, banned>>

SealedNext ==
  \/ CommitEncrypted
  \/ \E p \in Paths, c \in Contents : AddEncrypted(p, c)
  \/ \E p \in Paths, n \in 1 .. MaxCommits, R \in SUBSET Recipients : CreateShare(p, n, R)
  \/ \E t \in Threads : \/ RevokeSeal(t)
                        \/ \E p \in Paths, keep \in SUBSET Recipients : RevokeRead(t, p, keep)
  \/ \E b \in Recipients, s \in SharesOf(store) : ApplyShare(b, s)

SealedSpec == SealedInit /\ [][SealedNext]_sealedVars

--------------------------------------------------------------------------------
(* Reachability (gc.rs).                                                      *)

(* Faulty: the chunks of a chunked file are not reached.                      *)
WalkSourceOnly(s) == {s}

(* walk_source                                                                *)
WalkSource(s) == {s} \cup (IF s.type = "chunks" THEN ToSet(s.entries) ELSE {})

(* walk_manifest: without the tenant's keys the source is not known           *)
WalkManifest(e, withKeys) == {e} \cup (IF withKeys THEN WalkSource(e.source) ELSE {})

(* walk_tree                                                                  *)
WalkTree(tree, withKeys) ==
  UNION {WalkManifest(tree[p], withKeys) : p \in {q \in Paths : tree[q] # None}}

(* walk: from the branch over all ancestors, and the shares it is given       *)
Walk(withKeys, shares) ==
  UNION {WalkTree(history[n], withKeys) : n \in DOMAIN history} \cup shares

--------------------------------------------------------------------------------

(* A manifest leads back to the plaintext whose hash it holds: slicing,       *)
(* sealing, the order of chunks and the associated data agree between         *)
(* seal_chunked and decrypt_source, for files of all sizes around chunk_size. *)
ReadsBack ==
  \A e \in ManifestsOf(store) : DecryptSource(e.source, e.key) = e.sha256

(* No key seals two plaintexts under one nonce: the nonce is the chunk index, *)
(* so every seal of a file needs a key of its own, on re-ingest and on        *)
(* revocation too.                                                            *)
NoNonceReuse ==
  \A a, b \in {o \in store : o.type = "blob"} : a.key = b.key /\ a.nonce = b.nonce => a = b

(* Chunks of a file that are reordered, repeated or cut short, or mixed with  *)
(* those of another file, do not open under any key.                          *)
ChunksBound ==
  LET blobs == {o \in store : o.type = "blob"} IN
  \A n \in 1 .. 2 : \A s \in [1 .. n -> blobs] :
    LET o == [type |-> "chunks", entries |-> s] IN
    DecryptSource(o, s[1].key) # None => o \in store

(* What was sealed opens, to its plaintext, and nothing else made of its      *)
(* chunks does (seal_chunked and decrypt_source).                             *)
SourcesExact == ReadsBack /\ ChunksBound

(* After a revocation no one who was not kept can open what the path is given *)
(* from then on, with all the shares there are and all the keys they kept,    *)
(* until a new share grants it to them; whatever ran between the two halves   *)
(* of revoke_share.                                                           *)
RevokedShutOut ==
  \A p \in Paths, b \in Recipients :
    LET keysOf == known[b] \cup Unwrap(b, store)
        now == {index[p], HeadTree[p]} \ {None}
    IN \A e \in now : e.key >= banned[p][b] => e.key \notin keysOf

(* What gc::walk returns with the tenant's keys has every object that reading *)
(* any file of any commit needs.                                              *)
WalkComplete ==
  \A n \in DOMAIN history : \A p \in {q \in Paths : history[n][q] # None} :
    {history[n][p]} \cup ObjectsOf(history[n][p].source) \subseteq Walk(TRUE, {})
================================================================================
