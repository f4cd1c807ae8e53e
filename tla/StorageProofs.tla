---------------------------- MODULE StorageProofs ----------------------------
(***************************************************************************)
(* Theorems about what the store is given and keeps: Sealed, Audit and     *)
(* Uploads, which share no state and are proved one after the other.       *)
(*                                                                         *)
(* Client-side encryption, for any number of paths, recipients, callers,   *)
(* keys and commits: no key seals twice under one nonce, a revocation      *)
(* shuts out who is not kept, what was sealed opens to its file and to     *)
(* nothing else, and the reachability walk misses nothing.  They rest on   *)
(* keys being fresh: every key in the store was drawn before, belongs to   *)
(* one path for good, and has sealed one source.                           *)
(*                                                                         *)
(* The audit log: an append that no other overlaps is never lost.          *)
(*                                                                         *)
(* Upload sessions, for any number of requests, any declared size and any  *)
(* chunks that clients send.                                               *)
(***************************************************************************)
EXTENDS Sealed, Audit, Uploads, FiniteSetTheorems, SequenceTheorems, NaturalsInduction,
        WellFoundedInduction, TLAPS

Blobs == {o \in store : o.type = "blob"}

(* Every manifest that p has or ever had in a commit                       *)
Named(p) == ({index[p]} \cup {history[n][p] : n \in DOMAIN history}) \ {None}

KeysOf(b) == known[b] \cup Unwrap(b, store)

Typed ==
  /\ nextKey \in Nat
  /\ index \in [Paths -> store \cup {None}]
  /\ history \in Seq([Paths -> store \cup {None}])
  /\ calls = [t \in Threads |-> calls[t]]
  /\ \A t \in Threads : calls[t].pc = "read" => calls[t].p \in Paths
  /\ known \in [Recipients -> SUBSET Nat]
  /\ banned \in [Paths -> [Recipients -> Nat]]

(* Whatever key is in use was drawn before and is no more than the bound.  *)
Drawn(k, n) == k \in Nat /\ k < n /\ k <= MaxKeys

KeysDrawn ==
  /\ \A o \in store : o.type = "blob" => Drawn(o.key, nextKey)
  /\ \A o \in store : o.type = "share" => \A w \in o.wraps : Drawn(w.key, nextKey)
  /\ \A b \in Recipients : \A k \in known[b] : Drawn(k, nextKey)
  /\ \A p \in Paths : \A e \in Named(p) : Drawn(e.key, nextKey)

(* A key belongs to one path.                                              *)
KeysOwned ==
  \A p, q \in Paths : \A e \in Named(p), f \in Named(q) : e.key = f.key => p = q

(* A recipient has no key that is past its bar, of any manifest a path has *)
(* or ever had.                                                            *)
Barred ==
  \A p \in Paths, b \in Recipients : \A e \in Named(p) :
    e.key >= banned[p][b] => e.key \notin KeysOf(b)

KeyInv == Typed /\ KeysDrawn /\ KeysOwned /\ Barred /\ NoNonceReuse

(* What sealing a source puts is sealed under the given key, each part     *)
(* under a nonce of its own.                                               *)
LEMMA SealedParts ==
  ASSUME NEW c, NEW k
  PROVE  /\ \A o \in ObjectsOf(SealSource(c, k)) :
              o.type \in {"blob", "chunks"} /\ (o.type = "blob" => o.key = k)
         /\ \A a, b \in ObjectsOf(SealSource(c, k)) :
              a.type = "blob" /\ b.type = "blob" /\ a.nonce = b.nonce => a = b
  <1>1. CASE Len(c) >= ChunkSize
    <2> DEFINE n == Len(ChunksOf(c))
               entry(i) == Seal(k, i - 1, ChunkAad(i, n), ChunksOf(c)[i])
               src == SealSource(c, k)
    <2>1. src = [type |-> "chunks", entries |-> [i \in 1 .. n |-> entry(i)]]
      BY <1>1 DEF SealSource, SealChunked
    <2>2. ObjectsOf(src) = {src} \cup {entry(i) : i \in 1 .. n}
      BY <2>1 DEF ObjectsOf, ToSet
    <2>3. \A i \in 1 .. n : entry(i).type = "blob" /\ entry(i).key = k /\ entry(i).nonce = i - 1
      BY DEF Seal
    <2>4. \A i, j \in 1 .. n : i - 1 = j - 1 => i = j
      OBVIOUS
    <2>5. src.type = "chunks"
      BY <2>1
    <2> HIDE DEF n, entry, src
    <2>6. \A o \in ObjectsOf(src) :
              o.type \in {"blob", "chunks"} /\ (o.type = "blob" => o.key = k)
      BY <2>2, <2>3, <2>5
    <2>7. ASSUME NEW a \in ObjectsOf(src), NEW b \in ObjectsOf(src),
                 a.type = "blob", b.type = "blob", a.nonce = b.nonce
          PROVE  a = b
      <3>1. PICK i \in 1 .. n : a = entry(i)
        BY <2>2, <2>5, <2>7
      <3>2. PICK j \in 1 .. n : b = entry(j)
        BY <2>2, <2>5, <2>7
      <3> QED
        BY <2>3, <2>4, <2>7, <3>1, <3>2
    <2> QED
      BY <2>6, <2>7 DEF src
  <1>2. CASE ~(Len(c) >= ChunkSize)
    BY <1>2 DEF SealSource, SealSingleBlob, Seal, ObjectsOf
  <1> QED
    BY <1>1, <1>2

--------------------------------------------------------------------------------
(* A seal under the next key                                               *)

(* What AddEncrypted and RevokeSeal do alike: W are shares of the new key. *)
SealedUnder(p, c, W) ==
  LET s == SealSource(c, nextKey)
      e == Envelope(c, s, nextKey)
  IN /\ nextKey <= MaxKeys
     /\ store' = store \cup ObjectsOf(s) \cup {e} \cup W
     /\ index' = [index EXCEPT ![p] = e]
     /\ nextKey' = nextKey + 1
     /\ \A o \in W : o.type = "share" /\ \A w \in o.wraps : w.key = nextKey
     /\ UNCHANGED <<history, known>>

(* Such a step gives p one new manifest and changes no other path.         *)
LEMMA NamedAfterSeal ==
  ASSUME Typed, NEW p \in Paths, NEW c, NEW W, SealedUnder(p, c, W)
  PROVE  \A q \in Paths : \A e \in Named(q)' :
            \/ e \in Named(q)
            \/ q = p /\ e.key = nextKey /\ e = index'[p]
  BY DEF Typed, SealedUnder, Named, Envelope

(* A fresh key disturbs neither the types nor the ownership of keys nor    *)
(* the nonces: it was in no object before.                                 *)
LEMMA SealKeepsKeys ==
  ASSUME SealedAssumption, KeyInv, NEW p \in Paths, NEW c, NEW W, SealedUnder(p, c, W)
  PROVE  (KeysDrawn /\ KeysOwned /\ NoNonceReuse)'
  <1> DEFINE s == SealSource(c, nextKey)
             e == Envelope(c, s, nextKey)
  <1>0. nextKey \in Nat /\ nextKey' = nextKey + 1 /\ nextKey <= MaxKeys /\ MaxKeys \in Nat
    BY DEF KeyInv, Typed, SealedUnder, SealedAssumption
  <1>1. \A k : Drawn(k, nextKey) => Drawn(k, nextKey') /\ k # nextKey
    BY <1>0 DEF Drawn
  <1>2. Drawn(nextKey, nextKey')
    BY <1>0 DEF Drawn
  <1>3. \A o \in store' : o \in store \/ o \in ObjectsOf(s) \/ o = e \/ o \in W
    BY DEF SealedUnder
  <1>4. e.type = "manifest"
    BY DEF Envelope
  <1>5. \A o \in W : o.type = "share" /\ \A w \in o.wraps : w.key = nextKey
    BY DEF SealedUnder
  <1>6. \A o \in ObjectsOf(s) :
          o.type \in {"blob", "chunks"} /\ (o.type = "blob" => o.key = nextKey)
    BY SealedParts
  <1>7. \A a, b \in ObjectsOf(s) :
          a.type = "blob" /\ b.type = "blob" /\ a.nonce = b.nonce => a = b
    BY SealedParts
  <1>8. \A q \in Paths : \A f \in Named(q)' :
          f \in Named(q) \/ (q = p /\ f.key = nextKey)
    BY NamedAfterSeal DEF KeyInv
  <1> HIDE DEF s, e
  <1>9. KeysDrawn'
    <2>1. \A o \in store' : o.type = "blob" => Drawn(o.key, nextKey')
      BY <1>1, <1>2, <1>3, <1>4, <1>5, <1>6 DEF KeyInv, KeysDrawn
    <2>2. \A o \in store' : o.type = "share" => \A w \in o.wraps : Drawn(w.key, nextKey')
      BY <1>1, <1>2, <1>3, <1>4, <1>5, <1>6 DEF KeyInv, KeysDrawn
    <2>3. \A b \in Recipients : \A k \in known'[b] : Drawn(k, nextKey')
      BY <1>1 DEF KeyInv, KeysDrawn, SealedUnder
    <2>4. \A q \in Paths : \A f \in Named(q)' : Drawn(f.key, nextKey')
      BY <1>1, <1>2, <1>8 DEF KeyInv, KeysDrawn
    <2> QED
      BY <2>1, <2>2, <2>3, <2>4 DEF KeysDrawn
  <1>10. KeysOwned'
    BY <1>1, <1>8 DEF KeyInv, KeysOwned, KeysDrawn
  <1>11. NoNonceReuse'
    BY <1>1, <1>3, <1>4, <1>5, <1>6, <1>7 DEF KeyInv, KeysDrawn, NoNonceReuse
  <1> QED
    BY <1>9, <1>10, <1>11

(* ... nor the types of index and history.                                 *)
LEMMA SealTypes ==
  ASSUME KeyInv, NEW p \in Paths, NEW c, NEW W, SealedUnder(p, c, W)
  PROVE  /\ nextKey' \in Nat
         /\ index' \in [Paths -> store' \cup {None}]
         /\ history' \in Seq([Paths -> store' \cup {None}])
         /\ known' \in [Recipients -> SUBSET Nat]
  <1>1. store \subseteq store' /\ index'[p] \in store'
    BY DEF SealedUnder, KeyInv, Typed
  <1>2. index' \in [Paths -> store' \cup {None}]
    BY <1>1 DEF SealedUnder, KeyInv, Typed
  <1>3. history' \in Seq([Paths -> store' \cup {None}])
    <2>1. [Paths -> store \cup {None}] \subseteq [Paths -> store' \cup {None}]
      BY <1>1
    <2>2. history \in Seq([Paths -> store \cup {None}]) /\ history' = history
      BY DEF SealedUnder, KeyInv, Typed
    <2> HIDE DEF SealedUnder, KeyInv
    <2> QED
      BY <2>1, <2>2
  <1> QED
    BY <1>2, <1>3 DEF SealedUnder, KeyInv, Typed

(* The keys a recipient has after such a step                              *)
LEMMA SealedKeysOf ==
  ASSUME KeyInv, NEW p \in Paths, NEW c, NEW W, SealedUnder(p, c, W), NEW b \in Recipients
  PROVE  \A k \in KeysOf(b)' :
            k \in KeysOf(b) \/ (k = nextKey /\ \E o \in W : \E w \in o.wraps : w.to = b)
  <1>1. \A o \in ObjectsOf(SealSource(c, nextKey)) : o.type \in {"blob", "chunks"}
    BY SealedParts
  <1>2. SharesOf(store') \subseteq SharesOf(store) \cup W
    BY <1>1 DEF SealedUnder, SharesOf, Envelope
  <1>3. ASSUME NEW k \in Unwrap(b, store')
        PROVE  k \in Unwrap(b, store) \/ (k = nextKey /\ \E o \in W : \E w \in o.wraps : w.to = b)
    <2>1. PICK o \in SharesOf(store') : \E w \in o.wraps : w.to = b /\ w.key = k
      BY <1>3 DEF Unwrap
    <2>2. CASE o \in SharesOf(store)
      BY <2>1, <2>2 DEF Unwrap
    <2>3. CASE o \in W
      BY <2>1, <2>3 DEF SealedUnder
    <2> QED
      BY <1>2, <2>2, <2>3
  <1>4. known' = known
    BY DEF SealedUnder
  <1> QED
    BY <1>3, <1>4 DEF KeysOf

--------------------------------------------------------------------------------
(* The steps                                                               *)

LEMMA KeyAdd ==
  ASSUME SealedAssumption, KeyInv, NEW p \in Paths, NEW c \in Contents, AddEncrypted(p, c)
  PROVE  KeyInv'
  <1>1. SealedUnder(p, c, {})
    BY DEF AddEncrypted, SealedUnder
  <1>2. (KeysDrawn /\ KeysOwned /\ NoNonceReuse)'
    BY <1>1, SealKeepsKeys
  <1>3. Typed'
    BY <1>1, SealTypes DEF AddEncrypted, KeyInv, Typed
  <1>4. ASSUME NEW q \in Paths, NEW b \in Recipients, NEW e \in Named(q)',
               e.key >= banned'[q][b]
        PROVE  e.key \notin KeysOf(b)'
    <2>1. banned' = banned
      BY DEF AddEncrypted
    <2>2. \A k \in KeysOf(b)' : k \in KeysOf(b)
      BY <1>1, SealedKeysOf
    <2>3. \A k \in KeysOf(b) : k < nextKey /\ k \in Nat
      BY DEF KeyInv, KeysDrawn, KeysOf, Unwrap, SharesOf, Drawn
    <2>4. e \in Named(q) \/ e.key = nextKey
      BY <1>1, NamedAfterSeal DEF KeyInv
    <2>5. nextKey \in Nat
      BY DEF KeyInv, Typed
    <2> QED
      BY <1>4, <2>1, <2>2, <2>3, <2>4, <2>5 DEF KeyInv, Barred
  <1> QED
    BY <1>2, <1>3, <1>4 DEF KeyInv, Barred

LEMMA KeyRevoke ==
  ASSUME SealedAssumption, KeyInv, NEW t \in Threads, RevokeSeal(t)
  PROVE  KeyInv'
  <1> DEFINE p == calls[t].p
             c == calls[t].content
             keep == calls[t].keep
             share == ShareBody(SealSource(c, nextKey), nextKey, keep)
  <1>0. p \in Paths
    BY DEF RevokeSeal, KeyInv, Typed
  <1>s. /\ share.type = "share"
        /\ \A w \in share.wraps : w.key = nextKey /\ w.to \in keep
    BY DEF ShareBody, Wrap
  <1>1. SealedUnder(p, c, {share})
    BY <1>s DEF RevokeSeal, SealedUnder
  <1>2. (KeysDrawn /\ KeysOwned /\ NoNonceReuse)'
    BY <1>0, <1>1, SealKeepsKeys
  <1>b. banned' = [banned EXCEPT ![p] =
                     [b \in Recipients |-> IF b \in keep THEN Never ELSE nextKey]]
    BY DEF RevokeSeal
  <1>n. nextKey \in Nat /\ Never \in Nat /\ MaxKeys < Never
    BY DEF SealedAssumption, Never, KeyInv, Typed
  <1>3. Typed'
    <2>1. banned' \in [Paths -> [Recipients -> Nat]]
      BY <1>0, <1>b, <1>n DEF KeyInv, Typed
    <2>2. /\ calls' = [u \in Threads |-> calls'[u]]
          /\ \A u \in Threads : calls'[u].pc = "read" => calls'[u].p \in Paths
      <3>1. calls' = [calls EXCEPT ![t] = NoCall]
        BY DEF RevokeSeal
      <3>2. calls = [u \in Threads |-> calls[u]]
        BY DEF KeyInv, Typed
      <3>3. calls' = [u \in Threads |-> IF u = t THEN NoCall ELSE calls[u]]
        BY <3>1, <3>2
      <3>4. NoCall.pc # "read"
        BY DEF NoCall
      <3>5. calls' = [u \in Threads |-> calls'[u]]
        BY <3>3
      <3>6. \A u \in Threads : calls'[u].pc = "read" => calls'[u].p \in Paths
        BY <3>3, <3>4 DEF KeyInv, Typed
      <3> QED
        BY <3>5, <3>6
    <2> QED
      BY <1>0, <1>1, <2>1, <2>2, SealTypes DEF Typed
  <1>4. ASSUME NEW q \in Paths, NEW b \in Recipients, NEW e \in Named(q)',
               e.key >= banned'[q][b]
        PROVE  e.key \notin KeysOf(b)'
    <2>1. e \in Named(q) \/ (q = p /\ e.key = nextKey)
      BY <1>0, <1>1, NamedAfterSeal DEF KeyInv
    <2>2. \A k \in KeysOf(b)' : k \in KeysOf(b) \/ (k = nextKey /\ b \in keep)
      BY <1>0, <1>1, <1>s, SealedKeysOf
    <2>3. \A k \in KeysOf(b) : k < nextKey /\ k \in Nat
      BY DEF KeyInv, KeysDrawn, KeysOf, Unwrap, SharesOf, Drawn
    <2>4. e.key \in Nat /\ e.key <= nextKey /\ e.key <= MaxKeys /\ (e \in Named(q) => e.key < nextKey)
      BY <1>1, <1>n, <2>1 DEF KeyInv, KeysDrawn, Drawn, SealedUnder
    <2>5. CASE q = p
      <3>1. banned'[q][b] = IF b \in keep THEN Never ELSE nextKey
        BY <1>0, <1>b, <2>5 DEF KeyInv, Typed
      <3>2. b \notin keep /\ e.key = nextKey
        BY <1>4, <1>n, <2>4, <3>1, SMT DEF SealedAssumption
      <3> QED
        BY <2>2, <2>3, <3>2, <1>n
    <2>6. CASE q # p
      <3>1. banned'[q] = banned[q] /\ e \in Named(q)
        BY <1>0, <1>b, <2>1, <2>6 DEF KeyInv, Typed
      <3> QED
        BY <1>4, <1>n, <2>2, <2>4, <3>1 DEF KeyInv, Barred
    <2> QED
      BY <2>5, <2>6
  <1> QED
    BY <1>2, <1>3, <1>4 DEF KeyInv, Barred

(* What the head has at a path is one of the manifests of the path.        *)
LEMMA HeadNamed ==
  ASSUME Typed, NEW p \in Paths, HeadTree[p] # None
  PROVE  HeadTree[p] \in Named(p)
  <1>1. history # <<>>
    BY DEF HeadTree, NoTree
  <1>2. Len(history) \in DOMAIN history /\ HeadTree = history[Len(history)]
    BY <1>1 DEF HeadTree, Typed
  <1> QED
    BY <1>2 DEF Named

(* A commit names nothing new: what it takes from the index or the head.   *)
LEMMA CommitNames ==
  ASSUME KeyInv, CommitEncrypted
  PROVE  Typed' /\ \A q \in Paths : Named(q)' \subseteq Named(q)
  <1> DEFINE tree == [p \in Paths |-> IF index[p] # None THEN index[p] ELSE HeadTree[p]]
             T == [Paths -> store \cup {None}]
  <1>1. history \in Seq(T) /\ index \in T
    BY DEF KeyInv, Typed
  <1>2. HeadTree \in T
    <2>1. CASE history = <<>>
      BY <2>1 DEF HeadTree, NoTree
    <2>2. CASE history # <<>>
      BY <1>1, <2>2 DEF HeadTree
    <2> QED
      BY <2>1, <2>2
  <1>3. tree \in T
    BY <1>1, <1>2
  <1>4. history' = Append(history, tree) /\ index' = NoTree
        /\ UNCHANGED <<store, nextKey, calls, known, banned>>
    BY DEF CommitEncrypted
  <1>5. Typed'
    <2>1. history' \in Seq(T)
      BY <1>1, <1>3, <1>4
    <2>2. index' \in T
      BY <1>4 DEF NoTree
    <2> QED
      BY <1>4, <2>1, <2>2 DEF KeyInv, Typed
  <1>6. ASSUME NEW q \in Paths, NEW e \in Named(q)' PROVE e \in Named(q)
    <2>1. e # None /\ index'[q] = None
      BY <1>4 DEF Named, NoTree
    <2>2. PICK n \in DOMAIN history' : e = history'[n][q]
      BY <2>1 DEF Named
    <2>3. /\ Len(history') = Len(history) + 1
          /\ \A i \in 1 .. Len(history) : history'[i] = history[i]
          /\ history'[Len(history) + 1] = tree
          /\ DOMAIN history' = 1 .. Len(history) + 1
          /\ DOMAIN history = 1 .. Len(history)
          /\ Len(history) \in Nat
      BY <1>1, <1>3, <1>4
    <2>4. CASE n \in 1 .. Len(history)
      BY <2>1, <2>2, <2>3, <2>4 DEF Named
    <2>5. CASE n = Len(history) + 1
      <3>1. e = index[q] \/ e = HeadTree[q]
        BY <2>2, <2>3, <2>5
      <3>2. CASE e = index[q]
        BY <2>1, <3>2 DEF Named
      <3>3. CASE e = HeadTree[q]
        BY <2>1, <3>3, HeadNamed DEF KeyInv
      <3> QED
        BY <3>1, <3>2, <3>3
    <2> QED
      BY <2>2, <2>3, <2>4, <2>5
  <1> QED
    BY <1>5, <1>6

LEMMA KeyCommit ==
  ASSUME KeyInv, CommitEncrypted
  PROVE  KeyInv'
  <1>1. index' = NoTree /\ UNCHANGED <<store, nextKey, calls, known, banned>>
    BY DEF CommitEncrypted
  <1>2. Typed' /\ \A q \in Paths : Named(q)' \subseteq Named(q)
    BY CommitNames
  <1>3. \A b \in Recipients : KeysOf(b)' = KeysOf(b)
    BY <1>1 DEF KeysOf
  <1>4. KeysDrawn'
    BY <1>1, <1>2 DEF KeyInv, KeysDrawn
  <1>5. KeysOwned' /\ NoNonceReuse'
    BY <1>1, <1>2 DEF KeyInv, KeysOwned, NoNonceReuse
  <1>6. Barred'
    BY <1>1, <1>2, <1>3 DEF KeyInv, Barred
  <1> QED
    BY <1>2, <1>4, <1>5, <1>6 DEF KeyInv

LEMMA KeyShare ==
  ASSUME SealedAssumption, KeyInv, NEW p \in Paths, NEW n \in 1 .. MaxCommits, NEW R \in SUBSET Recipients,
         CreateShare(p, n, R)
  PROVE  KeyInv'
  <1> DEFINE e == history[n][p]
             share == ShareBody(e.source, e.key, R)
  <1>1. /\ store' = store \cup {share}
        /\ banned' = [banned EXCEPT ![p] =
             [b \in Recipients |-> IF b \in R /\ e.key >= @[b] THEN Never ELSE @[b]]]
        /\ UNCHANGED <<index, history, nextKey, calls, known>>
        /\ e \in Named(p)
    BY DEF CreateShare, Named
  <1>2. /\ share.type = "share"
        /\ \A w \in share.wraps : w.key = e.key /\ w.to \in R
    BY DEF ShareBody, Wrap
  <1>3. Drawn(e.key, nextKey) /\ Never \in Nat /\ MaxKeys < Never
    BY <1>1 DEF KeyInv, KeysDrawn, SealedAssumption, Never
  <1> HIDE DEF e, share
  <1>4. \A q \in Paths : Named(q)' = Named(q)
    BY <1>1 DEF Named
  <1>5. Typed'
    <2>1. index' \in [Paths -> store' \cup {None}]
      BY <1>1 DEF KeyInv, Typed
    <2>2. history' \in Seq([Paths -> store' \cup {None}])
      <3>1. [Paths -> store \cup {None}] \subseteq [Paths -> store' \cup {None}]
        BY <1>1
      <3>2. history \in Seq([Paths -> store \cup {None}]) /\ history' = history
        BY <1>1 DEF KeyInv, Typed
      <3> QED
        BY <3>1, <3>2
    <2>3. banned' \in [Paths -> [Recipients -> Nat]]
      BY <1>1, <1>3 DEF KeyInv, Typed
    <2> QED
      BY <1>1, <2>1, <2>2, <2>3 DEF KeyInv, Typed
  <1>6. KeysDrawn' /\ KeysOwned' /\ NoNonceReuse'
    <2>1. KeysDrawn'
      <3>1. \A o \in store' : o \in store \/ (o = share /\ share.type = "share")
        BY <1>1, <1>2
      <3>2. \A o \in store' : o.type = "share" => \A w \in o.wraps : Drawn(w.key, nextKey)
        BY <1>2, <1>3, <3>1 DEF KeyInv, KeysDrawn
      <3>3. \A o \in store' : o.type = "blob" => Drawn(o.key, nextKey)
        BY <3>1 DEF KeyInv, KeysDrawn
      <3> QED
        BY <1>1, <1>4, <3>2, <3>3 DEF KeyInv, KeysDrawn
    <2>2. KeysOwned'
      BY <1>4 DEF KeyInv, KeysOwned
    <2>3. NoNonceReuse'
      BY <1>1, <1>2 DEF KeyInv, NoNonceReuse
    <2> QED
      BY <2>1, <2>2, <2>3
  <1>7. ASSUME NEW q \in Paths, NEW b \in Recipients, NEW f \in Named(q)',
               f.key >= banned'[q][b]
        PROVE  f.key \notin KeysOf(b)'
    <2>1. f \in Named(q) /\ Drawn(f.key, nextKey)
      BY <1>4 DEF KeyInv, KeysDrawn
    <2>2. SharesOf(store') = SharesOf(store) \cup {share}
      BY <1>1, <1>2 DEF SharesOf
    <2>3. \A k \in KeysOf(b)' : k \in KeysOf(b) \/ (k = e.key /\ b \in R)
      <3>1. \A k \in Unwrap(b, store') : k \in Unwrap(b, store) \/ (k = e.key /\ b \in R)
        BY <1>2, <2>2 DEF Unwrap
      <3> QED
        BY <1>1, <3>1 DEF KeysOf
    <2>4. CASE q = p
      <3>1. banned'[p][b] = IF b \in R /\ e.key >= banned[p][b] THEN Never ELSE banned[p][b]
        BY <1>1 DEF KeyInv, Typed
      <3>2. banned[p][b] \in Nat
        BY DEF KeyInv, Typed
      <3>3. /\ f.key >= banned[p][b] 
            /\ ~(b \in R /\ e.key >= banned[p][b])
        BY <1>3, <1>7, <2>1, <2>4, <3>1, <3>2, SMT DEF Drawn, SealedAssumption
      <3>4. f.key \notin KeysOf(b)
        BY <2>1, <2>4, <3>3 DEF KeyInv, Barred
      <3>5. f.key = e.key => b \notin R
        BY <3>3
      <3> QED
        BY <2>3, <3>4, <3>5
    <2>5. CASE q # p
      <3>1. banned'[q] = banned[q]
        BY <1>1, <2>5 DEF KeyInv, Typed
      <3>2. f.key # e.key
        BY <1>1, <2>1, <2>5 DEF KeyInv, KeysOwned
      <3> QED
        BY <1>7, <2>1, <2>3, <3>1, <3>2 DEF KeyInv, Barred
    <2> QED
      BY <2>4, <2>5
  <1> QED
    BY <1>5, <1>6, <1>7 DEF KeyInv, Barred

LEMMA KeyRead ==
  ASSUME KeyInv, NEW t \in Threads, NEW p \in Paths, NEW keep \in SUBSET Recipients,
         RevokeRead(t, p, keep)
  PROVE  KeyInv'
  <1> DEFINE r == [pc |-> "read", p |-> p, keep |-> keep, key |-> HeadTree[p].key,
                   content |-> ShowEncrypted(HeadTree, p)]
  <1>1. UNCHANGED <<store, index, history, nextKey, known, banned>>
    BY DEF RevokeRead
  <1>2. calls' = [calls EXCEPT ![t] = r] /\ r.p = p
    BY DEF RevokeRead
  <1> HIDE DEF r
  <1>3. calls = [u \in Threads |-> calls[u]]
    BY DEF KeyInv, Typed
  <1>4. calls' = [u \in Threads |-> IF u = t THEN r ELSE calls[u]]
    BY <1>2, <1>3
  <1>5. calls' = [u \in Threads |-> calls'[u]]
    BY <1>4
  <1>6. \A u \in Threads : calls'[u].pc = "read" => calls'[u].p \in Paths
    BY <1>2, <1>4 DEF KeyInv, Typed
  <1>7. Typed'
    BY <1>1, <1>5, <1>6 DEF KeyInv, Typed
  <1> QED
    BY <1>1, <1>7 DEF KeyInv, KeysDrawn, KeysOwned, Barred, NoNonceReuse, Named, KeysOf

LEMMA KeyApply ==
  ASSUME KeyInv, NEW b \in Recipients, NEW s \in SharesOf(store), ApplyShare(b, s)
  PROVE  KeyInv'
  <1>1. /\ known' = [known EXCEPT ![b] = @ \cup Unwrap(b, {s})]
        /\ UNCHANGED <<store, index, history, nextKey, calls, banned>>
    BY DEF ApplyShare
  <1>2. Unwrap(b, {s}) \subseteq Unwrap(b, store)
    BY DEF Unwrap, SharesOf
  <1>3. \A k \in Unwrap(b, store) : Drawn(k, nextKey)
    BY DEF KeyInv, KeysDrawn, Unwrap, SharesOf
  <1>4. known' \in [Recipients -> SUBSET Nat]
    <2>1. Unwrap(b, {s}) \subseteq Nat
      BY <1>2, <1>3 DEF Drawn
    <2> QED
      BY <1>1, <2>1 DEF KeyInv, Typed
  <1>5. \A a \in Recipients : KeysOf(a)' = KeysOf(a)
    BY <1>1, <1>2 DEF KeyInv, Typed, KeysOf
  <1>6. Typed'
    BY <1>1, <1>4 DEF KeyInv, Typed
  <1>7. \A a \in Recipients : \A k \in known'[a] : Drawn(k, nextKey)
    BY <1>1, <1>2, <1>3 DEF KeyInv, Typed, KeysDrawn
  <1>8. \A p \in Paths : Named(p)' = Named(p)
    BY <1>1 DEF Named
  <1>9. KeysDrawn'
    BY <1>1, <1>7, <1>8 DEF KeyInv, KeysDrawn
  <1>10. KeysOwned' /\ NoNonceReuse'
    BY <1>1, <1>8 DEF KeyInv, KeysOwned, NoNonceReuse
  <1>11. Barred'
    BY <1>1, <1>5, <1>8 DEF KeyInv, Barred
  <1> QED
    BY <1>6, <1>9, <1>10, <1>11 DEF KeyInv

--------------------------------------------------------------------------------
(* The theorems                                                            *)

LEMMA KeyInvariant == SealedSpec => []KeyInv
  <1> USE SealedAssumption
  <1>1. SealedInit => KeyInv
    <2> SUFFICES ASSUME SealedInit PROVE KeyInv
      OBVIOUS
    <2>1. Typed
      <3>1. \A t \in Threads : calls[t].pc = "idle"
        BY DEF SealedInit, NoCall
      <3>2. calls = [t \in Threads |-> calls[t]]
        BY DEF SealedInit
      <3>3. Never \in Nat
        BY DEF SealedAssumption, Never
      <3>4. banned \in [Paths -> [Recipients -> Nat]]
        BY <3>3 DEF SealedInit
      <3> QED
        BY <3>1, <3>2, <3>4 DEF SealedInit, Typed, NoTree
    <2>2. \A p \in Paths : Named(p) = {}
      BY DEF SealedInit, Named, NoTree
    <2> QED
      BY <2>1, <2>2 DEF SealedInit, KeyInv, KeysDrawn, KeysOwned, Barred, NoNonceReuse
  <1>2. KeyInv /\ [SealedNext]_sealedVars => KeyInv'
    <2> SUFFICES ASSUME KeyInv, [SealedNext]_sealedVars PROVE KeyInv'
      OBVIOUS
    <2>1. CASE CommitEncrypted
      BY <2>1, KeyCommit
    <2>2. CASE \E p \in Paths, c \in Contents : AddEncrypted(p, c)
      BY <2>2, KeyAdd
    <2>3. CASE \E p \in Paths, n \in 1 .. MaxCommits, R \in SUBSET Recipients : CreateShare(p, n, R)
      BY <2>3, KeyShare
    <2>4. CASE \E t \in Threads : RevokeSeal(t)
      BY <2>4, KeyRevoke
    <2>5. CASE \E t \in Threads, p \in Paths, keep \in SUBSET Recipients : RevokeRead(t, p, keep)
      BY <2>5, KeyRead
    <2>6. CASE \E b \in Recipients, s \in SharesOf(store) : ApplyShare(b, s)
      BY <2>6, KeyApply
    <2>7. CASE UNCHANGED sealedVars
      BY <2>7 DEF sealedVars, KeyInv, Typed, KeysDrawn, KeysOwned, Barred, NoNonceReuse, Named, KeysOf
    <2> QED
      BY <2>1, <2>2, <2>3, <2>4, <2>5, <2>6, <2>7 DEF SealedNext
  <1> QED
    BY <1>1, <1>2, PTL DEF SealedSpec

(* No key seals two plaintexts under one nonce, for any number of paths,   *)
(* files, revocations and callers: add_encrypted and revoke_share draw a   *)
(* key for every seal, and the chunks of one seal have indices of their    *)
(* own.                                                                    *)
THEOREM NoncesUnique == SealedSpec => []NoNonceReuse
  BY KeyInvariant, PTL DEF KeyInv

(* Whoever a revocation does not keep has no key to what the path holds    *)
(* from then on, with every share there is and every key they kept, even   *)
(* when other callers add, share, commit or revoke between the two halves  *)
(* of revoke_share.                                                        *)
THEOREM RevocationShutsOut == SealedSpec => []RevokedShutOut
  <1>1. KeyInv => RevokedShutOut
    <2> SUFFICES ASSUME KeyInv, NEW p \in Paths, NEW b \in Recipients,
                        NEW e \in {index[p], HeadTree[p]} \ {None},
                        e.key >= banned[p][b]
                 PROVE  e.key \notin known[b] \cup Unwrap(b, store)
      BY DEF RevokedShutOut
    <2>1. CASE e = index[p]
      BY <2>1 DEF KeyInv, Barred, Named, KeysOf
    <2>2. CASE e = HeadTree[p]
      BY <2>2, HeadNamed DEF KeyInv, Barred, KeysOf
    <2> QED
      BY <2>1, <2>2
  <1> QED
    BY <1>1, KeyInvariant, PTL

--------------------------------------------------------------------------------
(* Numbers and sequences                                                   *)

(* A set of naturals has a least element.                                     *)
LEMMA Least ==
  ASSUME NEW T, T \subseteq Nat, T # {}
  PROVE  \E m \in T : \A k \in T : m <= k
  <1> DEFINE Lt == {ss \in Nat \X Nat : ss[1] < ss[2]}
  <1>1. IsWellFoundedOn(Lt, Nat)
    BY NatLessThanWellFounded DEF OpToRel
  <1> HIDE DEF Lt
  <1>2. PICK m \in T : \A k \in T : <<k, m>> \notin Lt
    BY <1>1, WFMin
  <1>3. ASSUME NEW k \in T
        PROVE  m <= k
    <2>1. k \in Nat /\ m \in Nat
      BY <1>2
    <2>2. k < m => <<k, m>> \in Lt
      BY <2>1 DEF Lt
    <2> QED
      BY <1>2, <2>1, <2>2
  <1> QED
    BY <1>3

(* Induction over the naturals, for a set.                                    *)
LEMMA Induction ==
  ASSUME NEW S, 0 \in S, \A n \in Nat : n \in S => n + 1 \in S
  PROVE  Nat \subseteq S
  <1> SUFFICES ASSUME Nat \ S # {} PROVE FALSE
    OBVIOUS
  <1>1. PICK m \in Nat \ S : \A k \in Nat \ S : m <= k
    BY Least
  <1>2. m # 0 /\ m - 1 \in Nat /\ m - 1 + 1 = m
    BY <1>1
  <1>3. m - 1 \in Nat \ S
    BY <1>1, <1>2
  <1> QED
    BY <1>1, <1>2, <1>3

(* What FlattenSeq returns when the concatenations g of the first parts are known *)
LEMMA Flattened ==
  ASSUME NEW s, NEW g, NEW n \in Nat \ {0}, Len(s) = n,
         g[1] = s[1],
         \A i \in 1 .. n : i # 1 => g[i] = g[i - 1] \o s[i]
  PROVE  FlattenSeq(s) = g[n]
  <1> DEFINE f == CHOOSE f : f = [i \in 1 .. n |-> IF i = 1 THEN s[i] ELSE f[i - 1] \o s[i]]
             h == [i \in 1 .. n |-> g[i]]
  <1>1. FlattenSeq(s) = f[n]
    BY DEF FlattenSeq
  <1>2. h = [i \in 1 .. n |-> IF i = 1 THEN s[i] ELSE h[i - 1] \o s[i]]
    <2>1. ASSUME NEW i \in 1 .. n
          PROVE  g[i] = IF i = 1 THEN s[i] ELSE h[i - 1] \o s[i]
      <3>1. i # 1 => h[i - 1] = g[i - 1]
        OBVIOUS
      <3> HIDE DEF h
      <3> QED
        BY <3>1
    <2> QED
      BY <2>1
  <1> HIDE DEF h
  <1>3. f = [i \in 1 .. n |-> IF i = 1 THEN s[i] ELSE f[i - 1] \o s[i]]
    BY <1>2
  <1> HIDE DEF f
  <1>f. ASSUME NEW j \in 1 .. n, j # 1
        PROVE  f[j] = f[j - 1] \o s[j] /\ g[j] = g[j - 1] \o s[j]
    <2>1. f[j] = IF j = 1 THEN s[j] ELSE f[j - 1] \o s[j]
      BY <1>3, Zenon
    <2> QED
      BY <1>f, <2>1, Zenon
  <1> DEFINE S == {i \in Nat : i + 1 \in 1 .. n => f[i + 1] = g[i + 1]}
  <1>4. 0 \in S
    <2>1. f[1] = IF 1 = 1 THEN s[1] ELSE f[1 - 1] \o s[1]
      <3>1. 1 \in 1 .. n
        OBVIOUS
      <3> QED
        BY <1>3, <3>1, Zenon
    <2> QED
      BY <2>1
  <1>5. ASSUME NEW i \in Nat, i \in S
        PROVE  i + 1 \in S
    <2> SUFFICES ASSUME i + 1 + 1 \in 1 .. n PROVE f[i + 1 + 1] = g[i + 1 + 1]
      OBVIOUS
    <2>1. PICK j : j = i + 1 + 1
      OBVIOUS
    <2>2. j \in 1 .. n /\ j # 1 /\ j - 1 = i + 1 /\ i + 1 \in 1 .. n
      BY <2>1
    <2>3. f[j - 1] = g[j - 1]
      BY <1>5, <2>2
    <2>4. f[j] = f[j - 1] \o s[j] /\ g[j] = g[j - 1] \o s[j]
      BY <1>f, <2>2, Zenon
    <2> QED
      BY <2>1, <2>3, <2>4
  <1> HIDE DEF S
  <1>6. Nat \subseteq S
    BY <1>4, <1>5, Induction
  <1>7. n - 1 \in S /\ n - 1 + 1 = n
    BY <1>6
  <1> QED
    BY <1>1, <1>7 DEF S

LEMMA ChunkCount ==
  ASSUME SealedAssumption, NEW L \in Nat
  PROVE  LET n == (L + ChunkSize - 1) \div ChunkSize IN n \in Nat /\ n * ChunkSize >= L
  <1> DEFINE a == L + ChunkSize - 1
             n == a \div ChunkSize
  <1>1. ChunkSize \in Nat /\ ChunkSize > 0 /\ a \in Nat
    BY DEF SealedAssumption
  <1> HIDE DEF a
  <1>2. n \in Nat /\ a - ChunkSize < n * ChunkSize
    BY <1>1
  <1> QED
    BY <1>1, <1>2 DEF a

(* The chunks of a file, put together, are the file.                          *)
LEMMA ChunksJoin ==
  ASSUME SealedAssumption, NEW U, NEW c \in Seq(U), Len(c) >= ChunkSize
  PROVE  /\ Len(ChunksOf(c)) \in Nat \ {0}
         /\ FlattenSeq([i \in DOMAIN ChunksOf(c) |-> ChunksOf(c)[i]]) = c
  <1> DEFINE L == Len(c)
             n == (L + ChunkSize - 1) \div ChunkSize
             upto(i) == SubSeq(c, 1, IF i * ChunkSize < L THEN i * ChunkSize ELSE L)
             parts == ChunksOf(c)
             g == [i \in 1 .. n |-> upto(i)]
  <1>1. L \in Nat \ {0} /\ ChunkSize \in Nat \ {0} /\ L >= ChunkSize
    BY DEF SealedAssumption
  <1>2. n \in Nat /\ n * ChunkSize >= L
    BY <1>1, ChunkCount
  <1> HIDE DEF n
  <1>3. n \in Nat \ {0}
    BY <1>1, <1>2
  <1>4. /\ parts = [i \in 1 .. n |-> SubSeq(c, (i - 1) * ChunkSize + 1,
                                             IF i * ChunkSize < L THEN i * ChunkSize ELSE L)]
        /\ Len(parts) = n /\ DOMAIN parts = 1 .. n
    BY <1>3 DEF ChunksOf, n
  <1>5. ASSUME NEW i \in 1 .. n
        PROVE  upto(i) = IF i = 1 THEN parts[1] ELSE upto(i - 1) \o parts[i]
    <2>1. CASE i = 1
      <3>1. (1 - 1) * ChunkSize + 1 = 1
        BY <1>1
      <3> QED
        BY <1>4, <2>1, <3>1
    <2>2. CASE i # 1
      <3> DEFINE k == (i - 1) * ChunkSize
                 m == IF i * ChunkSize < L THEN i * ChunkSize ELSE L
      <3>1. k \in Nat /\ i * ChunkSize = k + ChunkSize /\ i - 1 \in 1 .. n
        <4>1. PICK j \in Nat : j = i - 1
          BY <2>2
        <4>2. i = j + 1 /\ j * ChunkSize \in Nat
          BY <1>1, <4>1
        <4>3. (j + 1) * ChunkSize = j * ChunkSize + ChunkSize
          BY <1>1
        <4> QED
          <5>1. k = j * ChunkSize /\ i * ChunkSize = (j + 1) * ChunkSize
            BY <4>1, <4>2
          <5>2. i - 1 \in 1 .. n
            BY <1>3, <2>2
          <5> HIDE DEF k
          <5> QED
            BY <4>2, <4>3, <5>1, <5>2
      <3>2. parts[i] = SubSeq(c, k + 1, m)
        BY <1>4
      <3>3. m \in 0 .. L
        BY <1>1, <3>1
      <3>4. CASE k < L
        <4>1. upto(i - 1) = SubSeq(c, 1, k)
          BY <3>4
        <4>2. k \in 0 .. L /\ k <= m
          BY <1>1, <3>1, <3>4
        <4> HIDE DEF k, m
        <4>3. SubSeq(c, 1, k) \o SubSeq(c, k + 1, m) = SubSeq(c, 1, m)
          <5>1. 1 \in 1 .. Len(c) + 1 /\ k \in 1 - 1 .. Len(c) /\ m \in k .. Len(c)
            BY <1>1, <3>3, <4>2
          <5> QED
            BY <5>1, ConcatAdjacentSubSeq
        <4> QED
          BY <2>2, <3>2, <4>1, <4>3 DEF m
      <3>5. CASE ~(k < L)
        <4>1. upto(i - 1) = SubSeq(c, 1, L) /\ m = L
          BY <1>1, <3>1, <3>5
        <4>2. parts[i] = <<>>
          <5>1. L < k + 1 /\ k + 1 \in Int /\ L \in Int
            BY <1>1, <3>1, <3>5
          <5> HIDE DEF k, m, L
          <5> QED
            BY <3>2, <4>1, <5>1, SubSeqEmpty
        <4>3. SubSeq(c, 1, L) = c
          BY SubSeqFull
        <4> QED
          BY <2>2, <4>1, <4>2, <4>3, ConcatEmptySeq
      <3> QED
        BY <3>4, <3>5
    <2> QED
      BY <2>1, <2>2
  <1> HIDE DEF parts
  <1>6. /\ g[1] = parts[1]
        /\ \A i \in 1 .. n : i # 1 => g[i] = g[i - 1] \o parts[i]
    <2> HIDE DEF upto
    <2>1. 1 \in 1 .. n /\ \A i \in 1 .. n : g[i] = upto(i) /\ (i # 1 => i - 1 \in 1 .. n)
      BY <1>3
    <2> HIDE DEF g
    <2> QED
      BY <1>5, <2>1
  <1>7. g[n] = c
    <2>1. upto(n) = SubSeq(c, 1, L)
      BY <1>1, <1>2
    <2> HIDE DEF upto
    <2>2. g[n] = upto(n)
      BY <1>3
    <2> QED
      BY <2>1, <2>2, SubSeqFull
  <1>8. parts = [i \in DOMAIN parts |-> parts[i]]
    BY <1>4
  <1>9. FlattenSeq(parts) = g[n]
    <2> HIDE DEF g
    <2>1. Len(parts) = n
      BY <1>4
    <2>2. ASSUME NEW s, NEW h, Len(s) = n, h[1] = s[1],
                 \A i \in 1 .. n : i # 1 => h[i] = h[i - 1] \o s[i]
          PROVE  FlattenSeq(s) = h[n]
      BY <1>3, <2>2, Flattened
    <2> QED
      BY <1>6, <2>1, <2>2, Zenon
  <1> QED
    BY <1>3, <1>4, <1>7, <1>8, <1>9 DEF parts

--------------------------------------------------------------------------------
(* What was sealed                                                         *)

(* A manifest is what sealing the file of its hash under its key made, and *)
(* all of it is in the store; no two manifests share a key; and there is   *)
(* no sealed blob that is not part of a manifest's source.                 *)
ManifestsWhole ==
  \A e \in ManifestsOf(store) :
    /\ e.sha256 \in Contents /\ Drawn(e.key, nextKey)
    /\ e.source = SealSource(e.sha256, e.key)
    /\ ObjectsOf(e.source) \subseteq store

SealedOnce == \A e, f \in ManifestsOf(store) : e.key = f.key => e = f

BlobsAccounted ==
  \A o \in store : o.type = "blob" => \E e \in ManifestsOf(store) : o \in ObjectsOf(e.source)

NamedInStore == \A p \in Paths : Named(p) \subseteq ManifestsOf(store)

ReadsKnown == \A t \in Threads : calls[t].pc = "read" => calls[t].content \in Contents

SealInv == ManifestsWhole /\ SealedOnce /\ BlobsAccounted /\ NamedInStore /\ ReadsKnown

(* A source opens under its key to the file it was sealed from.            *)
LEMMA SourceOpens ==
  ASSUME SealedAssumption, NEW c \in Contents, NEW k
  PROVE  DecryptSource(SealSource(c, k), k) = c
  <1>1. CASE Len(c) >= ChunkSize
    <2> DEFINE parts == ChunksOf(c)
               n == Len(parts)
               src == SealSource(c, k)
               es == [i \in 1 .. n |-> Seal(k, i - 1, ChunkAad(i, n), parts[i])]
    <2>1. src = [type |-> "chunks", entries |-> es]
      BY <1>1 DEF SealSource, SealChunked
    <2>2. n \in Nat \ {0} /\ FlattenSeq([i \in DOMAIN parts |-> parts[i]]) = c
      BY <1>1, ChunksJoin DEF SealedAssumption
    <2>3. DOMAIN parts = 1 .. n
      <3>1. (Len(c) + ChunkSize - 1) \div ChunkSize \in Nat
        BY <1>1, ChunkCount DEF SealedAssumption
      <3> QED
        BY <3>1 DEF ChunksOf
    <2> HIDE DEF parts, n
    <2>4. DOMAIN es = 1 .. n /\ Len(es) = n
      BY <2>2
    <2>5. \A i \in 1 .. n : Opens(k, ChunkAad(i, n), es[i]) /\ es[i].part = parts[i]
      BY DEF Opens, Seal
    <2> HIDE DEF es
    <2>6. [i \in DOMAIN es |-> es[i].part] = [i \in DOMAIN parts |-> parts[i]]
      BY <2>3, <2>4, <2>5
    <2>7. src.type = "chunks" /\ src.entries = es
      BY <2>1
    <2> HIDE DEF src
    <2>8. DecryptSource(src, k) = FlattenSeq([i \in DOMAIN es |-> es[i].part])
      BY <2>4, <2>5, <2>7 DEF DecryptSource
    <2> QED
      BY <2>2, <2>6, <2>8 DEF src
  <1>2. CASE ~(Len(c) >= ChunkSize)
    BY <1>2 DEF SealSource, SealSingleBlob, Seal, DecryptSource, Opens
  <1> QED
    BY <1>1, <1>2

(* A blob of a source whose associated data are those of a chunk is that   *)
(* chunk.                                                                  *)
LEMMA ChunkOfSource ==
  ASSUME NEW c \in Contents, NEW k, NEW src, NEW o, NEW j, NEW m,
         SealedAssumption, src = SealSource(c, k),
         o \in ObjectsOf(src), o.type = "blob", o.aad = ChunkAad(j, m)
  PROVE  /\ src \in [type : {"chunks"}, entries : {src.entries}]
         /\ m \in Nat /\ j \in 1 .. m
         /\ src.entries \in [1 .. m -> ObjectsOf(src)] /\ src.entries[j] = o
  <1> DEFINE parts == ChunksOf(c)
             n == Len(parts)
             es == [i \in 1 .. n |-> Seal(k, i - 1, ChunkAad(i, n), parts[i])]
  <1>1. CASE Len(c) >= ChunkSize
    <2>1. src = [type |-> "chunks", entries |-> es] /\ src.type = "chunks" /\ src.entries = es
      BY <1>1 DEF SealSource, SealChunked
    <2>2. n \in Nat
      BY <1>1, ChunksJoin DEF SealedAssumption
    <2> HIDE DEF parts, n
    <2>3. o \in ToSet(es)
      BY <2>1 DEF ObjectsOf
    <2>4. PICK i \in 1 .. n : o = Seal(k, i - 1, ChunkAad(i, n), parts[i])
      BY <2>3 DEF ToSet
    <2>5. ChunkAad(i, n) = ChunkAad(j, m)
      BY <2>4 DEF Seal
    <2>6. i = j /\ n = m
      BY <2>5 DEF ChunkAad
    <2>7. es[j] = o
      BY <2>4, <2>6
    <2>8. es \in [1 .. m -> ObjectsOf(src)]
      BY <2>1, <2>6 DEF ObjectsOf, ToSet
    <2> HIDE DEF es
    <2> QED
      BY <2>1, <2>2, <2>4, <2>6, <2>7, <2>8
  <1>2. CASE ~(Len(c) >= ChunkSize)
    <2>1. o.aad = BlobAad
      BY <1>2 DEF SealSource, SealSingleBlob, Seal, ObjectsOf
    <2>2. BlobAad # ChunkAad(j, m)
      <3>1. Len(BlobAad) = 1 /\ Len(ChunkAad(j, m)) = 3 /\ 1 # 3
        BY DEF BlobAad, ChunkAad
      <3> QED
        BY <3>1, Zenon
    <2> QED
      BY <2>1, <2>2
  <1> QED
    BY <1>1, <1>2

(* Chunks open together only as the file they were cut from, however many. *)
LEMMA OnlyWhole ==
  ASSUME SealedAssumption, SealInv, NEW n \in Nat \ {0}, NEW s \in [1 .. n -> Blobs],
         DecryptSource([type |-> "chunks", entries |-> s], s[1].key) # None
  PROVE  [type |-> "chunks", entries |-> s] \in store
  <1> DEFINE o == [type |-> "chunks", entries |-> s]
             k == s[1].key
  <1>1. DOMAIN s = 1 .. n /\ Len(s) = n /\ o.type = "chunks" /\ o.entries = s
    OBVIOUS
  <1> HIDE DEF o
  <1>2. \A i \in 1 .. n : Opens(k, ChunkAad(i, n), s[i])
    BY <1>1 DEF DecryptSource, o
  <1>3. \A i \in 1 .. n : s[i] \in store /\ s[i].type = "blob" /\ s[i].key = k
                          /\ s[i].aad = ChunkAad(i, n)
    BY <1>2 DEF Opens, Blobs
  <1>4. PICK e \in ManifestsOf(store) : s[1] \in ObjectsOf(e.source)
    BY <1>3 DEF SealInv, BlobsAccounted
  <1>5. /\ e.sha256 \in Contents /\ e.source = SealSource(e.sha256, e.key)
        /\ ObjectsOf(e.source) \subseteq store /\ e.key = k
    BY <1>3, <1>4, SealedParts DEF SealInv, ManifestsWhole
  <1>6. ASSUME NEW i \in 1 .. n PROVE s[i] \in ObjectsOf(e.source)
    <2>1. PICK f \in ManifestsOf(store) : s[i] \in ObjectsOf(f.source)
      BY <1>3 DEF SealInv, BlobsAccounted
    <2>2. f.key = k
      BY <1>3, <2>1, SealedParts DEF SealInv, ManifestsWhole
    <2> QED
      BY <1>4, <1>5, <2>1, <2>2 DEF SealInv, SealedOnce
  <1> DEFINE src == e.source
  <1>7. ASSUME NEW i \in 1 .. n
        PROVE  /\ src \in [type : {"chunks"}, entries : {src.entries}]
               /\ src.entries \in [1 .. n -> ObjectsOf(src)] /\ src.entries[i] = s[i]
    <2>1. /\ s[i] \in ObjectsOf(src) /\ e.sha256 \in Contents
          /\ s[i].type = "blob" /\ s[i].aad = ChunkAad(i, n) /\ src = SealSource(e.sha256, k)
      BY <1>3, <1>5, <1>6
    <2> HIDE DEF src
    <2> QED
      BY <2>1, ChunkOfSource
  <1>8. src.entries = s
    <2>1. 1 \in 1 .. n /\ s = [x \in 1 .. n |-> s[x]]
      BY <1>1
    <2>2. src.entries \in [1 .. n -> ObjectsOf(src)]
      BY <1>7, <2>1
    <2> HIDE DEF src
    <2> QED
      BY <1>7, <2>1, <2>2
  <1>9. src = o
    BY <1>7, <1>8 DEF o
  <1>10. src \in ObjectsOf(src)
    BY DEF ObjectsOf
  <1> QED
    BY <1>5, <1>9, <1>10 DEF o

--------------------------------------------------------------------------------
(* The steps, for what was sealed                                          *)

(* A seal of a file under the next key accounts for what it adds.          *)
LEMMA SealAccounts ==
  ASSUME SealedAssumption, KeyInv, SealInv,
         NEW p \in Paths, NEW c \in Contents, NEW W, SealedUnder(p, c, W)
  PROVE  (ManifestsWhole /\ SealedOnce /\ BlobsAccounted /\ NamedInStore)'
  <1> DEFINE s == SealSource(c, nextKey)
             e == Envelope(c, s, nextKey)
  <1>1. store' = store \cup ObjectsOf(s) \cup {e} \cup W
    BY DEF SealedUnder
  <1>2. \A o \in W : o.type = "share"
    BY DEF SealedUnder
  <1>3. /\ e.type = "manifest" /\ e.sha256 = c /\ e.key = nextKey /\ e.source = s
        /\ e = index'[p]
    BY DEF Envelope, SealedUnder, KeyInv, Typed
  <1>4. \A o \in ObjectsOf(s) : o.type \in {"blob", "chunks"}
    BY SealedParts
  <1>5. nextKey \in Nat /\ nextKey' = nextKey + 1 /\ nextKey <= MaxKeys /\ MaxKeys \in Nat
    BY DEF KeyInv, Typed, SealedUnder, SealedAssumption
  <1>6. \A k : Drawn(k, nextKey) => Drawn(k, nextKey') /\ k # nextKey
    BY <1>5 DEF Drawn
  <1>7. Drawn(nextKey, nextKey')
    BY <1>5 DEF Drawn
  <1>8. \A q \in Paths : \A f \in Named(q)' : f \in Named(q) \/ f = e
    BY <1>3, NamedAfterSeal DEF KeyInv
  <1>9. e.source = SealSource(e.sha256, e.key)
    BY <1>3
  <1> HIDE DEF s, e
  <1>10. ManifestsOf(store') = ManifestsOf(store) \cup {e}
    BY <1>1, <1>2, <1>3, <1>4 DEF ManifestsOf
  <1>11. ManifestsWhole'
    BY <1>1, <1>3, <1>6, <1>7, <1>9, <1>10 DEF SealInv, ManifestsWhole
  <1>12. SealedOnce'
    BY <1>3, <1>6, <1>10 DEF SealInv, ManifestsWhole, SealedOnce
  <1>13. BlobsAccounted'
    BY <1>1, <1>2, <1>3, <1>10 DEF SealInv, BlobsAccounted
  <1>14. NamedInStore'
    BY <1>8, <1>10 DEF SealInv, NamedInStore
  <1> QED
    BY <1>11, <1>12, <1>13, <1>14

(* A step that puts shares at most, and names no new manifest, keeps it.   *)
LEMMA SealKept ==
  ASSUME SealInv, store \subseteq store', \A o \in store' \ store : o.type = "share",
         nextKey' = nextKey, \A p \in Paths : Named(p)' \subseteq Named(p)
  PROVE  (ManifestsWhole /\ SealedOnce /\ BlobsAccounted /\ NamedInStore)'
  <1>1. ManifestsOf(store') = ManifestsOf(store)
    BY DEF ManifestsOf
  <1> QED
    BY <1>1 DEF SealInv, ManifestsWhole, SealedOnce, BlobsAccounted, NamedInStore

LEMMA SealStep ==
  ASSUME SealedAssumption, KeyInv, SealInv, [SealedNext]_sealedVars
  PROVE  SealInv'
  <1> DEFINE Rest == (ManifestsWhole /\ SealedOnce /\ BlobsAccounted /\ NamedInStore)'
  <1>1. CASE CommitEncrypted
    <2>1. Rest
      BY <1>1, CommitNames, SealKept DEF CommitEncrypted
    <2> QED
      BY <1>1, <2>1 DEF CommitEncrypted, SealInv, ReadsKnown
  <1>2. ASSUME NEW p \in Paths, NEW c \in Contents, AddEncrypted(p, c)
        PROVE  SealInv'
    <2>1. SealedUnder(p, c, {})
      BY <1>2 DEF AddEncrypted, SealedUnder
    <2>2. Rest
      BY <2>1, SealAccounts
    <2> QED
      BY <1>2, <2>2 DEF AddEncrypted, SealInv, ReadsKnown
  <1>3. ASSUME NEW p \in Paths, NEW n \in 1 .. MaxCommits, NEW R \in SUBSET Recipients,
               CreateShare(p, n, R)
        PROVE  SealInv'
    <2>1. /\ store' = store \cup {ShareBody(history[n][p].source, history[n][p].key, R)}
          /\ UNCHANGED <<index, history, nextKey, calls>>
      BY <1>3 DEF CreateShare
    <2>2. store \subseteq store' /\ \A o \in store' \ store : o.type = "share"
      BY <2>1 DEF ShareBody
    <2>3. \A q \in Paths : Named(q)' = Named(q)
      BY <2>1 DEF Named
    <2>4. Rest
      BY <2>1, <2>2, <2>3, SealKept
    <2> QED
      BY <2>1, <2>4 DEF SealInv, ReadsKnown
  <1>4. ASSUME NEW t \in Threads, RevokeSeal(t)
        PROVE  SealInv'
    <2> DEFINE p == calls[t].p
               c == calls[t].content
               share == ShareBody(SealSource(c, nextKey), nextKey, calls[t].keep)
    <2>1. p \in Paths /\ c \in Contents
      BY <1>4 DEF RevokeSeal, KeyInv, Typed, SealInv, ReadsKnown
    <2>2. share.type = "share" /\ \A w \in share.wraps : w.key = nextKey
      BY DEF ShareBody, Wrap
    <2>3. SealedUnder(p, c, {share})
      BY <1>4, <2>2 DEF RevokeSeal, SealedUnder
    <2>4. Rest
      BY <2>1, <2>3, SealAccounts
    <2>5. calls' = [calls EXCEPT ![t] = NoCall] /\ NoCall.pc # "read"
      BY <1>4 DEF RevokeSeal, NoCall
    <2>6. \A u \in Threads : calls'[u].pc = "read" => calls'[u] = calls[u]
      BY <2>5 DEF KeyInv, Typed
    <2>7. ReadsKnown'
      BY <2>6 DEF SealInv, ReadsKnown
    <2> QED
      BY <2>4, <2>7 DEF SealInv
  <1>5. ASSUME NEW t \in Threads, NEW p \in Paths, NEW keep \in SUBSET Recipients,
               RevokeRead(t, p, keep)
        PROVE  SealInv'
    <2> DEFINE e == HeadTree[p]
               r == [pc |-> "read", p |-> p, keep |-> keep, key |-> e.key,
                     content |-> ShowEncrypted(HeadTree, p)]
    <2>1. e \in ManifestsOf(store)
      BY <1>5, HeadNamed DEF RevokeRead, KeyInv, SealInv, NamedInStore
    <2>2. DecryptSource(e.source, e.key) = e.sha256 /\ e.sha256 \in Contents
      BY <2>1, SourceOpens DEF SealInv, ManifestsWhole
    <2>3. r.content \in Contents
      BY <2>2 DEF ShowEncrypted
    <2>4. calls' = [calls EXCEPT ![t] = r] /\ UNCHANGED <<store, index, history, nextKey>>
      BY <1>5 DEF RevokeRead
    <2> HIDE DEF r
    <2>5. \A u \in Threads : calls'[u] = r \/ calls'[u] = calls[u]
      BY <2>4 DEF KeyInv, Typed
    <2>6. ReadsKnown'
      BY <2>3, <2>5 DEF SealInv, ReadsKnown
    <2>7. \A q \in Paths : Named(q)' = Named(q)
      BY <2>4 DEF Named
    <2>8. Rest
      BY <2>4, <2>7, SealKept
    <2> QED
      BY <2>6, <2>8 DEF SealInv
  <1>6. CASE \/ \E b \in Recipients, s \in SharesOf(store) : ApplyShare(b, s)
             \/ UNCHANGED sealedVars
    <2>1. UNCHANGED <<store, index, history, nextKey, calls>>
      BY <1>6 DEF ApplyShare, sealedVars
    <2>2. \A q \in Paths : Named(q)' = Named(q)
      BY <2>1 DEF Named
    <2>3. Rest
      BY <2>1, <2>2, SealKept
    <2> QED
      BY <2>1, <2>3 DEF SealInv, ReadsKnown
  <1> QED
    BY <1>1, <1>2, <1>3, <1>4, <1>5, <1>6 DEF SealedNext

LEMMA SealInvariant == SealedSpec => []SealInv
  <1> USE SealedAssumption
  <1>1. SealedInit => SealInv
    <2> SUFFICES ASSUME SealedInit PROVE SealInv
      OBVIOUS
    <2>1. store = {} /\ \A p \in Paths : Named(p) = {}
      BY DEF SealedInit, Named, NoTree
    <2>2. \A t \in Threads : calls[t].pc # "read"
      BY DEF SealedInit, NoCall
    <2> QED
      BY <2>1, <2>2 DEF SealInv, ManifestsWhole, SealedOnce, BlobsAccounted, NamedInStore,
                        ReadsKnown, ManifestsOf
  <1>2. KeyInv /\ SealInv /\ [SealedNext]_sealedVars => SealInv'
    BY SealStep
  <1> QED
    BY <1>1, <1>2, KeyInvariant, PTL DEF SealedSpec

(* Whatever was sealed opens to the file whose hash its manifest holds,    *)
(* and chunks open together only as the file they were cut from, for files *)
(* and chunk sizes of any length and across every add, share and           *)
(* revocation: seal_chunked and decrypt_source are inverses, and the       *)
(* associated data bind a chunk to its place and its key to one file.      *)
THEOREM SourcesAreExact == SealedSpec => []SourcesExact
  <1>1. SealInv => SourcesExact
    <2> SUFFICES ASSUME SealInv PROVE SourcesExact
      OBVIOUS
    <2>1. ReadsBack
      BY SourceOpens, SealedAssumption DEF SealInv, ManifestsWhole, ReadsBack
    <2>2. ChunksBound
      <3>1. \A n \in 1 .. 2 : n \in Nat \ {0}
        OBVIOUS
      <3> QED
        BY <3>1, OnlyWhole, SealedAssumption DEF ChunksBound, Blobs
    <2> QED
      BY <2>1, <2>2 DEF SourcesExact
  <1> QED
    BY <1>1, SealInvariant, PTL

(* gc::walk with the tenant's keys reaches all that any file of any commit *)
(* is read from, and reaches nothing that is not stored: what it returns   *)
(* is safe to keep and enough to keep.                                     *)
THEOREM WalkIsComplete == SealedSpec => [](WalkComplete /\ Walk(TRUE, {}) \subseteq store)
  <1>1. WalkComplete
    BY DEF WalkComplete, Walk, WalkTree, WalkManifest, WalkSource, ObjectsOf
  <1>2. SealInv => Walk(TRUE, {}) \subseteq store
    <2> SUFFICES ASSUME SealInv, NEW o \in Walk(TRUE, {}) PROVE o \in store
      OBVIOUS
    <2>1. PICK n \in DOMAIN history : o \in WalkTree(history[n], TRUE)
      BY DEF Walk
    <2>2. PICK p \in Paths : history[n][p] # None /\ o \in WalkManifest(history[n][p], TRUE)
      BY <2>1 DEF WalkTree
    <2>3. history[n][p] \in ManifestsOf(store)
      BY <2>2 DEF SealInv, NamedInStore, Named
    <2> QED
      BY <2>2, <2>3 DEF SealInv, ManifestsWhole, WalkManifest, WalkSource, ObjectsOf, ManifestsOf
  <1> QED
    BY <1>1, <1>2, SealInvariant, PTL

--------------------------------------------------------------------------------
(* The audit log                                                           *)

(* q are the links from h on, NoEntry past the first entry: the entries    *)
(* were begun one after the other, the newest no later than the m-th.      *)
Chain(q, h, m) ==
  /\ q[1] = h
  /\ \A i \in Nat \ {0} : q[i + 1] = IF q[i] = NoEntry THEN NoEntry ELSE q[i].parent
  /\ \A i \in Nat \ {0} : q[i] # NoEntry =>
       /\ q[i].n \in Nat \ {0} /\ q[i].n + i <= m + 1
       /\ q[i + 1] # NoEntry => q[i + 1].n < q[i].n

(* h leads to all entries of E.                                            *)
LeadsTo(h, m, E) ==
  \E q : Chain(q, h, m) /\ \A e \in E : \E i \in Nat \ {0} : q[i] = e

Appending(w) == [pc : {"read"}, entry : {writer[w].entry}, alone : BOOLEAN]

(* The head leads to all entries that no other append overlapped, and so   *)
(* does the entry of every append under way: one that is alone has no      *)
(* other under way.                                                        *)
AuditInv ==
  /\ made \in 0 .. MaxEntries
  /\ NoEntry \notin alone
  /\ LeadsTo(auditHead, made, alone)
  /\ writer = [w \in Writers |-> writer[w]]
  /\ \A w \in Writers : writer[w].pc # "idle" =>
       /\ writer[w] \in Appending(w)
       /\ writer[w].entry # NoEntry
       /\ LeadsTo(writer[w].entry, made, alone)
       /\ writer[w].alone => \A v \in Writers \ {w} : writer[v].pc = "idle"

LEMMA ChainGrows ==
  ASSUME NEW m \in Nat, NEW h, NEW E, LeadsTo(h, m, E)
  PROVE  LeadsTo(h, m + 1, E)
  <1>1. PICK q : Chain(q, h, m) /\ \A e \in E : \E i \in Nat \ {0} : q[i] = e
    BY DEF LeadsTo
  <1>2. Chain(q, h, m + 1)
    BY <1>1 DEF Chain
  <1> QED
    BY <1>1, <1>2 DEF LeadsTo

(* A new entry on a chain makes a longer chain.                            *)
LEMMA ChainExtends ==
  ASSUME NEW m \in Nat, NEW h, NEW E, LeadsTo(h, m, E),
         NEW e, e # NoEntry, e.parent = h, e.n = m + 1
  PROVE  LeadsTo(e, m + 1, E)
  <1>1. PICK q : Chain(q, h, m) /\ \A x \in E : \E i \in Nat \ {0} : q[i] = x
    BY DEF LeadsTo
  <1> DEFINE r == [i \in Nat \ {0} |-> IF i = 1 THEN e ELSE q[i - 1]]
  <1>2. r[1] = e
    OBVIOUS
  <1>3. \A i \in Nat \ {0} : r[i + 1] = q[i]
    <2> TAKE i \in Nat \ {0}
    <2>1. i + 1 \in Nat \ {0} /\ i + 1 # 1 /\ i + 1 - 1 = i
      OBVIOUS
    <2> QED
      BY <2>1
  <1> HIDE DEF r
  <1>4. \A i \in Nat \ {0} : i = 1 \/ \E j \in Nat \ {0} : i = j + 1
    <2> TAKE i \in Nat \ {0}
    <2> SUFFICES ASSUME i # 1 PROVE \E j \in Nat \ {0} : i = j + 1
      OBVIOUS
    <2>1. i - 1 \in Nat \ {0} /\ i = i - 1 + 1
      OBVIOUS
    <2> QED
      BY <2>1
  <1>5. ASSUME NEW i \in Nat \ {0}
        PROVE  /\ r[i + 1] = IF r[i] = NoEntry THEN NoEntry ELSE r[i].parent
               /\ r[i] # NoEntry =>
                    /\ r[i].n \in Nat \ {0} /\ r[i].n + i <= m + 1 + 1
                    /\ r[i + 1] # NoEntry => r[i + 1].n < r[i].n
    <2>1. CASE i = 1
      <3>1. r[i] = e /\ r[i + 1] = q[1] /\ q[1] = h
        BY <1>1, <1>2, <1>3, <2>1 DEF Chain
      <3>2. h # NoEntry => h.n + 1 <= m + 1 /\ h.n \in Nat
        BY <1>1 DEF Chain
      <3> QED
        BY <2>1, <3>1, <3>2
    <2>2. CASE i # 1
      <3>1. PICK j \in Nat \ {0} : i = j + 1
        BY <1>4, <2>2
      <3>2. r[i] = q[j] /\ r[i + 1] = q[j + 1]
        BY <1>3, <3>1
      <3>3. /\ q[j + 1] = IF q[j] = NoEntry THEN NoEntry ELSE q[j].parent
            /\ q[j] # NoEntry =>
                 /\ q[j].n \in Nat \ {0} /\ q[j].n + j <= m + 1
                 /\ q[j + 1] # NoEntry => q[j + 1].n < q[j].n
        BY <1>1 DEF Chain
      <3> QED
        BY <3>1, <3>2, <3>3
    <2> QED
      BY <2>1, <2>2
  <1>6. Chain(r, e, m + 1)
    BY <1>2, <1>5 DEF Chain
  <1>7. \A x \in E : \E i \in Nat \ {0} : r[i] = x
    <2> TAKE x \in E
    <2>1. PICK i \in Nat \ {0} : q[i] = x
      BY <1>1
    <2>2. i + 1 \in Nat \ {0} /\ r[i + 1] = x
      BY <1>3, <2>1
    <2> QED
      BY <2>2
  <1> QED
    BY <1>6, <1>7 DEF LeadsTo

LEMMA AuditRead ==
  ASSUME AuditAssumption, AuditInv, NEW w \in Writers, AppendRead(w)
  PROVE  AuditInv'
  <1> DEFINE others == {v \in Writers : writer[v].pc # "idle"}
             e == [n |-> made + 1, parent |-> auditHead]
             new == [pc |-> "read", entry |-> e, alone |-> others = {}]
  <1>1. /\ writer[w].pc = "idle" /\ made \in Nat /\ made' = made + 1 /\ made' \in 0 .. MaxEntries
        /\ auditHead' = auditHead /\ alone' = alone
    BY DEF AppendRead, AuditInv, AuditAssumption
  <1>2. e # NoEntry /\ e.parent = auditHead /\ e.n = made + 1
    BY <1>1 DEF NoEntry
  <1>3. new.pc = "read" /\ new.entry = e /\ (new.alone <=> others = {})
        /\ new \in [pc : {"read"}, entry : {e}, alone : BOOLEAN]
    OBVIOUS
  <1>4. writer' = [v \in Writers |-> IF v = w THEN new
                                     ELSE IF v \in others THEN [writer[v] EXCEPT !.alone = FALSE]
                                     ELSE writer[v]]
    BY DEF AppendRead
  <1> HIDE DEF e, new
  <1>5. LeadsTo(e, made', alone')
    BY <1>1, <1>2, ChainExtends DEF AuditInv
  <1>6. LeadsTo(auditHead', made', alone')
    BY <1>1, ChainGrows DEF AuditInv
  <1>7. writer' = [v \in Writers |-> writer'[v]]
    BY <1>4
  <1>8. ASSUME NEW v \in Writers, writer'[v].pc # "idle"
        PROVE  /\ writer'[v] \in [pc : {"read"}, entry : {writer'[v].entry}, alone : BOOLEAN]
               /\ writer'[v].entry # NoEntry
               /\ LeadsTo(writer'[v].entry, made', alone')
               /\ writer'[v].alone => \A u \in Writers \ {v} : writer'[u].pc = "idle"
    <2>1. CASE v = w
      <3>1. writer'[v] = new
        BY <1>4, <2>1
      <3>2. others = {} => \A u \in Writers \ {v} : writer'[u].pc = "idle"
        BY <1>4, <2>1
      <3> QED
        BY <1>2, <1>3, <1>5, <3>1, <3>2
    <2>2. CASE v # w /\ v \in others
      <3>1. /\ writer[v].pc # "idle" /\ writer[v] \in Appending(v) /\ writer[v].entry # NoEntry
            /\ LeadsTo(writer[v].entry, made, alone)
        BY <2>2 DEF AuditInv
      <3>2. writer'[v] = [writer[v] EXCEPT !.alone = FALSE]
        BY <1>4, <2>2
      <3>3. /\ writer'[v] \in [pc : {"read"}, entry : {writer[v].entry}, alone : BOOLEAN]
            /\ writer'[v].entry = writer[v].entry /\ writer'[v].alone = FALSE
        BY <3>1, <3>2 DEF Appending
      <3>4. LeadsTo(writer[v].entry, made', alone')
        BY <1>1, <3>1, ChainGrows
      <3> QED
        BY <3>1, <3>3, <3>4
    <2>3. CASE v # w /\ v \notin others
      BY <1>4, <1>8, <2>3
    <2> QED
      BY <2>1, <2>2, <2>3
  <1> QED
    BY <1>1, <1>6, <1>7, <1>8 DEF AuditInv, Appending

(* An append that ends, with the head moved to its entry or not            *)
LEMMA AuditEnds ==
  ASSUME AuditInv, NEW w \in Writers, AppendWrite(w) \/ AppendCrash(w)
  PROVE  AuditInv'
  <1> DEFINE e == writer[w].entry
  <1>1. /\ writer[w].pc # "idle" /\ writer' = [writer EXCEPT ![w] = Resting] /\ made' = made
        /\ \/ auditHead' = e /\ alone' = IF writer[w].alone THEN alone \cup {e} ELSE alone
           \/ auditHead' = auditHead /\ alone' = alone
    BY DEF AppendWrite, AppendCrash
  <1>2. /\ e # NoEntry /\ LeadsTo(e, made, alone)
        /\ writer[w].alone => \A v \in Writers \ {w} : writer[v].pc = "idle"
    BY <1>1 DEF AuditInv
  <1>3. writer' = [v \in Writers |-> IF v = w THEN Resting ELSE writer[v]] /\ Resting.pc = "idle"
    BY <1>1 DEF AuditInv, Resting
  <1>4. \A v \in Writers : writer'[v].pc # "idle" => v # w /\ writer'[v] = writer[v]
    BY <1>3
  <1>5. LeadsTo(e, made, alone \cup {e})
    <2>1. PICK q : Chain(q, e, made) /\ \A x \in alone : \E i \in Nat \ {0} : q[i] = x
      BY <1>2 DEF LeadsTo
    <2>2. 1 \in Nat \ {0} /\ q[1] = e
      BY <2>1 DEF Chain
    <2>3. \A x \in alone \cup {e} : \E i \in Nat \ {0} : q[i] = x
      BY <2>1, <2>2
    <2> QED
      BY <2>1, <2>3 DEF LeadsTo
  <1> HIDE DEF e
  <1>6. LeadsTo(auditHead', made', alone') /\ NoEntry \notin alone'
    BY <1>1, <1>2, <1>5 DEF AuditInv
  <1>7. writer' = [v \in Writers |-> writer'[v]]
    BY <1>3
  <1>8. ASSUME NEW v \in Writers, writer'[v].pc # "idle"
        PROVE  /\ writer'[v] \in [pc : {"read"}, entry : {writer'[v].entry}, alone : BOOLEAN]
               /\ writer'[v].entry # NoEntry
               /\ LeadsTo(writer'[v].entry, made', alone')
               /\ writer'[v].alone => \A u \in Writers \ {v} : writer'[u].pc = "idle"
    <2>1. v # w /\ writer'[v] = writer[v] /\ writer[v].pc # "idle"
      BY <1>4, <1>8
    <2>2. ~writer[w].alone /\ alone' = alone
      BY <1>1, <1>2, <2>1
    <2>3. \A u \in Writers : writer[u].pc = "idle" => writer'[u].pc = "idle"
      BY <1>3
    <2> QED
      BY <1>1, <2>1, <2>2, <2>3 DEF AuditInv, Appending
  <1> QED
    BY <1>1, <1>6, <1>7, <1>8 DEF AuditInv, Appending

LEMMA AuditInvariant == AuditSpec => []AuditInv
  <1> USE AuditAssumption
  <1>1. AuditInit => AuditInv
    <2> SUFFICES ASSUME AuditInit PROVE AuditInv
      OBVIOUS
    <2> DEFINE q == [i \in Nat \ {0} |-> NoEntry]
    <2>1. Chain(q, NoEntry, 0)
      BY DEF Chain
    <2>2. LeadsTo(auditHead, made, alone)
      BY <2>1 DEF AuditInit, LeadsTo
    <2>3. \A w \in Writers : writer[w].pc = "idle"
      BY DEF AuditInit, Resting
    <2> QED
      BY <2>2, <2>3 DEF AuditInit, AuditInv, AuditAssumption
  <1>2. AuditInv /\ [AuditNext]_auditVars => AuditInv'
    <2> SUFFICES ASSUME AuditInv, [AuditNext]_auditVars PROVE AuditInv'
      OBVIOUS
    <2>1. CASE \E w \in Writers : AppendRead(w)
      BY <2>1, AuditRead
    <2>2. CASE \E w \in Writers : AppendWrite(w) \/ AppendCrash(w)
      BY <2>2, AuditEnds
    <2>3. CASE UNCHANGED auditVars
      BY <2>3 DEF auditVars, AuditInv, Appending
    <2> QED
      BY <2>1, <2>2, <2>3 DEF AuditNext
  <1> QED
    BY <1>1, <1>2, PTL DEF AuditSpec

(* What Link computes are the links.                                       *)
LEMMA LinksFound ==
  ASSUME NEW q, NEW h, NEW m, AuditAssumption, Chain(q, h, m)
  PROVE  \A i \in 1 .. MaxEntries + 1 : Link(h)[i] = q[i]
  <1> DEFINE n == MaxEntries + 1
             f == CHOOSE f : f = [i \in 1 .. n |-> IF i = 1 THEN h
                                                   ELSE IF f[i - 1] = NoEntry THEN NoEntry
                                                   ELSE f[i - 1].parent]
             g == [i \in 1 .. n |-> q[i]]
  <1>1. Link(h) = f
    BY DEF Link
  <1>2. n \in Nat \ {0} /\ q[1] = h
        /\ \A i \in 1 .. n : i # 1 =>
             i - 1 \in 1 .. n /\ q[i] = IF q[i - 1] = NoEntry THEN NoEntry ELSE q[i - 1].parent
    <2>1. n \in Nat \ {0} /\ \A i \in 1 .. n : i # 1 => i - 1 \in Nat \ {0} /\ i - 1 + 1 = i
      BY DEF AuditAssumption
    <2> HIDE DEF n
    <2>2. \A i \in 1 .. n : i # 1 => i - 1 \in 1 .. n
      BY <2>1
    <2>3. \A i \in Nat \ {0} : q[i + 1] = IF q[i] = NoEntry THEN NoEntry ELSE q[i].parent
      BY DEF Chain
    <2>4. ASSUME NEW i \in 1 .. n, i # 1
          PROVE  q[i] = IF q[i - 1] = NoEntry THEN NoEntry ELSE q[i - 1].parent
      <3>1. PICK j \in Nat \ {0} : j = i - 1 /\ j + 1 = i
        BY <2>1, <2>4
      <3> QED
        BY <2>3, <3>1
    <2> QED
      BY <2>1, <2>2, <2>4 DEF Chain
  <1> HIDE DEF n
  <1>3. g = [i \in 1 .. n |-> IF i = 1 THEN h
                              ELSE IF g[i - 1] = NoEntry THEN NoEntry
                              ELSE g[i - 1].parent]
    <2>1. \A i \in 1 .. n : g[i] = q[i]
      OBVIOUS
    <2>2. g = [i \in 1 .. n |-> q[i]]
      OBVIOUS
    <2> HIDE DEF g
    <2>3. ASSUME NEW i \in 1 .. n
          PROVE  q[i] = IF i = 1 THEN h ELSE IF g[i - 1] = NoEntry THEN NoEntry ELSE g[i - 1].parent
      BY <1>2, <2>1
    <2> QED
      BY <2>2, <2>3
  <1>4. f = [i \in 1 .. n |-> IF i = 1 THEN h
                              ELSE IF f[i - 1] = NoEntry THEN NoEntry
                              ELSE f[i - 1].parent]
    <2> HIDE DEF g
    <2> QED
      BY <1>3
  <1> HIDE DEF f, g
  <1>5. ASSUME NEW i \in 1 .. n
        PROVE  f[i] = IF i = 1 THEN h ELSE IF f[i - 1] = NoEntry THEN NoEntry ELSE f[i - 1].parent
    BY <1>4, Zenon
  <1> DEFINE S == {i \in Nat : i + 1 \in 1 .. n => f[i + 1] = q[i + 1]}
  <1>6. 0 \in S
    <2>1. 1 \in 1 .. n
      BY <1>2
    <2> QED
      BY <1>2, <1>5, <2>1
  <1>7. ASSUME NEW i \in Nat, i \in S
        PROVE  i + 1 \in S
    <2> SUFFICES ASSUME i + 1 + 1 \in 1 .. n PROVE f[i + 1 + 1] = q[i + 1 + 1]
      OBVIOUS
    <2>1. PICK j : j = i + 1 + 1
      OBVIOUS
    <2>2. j \in 1 .. n /\ j # 1 /\ j - 1 = i + 1 /\ i + 1 \in 1 .. n
      BY <1>2, <2>1
    <2>3. f[j - 1] = q[j - 1]
      BY <1>7, <2>2
    <2>4. f[j] = q[j]
      BY <1>2, <1>5, <2>2, <2>3
    <2> QED
      BY <2>1, <2>4
  <1> HIDE DEF S
  <1>8. Nat \subseteq S
    BY <1>6, <1>7, Induction
  <1>9. ASSUME NEW i \in 1 .. n
        PROVE  f[i] = q[i]
    <2>1. PICK j \in Nat : i = j + 1
      <3>1. i - 1 \in Nat /\ i = i - 1 + 1
        BY <1>2
      <3> QED
        BY <3>1
    <2>2. j \in S
      BY <1>8
    <2> QED
      BY <2>1, <2>2 DEF S
  <1> QED
    BY <1>1, <1>9 DEF n

(* A chain ends within the entries there are.                              *)
LEMMA ChainEnds ==
  ASSUME NEW q, NEW h, NEW m \in 0 .. MaxEntries, AuditAssumption, Chain(q, h, m)
  PROVE  \E k \in 0 .. MaxEntries : \A i \in Nat \ {0} : q[i] # NoEntry <=> i <= k
  <1> DEFINE T == {i \in Nat : i + 1 \in Nat \ {0} /\ q[i + 1] = NoEntry}
  <1>0. MaxEntries \in Nat
    BY DEF AuditAssumption
  <1>1. MaxEntries \in T
    <2>1. MaxEntries + 1 \in Nat \ {0}
      BY <1>0
    <2>2. ASSUME q[MaxEntries + 1] # NoEntry PROVE FALSE
      <3>1. PICK j \in Nat \ {0} : j = MaxEntries + 1
        BY <2>1
      <3>2. q[j].n \in Nat \ {0} /\ q[j].n + j <= m + 1
        BY <2>2, <3>1 DEF Chain
      <3> QED
        BY <1>0, <3>1, <3>2
    <2> QED
      BY <1>0, <2>1, <2>2
  <1>2. PICK k \in T : \A i \in T : k <= i
    <2> HIDE DEF T
    <2>1. T \subseteq Nat
      BY DEF T
    <2> QED
      BY <1>1, <2>1, Least
  <1>3. k \in 0 .. MaxEntries
    BY <1>0, <1>1, <1>2
  <1> DEFINE S == {d \in Nat : q[k + 1 + d] = NoEntry}
  <1>4. 0 \in S
    BY <1>2
  <1>5. ASSUME NEW d \in Nat, d \in S
        PROVE  d + 1 \in S
    <2>1. PICK j \in Nat \ {0} : j = k + 1 + d
      BY <1>2
    <2>2. q[j] = NoEntry
      BY <1>5, <2>1
    <2>3. q[j + 1] = NoEntry
      BY <2>2 DEF Chain
    <2>4. j + 1 = k + 1 + (d + 1)
      BY <1>2, <2>1
    <2> QED
      BY <2>3, <2>4
  <1> HIDE DEF S
  <1>6. Nat \subseteq S
    BY <1>4, <1>5, Induction
  <1>7. ASSUME NEW i \in Nat \ {0}
        PROVE  q[i] # NoEntry <=> i <= k
    <2>1. CASE i <= k
      <3>1. PICK j \in Nat : i = j + 1
        <4>1. i - 1 \in Nat /\ i = i - 1 + 1
          OBVIOUS
        <4> QED
          BY <4>1
      <3>2. j \notin T
        BY <1>2, <2>1, <3>1
      <3> QED
        BY <2>1, <3>1, <3>2
    <2>2. CASE ~(i <= k)
      <3>1. PICK d \in Nat : i = k + 1 + d
        <4>1. i - (k + 1) \in Nat /\ i = k + 1 + (i - (k + 1))
          BY <1>2, <2>2
        <4> QED
          BY <4>1
      <3>2. d \in S
        BY <1>6
      <3> QED
        BY <2>2, <3>1, <3>2 DEF S
    <2> QED
      BY <2>1, <2>2
  <1> QED
    BY <1>3, <1>7

(* An append that no other overlaps is in the chain for good, whatever     *)
(* appends race or crash afterwards: an append that reads the head without *)
(* a lock can drop only entries of appends it overlaps.  A listing with a  *)
(* limit is the newest part of the chain, and entries are listed in the    *)
(* order they were begun in.                                               *)
THEOREM AuditIsKept == AuditSpec => []AuditKept
  <1>1. AuditInv => AuditKept
    <2> SUFFICES ASSUME AuditInv PROVE AuditKept
      OBVIOUS
    <2> USE AuditAssumption
    <2>0. MaxEntries \in Nat /\ made \in 0 .. MaxEntries
      BY DEF AuditAssumption, AuditInv
    <2>1. PICK q : Chain(q, auditHead, made) /\ \A e \in alone : \E i \in Nat \ {0} : q[i] = e
      BY DEF AuditInv, LeadsTo
    <2>2. PICK k \in 0 .. MaxEntries : \A i \in Nat \ {0} : q[i] # NoEntry <=> i <= k
      BY <2>0, <2>1, ChainEnds
    <2> DEFINE link == Link(auditHead)
    <2>3. \A i \in 1 .. MaxEntries + 1 : link[i] = q[i]
      BY <2>1, LinksFound
    <2> HIDE DEF link
    <2>4. Cardinality({i \in 1 .. MaxEntries : link[i] # NoEntry}) = k
      <3> DEFINE found == {i \in 1 .. MaxEntries : link[i] # NoEntry}
      <3>1. found = 1 .. k
        BY <2>0, <2>2, <2>3
      <3> HIDE DEF found
      <3>2. Cardinality(found) = k
        <4>1. k \in Nat /\ k \in Int /\ 1 \in Int
          BY <2>0
        <4>2. Cardinality(1 .. k) = IF 1 > k THEN 0 ELSE k - 1 + 1
          BY <4>1, FS_Interval, Zenon
        <4> QED
          BY <3>1, <4>1, <4>2
      <3> QED
        BY <3>2 DEF found
    <2>5. ASSUME NEW l \in 1 .. MaxEntries
          PROVE  ReadChain(l) = [i \in 1 .. IF k < l THEN k ELSE l |-> q[i]]
      <3>1. ReadChain(l) = [i \in 1 .. IF k < l THEN k ELSE l |-> link[i]]
        BY <2>4 DEF ReadChain, link
      <3>2. \A i \in 1 .. IF k < l THEN k ELSE l : link[i] = q[i]
        BY <2>0, <2>3, <2>5
      <3> QED
        BY <3>1, <3>2
    <2> DEFINE chain == ReadChain(MaxEntries)
    <2>6. chain = [i \in 1 .. k |-> q[i]]
      <3>1. ReadChain(MaxEntries) = [i \in 1 .. IF k < MaxEntries THEN k ELSE MaxEntries |-> link[i]]
        BY <2>4 DEF ReadChain, link
      <3>2. (IF k < MaxEntries THEN k ELSE MaxEntries) = k
        BY <2>0
      <3>3. \A i \in 1 .. k : link[i] = q[i]
        BY <2>0, <2>3
      <3> QED
        BY <3>1, <3>2, <3>3
    <2> HIDE DEF chain
    <2>7. Len(chain) = k /\ DOMAIN chain = 1 .. k
      BY <2>6
    <2>8. ASSUME NEW e \in alone
          PROVE  \E i \in DOMAIN chain : chain[i] = e
      <3>1. PICK i \in Nat \ {0} : q[i] = e
        BY <2>1
      <3>2. i \in 1 .. k
        BY <2>2, <3>1 DEF AuditInv
      <3> QED
        BY <2>6, <2>7, <3>1, <3>2
    <2>9. ASSUME NEW l \in 1 .. MaxEntries
          PROVE  ReadChain(l) = SubSeq(chain, 1, Len(ReadChain(l)))
      <3> DEFINE n == IF k < l THEN k ELSE l
      <3>1. n \in 0 .. k
        BY <2>0
      <3>2. ReadChain(l) = [i \in 1 .. n |-> q[i]]
        BY <2>5
      <3> HIDE DEF n
      <3>3. Len(ReadChain(l)) = n
        BY <3>1, <3>2
      <3>4. SubSeq(chain, 1, n) = [i \in 1 .. n |-> chain[i]]
        BY <3>1
      <3>5. \A i \in 1 .. n : chain[i] = q[i]
        BY <2>6, <3>1
      <3> QED
        BY <3>2, <3>3, <3>4, <3>5
    <2>10. ASSUME NEW i \in 1 .. Len(chain) - 1
           PROVE  chain[i].n > chain[i + 1].n
      <3>1. i \in Nat \ {0} /\ i + 1 \in Nat \ {0} /\ i \in 1 .. k /\ i + 1 \in 1 .. k
        BY <2>7
      <3>2. q[i] # NoEntry /\ q[i + 1] # NoEntry
        BY <2>2, <3>1
      <3>3. q[i].n \in Nat /\ q[i + 1].n \in Nat /\ q[i + 1].n < q[i].n
        BY <2>1, <3>1, <3>2 DEF Chain
      <3> QED
        BY <2>6, <3>1, <3>3
    <2> QED
      BY <2>8, <2>9, <2>10 DEF AuditKept, chain
  <1> QED
    BY <1>1, AuditInvariant, PTL

-----------------------------------------------------------------------------
(* Upload sessions.                                                         *)

Byte == Nat \X {p.ver : p \in Patches}

Pcs == {"idle", "create toml", "write toml", "truncate", "write", "assemble", "list chunks",
        "open chunk", "read chunk", "add_chunked", "relock", "add", "remove", "unlink"}

RequestType ==
    [pc : Pcs,
     op : {"none", "open", "patch", "commit", "abort", "reap"},
     off : Int, data : Seq(Byte), fd : BOOLEAN, want : Nat, list : SUBSET Int, buf : Seq(Byte)]

(* The bytes of s are those that belong at offset o and after it.           *)
Placed(o, s) == \A i \in 1 .. Len(s) : s[i][1] = o + i - 1

(* Where a request may be, by its operation.                                *)
Control(q) ==
    /\ q.pc = "idle" <=> q.op = "none"
    /\ q.pc \in {"create toml", "write toml"} <=> q.op = "open"
    /\ q.pc \in {"truncate", "write"} <=> q.op = "patch"
    /\ q.pc \in {"assemble", "list chunks", "open chunk", "read chunk", "add_chunked",
                 "relock", "add"} => q.op = "commit"

(* What a request holds: a PATCH one of the chunks clients send, a commit   *)
(* the bytes from 0 on, and, while it reads a chunk, one that starts where  *)
(* these end.                                                               *)
Holding(q) ==
    /\ q.pc \in {"truncate", "write"} => \E p \in Patches : p.off = q.off /\ q.data = Content(p)
    /\ q.fd => q.pc \in {"write toml", "write", "read chunk"}
    /\ q.pc = "write toml" => q.off = StateToml
    /\ Placed(0, q.buf)
    /\ q.pc = "read chunk" => q.off = Len(q.buf) /\ (~q.fd => Placed(q.off, q.data))
    /\ q.pc \in {"add_chunked", "relock", "add"} => Len(q.buf) = Size

RequestOK(q) == q \in RequestType /\ Control(q) /\ Holding(q)

FilesOK ==
    /\ DOMAIN files \subseteq Nat
    /\ \A o \in DOMAIN files : files[o] \in Seq(Byte) /\ Placed(o, files[o])

(* An open descriptor whose file still has its name.                        *)
NameOK(q, fs) == q.fd /\ q.pc \in {"write", "read chunk"} => q.off \in DOMAIN fs

(* A commit removes the session only after it has staged the file.          *)
RemovalOK(q, cs) == q.op = "commit" /\ q.pc \in {"remove", "unlink"} => cs # {}

DataInv ==
    /\ req \in [Reqs -> RequestType]
    /\ \A r \in Reqs : RequestOK(req[r]) /\ NameOK(req[r], files) /\ RemovalOK(req[r], staged)
    /\ FilesOK
    /\ StagedWhole

-----------------------------------------------------------------------------
LEMMA IdleOK == RequestOK(Idle) /\ ~Idle.fd /\ Idle.op = "none" /\ Idle.pc = "idle"
  <1>1. <<>> \in Seq(Byte) /\ Len(<<>>) = 0
    OBVIOUS
  <1>2. Idle \in RequestType
    BY <1>1 DEF Idle, RequestType, Pcs
  <1> QED
    BY <1>1, <1>2 DEF Idle, RequestOK, Control, Holding, Placed

LEMMA ContentOK ==
  ASSUME NEW p \in Patches
  PROVE  Content(p) \in Seq(Byte) /\ Len(Content(p)) = p.len /\ Placed(p.off, Content(p))
  <1>1. p.off \in Nat /\ p.len \in Nat
    BY UploadAssumption
  <1>2. \A i \in 1 .. p.len : <<p.off + i - 1, p.ver>> \in Byte
    BY <1>1 DEF Byte
  <1>3. Content(p) \in Seq(Byte) /\ Len(Content(p)) = p.len
    BY <1>1, <1>2 DEF Content
  <1> QED
    BY <1>1, <1>3 DEF Content, Placed

(* A step that only moves one request on.                                   *)
LEMMA Moves ==
  ASSUME DataInv, NEW r \in Reqs, NEW v, RequestOK(v), NameOK(v, files), RemovalOK(v, staged),
         req' = [req EXCEPT ![r] = v], UNCHANGED <<files, staged>>
  PROVE  DataInv'
  <1>1. /\ req' \in [Reqs -> RequestType]
        /\ \A g \in Reqs : req'[g] = IF g = r THEN v ELSE req[g]
    BY DEF DataInv, RequestOK
  <1>2. \A g \in Reqs : RequestOK(req'[g]) /\ NameOK(req'[g], files) /\ RemovalOK(req'[g], staged)
    BY <1>1 DEF DataInv
  <1> QED
    BY <1>1, <1>2 DEF DataInv, FilesOK, StagedWhole, NameOK, RemovalOK

LEMMA Answers ==
  ASSUME DataInv, NEW r \in Reqs, Answer(r), UNCHANGED <<files, staged>>
  PROVE  DataInv'
  BY IdleOK, Moves DEF Answer, NameOK, RemovalOK

(* Sequences of bytes in their place, joined or cut.                        *)
LEMMA PlacedJoin ==
  ASSUME NEW s \in Seq(Byte), NEW t \in Seq(Byte), Placed(0, s), Placed(Len(s), t),
         NEW n \in Nat, n <= Len(t)
  PROVE  /\ s \o SubSeq(t, 1, n) \in Seq(Byte)
         /\ Placed(0, s \o SubSeq(t, 1, n))
  <1> DEFINE u == SubSeq(t, 1, n)
  <1>1. u \in Seq(Byte) /\ Len(u) = n /\ \A i \in 1 .. n : u[i] = t[i]
    OBVIOUS
  <1> HIDE DEF u
  <1>2. s \o u \in Seq(Byte) /\ Len(s \o u) = Len(s) + n
    BY <1>1
  <1>3. ASSUME NEW i \in 1 .. Len(s \o u)
        PROVE  (s \o u)[i][1] = 0 + i - 1
    <2>1. CASE i <= Len(s)
      <3>1. i \in 1 .. Len(s) /\ (s \o u)[i] = s[i]
        BY <1>1, <1>2, <2>1
      <3> QED
        BY <3>1 DEF Placed
    <2>2. CASE i > Len(s)
      <3>1. i - Len(s) \in 1 .. n /\ (s \o u)[i] = u[i - Len(s)]
        BY <1>1, <1>2, <2>2
      <3>2. i - Len(s) \in 1 .. Len(t) /\ (s \o u)[i] = t[i - Len(s)]
        BY <1>1, <3>1
      <3>3. t[i - Len(s)][1] = Len(s) + (i - Len(s)) - 1
        BY <3>2 DEF Placed
      <3> QED
        BY <3>2, <3>3
    <2> QED
      BY <2>1, <2>2
  <1> QED
    BY <1>2, <1>3 DEF Placed, u

LEMMA MaxOfTwo ==
  ASSUME NEW a \in Nat, NEW b \in Nat
  PROVE  Max({a, b}) = IF a <= b THEN b ELSE a
  BY DEF Max

(* What write_all leaves of two contents for one offset is in its place.    *)
LEMMA OverOK ==
  ASSUME NEW f \in Seq(Byte), NEW d \in Seq(Byte)
  PROVE  /\ Over(f, d) \in Seq(Byte)
         /\ Len(Over(f, d)) = IF Len(f) <= Len(d) THEN Len(d) ELSE Len(f)
         /\ Len(f) <= Len(d) => Over(f, d) = d
         /\ \A o : Placed(o, f) /\ Placed(o, d) => Placed(o, Over(f, d))
  <1> DEFINE n == IF Len(f) <= Len(d) THEN Len(d) ELSE Len(f)
             g == [i \in 1 .. n |-> IF i <= Len(d) THEN d[i] ELSE f[i]]
  <1>1. n \in Nat /\ Over(f, d) = g
    BY MaxOfTwo DEF Over
  <1>2. \A i \in 1 .. n : g[i] \in Byte
    OBVIOUS
  <1>3. g \in Seq(Byte) /\ Len(g) = n
    BY <1>1, <1>2
  <1>4. Len(f) <= Len(d) => g = d
    <2> SUFFICES ASSUME Len(f) <= Len(d)
                 PROVE  g = d
      OBVIOUS
    <2>1. Len(g) = Len(d) /\ \A i \in 1 .. Len(d) : g[i] = d[i]
      BY <1>3
    <2> QED
      BY <1>3, <2>1, SeqEqual
  <1>5. \A o : Placed(o, f) /\ Placed(o, d) => Placed(o, g)
    BY <1>1, <1>3 DEF Placed
  <1> QED
    BY <1>1, <1>3, <1>4, <1>5

LEMMA CutOK ==
  ASSUME NEW d \in Seq(Byte), NEW n \in Nat, n < Len(d), NEW o, Placed(o, d)
  PROVE  SubSeq(d, 1, n) \in Seq(Byte) /\ Len(SubSeq(d, 1, n)) = n /\ Placed(o, SubSeq(d, 1, n))
  <1> DEFINE u == SubSeq(d, 1, n)
  <1>1. u \in Seq(Byte) /\ Len(u) = n /\ \A i \in 1 .. n : u[i] = d[i]
    OBVIOUS
  <1> HIDE DEF u
  <1>2. Placed(o, u)
    BY <1>1 DEF Placed
  <1> QED
    BY <1>1, <1>2 DEF u

-----------------------------------------------------------------------------
(* One step per action; a step that answers is covered by Answers.          *)
LEMMA OpenStep ==
  ASSUME DataInv, NEW r \in Reqs, OpenDir(r) \/ OpenCreate(r) \/ OpenWrite(r)
  PROVE  DataInv'
  <1>1. CASE OpenDir(r)
    <2> DEFINE v == [Idle EXCEPT !.op = "open", !.pc = "create toml"]
    <2>1. /\ v \in RequestType /\ v.op = "open" /\ v.pc = "create toml" /\ ~v.fd /\ v.buf = <<>>
      BY IdleOK DEF RequestOK, RequestType, Pcs, Idle
    <2>2. RequestOK(v) /\ NameOK(v, files) /\ RemovalOK(v, staged)
      BY <2>1 DEF RequestOK, Control, Holding, NameOK, RemovalOK, Placed
    <2> QED
      BY <1>1, <2>2, Moves DEF OpenDir, Begin
  <1>2. CASE OpenCreate(r)
    <2> DEFINE v == [req[r] EXCEPT !.pc = "write toml", !.off = StateToml, !.fd = TRUE]
    <2>0. RequestOK(req[r]) /\ req[r].op = "open"
      BY <1>2 DEF DataInv, RequestOK, Control, OpenCreate, At
    <2>a. StateToml \in Int
      BY DEF StateToml
    <2>1. /\ v \in RequestType /\ v.op = "open" /\ v.pc = "write toml" /\ v.off = StateToml
          /\ v.buf = req[r].buf
      BY <2>0, <2>a DEF RequestOK, RequestType, Pcs
    <2>2. RequestOK(v) /\ NameOK(v, files) /\ RemovalOK(v, staged)
      BY <2>0, <2>1 DEF RequestOK, Control, Holding, NameOK, RemovalOK, Placed
    <2>3. CASE dir = "there"
      <3>1. req' = [req EXCEPT ![r] = v]
        BY <1>2, <2>3 DEF OpenCreate
      <3> QED
        BY <1>2, <2>2, <3>1, Moves DEF OpenCreate
    <2> QED
      BY <1>2, <2>3, Answers DEF OpenCreate
  <1>3. CASE OpenWrite(r)
    BY <1>3, Answers DEF OpenWrite
  <1> QED
    BY <1>1, <1>2, <1>3

LEMMA PcMoves ==
  ASSUME NEW q \in RequestType, NEW x \in Pcs
  PROVE  LET v == [q EXCEPT !.pc = x]
         IN  /\ v \in RequestType /\ v.pc = x /\ v.op = q.op /\ v.off = q.off
             /\ v.data = q.data /\ v.fd = q.fd /\ v.buf = q.buf
  BY DEF RequestType

LEMMA Beginnings ==
  ASSUME DataInv, NEW r \in Reqs, Commit(r) \/ AbortSession(r) \/ Reap(r)
  PROVE  DataInv'
  <1> DEFINE v(o, s) == [Idle EXCEPT !.op = o, !.pc = s]
  <1>1. PICK o \in {"commit", "abort", "reap"} :
          req' = [req EXCEPT ![r] = v(o, IF o = "commit" THEN "assemble" ELSE "remove")]
    BY DEF Commit, AbortSession, Reap, Begin
  <1>2. UNCHANGED <<files, staged>>
    BY DEF Commit, AbortSession, Reap, session
  <1> DEFINE w == v(o, IF o = "commit" THEN "assemble" ELSE "remove")
  <1>3. /\ w \in RequestType /\ w.op = o /\ ~w.fd /\ w.buf = <<>>
        /\ w.pc = IF o = "commit" THEN "assemble" ELSE "remove"
    BY IdleOK DEF RequestOK, RequestType, Pcs, Idle
  <1>4. RequestOK(w) /\ NameOK(w, files) /\ RemovalOK(w, staged)
    BY <1>3 DEF RequestOK, Control, Holding, NameOK, RemovalOK, Placed
  <1> QED
    BY <1>1, <1>2, <1>4, Moves

LEMMA PatchStart ==
  ASSUME DataInv, NEW r \in Reqs, NEW p \in Patches, Patch(r, p)
  PROVE  DataInv'
  <1> DEFINE v == [Idle EXCEPT !.op = "patch", !.pc = "truncate", !.off = p.off,
                               !.data = Content(p)]
  <1>0. p.off \in Int /\ Content(p) \in Seq(Byte)
    BY UploadAssumption, ContentOK
  <1>1. /\ v \in RequestType /\ v.op = "patch" /\ v.pc = "truncate" /\ v.off = p.off
        /\ v.data = Content(p) /\ ~v.fd /\ v.buf = <<>>
    BY <1>0, IdleOK DEF RequestOK, RequestType, Pcs, Idle
  <1>2. RequestOK(v) /\ NameOK(v, files) /\ RemovalOK(v, staged)
    BY <1>1 DEF RequestOK, Control, Holding, NameOK, RemovalOK, Placed
  <1> QED
    BY <1>2, Moves DEF Patch, session

(* A PATCH in flight holds bytes of one chunk, in their place.              *)
LEMMA PatchData ==
  ASSUME DataInv, NEW r \in Reqs, At(r, "truncate") \/ At(r, "write")
  PROVE  /\ req[r].op = "patch" /\ req[r].off \in Nat /\ req[r].data \in Seq(Byte)
         /\ Placed(req[r].off, req[r].data)
         /\ \E p \in Patches : p.off = req[r].off /\ req[r].data = Content(p)
  <1>1. RequestOK(req[r])
    BY DEF DataInv
  <1>2. PICK p \in Patches : p.off = req[r].off /\ req[r].data = Content(p)
    BY <1>1 DEF RequestOK, Holding, At
  <1> QED
    BY <1>1, <1>2, ContentOK, UploadAssumption DEF RequestOK, Control, At

LEMMA TruncateStep ==
  ASSUME DataInv, NEW r \in Reqs, PatchTruncate(r)
  PROVE  DataInv'
  <1>1. CASE dir # "there"
    BY <1>1, Answers DEF PatchTruncate
  <1>2. CASE dir = "there"
    <2> DEFINE v == [req[r] EXCEPT !.pc = "write", !.fd = TRUE]
               o == req[r].off
    <2>0. /\ o \in Nat /\ RequestOK(req[r]) /\ req[r].op = "patch"
          /\ \E p \in Patches : p.off = o /\ req[r].data = Content(p)
      BY PatchData DEF PatchTruncate, DataInv
    <2>1. /\ v \in RequestType /\ v.op = "patch" /\ v.pc = "write" /\ v.off = o /\ v.fd
          /\ v.data = req[r].data /\ v.buf = req[r].buf
      BY <2>0 DEF RequestOK, RequestType, Pcs
    <2>2. RequestOK(v) /\ RemovalOK(v, staged)
      BY <2>0, <2>1 DEF RequestOK, Control, Holding, RemovalOK
    <2>3. /\ req' = [req EXCEPT ![r] = v] /\ UNCHANGED staged
          /\ files' = [x \in DOMAIN files \cup {o} |-> IF x = o THEN <<>> ELSE files[x]]
      BY <1>2 DEF PatchTruncate
    <2> HIDE DEF v
    <2>4. req' \in [Reqs -> RequestType] /\ \A g \in Reqs : req'[g] = IF g = r THEN v ELSE req[g]
      BY <2>1, <2>3 DEF DataInv
    <2>5. /\ DOMAIN files' = DOMAIN files \cup {o} /\ files'[o] = <<>>
          /\ \A x \in DOMAIN files \ {o} : files'[x] = files[x]
      BY <2>3
    <2>6. FilesOK'
      <3>1. <<>> \in Seq(Byte) /\ Placed(o, <<>>)
        BY DEF Placed
      <3> QED
        BY <2>0, <2>5, <3>1 DEF FilesOK, DataInv
    <2>7. \A g \in Reqs : RequestOK(req'[g]) /\ NameOK(req'[g], files') /\ RemovalOK(req'[g], staged')
      BY <2>1, <2>2, <2>3, <2>4, <2>5 DEF DataInv, NameOK, RemovalOK
    <2> QED
      BY <2>3, <2>4, <2>6, <2>7 DEF DataInv, StagedWhole
  <1> QED
    BY <1>1, <1>2

(* write_all, of the whole chunk or of a part of it, at the named file.     *)
LEMMA WriteStep ==
  ASSUME DataInv, NEW r \in Reqs, At(r, "write"), NEW d \in Seq(Byte), Placed(req[r].off, d),
         Written(r, d), Answer(r), UNCHANGED staged
  PROVE  DataInv'
  <1> DEFINE o == req[r].off
  <1>1. CASE ~req[r].fd
    BY <1>1, Answers DEF Written
  <1>2. CASE req[r].fd
    <2>1. o \in DOMAIN files
      BY <1>2 DEF DataInv, NameOK, At
    <2>2. files[o] \in Seq(Byte) /\ Placed(o, files[o])
      BY <2>1 DEF DataInv, FilesOK
    <2>3. files' = [files EXCEPT ![o] = Over(@, d)]
      BY <1>2 DEF Written
    <2>4. Over(files[o], d) \in Seq(Byte) /\ Placed(o, Over(files[o], d))
      BY <2>2, OverOK
    <2>5. DOMAIN files' = DOMAIN files /\ files'[o] = Over(files[o], d)
      BY <2>1, <2>3
    <2>6. \A x \in DOMAIN files \ {o} : files'[x] = files[x]
      BY <2>3
    <2>7. FilesOK'
      BY <2>4, <2>5, <2>6 DEF FilesOK, DataInv
    <2>8. /\ req' \in [Reqs -> RequestType]
          /\ \A g \in Reqs : req'[g] = IF g = r THEN Idle ELSE req[g]
      BY IdleOK DEF Answer, DataInv, RequestOK
    <2>9. \A g \in Reqs : /\ RequestOK(req'[g])
                          /\ NameOK(req'[g], files') /\ RemovalOK(req'[g], staged')
      BY <2>5, <2>8, IdleOK DEF DataInv, NameOK, RemovalOK
    <2> QED
      BY <2>7, <2>8, <2>9 DEF DataInv, StagedWhole
  <1> QED
    BY <1>1, <1>2

LEMMA PatchEnds ==
  ASSUME DataInv, NEW r \in Reqs, PatchWrite(r) \/ \E n \in 0 .. Size : PatchFails(r, n)
  PROVE  DataInv'
  <1>1. CASE PatchWrite(r)
    BY <1>1, PatchData, WriteStep DEF PatchWrite
  <1>2. ASSUME NEW n \in 0 .. Size, PatchFails(r, n)
        PROVE  DataInv'
    <2>1. n \in Nat /\ At(r, "write") /\ n < Len(req[r].data)
      BY <1>2, UploadAssumption DEF PatchFails
    <2>2. SubSeq(req[r].data, 1, n) \in Seq(Byte) /\ Placed(req[r].off, SubSeq(req[r].data, 1, n))
      BY <2>1, PatchData, CutOK
    <2> QED
      BY <1>2, <2>1, <2>2, WriteStep DEF PatchFails
  <1> QED
    BY <1>1, <1>2

(* A commit before it has read a chunk.                                     *)
LEMMA CommitStarts ==
  ASSUME DataInv, NEW r \in Reqs, Assemble(r) \/ ListChunks(r)
  PROVE  DataInv'
  <1>0. RequestOK(req[r]) /\ UNCHANGED <<files, staged>> /\ req[r].op = "commit"
    BY DEF DataInv, Assemble, ListChunks, session, RequestOK, Control, At
  <1>1. CASE Answer(r)
    BY <1>0, <1>1, Answers
  <1>2. CASE Assemble(r) /\ Go(r, "list chunks")
    <2> DEFINE v == [req[r] EXCEPT !.pc = "list chunks"]
    <2>1. req[r] \in RequestType /\ "list chunks" \in Pcs
      BY <1>0 DEF RequestOK, Pcs
    <2>2. /\ v \in RequestType /\ v.pc = "list chunks" /\ v.op = req[r].op /\ v.off = req[r].off
          /\ v.data = req[r].data /\ v.fd = req[r].fd /\ v.buf = req[r].buf
      BY <2>1, PcMoves
    <2>3. req' = [req EXCEPT ![r] = v] /\ At(r, "assemble")
      BY <1>2 DEF Go, Assemble
    <2> HIDE DEF v
    <2>4. RequestOK(v) /\ NameOK(v, files) /\ RemovalOK(v, staged)
      BY <1>0, <2>2, <2>3 DEF RequestOK, Control, Holding, NameOK, RemovalOK, At
    <2> QED
      BY <1>0, <2>3, <2>4, Moves
  <1>3. CASE ListChunks(r) /\ dir = "there"
    <2> DEFINE v == [req[r] EXCEPT !.pc = "open chunk", !.list = DOMAIN files]
    <2>1. DOMAIN files \in SUBSET Int /\ req[r] \in RequestType
      BY <1>0 DEF RequestOK, DataInv, FilesOK
    <2>2. /\ v \in RequestType /\ v.pc = "open chunk" /\ v.op = req[r].op /\ v.off = req[r].off
          /\ v.data = req[r].data /\ v.fd = req[r].fd /\ v.buf = req[r].buf
      BY <2>1 DEF RequestType, Pcs
    <2>3. req' = [req EXCEPT ![r] = v] /\ At(r, "list chunks")
      BY <1>3 DEF ListChunks
    <2> HIDE DEF v
    <2>4. RequestOK(v) /\ NameOK(v, files) /\ RemovalOK(v, staged)
      BY <1>0, <2>2, <2>3 DEF RequestOK, Control, Holding, NameOK, RemovalOK, At
    <2> QED
      BY <1>0, <2>3, <2>4, Moves
  <1> QED
    BY <1>1, <1>2, <1>3 DEF Assemble, ListChunks

LEMMA OpenChunkStep ==
  ASSUME DataInv, NEW r \in Reqs, OpenChunk(r)
  PROVE  DataInv'
  <1> DEFINE o == Min(req[r].list)
             v == [req[r] EXCEPT !.pc = "read chunk", !.off = o, !.fd = TRUE,
                                 !.want = Len(files[o])]
  <1>0. RequestOK(req[r]) /\ UNCHANGED <<files, staged>> /\ req[r].op = "commit"
    BY DEF DataInv, OpenChunk, session, RequestOK, Control, At
  <1>1. CASE Gap(r, o) \/ o \notin DOMAIN files
    BY <1>0, <1>1, Answers DEF OpenChunk
  <1>2. CASE ~Gap(r, o) /\ o \in DOMAIN files
    <2>1. req' = [req EXCEPT ![r] = v]
      BY <1>2 DEF OpenChunk
    <2>2. o \in Nat /\ o = Len(req[r].buf) /\ files[o] \in Seq(Byte)
      BY <1>2 DEF DataInv, FilesOK, Gap
    <2>3. Len(files[o]) \in Nat /\ o \in Int
      BY <2>2
    <2>4. req[r] \in RequestType
      BY <1>0 DEF RequestOK
    <2> HIDE DEF o
    <2>5. /\ v \in RequestType /\ v.pc = "read chunk" /\ v.op = req[r].op /\ v.off = o
          /\ v.fd /\ v.buf = req[r].buf
      BY <2>3, <2>4 DEF RequestType, Pcs
    <2> HIDE DEF v
    <2>6. RequestOK(v) /\ NameOK(v, files) /\ RemovalOK(v, staged)
      BY <1>0, <1>2, <2>2, <2>5 DEF RequestOK, Control, Holding, NameOK, RemovalOK
    <2> QED
      BY <1>0, <2>1, <2>6, Moves
  <1> QED
    BY <1>1, <1>2

LEMMA ReadStep ==
  ASSUME DataInv, NEW r \in Reqs, ReadChunk(r)
  PROVE  DataInv'
  <1> DEFINE q   == req[r]
             now == IF q.fd THEN files[q.off] ELSE q.data
             b   == q.buf \o SubSeq(now, 1, q.want)
             l   == q.list \ {q.off}
             v   == [q EXCEPT !.pc = "open chunk", !.buf = b, !.list = l,
                              !.fd = FALSE, !.data = <<>>, !.want = 0]
  <1>0. RequestOK(q) /\ NameOK(q, files) /\ UNCHANGED <<files, staged>> /\ q.pc = "read chunk"
    BY DEF DataInv, ReadChunk, session, At
  <1>1. q.op = "commit" /\ q.off = Len(q.buf) /\ Placed(0, q.buf) /\ q \in RequestType
    BY <1>0 DEF RequestOK, Control, Holding
  <1>2. q.want \in Nat /\ q.buf \in Seq(Byte) /\ q.list \in SUBSET Int
    BY <1>1 DEF RequestType
  <1>3. now \in Seq(Byte) /\ Placed(Len(q.buf), now)
    <2>1. CASE q.fd
      BY <1>0, <1>1, <2>1 DEF NameOK, DataInv, FilesOK
    <2>2. CASE ~q.fd
      <3>1. q.data \in Seq(Byte)
        BY <1>1 DEF RequestType
      <3> QED
        BY <1>0, <1>1, <2>2, <3>1 DEF RequestOK, Holding
    <2> QED
      BY <2>1, <2>2
  <1>4. CASE Len(now) < q.want
    BY <1>0, <1>4, Answers DEF ReadChunk
  <1>5. CASE ~(Len(now) < q.want)
    <2>1. req' = [req EXCEPT ![r] = v]
      BY <1>5 DEF ReadChunk
    <2> HIDE DEF now
    <2>2. q.want <= Len(now)
      BY <1>2, <1>3, <1>5
    <2>3. b \in Seq(Byte) /\ Placed(0, b)
      BY <1>1, <1>2, <1>3, <2>2, PlacedJoin
    <2>4. l \in SUBSET Int /\ <<>> \in Seq(Byte)
      BY <1>2
    <2> HIDE DEF b, l
    <2>5. v \in RequestType /\ v.pc = "open chunk" /\ v.op = q.op /\ ~v.fd /\ v.buf = b
      BY <1>1, <2>3, <2>4 DEF RequestType, Pcs
    <2> HIDE DEF v
    <2>6. RequestOK(v) /\ NameOK(v, files) /\ RemovalOK(v, staged)
      BY <1>1, <2>3, <2>5 DEF RequestOK, Control, Holding, NameOK, RemovalOK
    <2> QED
      BY <1>0, <2>1, <2>6, Moves
  <1> QED
    BY <1>4, <1>5

LEMMA FromZero ==
  ASSUME NEW s, Placed(0, s)
  PROVE  \A i \in 1 .. Len(s) : s[i][1] = i - 1
  BY DEF Placed

(* A commit that has read the declared size moves on, or has just staged it. *)
LEMMA CommitGoes ==
  ASSUME DataInv, NEW r \in Reqs, NEW x \in {"add_chunked", "relock", "add", "remove"}, Go(r, x),
         req[r].pc \in {"open chunk", "add_chunked", "relock"}, Len(req[r].buf) = Size,
         UNCHANGED files, staged' = staged \/ staged' = staged \cup {req[r].buf},
         x = "remove" => staged' # {}
  PROVE  DataInv'
  <1> DEFINE v == [req[r] EXCEPT !.pc = x]
  <1>0. RequestOK(req[r]) /\ req[r].op = "commit" /\ ~req[r].fd /\ req[r] \in RequestType
    BY DEF DataInv, RequestOK, Control, Holding
  <1>1. x \in Pcs
    BY DEF Pcs
  <1>2. /\ v \in RequestType /\ v.pc = x /\ v.op = req[r].op /\ v.off = req[r].off
        /\ v.data = req[r].data /\ v.fd = req[r].fd /\ v.buf = req[r].buf
    BY <1>0, <1>1, PcMoves
  <1>3. req' = [req EXCEPT ![r] = v]
    BY DEF Go
  <1> HIDE DEF v
  <1>4. RequestOK(v) /\ NameOK(v, files) /\ RemovalOK(v, staged')
    BY <1>0, <1>2 DEF RequestOK, Control, Holding, NameOK, RemovalOK
  <1>5. /\ req' \in [Reqs -> RequestType]
        /\ \A g \in Reqs : req'[g] = IF g = r THEN v ELSE req[g]
    BY <1>2, <1>3 DEF DataInv
  <1>6. \A g \in Reqs : /\ RequestOK(req'[g])
                        /\ NameOK(req'[g], files') /\ RemovalOK(req'[g], staged')
    BY <1>4, <1>5 DEF DataInv, RemovalOK
  <1>7. \A i \in 1 .. Size : req[r].buf[i][1] = i - 1
    BY <1>0, FromZero DEF RequestOK, Holding
  <1>8. StagedWhole'
    BY <1>7 DEF DataInv, StagedWhole
  <1> QED
    BY <1>5, <1>6, <1>8 DEF DataInv, FilesOK

LEMMA CommitStages ==
  ASSUME DataInv, NEW r \in Reqs, Assembled(r) \/ Relock(r) \/ Stage(r) \/ StageFails(r)
  PROVE  DataInv'
  <1>1. CASE Assembled(r)
    <2>1. CASE Answer(r)
      BY <1>1, <2>1, Answers DEF Assembled, session
    <2>2. CASE ~Answer(r)
      <3>1. PICK x \in {"add_chunked", "relock"} : Go(r, x)
        BY <1>1, <2>2 DEF Assembled
      <3> QED
        BY <1>1, <2>2, <3>1, CommitGoes DEF Assembled, session, WrongSize, At
    <2> QED
      BY <2>1, <2>2
  <1>2. CASE Relock(r)
    <2>1. Len(req[r].buf) = Size
      BY <1>2 DEF DataInv, RequestOK, Holding, Relock, At
    <2> QED
      BY <1>2, <2>1, CommitGoes DEF Relock, session, At
  <1>3. CASE Stage(r)
    <2>1. /\ Len(req[r].buf) = Size /\ Placed(0, req[r].buf) /\ RequestOK(req[r])
          /\ UNCHANGED files /\ staged' = staged \cup {req[r].buf}
      BY <1>3 DEF DataInv, RequestOK, Holding, Stage, At, session
    <2>2. CASE At(r, "add_chunked") /\ Go(r, "remove")
      BY <2>1, <2>2, CommitGoes DEF At
    <2>3. CASE Answer(r)
      <3>1. /\ req' \in [Reqs -> RequestType]
            /\ \A g \in Reqs : req'[g] = IF g = r THEN Idle ELSE req[g]
        BY <2>3, IdleOK DEF Answer, DataInv, RequestOK
      <3>2. \A g \in Reqs : /\ RequestOK(req'[g])
                            /\ NameOK(req'[g], files') /\ RemovalOK(req'[g], staged')
        BY <2>1, <3>1, IdleOK DEF DataInv, NameOK, RemovalOK
      <3>3. StagedWhole'
        BY <2>1 DEF DataInv, StagedWhole, Placed
      <3> QED
        BY <2>1, <3>1, <3>2, <3>3 DEF DataInv, FilesOK
    <2> QED
      BY <1>3, <2>2, <2>3 DEF Stage
  <1>4. CASE StageFails(r)
    BY <1>4, Answers DEF StageFails, session
  <1> QED
    BY <1>1, <1>2, <1>3, <1>4

LEMMA RemovalStep ==
  ASSUME DataInv, NEW r \in Reqs, ListEntries(r) \/ RemoveDir(r)
  PROVE  DataInv'
  <1>0. UNCHANGED <<files, staged>>
    BY DEF ListEntries, RemoveDir, session
  <1>1. CASE Answer(r)
    BY <1>0, <1>1, Answers
  <1>2. CASE ListEntries(r) /\ dir = "there"
    <2> DEFINE v == [req[r] EXCEPT !.pc = "unlink", !.list = Entries]
    <2>1. Entries \in SUBSET Int
      BY DEF Entries, StateToml, DataInv, FilesOK
    <2>2. /\ RequestOK(req[r]) /\ RemovalOK(req[r], staged) /\ req[r] \in RequestType
          /\ req[r].pc = "remove"
      BY <1>2 DEF RequestOK, DataInv, ListEntries, At
    <2>3. req' = [req EXCEPT ![r] = v]
      BY <1>2 DEF ListEntries
    <2>4. /\ v \in RequestType /\ v.pc = "unlink" /\ v.op = req[r].op /\ v.off = req[r].off
          /\ v.data = req[r].data /\ v.fd = req[r].fd /\ v.buf = req[r].buf
      BY <2>1, <2>2 DEF RequestType, Pcs
    <2> HIDE DEF v
    <2>5. RequestOK(v) /\ NameOK(v, files) /\ RemovalOK(v, staged)
      BY <2>2, <2>4 DEF RequestOK, Control, Holding, NameOK, RemovalOK
    <2> QED
      BY <1>0, <2>3, <2>5, Moves
  <1> QED
    BY <1>1, <1>2 DEF ListEntries, RemoveDir

(* Unlinking entry e: the requests that have it open keep its content.      *)
LEMMA UnlinkStep ==
  ASSUME DataInv, NEW r \in Reqs, NEW e, Unlink(r, e)
  PROVE  DataInv'
  <1> DEFINE mine     == [req[r] EXCEPT !.list = @ \ {e}]
             d(g)     == IF At(g, "read chunk") THEN files[e] ELSE req[g].data
             orphan(g) == [req[g] EXCEPT !.fd = FALSE, !.data = d(g)]
             lost(g)  == req[g].fd /\ req[g].off = e
             next(g)  == IF g = r THEN mine ELSE IF lost(g) THEN orphan(g) ELSE req[g]
  <1>1. req' = [g \in Reqs |-> next(g)] /\ UNCHANGED staged
    BY DEF Unlink
  <1>2. \A g \in Reqs : RequestOK(req[g]) /\ NameOK(req[g], files) /\ RemovalOK(req[g], staged)
    BY DEF DataInv
  <1>3. DOMAIN files' = DOMAIN files \ {e} /\ \A x \in DOMAIN files \ {e} : files'[x] = files[x]
    BY DEF Unlink
  <1>4. FilesOK'
    BY <1>3 DEF FilesOK, DataInv
  <1>5. ASSUME NEW g \in Reqs
        PROVE  /\ next(g) \in RequestType /\ RequestOK(next(g))
               /\ NameOK(next(g), files') /\ RemovalOK(next(g), staged)
    <2>0. req[g] \in RequestType
      BY <1>2 DEF RequestOK
    <2>1. CASE g = r
      <3>1. req[r].list \ {e} \in SUBSET Int
        BY <2>0, <2>1 DEF RequestType
      <3>2. /\ mine \in RequestType /\ mine.pc = req[r].pc /\ mine.op = req[r].op
            /\ mine.off = req[r].off /\ mine.data = req[r].data /\ mine.fd = req[r].fd
            /\ mine.buf = req[r].buf
        BY <2>0, <2>1, <3>1 DEF RequestType
      <3>3. req[r].pc = "unlink"
        BY DEF Unlink, At
      <3> HIDE DEF mine
      <3>4. RequestOK(mine) /\ NameOK(mine, files') /\ RemovalOK(mine, staged)
        BY <1>2, <3>2, <3>3 DEF RequestOK, Control, Holding, NameOK, RemovalOK
      <3> QED
        BY <2>1, <3>2, <3>4
    <2>2. CASE g # r /\ ~lost(g)
      <3>1. NameOK(req[g], files')
        BY <1>2, <1>3, <2>2 DEF NameOK
      <3> QED
        BY <1>2, <2>0, <2>2, <3>1
    <2>3. CASE g # r /\ lost(g)
      <3>1. At(g, "read chunk") => /\ e \in DOMAIN files /\ files[e] \in Seq(Byte)
                                   /\ Placed(e, files[e])
        BY <1>2, <2>3 DEF NameOK, At, DataInv, FilesOK
      <3>2. req[g].data \in Seq(Byte)
        BY <2>0 DEF RequestType
      <3>3. d(g) \in Seq(Byte)
        BY <3>1, <3>2
      <3>4. At(g, "read chunk") => Placed(e, d(g))
        BY <3>1
      <3>5. ~At(g, "read chunk") => d(g) = req[g].data
        OBVIOUS
      <3> HIDE DEF d
      <3>6. /\ orphan(g) \in RequestType /\ orphan(g).pc = req[g].pc /\ orphan(g).op = req[g].op
            /\ orphan(g).off = req[g].off /\ orphan(g).data = d(g) /\ ~orphan(g).fd
            /\ orphan(g).buf = req[g].buf
        BY <2>0, <3>3 DEF RequestType
      <3> HIDE DEF orphan
      <3>7. Control(orphan(g)) /\ NameOK(orphan(g), files') /\ RemovalOK(orphan(g), staged)
        BY <1>2, <3>6 DEF RequestOK, Control, NameOK, RemovalOK
      <3>8. Holding(orphan(g))
        <4>1. Holding(req[g]) /\ req[g].off = e
          BY <1>2, <2>3 DEF RequestOK
        <4> QED
          BY <3>4, <3>5, <3>6, <4>1 DEF Holding, At
      <3> QED
        BY <2>3, <3>6, <3>7, <3>8 DEF RequestOK
    <2> QED
      BY <2>1, <2>2, <2>3
  <1> HIDE DEF next
  <1>6. req' \in [Reqs -> RequestType] /\ \A g \in Reqs : req'[g] = next(g)
    BY <1>1, <1>5
  <1> QED
    BY <1>1, <1>4, <1>5, <1>6 DEF DataInv, StagedWhole

LEMMA DataInitially == Init => DataInv
  <1> SUFFICES ASSUME Init
               PROVE  DataInv
    OBVIOUS
  <1>1. req \in [Reqs -> RequestType] /\ \A r \in Reqs : req[r] = Idle
    BY IdleOK DEF Init, RequestOK
  <1>2. \A r \in Reqs : RequestOK(req[r]) /\ NameOK(req[r], files) /\ RemovalOK(req[r], staged)
    BY <1>1, IdleOK DEF NameOK, RemovalOK
  <1>3. DOMAIN files = {} /\ staged = {}
    BY DEF Init
  <1> QED
    BY <1>1, <1>2, <1>3 DEF DataInv, FilesOK, StagedWhole

LEMMA DataStep ==
  ASSUME DataInv, [Next]_vars
  PROVE  DataInv'
  <1>1. CASE UNCHANGED vars
    BY <1>1 DEF vars, session, DataInv, FilesOK, StagedWhole
  <1>2. CASE Expire
    BY <1>2 DEF Expire, DataInv, FilesOK, StagedWhole
  <1>3. CASE Crash
    <2>1. req' \in [Reqs -> RequestType] /\ \A r \in Reqs : req'[r] = Idle
      BY <1>3, IdleOK DEF Crash, RequestOK
    <2>2. \A r \in Reqs : /\ RequestOK(req'[r])
                          /\ NameOK(req'[r], files') /\ RemovalOK(req'[r], staged')
      BY <2>1, IdleOK DEF NameOK, RemovalOK
    <2> QED
      BY <1>3, <2>1, <2>2 DEF Crash, session, DataInv, FilesOK, StagedWhole
  <1>4. ASSUME NEW r \in Reqs, Request(r)
        PROVE  DataInv'
    BY <1>4, OpenStep, PatchStart, Beginnings DEF Request
  <1>5. ASSUME NEW r \in Reqs, Step(r)
        PROVE  DataInv'
    BY <1>5, OpenStep, TruncateStep, PatchEnds, CommitStarts, OpenChunkStep, ReadStep,
       CommitStages, RemovalStep, UnlinkStep DEF Step
  <1> QED
    BY <1>1, <1>2, <1>3, <1>4, <1>5 DEF Next

LEMMA DataAlways == Spec => []DataInv
  BY DataInitially, DataStep, PTL DEF Spec

(* What upload_commit stages has the declared size and every byte in its    *)
(* place, whatever PATCHes, aborts and reaps run between its reads.         *)
THEOREM StagedIsWhole == Spec => []StagedWhole
  <1>1. DataInv => StagedWhole
    BY DEF DataInv
  <1> QED
    BY <1>1, DataAlways, PTL

-----------------------------------------------------------------------------
(* The write_lock is held by the request that runs a commit, except while   *)
(* it waits to take it again for add.                                       *)
Holds(q) == q.op = "commit" /\ q.pc # "relock"

LockInv == \A r \in Reqs : lock = r <=> Holds(req[r])

LEMMA LockMoves ==
  ASSUME DataInv, LockInv, NEW r \in Reqs, NEW v, req' = [req EXCEPT ![r] = v],
         lock' = r <=> Holds(v), \A g \in Reqs \ {r} : lock' = g <=> lock = g
  PROVE  LockInv'
  <1>1. \A g \in Reqs : req'[g] = IF g = r THEN v ELSE req[g]
    BY DEF DataInv
  <1>2. \A g \in Reqs : Holds(req'[g]) <=> IF g = r THEN Holds(v) ELSE Holds(req[g])
    BY <1>1 DEF Holds
  <1> QED
    BY <1>2 DEF LockInv, Holds

LEMMA LockAnswers ==
  ASSUME DataInv, LockInv, NEW r \in Reqs, Answer(r)
  PROVE  LockInv'
  <1>1. ~Holds(Idle)
    BY DEF Holds, Idle
  <1>2. lock' # r /\ \A g \in Reqs \ {r} : lock' = g <=> lock = g
    BY UploadAssumption DEF Answer
  <1> QED
    BY <1>1, <1>2, LockMoves DEF Answer

LEMMA LockGoes ==
  ASSUME DataInv, LockInv, NEW r \in Reqs, NEW x, Go(r, x),
         lock' = r <=> (req[r].op = "commit" /\ x # "relock"),
         \A g \in Reqs \ {r} : lock' = g <=> lock = g
  PROVE  LockInv'
  <1> DEFINE v == [req[r] EXCEPT !.pc = x]
  <1>1. v.op = req[r].op /\ v.pc = x
    BY DEF DataInv, RequestType
  <1>2. req' = [req EXCEPT ![r] = v]
    BY DEF Go
  <1> HIDE DEF v
  <1> QED
    BY <1>1, <1>2, LockMoves DEF Holds

LEMMA LockRequest ==
  ASSUME DataInv, LockInv, NEW r \in Reqs, Request(r)
  PROVE  LockInv'
  <1>0. ASSUME NEW o, NEW s, Begin(r, o, s), s # "relock",
               IF o = "commit" THEN lock = Nobody /\ lock' = r ELSE lock' = lock
        PROVE  LockInv'
    <2> DEFINE v == [Idle EXCEPT !.op = o, !.pc = s]
    <2>1. v.op = o /\ v.pc = s
      BY DEF Idle
    <2>2. req' = [req EXCEPT ![r] = v] /\ At(r, "idle")
      BY <1>0 DEF Begin
    <2> HIDE DEF v
    <2>3. lock # r
      BY <2>2, UploadAssumption DEF DataInv, LockInv, Holds, RequestOK, Control, At
    <2>4. \A g \in Reqs \ {r} : lock' = g <=> lock = g
      BY <1>0, UploadAssumption
    <2>5. lock' = r <=> Holds(v)
      BY <1>0, <2>1, <2>3 DEF Holds
    <2> QED
      BY <2>2, <2>4, <2>5, LockMoves
  <1>1. CASE OpenDir(r) \/ Commit(r) \/ AbortSession(r) \/ Reap(r)
    BY <1>0, <1>1, Zenon DEF OpenDir, Commit, AbortSession, Reap
  <1>2. ASSUME NEW p \in Patches, Patch(r, p)
        PROVE  LockInv'
    <2> DEFINE v == [Idle EXCEPT !.op = "patch", !.pc = "truncate", !.off = p.off,
                                 !.data = Content(p)]
    <2>1. v.op = "patch"
      BY DEF Idle
    <2>2. req' = [req EXCEPT ![r] = v] /\ At(r, "idle") /\ lock' = lock
      BY <1>2 DEF Patch
    <2> HIDE DEF v
    <2>3. lock # r
      BY <2>2 DEF DataInv, LockInv, Holds, RequestOK, Control, At
    <2> QED
      BY <2>1, <2>2, <2>3, LockMoves DEF Holds
  <1> QED
    BY <1>1, <1>2 DEF Request

(* A step within an operation.                                              *)
LEMMA LockWithin ==
  ASSUME DataInv, LockInv, NEW r \in Reqs, NEW v, req' = [req EXCEPT ![r] = v], lock' = lock,
         v.op = req[r].op, v.pc # "relock", req[r].pc # "relock"
  PROVE  LockInv'
  BY LockMoves DEF LockInv, Holds

LEMMA LockStep ==
  ASSUME DataInv, LockInv, NEW r \in Reqs, Step(r)
  PROVE  LockInv'
  <1>0. RequestOK(req[r]) /\ req[r] \in RequestType
    BY DEF DataInv, RequestOK
  <1>1. CASE Answer(r)
    BY <1>1, LockAnswers
  <1>3. CASE OpenCreate(r) /\ dir = "there"
    <2> DEFINE v == [req[r] EXCEPT !.pc = "write toml", !.off = StateToml, !.fd = TRUE]
    <2>1. v.op = req[r].op /\ v.pc = "write toml"
      BY <1>0 DEF RequestType
    <2>2. req' = [req EXCEPT ![r] = v] /\ lock' = lock /\ req[r].pc = "create toml"
      BY <1>3 DEF OpenCreate, At
    <2> HIDE DEF v
    <2> QED
      BY <2>1, <2>2, LockWithin
  <1>4. CASE PatchTruncate(r) /\ dir = "there"
    <2> DEFINE v == [req[r] EXCEPT !.pc = "write", !.fd = TRUE]
    <2>1. v.op = req[r].op /\ v.pc = "write"
      BY <1>0 DEF RequestType
    <2>2. req' = [req EXCEPT ![r] = v] /\ lock' = lock /\ req[r].pc = "truncate"
      BY <1>4 DEF PatchTruncate, At
    <2> HIDE DEF v
    <2> QED
      BY <2>1, <2>2, LockWithin
  <1>5. CASE Assemble(r) /\ Go(r, "list chunks") /\ lock' = lock
    BY <1>0, <1>5, LockGoes DEF Assemble, At, LockInv, Holds, RequestOK, Control
  <1>6. CASE ListChunks(r) /\ dir = "there"
    <2> DEFINE v == [req[r] EXCEPT !.pc = "open chunk", !.list = DOMAIN files]
    <2>1. v.op = req[r].op /\ v.pc = "open chunk"
      BY <1>0 DEF RequestType
    <2>2. req' = [req EXCEPT ![r] = v] /\ lock' = lock /\ req[r].pc = "list chunks"
      BY <1>6 DEF ListChunks, At
    <2> HIDE DEF v
    <2> QED
      BY <2>1, <2>2, LockWithin
  <1>7. CASE OpenChunk(r) /\ ~Answer(r)
    <2> DEFINE v == [req[r] EXCEPT !.pc = "read chunk", !.off = Min(req[r].list), !.fd = TRUE,
                                 !.want = Len(files[Min(req[r].list)])]
    <2>1. v.op = req[r].op /\ v.pc = "read chunk"
      BY <1>0 DEF RequestType
    <2>2. req' = [req EXCEPT ![r] = v] /\ lock' = lock /\ req[r].pc = "open chunk"
      BY <1>7 DEF OpenChunk, At
    <2> HIDE DEF v
    <2> QED
      BY <2>1, <2>2, LockWithin
  <1>8. CASE ReadChunk(r) /\ ~Answer(r)
    <2> DEFINE now == IF req[r].fd THEN files[req[r].off] ELSE req[r].data
               v   == [req[r] EXCEPT !.pc = "open chunk",
                                     !.buf = @ \o SubSeq(now, 1, req[r].want),
                                     !.list = @ \ {req[r].off},
                                     !.fd = FALSE, !.data = <<>>, !.want = 0]
    <2>1. v.op = req[r].op /\ v.pc = "open chunk"
      BY <1>0 DEF RequestType
    <2>2. req' = [req EXCEPT ![r] = v] /\ lock' = lock /\ req[r].pc = "read chunk"
      BY <1>8 DEF ReadChunk, At
    <2> HIDE DEF v
    <2> QED
      BY <2>1, <2>2, LockWithin
  <1>9. CASE Assembled(r) /\ ~Answer(r)
    <2>1. req[r].op = "commit" /\ lock = r
      BY <1>0, <1>9 DEF Assembled, At, RequestOK, Control, LockInv, Holds
    <2>2. CASE Go(r, "add_chunked") /\ lock' = lock
      BY <2>1, <2>2, LockGoes
    <2>3. CASE Go(r, "relock") /\ lock' = Nobody
      BY <2>1, <2>3, LockGoes, UploadAssumption
    <2> QED
      BY <1>9, <2>2, <2>3 DEF Assembled, ReleaseForAdd
  <1>10. CASE Relock(r)
    <2>1. req[r].op = "commit"
      BY <1>0, <1>10 DEF Relock, At, RequestOK, Control
    <2> QED
      BY <1>10, <2>1, LockGoes, UploadAssumption DEF Relock
  <1>11. CASE Stage(r) /\ At(r, "add_chunked") /\ Go(r, "remove") /\ lock' = lock
    BY <1>0, <1>11, LockGoes DEF At, LockInv, Holds, RequestOK, Control
  <1>12. CASE ListEntries(r) /\ dir = "there"
    <2> DEFINE v == [req[r] EXCEPT !.pc = "unlink", !.list = Entries]
    <2>1. v.op = req[r].op /\ v.pc = "unlink"
      BY <1>0 DEF RequestType
    <2>2. req' = [req EXCEPT ![r] = v] /\ lock' = lock /\ req[r].pc = "remove"
      BY <1>12 DEF ListEntries, At
    <2> HIDE DEF v
    <2> QED
      BY <2>1, <2>2, LockWithin
  <1>13. ASSUME NEW e, Unlink(r, e)
         PROVE  LockInv'
    <2>1. \A g \in Reqs : req'[g].op = req[g].op /\ req'[g].pc = req[g].pc
      BY <1>13 DEF Unlink, DataInv, RequestType
    <2> QED
      BY <1>13, <2>1 DEF Unlink, LockInv, Holds
  <1>14. CASE OpenWrite(r) \/ PatchWrite(r) \/ (\E n \in 0 .. Size : PatchFails(r, n))
    BY <1>1, <1>14 DEF OpenWrite, PatchWrite, PatchFails
  <1>15. CASE StageFails(r) \/ RemoveDir(r)
    BY <1>1, <1>15 DEF StageFails, RemoveDir
  <1> QED
    BY <1>1, <1>3, <1>4, <1>5, <1>6, <1>7, <1>8, <1>9, <1>10, <1>11, <1>12, <1>13, <1>14, <1>15
       DEF Step, OpenCreate, PatchTruncate, Assemble, ListChunks, Stage, ListEntries

LEMMA LockKept ==
  ASSUME DataInv, LockInv, [Next]_vars
  PROVE  LockInv'
  <1>1. CASE UNCHANGED vars \/ Expire
    BY <1>1 DEF vars, Expire, LockInv, Holds
  <1>2. CASE Crash
    <2>1. \A r \in Reqs : req'[r] = Idle /\ lock' # r
      BY <1>2, UploadAssumption DEF Crash
    <2> QED
      BY <2>1 DEF LockInv, Holds, Idle
  <1> QED
    BY <1>1, <1>2, LockRequest, LockStep DEF Next

(* add takes the write_lock itself: upload_commit has let go of it by then, *)
(* and no PATCH, abort or reap ever holds it.                               *)
THEOREM LockNotReentered == Spec => []NoSelfDeadlock
  <1>1. Init => LockInv
    BY UploadAssumption DEF Init, LockInv, Holds, Idle
  <1>2. DataInv /\ LockInv /\ [Next]_vars => LockInv'
    BY LockKept
  <1>3. DataInv /\ LockInv => NoSelfDeadlock
    BY DEF LockInv, Holds, NoSelfDeadlock
  <1> QED
    BY <1>1, <1>2, <1>3, DataAlways, PTL DEF Spec

-----------------------------------------------------------------------------
(* Every chunk file is one that a client sent, whole, or a PATCH that will  *)
(* write it has it open, or one died half way; and it is never longer than  *)
(* the chunks sent for its offset, so that writing one of them leaves       *)
(* nothing of another behind it.                                            *)
Mixed(o)   == \E p, q \in Patches : p.off = o /\ q.off = o /\ p.len # q.len
Writing(o) == \E r \in Reqs : req[r].pc = "write" /\ req[r].fd /\ req[r].off = o
WholeAt(o) == \E p \in Patches : p.off = o /\ files[o] = Content(p)

WholeInv ==
    \A o \in DOMAIN files :
        \/ Mixed(o)
        \/ /\ \A p \in Patches : p.off = o => Len(files[o]) <= p.len
           /\ o \in broken \/ Writing(o) \/ WholeAt(o)

(* A step that changes no file and no PATCH that has one open.              *)
LEMMA WholeElsewhere ==
  ASSUME WholeInv, UNCHANGED <<files, broken>>,
         \A g \in Reqs : req[g].pc = "write" /\ req[g].fd => req'[g] = req[g]
  PROVE  WholeInv'
  BY DEF WholeInv, Mixed, Writing, WholeAt

(* A PATCH writes its chunk, or the first n bytes of it.                    *)
LEMMA WholeWrite ==
  ASSUME DataInv, WholeInv, NEW r \in Reqs, At(r, "write"), NEW d \in Seq(Byte),
         Written(r, d), Answer(r), Len(d) <= Len(req[r].data), broken \subseteq broken',
         d = req[r].data \/ req[r].off \in broken'
  PROVE  WholeInv'
  <1>0. PICK o : o = req[r].off
    OBVIOUS
  <1>1. \A g \in Reqs \ {r} : req'[g] = req[g]
    BY DEF Answer, DataInv
  <1>2. ASSUME NEW x \in DOMAIN files, req[r].fd => x # o, files'[x] = files[x]
        PROVE  \/ Mixed(x)
               \/ /\ \A p \in Patches : p.off = x => Len(files'[x]) <= p.len
                  /\ x \in broken' \/ Writing(x)' \/ WholeAt(x)'
    BY <1>0, <1>1, <1>2 DEF WholeInv, Writing, WholeAt
  <1>3. CASE ~req[r].fd
    BY <1>0, <1>2, <1>3 DEF Written, WholeInv, Mixed
  <1>4. CASE req[r].fd
    <2>1. /\ o \in DOMAIN files /\ files[o] \in Seq(Byte)
      BY <1>0, <1>4 DEF DataInv, FilesOK, NameOK, At
    <2>2. /\ files' = [files EXCEPT ![o] = Over(@, d)]
          /\ DOMAIN files' = DOMAIN files /\ files'[o] = Over(files[o], d)
      BY <1>0, <1>4, <2>1 DEF Written
    <2>3. \A x \in DOMAIN files \ {o} : files'[x] = files[x]
      BY <2>2
    <2>4. PICK p \in Patches : p.off = o /\ req[r].data = Content(p)
      BY <1>0, PatchData
    <2>5. Len(req[r].data) = p.len
      BY <2>4, ContentOK
    <2>6. CASE ~Mixed(o)
      <3>1. \A q \in Patches : q.off = o => q.len = p.len
        BY <2>4, <2>6 DEF Mixed
      <3>2. Len(files[o]) <= p.len
        BY <2>1, <2>4, <2>6 DEF WholeInv
      <3>3. /\ Len(Over(files[o], d)) = IF Len(files[o]) <= Len(d) THEN Len(d) ELSE Len(files[o])
            /\ Len(files[o]) <= Len(d) => Over(files[o], d) = d
        BY <2>1, OverOK
      <3>4. Len(files'[o]) <= p.len
        BY <2>2, <2>5, <3>2, <3>3
      <3>5. o \in broken' \/ WholeAt(o)'
        <4>1. CASE d = req[r].data
          BY <2>2, <2>4, <2>5, <3>2, <3>3, <4>1 DEF WholeAt
        <4> QED
          BY <1>0, <4>1
      <3>6. \A q \in Patches : q.off = o => Len(files'[o]) <= q.len
        BY <3>1, <3>4
      <3> QED
        BY <1>2, <2>2, <2>3, <3>5, <3>6 DEF WholeInv, Mixed
    <2> QED
      BY <1>2, <2>2, <2>3, <2>6 DEF WholeInv, Mixed
  <1> QED
    BY <1>3, <1>4

LEMMA WholePatch ==
  ASSUME DataInv, WholeInv, NEW r \in Reqs,
         PatchTruncate(r) \/ PatchWrite(r) \/ \E n \in 0 .. Size : PatchFails(r, n)
  PROVE  WholeInv'
  <1>1. CASE PatchTruncate(r) /\ dir # "there"
    BY <1>1, WholeElsewhere DEF PatchTruncate, Answer, At, DataInv
  <1>2. CASE PatchTruncate(r) /\ dir = "there"
    <2> DEFINE v == [req[r] EXCEPT !.pc = "write", !.fd = TRUE]
    <2>0. PICK o : o = req[r].off
      OBVIOUS
    <2>1. /\ req' = [req EXCEPT ![r] = v] /\ UNCHANGED broken
          /\ files' = [x \in DOMAIN files \cup {o} |-> IF x = o THEN <<>> ELSE files[x]]
          /\ req[r].pc = "truncate"
      BY <1>2, <2>0 DEF PatchTruncate, At
    <2>2. v.pc = "write" /\ v.fd /\ v.off = o
      BY <2>0 DEF DataInv, RequestType
    <2> HIDE DEF v
    <2>3. \A g \in Reqs : req'[g] = IF g = r THEN v ELSE req[g]
      BY <2>1 DEF DataInv
    <2>4. /\ DOMAIN files' = DOMAIN files \cup {o} /\ files'[o] = <<>>
          /\ \A x \in DOMAIN files \ {o} : files'[x] = files[x]
      BY <2>1
    <2>5. Writing(o)' /\ \A x : Writing(x) => Writing(x)'
      BY <2>1, <2>2, <2>3 DEF Writing
    <2>6. \A p \in Patches : Len(files'[o]) <= p.len
      <3>1. Len(<<>>) = 0
        OBVIOUS
      <3> QED
        BY <2>4, <3>1, UploadAssumption
    <2>7. \A x \in DOMAIN files \ {o} : WholeAt(x) => WholeAt(x)'
      BY <2>4 DEF WholeAt
    <2> QED
      BY <2>1, <2>4, <2>5, <2>6, <2>7 DEF WholeInv, Mixed
  <1>3. CASE PatchWrite(r)
    <2>1. req[r].data \in Seq(Byte) /\ Len(req[r].data) \in Nat
      BY <1>3, PatchData DEF PatchWrite
    <2> QED
      BY <1>3, <2>1, WholeWrite DEF PatchWrite
  <1>4. ASSUME NEW n \in 0 .. Size, PatchFails(r, n)
        PROVE  WholeInv'
    <2>1. n \in Nat /\ At(r, "write") /\ n < Len(req[r].data)
      BY <1>4, UploadAssumption DEF PatchFails
    <2>2. /\ SubSeq(req[r].data, 1, n) \in Seq(Byte)
          /\ Len(SubSeq(req[r].data, 1, n)) <= Len(req[r].data)
      BY <2>1, PatchData, CutOK
    <2> QED
      BY <1>4, <2>1, <2>2, WholeWrite DEF PatchFails
  <1> QED
    BY <1>1, <1>2, <1>3, <1>4

LEMMA WholeUnlink ==
  ASSUME DataInv, WholeInv, NEW r \in Reqs, NEW e, Unlink(r, e)
  PROVE  WholeInv'
  <1>1. /\ DOMAIN files' = DOMAIN files \ {e} /\ \A x \in DOMAIN files' : files'[x] = files[x]
        /\ UNCHANGED broken
    BY DEF Unlink
  <1>2. \A g \in Reqs : req[g].pc = "write" /\ req[g].off # e => req'[g] = req[g]
    BY DEF Unlink, At
  <1>3. \A x \in DOMAIN files' : /\ Writing(x) => Writing(x)'
                                 /\ WholeAt(x) => WholeAt(x)'
    BY <1>1, <1>2 DEF Writing, WholeAt
  <1> QED
    BY <1>1, <1>3 DEF WholeInv, Mixed

(* The other steps move a request that has no chunk open for writing.       *)
LEMMA WholeOthers ==
  ASSUME DataInv, WholeInv, NEW r \in Reqs, Request(r) \/ Step(r),
         ~(PatchTruncate(r) \/ PatchWrite(r) \/ \E n \in 0 .. Size : PatchFails(r, n)),
         ~\E e \in {StateToml} \cup 0 .. Size : Unlink(r, e)
  PROVE  WholeInv'
  <1>1. ASSUME UNCHANGED <<files, broken>>, req[r].pc # "write",
               \E v : req' = [req EXCEPT ![r] = v]
        PROVE  WholeInv'
    BY <1>1, WholeElsewhere DEF DataInv
  <1>2. CASE OpenDir(r) \/ OpenCreate(r) \/ OpenWrite(r)
    BY <1>1, <1>2, Zenon DEF OpenDir, OpenCreate, OpenWrite, Begin, Answer, At
  <1>3. CASE \E p \in Patches : Patch(r, p)
    BY <1>1, <1>3 DEF Patch, At, session
  <1>4. CASE Commit(r) \/ AbortSession(r) \/ Reap(r)
    BY <1>1, <1>4 DEF Commit, AbortSession, Reap, Begin, At, session
  <1>5. CASE Assemble(r) \/ ListChunks(r) \/ OpenChunk(r)
    BY <1>1, <1>5 DEF Assemble, ListChunks, OpenChunk, Answer, Go, At, session
  <1>6. CASE ReadChunk(r) \/ Assembled(r) \/ Relock(r)
    BY <1>1, <1>6 DEF ReadChunk, Assembled, Relock, Answer, Go, At, session
  <1>7. CASE Stage(r) \/ StageFails(r)
    BY <1>1, <1>7 DEF Stage, StageFails, Answer, Go, At, session
  <1>8. CASE ListEntries(r) \/ RemoveDir(r)
    BY <1>1, <1>8 DEF ListEntries, RemoveDir, Answer, At, session
  <1> QED
    BY <1>2, <1>3, <1>4, <1>5, <1>6, <1>7, <1>8 DEF Request, Step

LEMMA WholeKept ==
  ASSUME DataInv, WholeInv, [Next]_vars
  PROVE  WholeInv'
  <1>1. CASE UNCHANGED vars \/ Expire
    BY <1>1, WholeElsewhere DEF vars, session, Expire
  <1>2. CASE Crash
    <2>1. UNCHANGED files /\ broken \subseteq broken'
      BY <1>2 DEF Crash, session
    <2>2. \A o : Writing(o) => o \in broken'
      BY <1>2 DEF Crash, Writing, At
    <2> QED
      BY <2>1, <2>2 DEF WholeInv, Mixed, WholeAt
  <1>3. ASSUME NEW r \in Reqs, Request(r) \/ Step(r)
        PROVE  WholeInv'
    BY <1>3, WholePatch, WholeUnlink, WholeOthers
  <1> QED
    BY <1>1, <1>2, <1>3 DEF Next

(* However PATCHes of one offset overlap, are retried or run into an abort, *)
(* the chunk they leave is one of those that were sent.                     *)
THEOREM RetriesAreWhole == Spec => []RetriesLeaveAWholeChunk
  <1>1. Init => WholeInv
    BY DEF Init, WholeInv
  <1>2. DataInv /\ WholeInv /\ [Next]_vars => WholeInv'
    BY WholeKept
  <1>3. DataInv /\ WholeInv => RetriesLeaveAWholeChunk
    <2> SUFFICES ASSUME DataInv, WholeInv, NEW o \in DOMAIN files
                 PROVE  \/ \E r \in Reqs : req[r].op = "patch" /\ req[r].off = o
                        \/ o \in broken \/ Mixed(o) \/ WholeAt(o)
      BY DEF RetriesLeaveAWholeChunk, Mixed, WholeAt
    <2>1. Writing(o) => \E r \in Reqs : req[r].op = "patch" /\ req[r].off = o
      BY DEF Writing, DataInv, RequestOK, Control
    <2> QED
      BY <2>1 DEF WholeInv
  <1> QED
    BY <1>1, <1>2, <1>3, DataAlways, PTL DEF Spec

-----------------------------------------------------------------------------
(* Chunks disappear by an unlink only, and a commit comes to that only when *)
(* it has staged the file: one that fails leaves them for a retry.          *)
THEOREM ChunksOutliveFailures == Spec => FailedCommitKeepsChunks
  <1> DEFINE Step1 == \/ DOMAIN files \subseteq DOMAIN files'
                      \/ staged # {}
                      \/ \E r \in Reqs : req[r].op \in {"abort", "reap"} /\ req[r].pc = "unlink"
  <1>1. DataInv /\ [Next]_vars => [Step1]_vars
    <2> SUFFICES ASSUME DataInv, Next
                 PROVE  Step1
      OBVIOUS
    <2>1. CASE Expire \/ Crash
      BY <2>1 DEF Expire, Crash, session
    <2>2. ASSUME NEW r \in Reqs, NEW e, Unlink(r, e)
          PROVE  Step1
      <3>1. req[r].pc = "unlink" /\ RequestOK(req[r]) /\ RemovalOK(req[r], staged)
        BY <2>2 DEF Unlink, At, DataInv
      <3>2. req[r].op \in {"abort", "reap", "commit"}
        BY <3>1 DEF RequestOK, Control, RequestType
      <3> QED
        BY <3>1, <3>2 DEF RemovalOK
    <2>3. ASSUME NEW r \in Reqs, Request(r)
          PROVE  UNCHANGED files
      BY <2>3 DEF Request, OpenDir, Patch, Commit, AbortSession, Reap, session
    <2>4. ASSUME NEW r \in Reqs, PatchTruncate(r)
          PROVE  Step1
      BY <2>4 DEF PatchTruncate
    <2>5. ASSUME NEW r \in Reqs, NEW d, Written(r, d)
          PROVE  Step1
      BY <2>5 DEF Written
    <2>6. ASSUME NEW r \in Reqs, Step(r), ~PatchTruncate(r), ~\E d : Written(r, d),
                 ~\E e : Unlink(r, e)
          PROVE  UNCHANGED files
      <3>1. CASE OpenCreate(r) \/ OpenWrite(r) \/ RemoveDir(r)
        BY <3>1 DEF OpenCreate, OpenWrite, RemoveDir
      <3>2. CASE PatchWrite(r) \/ \E n \in 0 .. Size : PatchFails(r, n)
        BY <2>6, <3>2 DEF PatchWrite, PatchFails
      <3>3. CASE Assemble(r) \/ ListChunks(r) \/ OpenChunk(r) \/ ReadChunk(r) \/ Assembled(r)
        BY <3>3 DEF Assemble, ListChunks, OpenChunk, ReadChunk, Assembled, session
      <3>4. CASE Relock(r) \/ Stage(r) \/ StageFails(r) \/ ListEntries(r)
        BY <3>4 DEF Relock, Stage, StageFails, ListEntries, session
      <3> QED
        BY <2>6, <3>1, <3>2, <3>3, <3>4 DEF Step
    <2> QED
      BY <2>1, <2>2, <2>3, <2>4, <2>5, <2>6 DEF Next
  <1> QED
    BY <1>1, DataAlways, PTL DEF Spec, FailedCommitKeepsChunks
=============================================================================
