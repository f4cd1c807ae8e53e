---------------------------- MODULE MarketProofs ----------------------------
(***************************************************************************)
(* Theorems about Marketplace, for any number of concurrent requests,      *)
(* entries and blobs, failing writes and restarts included.                *)
(***************************************************************************)
EXTENDS Marketplace, SequenceTheorems, TLAPS

USE DEF files, catalog, At, Go

(* What a request that is under way holds.                                  *)
Busy ==
    \A r \in Reqs :
        /\ req[r].pc # "idle" => req[r].id \in Ids /\ req[r].entry \in Entry
        /\ req[r].pc \in {"create", "write", "rename"} => req[r].puts # <<>>

TypeInv == TypeOK /\ Busy

-----------------------------------------------------------------------------
(* Lemmas about sequences of blobs.                                         *)
LEMMA HeadTail ==
  ASSUME NEW s \in Seq(Blobs), s # <<>>
  PROVE  /\ Head(s) \in Blobs
         /\ Tail(s) \in Seq(Blobs)
         /\ \A i \in DOMAIN s : s[i] = Head(s) \/ \E k \in DOMAIN Tail(s) : Tail(s)[k] = s[i]
  <1>1. /\ Head(s) \in Blobs /\ Head(s) = s[1]
        /\ Tail(s) \in Seq(Blobs) /\ Len(Tail(s)) = Len(s) - 1
        /\ \A i \in 1 .. Len(Tail(s)) : Tail(s)[i] = s[i + 1]
    BY HeadTailProperties
  <1>2. DOMAIN s = 1 .. Len(s) /\ DOMAIN Tail(s) = 1 .. Len(Tail(s)) /\ Len(s) \in Nat
    BY <1>1, LenProperties
  <1>3. ASSUME NEW i \in DOMAIN s, i # 1
        PROVE  i - 1 \in DOMAIN Tail(s) /\ Tail(s)[i - 1] = s[i]
    BY <1>1, <1>2, <1>3
  <1> QED
    BY <1>1, <1>3

LEMMA ConcatType ==
  ASSUME NEW s \in Seq(Blobs), NEW t \in Seq(Blobs)
  PROVE  s \o t \in Seq(Blobs) /\ ToSet(s \o t) = ToSet(s) \cup ToSet(t)
  <1>1. /\ s \o t \in Seq(Blobs) /\ Len(s \o t) = Len(s) + Len(t)
        /\ \A i \in 1 .. Len(s) + Len(t) :
              (s \o t)[i] = IF i <= Len(s) THEN s[i] ELSE t[i - Len(s)]
    BY ConcatProperties
  <1>2. /\ DOMAIN s = 1 .. Len(s) /\ DOMAIN t = 1 .. Len(t)
        /\ DOMAIN (s \o t) = 1 .. Len(s) + Len(t) /\ Len(s) \in Nat /\ Len(t) \in Nat
    BY <1>1, LenProperties
  <1>3. ASSUME NEW i \in DOMAIN t PROVE Len(s) + i \in DOMAIN (s \o t) /\ (s \o t)[Len(s) + i] = t[i]
    BY <1>1, <1>2
  <1>4. ASSUME NEW i \in DOMAIN s PROVE i \in DOMAIN (s \o t) /\ (s \o t)[i] = s[i]
    BY <1>1, <1>2
  <1>5. ASSUME NEW i \in DOMAIN (s \o t) PROVE (s \o t)[i] \in ToSet(s) \cup ToSet(t)
    <2>1. CASE i <= Len(s)
      BY <1>1, <1>2, <2>1 DEF ToSet
    <2>2. CASE ~(i <= Len(s))
      <3>1. i - Len(s) \in DOMAIN t /\ (s \o t)[i] = t[i - Len(s)]
        BY <1>1, <1>2, <2>2
      <3> QED
        BY <3>1 DEF ToSet
    <2> QED
      BY <2>1, <2>2
  <1>6. ToSet(s \o t) \subseteq ToSet(s) \cup ToSet(t)
    BY <1>5 DEF ToSet
  <1>7. ToSet(s) \cup ToSet(t) \subseteq ToSet(s \o t)
    BY <1>3, <1>4 DEF ToSet
  <1> QED
    BY <1>1, <1>6, <1>7

LEMMA RangeType ==
  ASSUME NEW s \in Seq(Blobs) PROVE ToSet(s) \subseteq Blobs
  <1>1. \A i \in DOMAIN s : s[i] \in Blobs
    BY LenProperties
  <1> QED
    BY <1>1 DEF ToSet

(* The puts of a publication cover the blobs of its entry.                  *)
EntryOf(p) == [core |-> ToSet(p.before \o p.after), readme |-> p.readme, yanked |-> FALSE]

LEMMA PutsCover ==
  ASSUME NEW p \in Publications
  PROVE  /\ Puts(p) \in Seq(Blobs)
         /\ EntryOf(p) \in Entry
         /\ p.id \in Ids
         /\ BlobsOf(EntryOf(p)) \subseteq ToSet(Puts(p))
  <1> DEFINE mid == IF p.readme = NoBlob THEN <<>> ELSE <<p.readme>>
  <1>1. /\ p.id \in Ids /\ p.before \in Seq(Blobs) /\ p.after \in Seq(Blobs)
        /\ p.readme \in Blobs \cup {NoBlob}
    BY MarketAssumption
  <1>2. mid \in Seq(Blobs) /\ {p.readme} \ {NoBlob} \subseteq ToSet(mid)
    BY <1>1 DEF ToSet
  <1> HIDE DEF mid
  <1>3. p.before \o mid \in Seq(Blobs) /\ ToSet(p.before \o mid) = ToSet(p.before) \cup ToSet(mid)
    BY <1>1, <1>2, ConcatType
  <1>4. /\ Puts(p) \in Seq(Blobs)
        /\ ToSet(Puts(p)) = ToSet(p.before) \cup ToSet(mid) \cup ToSet(p.after)
    <2>1. Puts(p) = (p.before \o mid) \o p.after
      BY Zenon DEF Puts, mid
    <2> DEFINE pre == p.before \o mid
    <2> HIDE DEF pre
    <2>2. pre \in Seq(Blobs) /\ ToSet(pre) = ToSet(p.before) \cup ToSet(mid)
      BY <1>3 DEF pre
    <2>3. pre \o p.after \in Seq(Blobs) /\ ToSet(pre \o p.after) = ToSet(pre) \cup ToSet(p.after)
      BY <1>1, <2>2, ConcatType
    <2> QED
      BY <2>1, <2>2, <2>3 DEF pre
  <1>5. /\ p.before \o p.after \in Seq(Blobs)
        /\ ToSet(p.before \o p.after) = ToSet(p.before) \cup ToSet(p.after)
    BY <1>1, ConcatType
  <1>6. ToSet(p.before \o p.after) \subseteq Blobs
    BY <1>1, RangeType, <1>5
  <1>7. EntryOf(p) \in Entry
    BY <1>1, <1>6 DEF EntryOf, Entry
  <1> QED
    BY <1>1, <1>2, <1>4, <1>5, <1>7 DEF EntryOf, BlobsOf

-----------------------------------------------------------------------------
LEMMA IdleType == Idle \in Request
  BY EmptySeq DEF Idle, Request

(* A step that lets one request answer and leaves the others as they are.   *)
LEMMA AnswerType ==
  ASSUME TypeInv, NEW r \in Reqs, Answer(r)
  PROVE  /\ req' \in [Reqs -> Request]
         /\ lock' \in [{"probes", "schemas"} -> Reqs \cup {Nobody}]
         /\ Busy'
  <1>1. /\ req' \in [Reqs -> Request]
        /\ \A g \in Reqs : req'[g] = IF g = r THEN Idle ELSE req[g]
    BY IdleType DEF TypeInv, TypeOK, Answer
  <1>2. lock' \in [{"probes", "schemas"} -> Reqs \cup {Nobody}]
    BY DEF TypeInv, TypeOK, Answer
  <1>3. Busy'
    BY <1>1 DEF TypeInv, Busy, Idle
  <1> QED
    BY <1>1, <1>2, <1>3

LEMMA UpsertType ==
  ASSUME TypeInv, NEW r \in Reqs, NEW id \in Ids, NEW e \in Entry, Upsert(r, id, e),
         UNCHANGED <<files, hurt>>
  PROVE  TypeInv'
  <1>1. mem' \in [Ids -> Entry \cup {NoEntry}]
    BY DEF TypeInv, TypeOK, Upsert
  <1>2. disk' \in [Ids -> Entry \cup {NoEntry}] /\ unsaved' \subseteq Ids
    BY <1>1 DEF TypeInv, TypeOK, Upsert
  <1>3. faults' \in 0 .. MaxFaults
    BY MarketAssumption DEF TypeInv, TypeOK, Upsert, Fault
  <1>4. Answer(r)
    BY DEF Upsert
  <1> QED
    BY <1>1, <1>2, <1>3, <1>4, AnswerType DEF TypeInv, TypeOK

(* A step that only moves request r on, keeping its id and entry.           *)
Moved(r, s, q, f) ==
    /\ req' \in [Reqs -> Request]
    /\ \A g \in Reqs \ {r} : req'[g] = req[g]
    /\ req'[r].pc = s /\ req'[r].puts = q /\ req'[r].fd = f
    /\ req'[r].id = req[r].id /\ req'[r].entry = req[r].entry /\ req'[r].op = req[r].op

LEMMA MovedBusy ==
  ASSUME TypeInv, NEW r \in Reqs, NEW s, NEW q, NEW f, Moved(r, s, q, f), req[r].pc # "idle",
         s \in {"create", "write", "rename"} => q # <<>>
  PROVE  Busy'
  BY DEF Moved, TypeInv, Busy

LEMMA NextPutMoves ==
  ASSUME TypeInv, NEW r \in Reqs, req[r].puts # <<>>, NextPut(r)
  PROVE  Moved(r, "put", Tail(req[r].puts), req[r].fd)
  <1>1. Tail(req[r].puts) \in Seq(Blobs)
    BY HeadTail DEF TypeInv, TypeOK, Request
  <1>2. req' = [req EXCEPT ![r] = [req[r] EXCEPT !.puts = Tail(req[r].puts), !.pc = "put"]]
    BY DEF NextPut, TypeInv, TypeOK
  <1> QED
    BY <1>1, <1>2 DEF Moved, TypeInv, TypeOK, Request

LEMMA CreateMoves ==
  ASSUME TypeInv, NEW r \in Reqs, CreateTmp(r)
  PROVE  Moved(r, "write", req[r].puts, "tmp")
  <1>1. req' = [req EXCEPT ![r] = [req[r] EXCEPT !.pc = "write", !.fd = "tmp"]]
    BY DEF CreateTmp, TypeInv, TypeOK
  <1> QED
    BY <1>1 DEF Moved, TypeInv, TypeOK, Request

LEMMA WriteMoves ==
  ASSUME TypeInv, NEW r \in Reqs, WriteAll(r)
  PROVE  Moved(r, "rename", req[r].puts, "none")
  <1>1. req' = [req EXCEPT ![r] = [req[r] EXCEPT !.pc = "rename", !.fd = "none"]]
    BY DEF WriteAll, TypeInv, TypeOK
  <1> QED
    BY <1>1 DEF Moved, TypeInv, TypeOK, Request

LEMMA GoMoves ==
  ASSUME TypeInv, NEW r \in Reqs, NEW s \in {"put", "create"}, Go(r, s)
  PROVE  Moved(r, s, req[r].puts, req[r].fd)
  BY DEF Moved, TypeInv, TypeOK, Request

(* Type correctness: in Marketplace, whatever requests run concurrently and *)
(* however writes fail, the catalogs, the blob files and the requests keep  *)
(* their types, and a request that is under way knows its entry and what it *)
(* has still to put.                                                        *)
THEOREM MarketTypes == Spec => []TypeInv
  <1>1. Init => TypeInv
    BY IdleType, MarketAssumption DEF Init, TypeInv, TypeOK, Busy, Idle, File
  <1>2. TypeInv /\ [Next]_vars => TypeInv'
    <2> SUFFICES ASSUME TypeInv, [Next]_vars PROVE TypeInv'
      OBVIOUS
    <2>1. CASE UNCHANGED vars
      BY <2>1 DEF vars, TypeInv, TypeOK, Busy
    <2>2. CASE Restart
      <3>1. \A r \in Reqs : req'[r] = Idle /\ req' \in [Reqs -> Request]
        BY <2>2, IdleType DEF Restart
      <3>2. \A r \in Reqs : At(r, "write") => Blob(r) \in Blobs
        BY HeadTail DEF TypeInv, TypeOK, Busy, Blob, Request
      <3>3. hurt' \subseteq Blobs
        BY <2>2, <3>2 DEF Restart, TypeInv, TypeOK
      <3> QED
        BY <2>2, <3>1, <3>3, IdleType, MarketAssumption
        DEF Restart, Fault, TypeInv, TypeOK, Busy, Idle
    <2>3. ASSUME NEW r \in Reqs, NEW p \in Publications, Publish(r, p) PROVE TypeInv'
      <3> DEFINE new == [pc |-> IF p.id \in Probes THEN "build" ELSE "put", op |-> "publish",
                         id |-> p.id, puts |-> Puts(p), entry |-> EntryOf(p), fd |-> "none"]
      <3>1. new \in Request /\ new.id \in Ids /\ new.entry \in Entry /\ new.pc \in {"build", "put"}
        BY PutsCover DEF Request
      <3>2. req' = [req EXCEPT ![r] = new]
        BY <2>3 DEF Publish, EntryOf
      <3> HIDE DEF new
      <3> QED
        BY <2>3, <3>1, <3>2 DEF Publish, TypeInv, TypeOK, Busy
    <2>4. ASSUME NEW r \in Reqs, Build(r) PROVE TypeInv'
      <3>1. CASE Answer(r)
        BY <2>4, <3>1, AnswerType DEF Build, TypeInv, TypeOK
      <3>2. CASE Go(r, "put") /\ UNCHANGED lock
        BY <2>4, <3>2, GoMoves, MovedBusy DEF Build, Moved, TypeInv, TypeOK
      <3> QED
        BY <2>4, <3>1, <3>2 DEF Build
    <2>5. ASSUME NEW r \in Reqs, CheckExists(r) PROVE TypeInv'
      <3>1. CASE NextPut(r)
        <4>1. Moved(r, "put", Tail(req[r].puts), req[r].fd)
          BY <2>5, <3>1, NextPutMoves DEF CheckExists
        <4>2. Busy'
          BY <2>5, <4>1, MovedBusy DEF CheckExists
        <4> QED
          BY <2>5, <4>1, <4>2 DEF CheckExists, Moved, TypeInv, TypeOK
      <3>2. CASE Go(r, "create")
        <4>1. Moved(r, "create", req[r].puts, req[r].fd)
          BY <3>2, GoMoves
        <4>2. Busy'
          BY <2>5, <4>1, MovedBusy DEF CheckExists
        <4> QED
          BY <2>5, <4>1, <4>2 DEF CheckExists, Moved, TypeInv, TypeOK
      <3> QED
        BY <2>5, <3>1, <3>2 DEF CheckExists
    <2>6. ASSUME NEW r \in Reqs, CreateTmp(r) PROVE TypeInv'
      <3>1. Moved(r, "write", req[r].puts, "tmp")
        BY <2>6, CreateMoves
      <3>2. Busy'
        BY <2>6, <3>1, MovedBusy DEF CreateTmp, TypeInv, Busy
      <3>3. tmp' \in [Blobs -> File]
        BY <2>6 DEF CreateTmp, TypeInv, TypeOK, File
      <3> QED
        BY <2>6, <3>1, <3>2, <3>3 DEF CreateTmp, Moved, TypeInv, TypeOK
    <2>7. ASSUME NEW r \in Reqs, WriteAll(r) PROVE TypeInv'
      <3>1. tmp' \in [Blobs -> File] /\ path' \in [Blobs -> File]
        BY <2>7 DEF WriteAll, Filled, TypeInv, TypeOK, File
      <3>2. Moved(r, "rename", req[r].puts, "none")
        BY <2>7, WriteMoves
      <3>3. Busy'
        BY <2>7, <3>2, MovedBusy DEF WriteAll, TypeInv, Busy
      <3> QED
        BY <2>7, <3>1, <3>2, <3>3 DEF WriteAll, Moved, TypeInv, TypeOK
    <2>8. ASSUME NEW r \in Reqs, WriteFails(r) PROVE TypeInv'
      <3>1. tmp' \in [Blobs -> File] /\ path' \in [Blobs -> File]
        BY <2>8 DEF WriteFails, Filled, TypeInv, TypeOK, File
      <3>2. Blob(r) \in Blobs
        BY <2>8, HeadTail DEF WriteFails, TypeInv, TypeOK, Busy, Blob, Request
      <3>3. Answer(r)
        BY <2>8 DEF WriteFails
      <3> QED
        BY <2>8, <3>1, <3>2, <3>3, AnswerType, MarketAssumption DEF WriteFails, Fault, TypeInv, TypeOK
    <2>9. ASSUME NEW r \in Reqs, Rename(r) PROVE TypeInv'
      <3>1. CASE tmp[Blob(r)] = "none"
        BY <2>9, <3>1, AnswerType DEF Rename, TypeInv, TypeOK
      <3>2. CASE tmp[Blob(r)] # "none"
        <4>1. Blob(r) \in Blobs /\ Tail(req[r].puts) \in Seq(Blobs)
          BY <2>9, HeadTail DEF Rename, TypeInv, TypeOK, Busy, Blob, Request
        <4>2. /\ tmp' \in [Blobs -> File] /\ path' \in [Blobs -> File]
              /\ req' = [g \in Reqs |-> IF g = r THEN [req[r] EXCEPT !.puts = Tail(@), !.pc = "put"]
                                        ELSE Followed(g, Blob(r))]
              /\ UNCHANGED lock /\ UNCHANGED <<catalog, hurt, faults>>
          BY <2>9, <3>2, <4>1 DEF Rename, TypeInv, TypeOK, File
        <4>3. ASSUME NEW g \in Reqs, g # r
              PROVE  /\ req'[g] \in Request
                     /\ req'[g].pc = req[g].pc /\ req'[g].puts = req[g].puts
                     /\ req'[g].id = req[g].id /\ req'[g].entry = req[g].entry
          BY <4>2, <4>3 DEF Followed, TypeInv, TypeOK, Request
        <4>4. /\ req'[r] \in Request /\ req'[r].pc = "put"
              /\ req'[r].id = req[r].id /\ req'[r].entry = req[r].entry
          BY <4>1, <4>2 DEF TypeInv, TypeOK, Request
        <4>5. req' \in [Reqs -> Request]
          BY <4>2, <4>3, <4>4
        <4>6. req[r].pc = "rename"
          BY <2>9 DEF Rename
        <4> QED
          BY <4>2, <4>3, <4>4, <4>5, <4>6 DEF TypeInv, TypeOK, Busy
      <3> QED
        BY <3>1, <3>2
    <2>10. ASSUME NEW r \in Reqs, PutsDone(r) PROVE TypeInv'
      <3>1. req[r].id \in Ids /\ req[r].entry \in Entry
        BY <2>10 DEF PutsDone, TypeInv, Busy
      <3> QED
        BY <2>10, <3>1, UpsertType DEF PutsDone
    <2>11. ASSUME NEW r \in Reqs, NEW id \in Ids, NEW rd \in Readmes \cup {NoBlob}, Patch(r, id, rd)
           PROVE  TypeInv'
      <3> DEFINE new == [Idle EXCEPT !.pc = "put", !.op = "patch", !.id = id,
                           !.puts = IF rd = NoBlob THEN <<>> ELSE <<rd>>,
                           !.entry = [mem[id] EXCEPT !.readme = rd]]
      <3>1. mem[id] \in Entry /\ rd \in Blobs \cup {NoBlob}
        BY <2>11, MarketAssumption DEF Patch, TypeInv, TypeOK
      <3>2. [mem[id] EXCEPT !.readme = rd] \in Entry
        BY <3>1 DEF Entry
      <3>3. (IF rd = NoBlob THEN <<>> ELSE <<rd>>) \in Seq(Blobs)
        BY <3>1
      <3>4. new \in Request /\ new.id \in Ids /\ new.entry \in Entry /\ new.pc = "put"
        BY <3>2, <3>3 DEF Request, Idle
      <3>5. req' = [req EXCEPT ![r] = new]
        BY <2>11 DEF Patch
      <3> HIDE DEF new
      <3>6. lock' \in [{"probes", "schemas"} -> Reqs \cup {Nobody}]
        BY <2>11 DEF Patch, TypeInv, TypeOK
      <3> QED
        BY <2>11, <3>4, <3>5, <3>6 DEF Patch, TypeInv, TypeOK, Busy
    <2>12. ASSUME NEW r \in Reqs, NEW id \in Ids, PatchDescription(r, id) PROVE TypeInv'
      <3>1. mem[id] \in Entry
        BY <2>12 DEF PatchDescription, TypeInv, TypeOK
      <3> QED
        BY <2>12, <3>1, UpsertType DEF PatchDescription
    <2>13. ASSUME NEW r \in Reqs, NEW id \in Ids, Yank(r, id) PROVE TypeInv'
      <3>1. mem[id] \in Entry
        BY <2>13 DEF Yank, Live, TypeInv, TypeOK
      <3>2. [mem[id] EXCEPT !.yanked = TRUE] \in Entry
        BY <3>1 DEF Entry
      <3> QED
        BY <2>13, <3>2, UpsertType DEF Yank
    <2>14. ASSUME NEW r \in Reqs, PutFails(r) PROVE TypeInv'
      BY <2>14, AnswerType, MarketAssumption DEF PutFails, Fault, TypeInv, TypeOK
    <2> QED
      BY <2>1, <2>2, <2>3, <2>4, <2>5, <2>6, <2>7, <2>8, <2>9, <2>10, <2>11, <2>12, <2>13, <2>14
         DEF Next
  <1> QED
    BY <1>1, <1>2, PTL DEF Spec

-----------------------------------------------------------------------------
(* In Marketplace an answer of success means the catalog file has the       *)
(* change: memory and file only differ where the last flush failed, so a    *)
(* restart takes back nothing that was acknowledged.                        *)
THEOREM Saved == Spec => []AnsweredIsSaved
  <1>1. Init => AnsweredIsSaved
    BY DEF Init, AnsweredIsSaved
  <1>2. TypeInv /\ AnsweredIsSaved /\ [Next]_vars => AnsweredIsSaved'
    <2> SUFFICES ASSUME TypeInv, AnsweredIsSaved, [Next]_vars PROVE AnsweredIsSaved'
      OBVIOUS
    <2>1. CASE UNCHANGED catalog
      BY <2>1 DEF AnsweredIsSaved
    <2>2. CASE Restart
      BY <2>2 DEF Restart, AnsweredIsSaved
    <2>3. ASSUME NEW r \in Reqs, NEW id \in Ids, NEW e, Upsert(r, id, e) PROVE AnsweredIsSaved'
      BY <2>3 DEF Upsert, AnsweredIsSaved, TypeInv, TypeOK
    <2>4. ASSUME NEW r \in Reqs, PutsDone(r) PROVE AnsweredIsSaved'
      <3>1. req[r].id \in Ids
        BY <2>4 DEF PutsDone, TypeInv, Busy
      <3> QED
        BY <2>3, <2>4, <3>1 DEF PutsDone
    <2>5. ASSUME NEW r \in Reqs, NEW id \in Ids, PatchDescription(r, id) \/ Yank(r, id)
          PROVE  AnsweredIsSaved'
      BY <2>3, <2>5 DEF PatchDescription, Yank
    <2>6. ASSUME NEW r \in Reqs,
                 \/ \E p \in Publications : Publish(r, p)
                 \/ Build(r) \/ CheckExists(r) \/ CreateTmp(r) \/ WriteAll(r) \/ WriteFails(r)
                 \/ Rename(r) \/ PutFails(r)
                 \/ \E id \in Ids, rd \in Readmes \cup {NoBlob} : Patch(r, id, rd)
          PROVE  UNCHANGED catalog
      BY <2>6 DEF Publish, Build, CheckExists, CreateTmp, WriteAll, WriteFails, Rename, PutFails, Patch
    <2>7. CASE UNCHANGED vars
      BY <2>1, <2>7 DEF vars
    <2> QED
      BY <2>1, <2>2, <2>4, <2>5, <2>6, <2>7 DEF Next
  <1> QED
    BY <1>1, <1>2, MarketTypes, PTL DEF Spec

-----------------------------------------------------------------------------
(* What a request will upsert is stored or still on its list.               *)
Covered(r) ==
    req[r].pc # "idle" =>
        \A b \in BlobsOf(req[r].entry) : path[b] # "none" \/ b \in ToSet(req[r].puts)

CoverInv == BlobsPreserved /\ \A r \in Reqs : Covered(r)

Kept == \A b \in Blobs : path[b] # "none" => path'[b] # "none"

LEMMA BlobType ==
  ASSUME TypeInv, NEW r \in Reqs, req[r].pc \in {"create", "write", "rename"}
  PROVE  Blob(r) \in Blobs
  BY HeadTail DEF TypeInv, TypeOK, Busy, Blob, Request

LEMMA BlobsOfType ==
  ASSUME NEW e \in Entry PROVE BlobsOf(e) \subseteq Blobs
  BY DEF BlobsOf, Entry

(* A blob file is replaced but never removed.                               *)
LEMMA PathKept ==
  ASSUME TypeInv, [Next]_vars PROVE Kept
  <1>1. CASE UNCHANGED path
    BY <1>1 DEF Kept
  <1>2. ASSUME NEW r \in Reqs, WriteAll(r) PROVE Kept
    BY <1>2 DEF WriteAll, Filled, Kept, TypeInv, TypeOK
  <1>3. ASSUME NEW r \in Reqs, WriteFails(r) PROVE Kept
    BY <1>3 DEF WriteFails, Filled, Kept, TypeInv, TypeOK
  <1>4. ASSUME NEW r \in Reqs, Rename(r) PROVE Kept
    BY <1>4 DEF Rename, Kept, TypeInv, TypeOK
  <1>5. ASSUME NEW r \in Reqs,
               \/ \E p \in Publications : Publish(r, p)
               \/ Build(r) \/ CheckExists(r) \/ CreateTmp(r) \/ PutFails(r) \/ PutsDone(r)
               \/ \E id \in Ids, rd \in Readmes \cup {NoBlob} : Patch(r, id, rd)
               \/ \E id \in Ids : PatchDescription(r, id) \/ Yank(r, id)
        PROVE  UNCHANGED path
    BY <1>5 DEF Publish, Build, CheckExists, CreateTmp, PutFails, PutsDone, Patch, PatchDescription, Yank
  <1>6. CASE Restart \/ UNCHANGED vars
    BY <1>1, <1>6 DEF Restart, vars
  <1> QED
    BY <1>1, <1>2, <1>3, <1>4, <1>5, <1>6 DEF Next

(* A request that keeps its entry and its list stays covered.               *)
LEMMA CoveredKept ==
  ASSUME TypeInv, TypeInv', Kept, NEW g \in Reqs, Covered(g),
         \/ req'[g].pc = "idle"
         \/ req[g].pc # "idle" /\ req'[g].entry = req[g].entry /\ req'[g].puts = req[g].puts
  PROVE  Covered(g)'
  <1>1. req[g].pc # "idle" => BlobsOf(req[g].entry) \subseteq Blobs
    BY BlobsOfType DEF TypeInv, Busy
  <1> QED
    BY <1>1 DEF Covered, Kept

(* The catalogs stay as they are.                                           *)
LEMMA PreservedKept ==
  ASSUME TypeInv, Kept, BlobsPreserved, UNCHANGED <<mem, disk>>
  PROVE  BlobsPreserved'
  <1>1. \A id \in Ids : \A e \in {mem[id], disk[id]} \ {NoEntry} : BlobsOf(e) \subseteq Blobs
    BY BlobsOfType DEF TypeInv, TypeOK
  <1> QED
    BY <1>1 DEF BlobsPreserved, Kept

LEMMA UpsertCovered ==
  ASSUME TypeInv, TypeInv', Kept, CoverInv, NEW r \in Reqs, NEW id \in Ids, NEW e \in Entry,
         Upsert(r, id, e), \A b \in BlobsOf(e) : path[b] # "none"
  PROVE  CoverInv'
  <1>1. ASSUME NEW i \in Ids, NEW x \in {mem'[i], disk'[i]} \ {NoEntry}, NEW b \in BlobsOf(x)
        PROVE  path'[b] # "none"
    <2>1. x \in {e, mem[i], disk[i]}
      BY DEF Upsert, TypeInv, TypeOK
    <2>2. x \in Entry
      BY DEF TypeInv, TypeOK
    <2>3. path[b] # "none"
      BY <2>1 DEF CoverInv, BlobsPreserved
    <2>4. b \in Blobs
      BY <2>2, BlobsOfType
    <2> QED
      BY <2>3, <2>4 DEF Kept
  <1>2. ASSUME NEW g \in Reqs PROVE Covered(g)'
    <2>1. req'[g] = IF g = r THEN Idle ELSE req[g]
      BY DEF Upsert, Answer, TypeInv, TypeOK
    <2>2. req'[g].pc = "idle" \/ (req'[g] = req[g] /\ req[g].pc # "idle")
      BY <2>1 DEF Idle
    <2> QED
      BY <2>2, CoveredKept DEF CoverInv
  <1> QED
    BY <1>1, <1>2 DEF CoverInv, BlobsPreserved

(* After a put of its next blob a request stays covered.                    *)
LEMMA PutCovered ==
  ASSUME TypeInv, TypeInv', Kept, NEW r \in Reqs, Covered(r), req[r].pc # "idle", req[r].puts # <<>>,
         req'[r].entry = req[r].entry, req'[r].puts = Tail(req[r].puts), path'[Blob(r)] # "none"
  PROVE  Covered(r)'
  <1>1. req[r].puts \in Seq(Blobs) /\ BlobsOf(req[r].entry) \subseteq Blobs
    BY BlobsOfType DEF TypeInv, TypeOK, Busy, Request
  <1>2. ASSUME NEW b \in BlobsOf(req[r].entry) PROVE path'[b] # "none" \/ b \in ToSet(req'[r].puts)
    <2>1. CASE path[b] # "none"
      BY <1>1, <2>1 DEF Kept
    <2>2. CASE b \in ToSet(req[r].puts)
      <3>1. PICK i \in DOMAIN req[r].puts : req[r].puts[i] = b
        BY <2>2 DEF ToSet
      <3>2. b = Head(req[r].puts) \/ \E k \in DOMAIN Tail(req[r].puts) : Tail(req[r].puts)[k] = b
        BY <1>1, <3>1, HeadTail
      <3> QED
        BY <3>2 DEF ToSet, Blob
    <2> QED
      BY <2>1, <2>2 DEF Covered
  <1> QED
    BY <1>2 DEF Covered

(* In Marketplace every blob that an entry names, in memory or in the       *)
(* catalog file, has a file in the blob store, forever: yanked entries      *)
(* still resolve.                                                           *)
THEOREM BlobsKept == Spec => []BlobsPreserved
  <1>1. Init => CoverInv
    BY DEF Init, CoverInv, Covered, BlobsPreserved, Idle
  <1>2. TypeInv /\ TypeInv' /\ CoverInv /\ [Next]_vars => CoverInv'
    <2> SUFFICES ASSUME TypeInv, TypeInv', CoverInv, [Next]_vars PROVE CoverInv'
      OBVIOUS
    <2> USE PathKept
    <2>0. Kept
      OBVIOUS
    <2>1. CASE UNCHANGED vars
      BY <2>1, <2>0, PreservedKept DEF vars, CoverInv, Covered
    <2>2. CASE Restart
      <3>1. \A r \in Reqs : req'[r] = Idle
        BY <2>2 DEF Restart
      <3> QED
        BY <2>2, <3>1 DEF Restart, CoverInv, Covered, Idle, BlobsPreserved
    <2>3. ASSUME NEW r \in Reqs, NEW p \in Publications, Publish(r, p) PROVE CoverInv'
      <3>1. /\ req'[r].entry = EntryOf(p) /\ req'[r].puts = Puts(p)
            /\ \A g \in Reqs \ {r} : req'[g] = req[g]
        BY <2>3 DEF Publish, EntryOf, TypeInv, TypeOK
      <3>2. Covered(r)'
        BY <3>1, PutsCover DEF Covered
      <3>3. \A g \in Reqs \ {r} : Covered(g)'
        BY <2>0, <3>1, CoveredKept DEF CoverInv
      <3> QED
        BY <2>0, <2>3, <3>2, <3>3, PreservedKept DEF Publish, CoverInv
    <2>4. ASSUME NEW r \in Reqs,
                 \/ Build(r) \/ CreateTmp(r) \/ WriteAll(r) \/ WriteFails(r) \/ PutFails(r)
                 \/ CheckExists(r) /\ Go(r, "create")
                 \/ Rename(r) /\ Answer(r)
          PROVE  CoverInv'
      <3>1. ASSUME NEW g \in Reqs
            PROVE  \/ req'[g].pc = "idle"
                   \/ req[g].pc # "idle" /\ req'[g].entry = req[g].entry /\ req'[g].puts = req[g].puts
        <4>1. CASE Answer(r)
          BY <4>1 DEF Answer, Idle, TypeInv, TypeOK
        <4>2. CASE (Build(r) /\ Go(r, "put")) \/ (CheckExists(r) /\ Go(r, "create"))
          <5>1. req[r].pc # "idle" /\ \E s \in {"put", "create"} : Moved(r, s, req[r].puts, req[r].fd)
            BY <4>2, GoMoves DEF Build, CheckExists
          <5> QED
            BY <5>1 DEF Moved
        <4>3. CASE CreateTmp(r) \/ WriteAll(r)
          BY <4>3, CreateMoves, WriteMoves DEF Moved, CreateTmp, WriteAll
        <4> QED
          BY <2>4, <4>1, <4>2, <4>3 DEF Build, WriteFails, PutFails
      <3>2. UNCHANGED <<mem, disk>>
        BY <2>4 DEF Build, CreateTmp, WriteAll, WriteFails, PutFails, CheckExists, Rename
      <3> QED
        BY <2>0, <3>1, <3>2, CoveredKept, PreservedKept DEF CoverInv
    <2>5. ASSUME NEW r \in Reqs, CheckExists(r), NextPut(r) PROVE CoverInv'
      <3>1. Moved(r, "put", Tail(req[r].puts), req[r].fd)
        BY <2>5, NextPutMoves DEF CheckExists
      <3>2. path'[Blob(r)] # "none"
        <4>1. path[Blob(r)] # "none" \/ (NextPut(r) /\ Go(r, "create"))
          BY <2>5 DEF CheckExists, Stored
        <4>2. ~(NextPut(r) /\ Go(r, "create"))
          BY <3>1, GoMoves DEF Moved
        <4> QED
          BY <2>5, <4>1, <4>2 DEF CheckExists
      <3>3. Covered(r)'
        BY <2>0, <2>5, <3>1, <3>2, PutCovered DEF CheckExists, CoverInv, Moved
      <3>4. \A g \in Reqs \ {r} : Covered(g)'
        BY <2>0, <3>1, CoveredKept DEF CoverInv, Moved
      <3> QED
        BY <2>0, <2>5, <3>3, <3>4, PreservedKept DEF CheckExists, CoverInv
    <2>6. ASSUME NEW r \in Reqs, Rename(r), ~Answer(r) PROVE CoverInv'
      <3>1. Blob(r) \in Blobs /\ req[r].puts # <<>> /\ req[r].pc = "rename"
        BY <2>6, BlobType DEF Rename, TypeInv, Busy
      <3>2. /\ tmp[Blob(r)] # "none" /\ path' = [path EXCEPT ![Blob(r)] = tmp[Blob(r)]]
            /\ req' = [g \in Reqs |-> IF g = r THEN [req[r] EXCEPT !.puts = Tail(@), !.pc = "put"]
                                      ELSE Followed(g, Blob(r))]
        BY <2>6 DEF Rename
      <3>3. path'[Blob(r)] # "none"
        BY <3>1, <3>2 DEF TypeInv, TypeOK
      <3>4. req'[r].entry = req[r].entry /\ req'[r].puts = Tail(req[r].puts)
        <4>1. req'[r] = [req[r] EXCEPT !.puts = Tail(req[r].puts), !.pc = "put"]
          BY <3>2
        <4>2. req[r] \in Request
          BY DEF TypeInv, TypeOK
        <4> QED
          BY <4>1, <4>2 DEF Request
      <3>5. ASSUME NEW g \in Reqs \ {r}
            PROVE  req'[g].entry = req[g].entry /\ req'[g].puts = req[g].puts /\ req'[g].pc = req[g].pc
        BY <3>2 DEF Followed, TypeInv, TypeOK, Request
      <3>6. Covered(r)'
        BY <2>0, <3>1, <3>3, <3>4, PutCovered DEF CoverInv
      <3>7. \A g \in Reqs \ {r} : Covered(g)'
        BY <2>0, <3>5, CoveredKept DEF CoverInv
      <3> QED
        BY <2>0, <2>6, <3>6, <3>7, PreservedKept DEF Rename, CoverInv
    <2>7. ASSUME NEW r \in Reqs, PutsDone(r) PROVE CoverInv'
      <3>1. req[r].id \in Ids /\ req[r].entry \in Entry /\ req[r].puts = <<>> /\ Covered(r)
        BY <2>7 DEF PutsDone, TypeInv, Busy, CoverInv
      <3>2. \A b \in BlobsOf(req[r].entry) : path[b] # "none"
        BY <2>7, <3>1 DEF PutsDone, Covered, ToSet
      <3> QED
        BY <2>0, <2>7, <3>1, <3>2, UpsertCovered DEF PutsDone
    <2>8. ASSUME NEW r \in Reqs, NEW id \in Ids, NEW rd \in Readmes \cup {NoBlob}, Patch(r, id, rd)
          PROVE  CoverInv'
      <3>1. /\ mem[id] \in Entry /\ mem[id] # NoEntry
            /\ req'[r].entry = [mem[id] EXCEPT !.readme = rd]
            /\ req'[r].puts = IF rd = NoBlob THEN <<>> ELSE <<rd>>
            /\ \A g \in Reqs \ {r} : req'[g] = req[g]
        BY <2>8 DEF Patch, Idle, TypeInv, TypeOK
      <3>2. BlobsOf(req'[r].entry) = mem[id].core \cup ({rd} \ {NoBlob})
        BY <3>1 DEF BlobsOf, Entry
      <3>3. {rd} \ {NoBlob} \subseteq ToSet(req'[r].puts)
        BY <3>1 DEF ToSet
      <3>4. \A b \in mem[id].core : path'[b] # "none"
        BY <2>8, <3>1 DEF Patch, CoverInv, BlobsPreserved, BlobsOf
      <3>5. Covered(r)'
        BY <3>2, <3>3, <3>4 DEF Covered
      <3>6. \A g \in Reqs \ {r} : Covered(g)'
        BY <2>0, <3>1, CoveredKept DEF CoverInv
      <3> QED
        BY <2>0, <2>8, <3>5, <3>6, PreservedKept DEF Patch, CoverInv
    <2>9. ASSUME NEW r \in Reqs, NEW id \in Ids, PatchDescription(r, id) \/ Yank(r, id) PROVE CoverInv'
      <3>1. mem[id] \in Entry /\ mem[id] # NoEntry
        BY <2>9 DEF PatchDescription, Yank, Live, TypeInv, TypeOK
      <3>2. \A b \in BlobsOf(mem[id]) : path[b] # "none"
        BY <3>1 DEF CoverInv, BlobsPreserved
      <3>3. /\ [mem[id] EXCEPT !.yanked = TRUE] \in Entry
            /\ BlobsOf([mem[id] EXCEPT !.yanked = TRUE]) = BlobsOf(mem[id])
        BY <3>1 DEF Entry, BlobsOf
      <3> QED
        BY <2>0, <2>9, <3>1, <3>2, <3>3, UpsertCovered DEF PatchDescription, Yank
    <2> QED
      BY <2>1, <2>2, <2>3, <2>4, <2>5, <2>6, <2>7, <2>8, <2>9 DEF Next, CheckExists
  <1>3. CoverInv => BlobsPreserved
    BY DEF CoverInv
  <1> QED
    BY <1>1, <1>2, <1>3, MarketTypes, PTL DEF Spec

-----------------------------------------------------------------------------
(* A file, under either of its two names, that is not whole has a request   *)
(* that will fill it, or had one that died.                                 *)
Writes(b, f) == \E r \in Reqs : At(r, "write") /\ Blob(r) = b /\ req[r].fd = f

WholeInv ==
    \A b \in Blobs :
        /\ path[b] \in {"none", "whole"} \/ b \in hurt \/ Writes(b, "path")
        /\ tmp[b] \in {"none", "whole"} \/ b \in hurt \/ Writes(b, "tmp")

LEMMA WholeKept ==
  ASSUME WholeInv, UNCHANGED <<path, tmp>>, hurt \subseteq hurt',
         \A g \in Reqs : req[g].pc = "write" => req'[g] = req[g]
  PROVE  WholeInv'
  BY DEF WholeInv, Writes, Blob

(* In Marketplace, however many requests store the same bytes through the   *)
(* same tmp file, a blob that an entry names is whole, unless a request has *)
(* yet to write it or has died before it did.                               *)
THEOREM BlobsWhole == Spec => []PublishedBlobsWhole
  <1>1. Init => WholeInv
    BY DEF Init, WholeInv
  <1>2. TypeInv /\ TypeInv' /\ WholeInv /\ [Next]_vars => WholeInv'
    <2> SUFFICES ASSUME TypeInv, TypeInv', WholeInv, [Next]_vars PROVE WholeInv'
      OBVIOUS
    <2>1. CASE UNCHANGED vars
      BY <2>1, WholeKept DEF vars
    <2>2. CASE Restart
      <3>1. ASSUME NEW b \in Blobs, NEW f, Writes(b, f) PROVE b \in hurt'
        BY <2>2, <3>1 DEF Restart, Writes
      <3> QED
        BY <2>2, <3>1 DEF Restart, WholeInv
    <2>3. ASSUME NEW r \in Reqs, Answer(r), req[r].pc # "write", UNCHANGED <<path, tmp>>, UNCHANGED hurt
          PROVE  WholeInv'
      <3>1. \A g \in Reqs : req[g].pc = "write" => req'[g] = req[g]
        BY <2>3 DEF Answer, TypeInv, TypeOK
      <3> QED
        BY <2>3, <3>1, WholeKept
    <2>4. ASSUME NEW r \in Reqs,
                 \/ \E p \in Publications : Publish(r, p)
                 \/ Build(r) /\ Go(r, "put")
                 \/ CheckExists(r)
                 \/ \E id \in Ids, rd \in Readmes \cup {NoBlob} : Patch(r, id, rd)
          PROVE  WholeInv'
      <3>1. UNCHANGED <<path, tmp>> /\ UNCHANGED hurt
        BY <2>4 DEF Publish, Build, CheckExists, Patch
      <3>2. \A g \in Reqs : req[g].pc = "write" => req'[g] = req[g]
        BY <2>4 DEF Publish, Build, CheckExists, NextPut, Patch, TypeInv, TypeOK
      <3> QED
        BY <3>1, <3>2, WholeKept
    <2>5. ASSUME NEW r \in Reqs, CreateTmp(r) PROVE WholeInv'
      <3>1. Moved(r, "write", req[r].puts, "tmp") /\ Blob(r) \in Blobs /\ req[r].pc = "create"
        BY <2>5, CreateMoves, BlobType DEF CreateTmp
      <3>2. ASSUME NEW b \in Blobs, NEW f, Writes(b, f) PROVE Writes(b, f)'
        BY <3>1, <3>2 DEF Writes, Moved, Blob
      <3>3. ASSUME NEW b \in Blobs, b = Blob(r) PROVE Writes(b, "tmp")'
        BY <3>1, <3>3 DEF Writes, Moved, Blob
      <3>4. \A b \in Blobs : tmp'[b] = IF b = Blob(r) THEN "empty" ELSE tmp[b]
        BY <2>5 DEF CreateTmp, TypeInv, TypeOK
      <3> QED
        BY <2>5, <3>2, <3>3, <3>4 DEF WholeInv, CreateTmp
    <2>6. ASSUME NEW r \in Reqs, WriteAll(r) PROVE WholeInv'
      <3>1. Moved(r, "rename", req[r].puts, "none") /\ Blob(r) \in Blobs /\ req[r].pc = "write"
        BY <2>6, WriteMoves, BlobType DEF WriteAll
      <3>2. ASSUME NEW b \in Blobs, NEW f, Writes(b, f), b # Blob(r) \/ f # req[r].fd
            PROVE  Writes(b, f)'
        BY <3>1, <3>2 DEF Writes, Moved, Blob
      <3>3. ASSUME NEW b \in Blobs
            PROVE  /\ tmp'[b] = IF b = Blob(r) /\ req[r].fd = "tmp" THEN "whole" ELSE tmp[b]
                   /\ path'[b] = IF b = Blob(r) /\ req[r].fd = "path" THEN "whole" ELSE path[b]
        BY <2>6, <3>1 DEF WriteAll, Filled, TypeInv, TypeOK
      <3>4. UNCHANGED hurt
        BY <2>6 DEF WriteAll
      <3> QED
        BY <3>2, <3>3, <3>4 DEF WholeInv
    <2>7. ASSUME NEW r \in Reqs, WriteFails(r) PROVE WholeInv'
      <3>1. /\ hurt' = hurt \cup {Blob(r)} /\ Blob(r) \in Blobs
            /\ \A g \in Reqs \ {r} : req'[g] = req[g]
        BY <2>7, BlobType DEF WriteFails, Answer, TypeInv, TypeOK
      <3>2. ASSUME NEW b \in Blobs, b # Blob(r) PROVE tmp'[b] = tmp[b] /\ path'[b] = path[b]
        <4>1. PICK c \in {"empty", "part", "whole"} : Filled(r, c)
          BY <2>7 DEF WriteFails
        <4> QED
          BY <3>1, <3>2, <4>1 DEF Filled, TypeInv, TypeOK
      <3>3. ASSUME NEW b \in Blobs, NEW f, Writes(b, f), b # Blob(r) PROVE Writes(b, f)'
        BY <3>1, <3>3 DEF Writes, Blob
      <3> QED
        BY <3>1, <3>2, <3>3 DEF WholeInv
    <2>8. ASSUME NEW r \in Reqs, Rename(r), ~Answer(r) PROVE WholeInv'
      <3>1. Blob(r) \in Blobs /\ req[r].pc = "rename" /\ UNCHANGED hurt
        BY <2>8, BlobType DEF Rename
      <3>2. /\ path' = [path EXCEPT ![Blob(r)] = tmp[Blob(r)]]
            /\ tmp' = [tmp EXCEPT ![Blob(r)] = "none"]
            /\ \A g \in Reqs \ {r} : req'[g] = Followed(g, Blob(r))
        BY <2>8 DEF Rename
      <3>3. ASSUME NEW b \in Blobs, b # Blob(r), NEW f, Writes(b, f) PROVE Writes(b, f)'
        <4>1. PICK g \in Reqs : At(g, "write") /\ Blob(g) = b /\ req[g].fd = f
          BY <3>3 DEF Writes
        <4>2. g # r /\ req'[g] = req[g]
          BY <3>1, <3>2, <3>3, <4>1 DEF Followed
        <4> QED
          BY <4>1, <4>2 DEF Writes, Blob
      <3>4. ASSUME NEW b \in Blobs, b = Blob(r), Writes(b, "tmp") PROVE Writes(b, "path")'
        <4>1. PICK g \in Reqs : At(g, "write") /\ Blob(g) = b /\ req[g].fd = "tmp"
          BY <3>4 DEF Writes
        <4>2. g # r /\ req'[g] = [req[g] EXCEPT !.fd = "path"]
          BY <3>1, <3>2, <3>4, <4>1 DEF Followed
        <4>3. req'[g].pc = "write" /\ req'[g].puts = req[g].puts /\ req'[g].fd = "path"
          BY <4>1, <4>2 DEF TypeInv, TypeOK, Request
        <4> QED
          BY <4>1, <4>3 DEF Writes, Blob
      <3>5. ASSUME NEW b \in Blobs
            PROVE  /\ path'[b] = IF b = Blob(r) THEN tmp[b] ELSE path[b]
                   /\ tmp'[b] = IF b = Blob(r) THEN "none" ELSE tmp[b]
        BY <3>1, <3>2 DEF TypeInv, TypeOK
      <3> QED
        BY <3>1, <3>3, <3>4, <3>5 DEF WholeInv
    <2>9. ASSUME NEW r \in Reqs,
                 \/ Build(r) /\ Answer(r)
                 \/ Rename(r) /\ Answer(r)
                 \/ PutFails(r) \/ PutsDone(r)
                 \/ \E id \in Ids : PatchDescription(r, id) \/ Yank(r, id)
          PROVE  WholeInv'
      <3>1. /\ Answer(r) /\ req[r].pc # "write" /\ UNCHANGED hurt
            /\ ~(Rename(r) /\ Answer(r)) => UNCHANGED <<path, tmp>>
        BY <2>9 DEF Build, Rename, PutFails, PutsDone, PatchDescription, Yank, Upsert
      <3>2. CASE Rename(r) /\ Answer(r)
        <4>1. req'[r].pc = "idle"
          BY <3>2 DEF Answer, Idle, TypeInv, TypeOK
        <4>2. UNCHANGED <<path, tmp>>
          <5>1. ASSUME req'[r] = [req[r] EXCEPT !.puts = Tail(@), !.pc = "put"] PROVE FALSE
            BY <4>1, <5>1 DEF TypeInv, TypeOK, Request
          <5> QED
            BY <3>2, <5>1 DEF Rename
        <4> QED
          BY <2>3, <3>1, <4>2
      <3> QED
        BY <2>3, <3>1, <3>2
    <2> QED
      BY <2>1, <2>2, <2>4, <2>5, <2>6, <2>7, <2>8, <2>9 DEF Next, Build
  <1>3. TypeInv /\ WholeInv /\ BlobsPreserved => PublishedBlobsWhole
    <2> SUFFICES ASSUME TypeInv, WholeInv, BlobsPreserved,
                        NEW id \in Ids, NEW e \in {mem[id], disk[id]} \ {NoEntry}, NEW b \in BlobsOf(e)
                 PROVE  path[b] = "whole" \/ Writes(b, "path") \/ b \in hurt
      BY DEF PublishedBlobsWhole, Writes
    <2>1. b \in Blobs
      BY BlobsOfType DEF TypeInv, TypeOK
    <2>2. path[b] # "none"
      BY DEF BlobsPreserved
    <2> QED
      BY <2>1, <2>2 DEF WholeInv
  <1> QED
    BY <1>1, <1>2, <1>3, MarketTypes, BlobsKept, PTL DEF Spec

-----------------------------------------------------------------------------
(* Edits and yanks                                                          *)

(* A patch under way holds the mutex of its entry's catalog, so that the    *)
(* copy it will upsert is as yanked as the entry.                           *)
Current(r) ==
    req[r].pc # "idle" /\ req[r].op # "publish" =>
        /\ lock[Kind(req[r].id)] = r
        /\ mem[req[r].id] # NoEntry
        /\ req[r].entry.yanked = mem[req[r].id].yanked

EditInv == \A r \in Reqs : Current(r)

(* What keeps a request current: it answers, or nothing it relies on moves. *)
LEMMA CurrentKept ==
  ASSUME EditInv, NEW g \in Reqs,
         \/ req'[g].pc = "idle" \/ req'[g].op = "publish"
         \/ /\ req[g].pc # "idle" /\ req'[g].op = req[g].op /\ req'[g].id = req[g].id
            /\ req'[g].entry = req[g].entry
            /\ req[g].op # "publish" =>
                  /\ mem'[req[g].id] = mem[req[g].id]
                  /\ lock'[Kind(req[g].id)] = lock[Kind(req[g].id)]
         \/ req'[g] = req[g] /\ (req[g].pc # "idle" /\ req[g].op # "publish" =>
                  /\ mem'[req[g].id] = mem[req[g].id]
                  /\ lock'[Kind(req[g].id)] = lock[Kind(req[g].id)])
  PROVE  Current(g)'
  BY DEF EditInv, Current, Kind

LEMMA KindType == \A id : Kind(id) \in {"probes", "schemas"}
  BY DEF Kind

LEMMA AnswerCurrent ==
  ASSUME TypeInv, EditInv, NEW r \in Reqs, Answer(r), UNCHANGED mem
  PROVE  EditInv'
  <1>1. ASSUME NEW g \in Reqs PROVE Current(g)'
    <2>1. CASE g = r
      BY <2>1, CurrentKept DEF Answer, Idle, TypeInv, TypeOK
    <2>2. CASE g # r
      <3>1. req'[g] = req[g]
        BY <2>2 DEF Answer, TypeInv, TypeOK
      <3>2. req[g].pc # "idle" /\ req[g].op # "publish" =>
               lock'[Kind(req[g].id)] = lock[Kind(req[g].id)]
        BY <2>2, KindType DEF Answer, EditInv, Current, TypeInv, TypeOK
      <3> QED
        BY <3>1, <3>2, CurrentKept
    <2> QED
      BY <2>1, <2>2
  <1> QED
    BY <1>1 DEF EditInv

LEMMA UpsertCurrent ==
  ASSUME TypeInv, EditInv, NEW r \in Reqs, NEW id \in Ids, NEW e, Upsert(r, id, e),
         lock[Kind(id)] \in {Nobody, r}
  PROVE  EditInv'
  <1>0. Answer(r) /\ mem' = [mem EXCEPT ![id] = e]
    BY DEF Upsert
  <1>1. ASSUME NEW g \in Reqs PROVE Current(g)'
    <2>1. CASE g = r
      BY <1>0, <2>1, CurrentKept DEF Answer, Idle, TypeInv, TypeOK
    <2>2. CASE g # r
      <3>1. req'[g] = req[g]
        BY <1>0, <2>2 DEF Answer, TypeInv, TypeOK
      <3>2. ASSUME req[g].pc # "idle", req[g].op # "publish"
            PROVE  /\ lock'[Kind(req[g].id)] = lock[Kind(req[g].id)]
                   /\ mem'[req[g].id] = mem[req[g].id]
        <4>1. lock[Kind(req[g].id)] = g
          BY <3>2 DEF EditInv, Current
        <4>2. req[g].id # id
          BY <2>2, <4>1, MarketAssumption DEF MarketAssumption
        <4>3. mem'[req[g].id] = mem[req[g].id]
          BY <1>0, <3>2, <4>2 DEF TypeInv, TypeOK, Busy
        <4>4. lock'[Kind(req[g].id)] = lock[Kind(req[g].id)]
          BY <1>0, <2>2, <4>1, KindType DEF Answer, TypeInv, TypeOK
        <4> QED
          BY <4>3, <4>4
      <3> QED
        BY <3>1, <3>2, CurrentKept
    <2> QED
      BY <2>1, <2>2
  <1> QED
    BY <1>1 DEF EditInv

LEMMA MovedCurrent ==
  ASSUME TypeInv, EditInv, NEW r \in Reqs, NEW s, NEW q, NEW f, Moved(r, s, q, f), req[r].pc # "idle",
         UNCHANGED <<mem, lock>>
  PROVE  EditInv'
  <1>1. ASSUME NEW g \in Reqs PROVE Current(g)'
    BY CurrentKept DEF Moved, TypeInv, TypeOK
  <1> QED
    BY <1>1 DEF EditInv

LEMMA EditNext ==
  ASSUME TypeInv, EditInv, [Next]_vars PROVE EditInv'
  <1>1. CASE UNCHANGED vars
    BY <1>1 DEF vars, EditInv, Current
  <1>2. CASE Restart
    BY <1>2 DEF Restart, EditInv, Current, Idle
  <1>3. ASSUME NEW r \in Reqs, NEW p \in Publications, Publish(r, p) PROVE EditInv'
    <2>1. ASSUME NEW g \in Reqs PROVE Current(g)'
      <3>1. CASE g = r
        BY <1>3, <3>1, CurrentKept DEF Publish, TypeInv, TypeOK
      <3>2. CASE g # r
        BY <1>3, <3>2, CurrentKept DEF Publish, TypeInv, TypeOK
      <3> QED
        BY <3>1, <3>2
    <2> QED
      BY <2>1 DEF EditInv
  <1>4. ASSUME NEW r \in Reqs, Build(r) PROVE EditInv'
    <2>1. CASE Answer(r)
      BY <1>4, <2>1, AnswerCurrent DEF Build
    <2>2. CASE Go(r, "put") /\ UNCHANGED lock
      BY <1>4, <2>2, GoMoves, MovedCurrent DEF Build
    <2> QED
      BY <1>4, <2>1, <2>2 DEF Build
  <1>5. ASSUME NEW r \in Reqs, CheckExists(r) PROVE EditInv'
    <2>0. req[r].pc # "idle" /\ UNCHANGED <<mem, lock>> /\ req[r].puts # <<>>
      BY <1>5 DEF CheckExists
    <2>1. CASE NextPut(r)
      BY <2>0, <2>1, NextPutMoves, MovedCurrent
    <2>2. CASE Go(r, "create")
      BY <2>0, <2>2, GoMoves, MovedCurrent
    <2> QED
      BY <1>5, <2>1, <2>2 DEF CheckExists
  <1>6. ASSUME NEW r \in Reqs, CreateTmp(r) PROVE EditInv'
    BY <1>6, CreateMoves, MovedCurrent DEF CreateTmp
  <1>7. ASSUME NEW r \in Reqs, WriteAll(r) PROVE EditInv'
    BY <1>7, WriteMoves, MovedCurrent DEF WriteAll
  <1>8. ASSUME NEW r \in Reqs, WriteFails(r) \/ PutFails(r) PROVE EditInv'
    BY <1>8, AnswerCurrent DEF WriteFails, PutFails
  <1>9. ASSUME NEW r \in Reqs, Rename(r) PROVE EditInv'
    <2>1. CASE Answer(r)
      BY <1>9, <2>1, AnswerCurrent DEF Rename
    <2>2. CASE ~Answer(r)
      <3>1. /\ req[r].pc = "rename" /\ UNCHANGED <<mem, lock>>
            /\ req' = [g \in Reqs |-> IF g = r THEN [req[r] EXCEPT !.puts = Tail(@), !.pc = "put"]
                                      ELSE Followed(g, Blob(r))]
        BY <1>9, <2>2 DEF Rename
      <3>2. ASSUME NEW g \in Reqs PROVE Current(g)'
        <4>1. CASE g = r
          <5>1. req'[r].op = req[r].op /\ req'[r].id = req[r].id /\ req'[r].entry = req[r].entry
            BY <3>1 DEF TypeInv, TypeOK, Request
          <5> QED
            BY <3>1, <4>1, <5>1, CurrentKept
        <4>2. CASE g # r /\ req[g].pc = "idle"
          BY <3>1, <4>2, CurrentKept DEF Followed
        <4>3. CASE g # r /\ req[g].pc # "idle"
          <5>1. req'[g].op = req[g].op /\ req'[g].id = req[g].id /\ req'[g].entry = req[g].entry
            BY <3>1, <4>3 DEF Followed, TypeInv, TypeOK, Request
          <5> QED
            BY <3>1, <4>3, <5>1, CurrentKept
        <4> QED
          BY <4>1, <4>2, <4>3
      <3> QED
        BY <3>2 DEF EditInv
    <2> QED
      BY <2>1, <2>2
  <1>10. ASSUME NEW r \in Reqs, PutsDone(r) PROVE EditInv'
    <2>1. req[r].id \in Ids
      BY <1>10 DEF PutsDone, TypeInv, Busy
    <2> QED
      BY <1>10, <2>1, UpsertCurrent DEF PutsDone
  <1>11. ASSUME NEW r \in Reqs, NEW id \in Ids, NEW rd \in Readmes \cup {NoBlob}, Patch(r, id, rd)
         PROVE  EditInv'
    <2> DEFINE new == [Idle EXCEPT !.pc = "put", !.op = "patch", !.id = id,
                         !.puts = IF rd = NoBlob THEN <<>> ELSE <<rd>>,
                         !.entry = [mem[id] EXCEPT !.readme = rd]]
    <2>1. /\ new.id = id /\ new.op = "patch" /\ new.entry = [mem[id] EXCEPT !.readme = rd]
      BY DEF Idle
    <2>2. mem[id] \in Entry
      BY <1>11 DEF Patch, TypeInv, TypeOK
    <2>3. new.entry.yanked = mem[id].yanked
      BY <2>1, <2>2 DEF Entry
    <2>4. /\ req' = [req EXCEPT ![r] = new] /\ mem' = mem /\ mem[id] # NoEntry
          /\ lock' = [lock EXCEPT ![Kind(id)] = r] /\ lock[Kind(id)] = Nobody
      BY <1>11 DEF Patch, Free
    <2> HIDE DEF new
    <2>5. ASSUME NEW g \in Reqs PROVE Current(g)'
      <3>1. CASE g = r
        <4>1. req'[r] = new
          BY <2>4 DEF TypeInv, TypeOK
        <4>2. lock'[Kind(id)] = r
          BY <2>4, KindType DEF TypeInv, TypeOK
        <4>3. Kind(id)' = Kind(id)
          BY DEF Kind
        <4> QED
          BY <2>1, <2>3, <2>4, <3>1, <4>1, <4>2, <4>3 DEF Current
      <3>2. CASE g # r
        <4>1. req'[g] = req[g]
          BY <2>4, <3>2 DEF TypeInv, TypeOK
        <4>2. ASSUME req[g].pc # "idle", req[g].op # "publish"
              PROVE  lock'[Kind(req[g].id)] = lock[Kind(req[g].id)]
          <5>1. lock[Kind(req[g].id)] = g /\ g # Nobody
            BY <4>2, MarketAssumption DEF EditInv, Current, MarketAssumption
          <5> QED
            BY <2>4, <5>1, KindType DEF TypeInv, TypeOK
        <4> QED
          BY <2>4, <4>1, <4>2, CurrentKept
      <3> QED
        BY <3>1, <3>2
    <2> QED
      BY <2>5 DEF EditInv
  <1>12. ASSUME NEW r \in Reqs, NEW id \in Ids, PatchDescription(r, id) \/ Yank(r, id) PROVE EditInv'
    BY <1>12, UpsertCurrent DEF PatchDescription, Yank, Free
  <1> QED
    BY <1>1, <1>2, <1>3, <1>4, <1>5, <1>6, <1>7, <1>8, <1>9, <1>10, <1>11, <1>12 DEF Next

LEMMA EditInvariant == Spec => []EditInv
  <1>1. Init => EditInv
    BY DEF Init, EditInv, Current, Idle
  <1>2. TypeInv /\ EditInv /\ [Next]_vars => EditInv'
    BY EditNext
  <1> QED
    BY <1>1, <1>2, MarketTypes, PTL DEF Spec

(* A yanked entry of the marketplace comes back by a new publication, or    *)
(* by a restart after a yank that could not be saved, and never because an  *)
(* edit overlapped the yank: patch holds the mutex from the copy to the     *)
(* upsert.                                                                  *)
THEOREM YanksHold == Spec => YankHolds
  <1> DEFINE Held == \A id \in Ids :
               mem[id] # NoEntry /\ mem[id].yanked /\ Live(mem'[id]) =>
                  \/ id \in unsaved
                  \/ \E r \in Reqs : req[r].op = "publish" /\ req[r].id = id /\ req'[r] = Idle
  <1>1. TypeInv /\ EditInv /\ AnsweredIsSaved /\ [Next]_vars => [Held]_vars
    <2> SUFFICES ASSUME TypeInv, EditInv, AnsweredIsSaved, Next,
                        NEW id \in Ids, mem[id] # NoEntry, mem[id].yanked, Live(mem'[id]), id \notin unsaved
                 PROVE  \E r \in Reqs : req[r].op = "publish" /\ req[r].id = id /\ req'[r] = Idle
      OBVIOUS
    <2>0. mem[id] \in Entry
      BY DEF TypeInv, TypeOK
    <2>1. mem'[id] # mem[id]
      BY DEF Live
    <2>2. ~Restart
      BY <2>1 DEF Restart, AnsweredIsSaved
    <2>3. ASSUME NEW r \in Reqs, NEW i \in Ids, NEW e, Upsert(r, i, e)
          PROVE  i = id /\ mem'[id] = e /\ req'[r] = Idle
      BY <2>1, <2>3 DEF Upsert, Answer, TypeInv, TypeOK
    <2>4. ASSUME NEW r \in Reqs, NEW i \in Ids, PatchDescription(r, i) PROVE FALSE
      BY <2>1, <2>3, <2>4 DEF PatchDescription
    <2>5. ASSUME NEW r \in Reqs, NEW i \in Ids, Yank(r, i) PROVE FALSE
      BY <2>3, <2>5 DEF Yank, Live
    <2>6. ASSUME NEW r \in Reqs, PutsDone(r)
          PROVE  req[r].op = "publish" /\ req[r].id = id /\ req'[r] = Idle
      <3>1. req[r].id \in Ids /\ req[r].entry \in Entry
        BY <2>6 DEF PutsDone, TypeInv, Busy
      <3>2. req[r].id = id /\ mem'[id] = req[r].entry /\ req'[r] = Idle
        BY <2>3, <2>6, <3>1 DEF PutsDone
      <3>3. req[r].entry.yanked # mem[id].yanked
        BY <3>2 DEF Live
      <3> QED
        BY <2>6, <3>2, <3>3 DEF PutsDone, EditInv, Current
    <2>7. \E r \in Reqs : PutsDone(r)
      BY <2>1, <2>2, <2>4, <2>5
      DEF Next, Publish, Build, CheckExists, CreateTmp, WriteAll, WriteFails, Rename, PutFails, Patch
    <2> QED
      BY <2>6, <2>7
  <1> QED
    BY <1>1, MarketTypes, EditInvariant, Saved, PTL DEF Spec, YankHolds
=============================================================================
