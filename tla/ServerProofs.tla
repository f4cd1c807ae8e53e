----------------------------- MODULE ServerProofs -----------------------------
(* Theorems about Server, for any number of tenants, requests, watchers and   *)
(* admin commands, any quotas and any bounds.                                 *)
EXTENDS Server, SequenceTheorems, TLAPS

(* What a route may be.  A route that puts objects of a file or opens a       *)
(* session is for plaintext tenants, and so is one that checks the quota;     *)
(* what writes takes the write_lock, a session being opened or dropped        *)
(* excepted.                                                                  *)
Routes ==
  {op \in [plain : BOOLEAN, checked : BOOLEAN, locks : BOOLEAN,
           does : {"stage", "unstage", "commit", "branch", "checkout", "nothing", "open",
                   "take", "abort"}] :
     /\ op.does \in {"stage", "take", "open"} => op.plain
     /\ op.checked => op.plain
     /\ op.locks <=> op.does \in {"stage", "unstage", "commit", "branch", "checkout", "take"}}

OpeningPcs == {"cache", "probe", "init", "head", "insert"}
Opening    == [pc : OpeningPcs, t : Tenants, op : Routes]
Working    == [pc : {"ready", "writing"}, t : Tenants, op : Routes, h : Requests]
Committed  == [pc : {"committed"}, t : Tenants, n : Nat]
Request    == {NoReq} \cup Opening \cup Working \cup Committed
Event      == [t : Tenants, n : Nat, branch : Branches \cup {None}]
Watcher    == [on : BOOLEAN, pos : Nat, lagged : BOOLEAN, seen : Seq(Event)]

StagedKinds == {"file", "delete", "sealed"}
StoredKinds == {"content", "commit", "sealed"}

(* The requests and what they work on.                                        *)
RequestTypes ==
  /\ req \in [Requests -> Request]
  /\ head \in [Tenants -> Branches \cup {None}]
  /\ repos \in [Tenants -> Requests \cup {None}]
  /\ disk \in [Tenants -> {"none", "dir", "ready"}]
  /\ objs \in [Tenants -> Nat]
  /\ stored \in [Tenants -> SUBSET StoredKinds]
  /\ uploads \in [Tenants -> Nat]
  /\ staged \in [Tenants -> SUBSET StagedKinds]
  /\ commits \in [Tenants -> Seq(Branches \cup {None})]

LEMMA RouterRoutes == Router \subseteq Routes
  BY DEF Router, Routes, Route, post_file, patch_fields, delete_file, commit_route,
     create_branch, checkout_route, test_ingest, post_upload, patch_upload_chunk,
     post_upload_commit, delete_upload, status, list_files, get_file, get_bytes, tree_root,
     tree_path, log_route, diff_route, list_branches, query_route, list_schemas_route,
     audit_route

(* Where a request is says which fields it has.                               *)
LEMMA Shapes ==
  ASSUME NEW q \in Request
  PROVE  /\ q.pc \in OpeningPcs => q \in Opening
         /\ q.pc \in {"ready", "writing"} => q \in Working
         /\ q.pc = "committed" => q \in Committed
         /\ q.pc = "idle" => q = NoReq
  BY DEF Request, Opening, OpeningPcs, Working, Committed, NoReq

LEMMA OpeningMoves ==
  ASSUME NEW q \in Opening, NEW x \in OpeningPcs
  PROVE  [q EXCEPT !.pc = x] \in Opening
  BY DEF Opening

(* A step of OpenSteps moves one request on and leaves the others alone.      *)
LEMMA OpenTypes ==
  ASSUME RequestTypes, NEW r \in Requests, OpenSteps(r)
  PROVE  RequestTypes'
  <1> DEFINE q == req[r]
  <1>0. q \in Request /\ NoReq \in Request /\ Opening \subseteq Request /\ Working \subseteq Request
    BY DEF RequestTypes, Request
  <1>1. CASE Cached(r)
    <2>1. q \in Opening
      BY <1>0, <1>1, Shapes DEF Cached, OpeningPcs
    <2>2. [q EXCEPT !.pc = "probe"] \in Opening
      BY <2>1, OpeningMoves DEF OpeningPcs
    <2>3. repos[q.t] # None => [pc |-> "ready", t |-> q.t, op |-> q.op, h |-> repos[q.t]] \in Working
      BY <2>1 DEF Opening, Working, RequestTypes
    <2> QED
      BY <1>0, <1>1, <2>2, <2>3 DEF Cached, RequestTypes, tenantVars
  <1>2. CASE Probe(r)
    <2>1. q \in Opening
      BY <1>0, <1>2, Shapes DEF Probe, OpeningPcs
    <2>2. \A x \in {"init", "insert"} : [q EXCEPT !.pc = x] \in Opening
      BY <2>1, OpeningMoves DEF OpeningPcs
    <2> QED
      BY <1>0, <1>2, <2>2 DEF Probe, RequestTypes, tenantVars
  <1>3. CASE MakeDirs(r)
    <2>1. q \in Opening
      BY <1>0, <1>3, Shapes DEF MakeDirs, OpeningPcs
    <2>2. \A x \in {"insert", "head"} : [q EXCEPT !.pc = x] \in Opening
      BY <2>1, OpeningMoves DEF OpeningPcs
    <2> QED
      BY <1>0, <1>3, <2>2 DEF MakeDirs, RequestTypes
  <1>4. CASE WriteHead(r)
    <2>1. q \in Opening
      BY <1>0, <1>4, Shapes DEF WriteHead, OpeningPcs
    <2>2. [q EXCEPT !.pc = "insert"] \in Opening
      BY <2>1, OpeningMoves DEF OpeningPcs
    <2> QED
      BY <1>0, <1>4, <2>2 DEF WriteHead, RequestTypes, Branches
  <1>5. CASE Insert(r)
    <2> DEFINE h == IF repos[q.t] # None THEN repos[q.t] ELSE r
    <2>1. q \in Opening /\ q.t \in Tenants
      BY <1>0, <1>5, Shapes DEF Insert, OpeningPcs, Opening
    <2>2. h \in Requests
      BY <2>1 DEF RequestTypes
    <2>3. [pc |-> "ready", t |-> q.t, op |-> q.op, h |-> h] \in Working
      BY <2>1, <2>2 DEF Opening, Working
    <2> QED
      BY <1>0, <1>5, <2>2, <2>3 DEF Insert, RequestTypes
  <1> QED
    BY <1>1, <1>2, <1>3, <1>4, <1>5 DEF OpenSteps

LEMMA WorkTypes ==
  ASSUME RequestTypes, NEW r \in Requests, Unlocked(r) \/ Begin(r) \/ Finish(r) \/ Announce(r)
  PROVE  RequestTypes'
  <1> DEFINE q == req[r]
  <1>0. q \in Request /\ NoReq \in Request /\ Working \subseteq Request /\ Committed \subseteq Request
    BY DEF RequestTypes, Request
  <1>1. CASE Unlocked(r)
    <2>1. q \in Working /\ q.t \in Tenants
      BY <1>0, <1>1, Shapes DEF Unlocked, Working
    <2> DEFINE t == q.t
    <2>2. /\ uploads[t] + 1 \in Nat
          /\ uploads[t] > 0 => uploads[t] - 1 \in Nat
      BY <2>1 DEF RequestTypes
    <2>3. uploads' \in [Tenants -> Nat]
      BY <1>1, <2>2 DEF Unlocked, RequestTypes
    <2> QED
      BY <1>0, <1>1, <2>3 DEF Unlocked, RequestTypes
  <1>2. CASE Begin(r)
    <2>1. q \in Working
      BY <1>0, <1>2, Shapes DEF Begin
    <2>2. [q EXCEPT !.pc = "writing"] \in Working
      BY <2>1 DEF Working
    <2> QED
      BY <1>0, <1>2, <2>2 DEF Begin, RequestTypes, tenantVars
  <1>3. CASE Finish(r)
    <2> DEFINE t == q.t
    <2>1. q \in Working /\ t \in Tenants
      BY <1>0, <1>3, Shapes, Zenon DEF Finish, Working
    <2>2. objs' \in [Tenants -> Nat]
      BY <1>3, <2>1, ServerAssumption DEF Finish, RequestTypes
    <2>3. uploads' \in [Tenants -> Nat]
      <3>1. uploads[t] > 0 => uploads[t] - 1 \in Nat
        BY <2>1 DEF RequestTypes
      <3> QED
        BY <1>3, <3>1 DEF Finish, RequestTypes
    <2>4. staged' \in [Tenants -> SUBSET StagedKinds]
      <3>1. /\ staged[t] \cup {"file"} \in SUBSET StagedKinds
            /\ staged[t] \cup {"delete"} \in SUBSET StagedKinds
            /\ {} \in SUBSET StagedKinds
        BY <2>1 DEF RequestTypes, StagedKinds
      <3> QED
        BY <1>3, <3>1 DEF Finish, RequestTypes
    <2>5. head' \in [Tenants -> Branches \cup {None}]
      BY <1>3, <2>1, Zenon DEF Finish, RequestTypes
    <2>6. commits' \in [Tenants -> Seq(Branches \cup {None})]
      <3>1. Append(commits[t], head[t]) \in Seq(Branches \cup {None})
        BY <2>1 DEF RequestTypes
      <3> QED
        BY <1>3, <3>1 DEF Finish, RequestTypes
    <2>7. [pc |-> "committed", t |-> t, n |-> Len(commits[t]) + 1] \in Committed
      <3>1. Len(commits[t]) + 1 \in Nat
        BY <2>1 DEF RequestTypes
      <3> QED
        BY <2>1, <3>1 DEF Committed
    <2>8. req' \in [Requests -> Request]
      BY <1>0, <1>3, <2>7 DEF Finish, RequestTypes
    <2>9. stored' \in [Tenants -> SUBSET StoredKinds]
      <3>1. stored[t] \cup {Kind(q.op.does)} \in SUBSET StoredKinds
        BY <2>1 DEF RequestTypes, StoredKinds, Kind
      <3> QED
        BY <1>3, <3>1 DEF Finish, RequestTypes
    <2> QED
      BY <1>3, <2>2, <2>3, <2>4, <2>5, <2>6, <2>8, <2>9 DEF Finish, RequestTypes
  <1>4. CASE Announce(r)
    BY <1>0, <1>4 DEF Announce, RequestTypes, tenantVars
  <1> QED
    BY <1>1, <1>2, <1>3, <1>4

LEMMA ArriveTypes ==
  ASSUME RequestTypes, NEW r \in Requests, NEW t \in Tenants, NEW op \in Router, Arrive(r, t, op)
  PROVE  RequestTypes'
  <1>1. [pc |-> "cache", t |-> t, op |-> op] \in Request
    BY RouterRoutes DEF Request, Opening, OpeningPcs
  <1> QED
    BY <1>1 DEF Arrive, RequestTypes, tenantVars

(* An `omp enc` command changes one encrypted tenant's repository.            *)
LEMMA ClientMoves ==
  ASSUME RequestTypes, NEW t \in Tenants, EncAdd(t) \/ EncCommit(t)
  PROVE  /\ t \in Encrypted
         /\ UNCHANGED <<adminVars, reg, disk, head, repos, uploads, req, busVars>>
         /\ objs' \in [Tenants -> Nat]
         /\ \A u \in Tenants \ {t} : objs'[u] = objs[u]
         /\ stored' = [stored EXCEPT ![t] = @ \cup {"sealed"}]
         /\ \/ staged' = [staged EXCEPT ![t] = @ \cup {"sealed"}]
            \/ staged' = [staged EXCEPT ![t] = {}]
            \/ UNCHANGED staged
         /\ commits' = commits \/ commits' = [commits EXCEPT ![t] = Append(@, head[t])]
  <1>1. CASE EncAdd(t)
    <2>1. PICK n \in 1 .. MaxPut : objs' = [objs EXCEPT ![t] = @ + n]
      BY <1>1 DEF EncAdd
    <2>2. objs[t] + n \in Nat
      BY ServerAssumption DEF RequestTypes
    <2>3. objs' \in [Tenants -> Nat] /\ \A u \in Tenants \ {t} : objs'[u] = objs[u]
      BY <2>1, <2>2 DEF RequestTypes
    <2> QED
      BY <1>1, <2>3 DEF EncAdd
  <1>2. CASE EncCommit(t)
    <2>1. PICK n \in 1 .. MaxPut : objs' = [objs EXCEPT ![t] = @ + n]
      BY <1>2 DEF EncCommit
    <2>2. objs[t] + n \in Nat
      BY ServerAssumption DEF RequestTypes
    <2>3. objs' \in [Tenants -> Nat] /\ \A u \in Tenants \ {t} : objs'[u] = objs[u]
      BY <2>1, <2>2 DEF RequestTypes
    <2> QED
      BY <1>2, <2>3 DEF EncCommit
  <1> QED
    BY <1>1, <1>2

LEMMA ClientTypes ==
  ASSUME RequestTypes, ClientSteps
  PROVE  RequestTypes'
  <1>1. PICK t \in Tenants : EncAdd(t) \/ EncCommit(t)
    BY DEF ClientSteps
  <1>2. stored' \in [Tenants -> SUBSET StoredKinds]
    <2>1. stored' = [stored EXCEPT ![t] = @ \cup {"sealed"}]
      BY <1>1, ClientMoves
    <2>2. stored[t] \cup {"sealed"} \in SUBSET StoredKinds
      BY DEF RequestTypes, StoredKinds
    <2> QED
      BY <2>1, <2>2 DEF RequestTypes
  <1>3. staged' \in [Tenants -> SUBSET StagedKinds]
    <2>1. staged[t] \cup {"sealed"} \in SUBSET StagedKinds /\ {} \in SUBSET StagedKinds
      BY DEF RequestTypes, StagedKinds
    <2>2. \/ staged' = [staged EXCEPT ![t] = @ \cup {"sealed"}]
          \/ staged' = [staged EXCEPT ![t] = {}]
          \/ UNCHANGED staged
      BY <1>1, ClientMoves
    <2> QED
      BY <2>1, <2>2 DEF RequestTypes
  <1>4. commits' \in [Tenants -> Seq(Branches \cup {None})]
    <2>1. Append(commits[t], head[t]) \in Seq(Branches \cup {None})
      BY DEF RequestTypes
    <2> QED
      BY <1>1, <2>1, ClientMoves DEF RequestTypes
  <1>5. objs' \in [Tenants -> Nat] /\ UNCHANGED <<req, head, repos, disk, uploads>>
    BY <1>1, ClientMoves
  <1> QED
    BY <1>2, <1>3, <1>4, <1>5 DEF RequestTypes

LEMMA OtherTypes ==
  ASSUME RequestTypes,
         \/ Restart
         \/ \E r \in Requests : Cancel(r)
         \/ AdminSteps \/ EventSteps \/ UNCHANGED vars
  PROVE  RequestTypes'
  <1>0. NoReq \in Request
    BY DEF Request
  <1>1. CASE Restart
    BY <1>0, <1>1 DEF Restart, RequestTypes
  <1>2. CASE \E r \in Requests : Cancel(r)
    BY <1>0, <1>2 DEF Cancel, RequestTypes, tenantVars
  <1>3. CASE AdminSteps
    BY <1>3 DEF AdminSteps, AdminLoad, AdminTruncate, AdminWrite, AdminCrash, RequestTypes, tenantVars
  <1>4. CASE EventSteps
    BY <1>4, Zenon DEF EventSteps, Publish, Subscribe, Receive, RequestTypes, tenantVars
  <1>5. CASE UNCHANGED vars
    BY <1>5 DEF vars, RequestTypes
  <1> QED
    BY <1>1, <1>2, <1>3, <1>4, <1>5

LEMMA TypesInit == Init => RequestTypes
  BY DEF Init, RequestTypes, Request

LEMMA TypesNext == RequestTypes /\ [Next]_vars => RequestTypes'
  BY OpenTypes, WorkTypes, ArriveTypes, ClientTypes, OtherTypes DEF Next, RequestSteps

--------------------------------------------------------------------------------
(* One Repo per tenant: a request that has a Repo has the one in the cache.   *)
(* Without it two writers could each hold the write_lock of a Repo of their   *)
(* own.                                                                       *)
OneRepo ==
  \A r \in Requests : req[r].pc \in {"ready", "writing"} =>
    repos[req[r].t] # None /\ req[r].h = repos[req[r].t]

(* The steps that neither open a Repo nor write.                              *)
Elsewhere ==
  \/ \E r \in Requests : Cancel(r) \/ Unlocked(r) \/ Announce(r)
  \/ \E r \in Requests, t \in Tenants, op \in Router : Arrive(r, t, op)
  \/ AdminSteps \/ EventSteps \/ UNCHANGED vars

(* They leave the tenants alone, and no request gets to writing.              *)
LEMMA ElsewhereLeaves ==
  ASSUME RequestTypes, Elsewhere
  PROVE  /\ UNCHANGED <<repos, objs, stored, staged, commits, disk, head, reg>>
         /\ \A r \in Requests : req'[r] = req[r] \/ req'[r].pc \in {"idle", "cache"}
  <1>1. CASE \E r \in Requests : Cancel(r) \/ Unlocked(r) \/ Announce(r)
    BY <1>1 DEF Cancel, Unlocked, Announce, RequestTypes, tenantVars, NoReq
  <1>2. CASE \E r \in Requests, t \in Tenants, op \in Router : Arrive(r, t, op)
    BY <1>2 DEF Arrive, RequestTypes, tenantVars
  <1>3. CASE AdminSteps \/ EventSteps \/ UNCHANGED vars
    BY <1>3, Zenon DEF AdminSteps, AdminLoad, AdminTruncate, AdminWrite, AdminCrash, EventSteps,
       Publish, Subscribe, Receive, tenantVars, vars
  <1> QED
    BY <1>1, <1>2, <1>3 DEF Elsewhere

(* The others, by what a proof has to look at.                                *)
LEMMA StepCases ==
  ASSUME [Next]_vars
  PROVE  \/ Elsewhere \/ Restart \/ ClientSteps
         \/ \E r \in Requests : OpenSteps(r) \/ Begin(r) \/ Finish(r)
  BY DEF Next, RequestSteps, Elsewhere

(* An opening step moves the request of one tenant on, and never to writing.  *)
LEMMA OpenMoves ==
  ASSUME RequestTypes, NEW r \in Requests, OpenSteps(r)
  PROVE  /\ UNCHANGED <<objs, stored, staged, commits, uploads, reg, busVars>>
         /\ \A q \in Requests \ {r} : req'[q] = req[q]
         /\ req[r] \in Opening
         /\ req'[r].t = req[r].t /\ req'[r].op = req[r].op
         /\ req'[r].pc \in OpeningPcs \cup {"ready"}
         /\ \A t \in Tenants : repos[t] # None => repos'[t] = repos[t]
         /\ req'[r].pc = "ready" => /\ req'[r].h = repos'[req[r].t]
                                    /\ repos'[req[r].t] # None
  <1>0. req[r] \in Request
    BY DEF RequestTypes
  <1>1. req[r] \in Opening
    BY <1>0, Shapes DEF OpenSteps, Cached, Probe, MakeDirs, WriteHead, Insert, OpeningPcs
  <1>2. CASE Cached(r)
    BY <1>1, <1>2 DEF Cached, Opening, RequestTypes, tenantVars, busVars, OpeningPcs
  <1>3. CASE Probe(r)
    BY <1>1, <1>3 DEF Probe, Opening, RequestTypes, tenantVars, busVars, OpeningPcs
  <1>4. CASE MakeDirs(r)
    BY <1>1, <1>4 DEF MakeDirs, Opening, RequestTypes, busVars, OpeningPcs
  <1>5. CASE WriteHead(r)
    BY <1>1, <1>5 DEF WriteHead, Opening, RequestTypes, busVars, OpeningPcs
  <1>6. CASE Insert(r)
    BY <1>1, <1>6, ServerAssumption DEF Insert, Opening, RequestTypes, busVars, OpeningPcs
  <1> QED
    BY <1>1, <1>2, <1>3, <1>4, <1>5, <1>6 DEF OpenSteps

(* A write that ends gives its lock back, and is of one tenant.               *)
LEMMA FinishMoves ==
  ASSUME RequestTypes, NEW r \in Requests, Finish(r)
  PROVE  /\ UNCHANGED <<repos, disk, reg, busVars>>
         /\ \A q \in Requests \ {r} : req'[q] = req[q]
         /\ req[r] \in Working
         /\ req'[r].pc \in {"idle", "committed"}
         /\ \A t \in Tenants \ {req[r].t} :
              /\ objs'[t] = objs[t] /\ stored'[t] = stored[t] /\ staged'[t] = staged[t]
              /\ uploads'[t] = uploads[t] /\ commits'[t] = commits[t]
  <1>1. req[r] \in Working /\ req[r].t \in Tenants
    BY Shapes DEF Finish, RequestTypes, Working
  <1>2. UNCHANGED <<repos, disk, reg, busVars>>
    BY DEF Finish
  <1>3. /\ \A q \in Requests \ {r} : req'[q] = req[q]
        /\ req'[r].pc \in {"idle", "committed"}
    BY DEF Finish, RequestTypes, NoReq
  <1>4. ASSUME NEW t \in Tenants \ {req[r].t}
        PROVE  /\ objs'[t] = objs[t] /\ stored'[t] = stored[t] /\ staged'[t] = staged[t]
               /\ uploads'[t] = uploads[t] /\ commits'[t] = commits[t]
    BY <1>1 DEF Finish, RequestTypes
  <1> QED
    BY <1>1, <1>2, <1>3, <1>4

LEMMA OneRepoNext ==
  ASSUME RequestTypes, OneRepo, [Next]_vars
  PROVE  OneRepo'
  <1>1. CASE Elsewhere
    BY <1>1, ElsewhereLeaves DEF OneRepo
  <1>2. CASE Restart
    BY <1>2 DEF Restart, OneRepo, NoReq
  <1>3. ASSUME NEW r \in Requests, OpenSteps(r)
        PROVE  OneRepo'
    <2> SUFFICES ASSUME NEW q \in Requests, req'[q].pc \in {"ready", "writing"}
                 PROVE  repos'[req'[q].t] # None /\ req'[q].h = repos'[req'[q].t]
      BY DEF OneRepo
    <2>1. CASE q = r
      BY <1>3, <2>1, OpenMoves DEF OpeningPcs
    <2>2. CASE q # r
      <3>1. req'[q] = req[q] /\ req[q] \in Working
        BY <1>3, <2>2, OpenMoves, Shapes DEF RequestTypes
      <3> QED
        BY <1>3, <3>1, OpenMoves DEF OneRepo, Working
    <2> QED
      BY <2>1, <2>2
  <1>4. ASSUME NEW r \in Requests, Begin(r)
        PROVE  OneRepo'
    <2>1. req[r] \in Working
      BY <1>4, Shapes DEF Begin, RequestTypes
    <2>2. [req[r] EXCEPT !.pc = "writing"].t = req[r].t /\ [req[r] EXCEPT !.pc = "writing"].h = req[r].h
      BY <2>1 DEF Working
    <2> QED
      BY <1>4, <2>1, <2>2 DEF Begin, OneRepo, RequestTypes, tenantVars, NoReq
  <1>5. ASSUME NEW r \in Requests, Finish(r)
        PROVE  OneRepo'
    BY <1>5, FinishMoves DEF OneRepo
  <1>6. CASE ClientSteps
    BY <1>6, ClientMoves DEF ClientSteps, OneRepo
  <1> QED
    BY <1>1, <1>2, <1>3, <1>4, <1>5, <1>6, StepCases

(* The step that takes the write_lock finds no other holder of the one there  *)
(* is.                                                                        *)
LEMMA ExclusiveNext ==
  ASSUME RequestTypes, OneRepo, WritersExclusive, [Next]_vars
  PROVE  WritersExclusive'
  <1>1. CASE Elsewhere
    BY <1>1, ElsewhereLeaves DEF WritersExclusive
  <1>2. CASE Restart
    BY <1>2 DEF Restart, WritersExclusive, NoReq
  <1>3. ASSUME NEW r \in Requests, OpenSteps(r)
        PROVE  WritersExclusive'
    BY <1>3, OpenMoves DEF WritersExclusive, OpeningPcs
  <1>4. ASSUME NEW r \in Requests, Begin(r)
        PROVE  WritersExclusive'
    <2>1. req[r] \in Working
      BY <1>4, Shapes DEF Begin, RequestTypes
    <2>2. [req[r] EXCEPT !.pc = "writing"].t = req[r].t
      BY <2>1 DEF Working
    <2>3. \A q \in Requests : q # r /\ req[q].pc = "writing" => req[q].t # req[r].t
      BY <1>4 DEF Begin, Holds, OneRepo
    <2> QED
      BY <1>4, <2>2, <2>3 DEF Begin, WritersExclusive, RequestTypes, NoReq
  <1>5. ASSUME NEW r \in Requests, Finish(r)
        PROVE  WritersExclusive'
    BY <1>5, FinishMoves DEF WritersExclusive
  <1>6. CASE ClientSteps
    BY <1>6, ClientMoves DEF ClientSteps, WritersExclusive
  <1> QED
    BY <1>1, <1>2, <1>3, <1>4, <1>5, <1>6, StepCases

(* WritersExclusive: whatever requests race to open a tenant's Repo and       *)
(* wherever they are cancelled, get_or_open leaves one write_lock in use.     *)
THEOREM OneWriter == Spec => []WritersExclusive
  <1>1. Init => OneRepo /\ WritersExclusive
    BY DEF Init, OneRepo, WritersExclusive, NoReq
  <1> QED
    BY <1>1, TypesInit, TypesNext, OneRepoNext, ExclusiveNext, PTL DEF Spec

--------------------------------------------------------------------------------
(* require_plaintext_mode has turned away what is not for an encrypted tenant *)
(* before its Repo is looked for.                                             *)
RouteMode ==
  \A r \in Requests : req[r].pc \in OpeningPcs \cup {"ready", "writing"} =>
    (req[r].op.plain => req[r].t \notin Encrypted)

LEMMA ArrivalMode ==
  ASSUME RequestTypes, Elsewhere
  PROVE  \A r \in Requests : \/ req'[r] = req[r] \/ req'[r].pc = "idle"
                             \/ /\ req'[r].pc = "cache"
                                /\ req'[r].op.plain => req'[r].t \notin Encrypted
  <1>1. CASE \E r \in Requests : Cancel(r) \/ Unlocked(r) \/ Announce(r)
    BY <1>1 DEF Cancel, Unlocked, Announce, RequestTypes, NoReq
  <1>2. CASE \E r \in Requests, t \in Tenants, op \in Router : Arrive(r, t, op)
    BY <1>2 DEF Arrive, RequestTypes
  <1>3. CASE AdminSteps \/ EventSteps \/ UNCHANGED vars
    BY <1>3, Zenon DEF AdminSteps, AdminLoad, AdminTruncate, AdminWrite, AdminCrash, EventSteps,
       Publish, Subscribe, Receive, vars
  <1> QED
    BY <1>1, <1>2, <1>3 DEF Elsewhere

LEMMA RouteModeNext ==
  ASSUME RequestTypes, RouteMode, [Next]_vars
  PROVE  RouteMode'
  <1>1. CASE Elsewhere
    BY <1>1, ArrivalMode DEF RouteMode, OpeningPcs
  <1>2. CASE Restart
    BY <1>2 DEF Restart, RouteMode, NoReq, OpeningPcs
  <1>3. ASSUME NEW r \in Requests, OpenSteps(r)
        PROVE  RouteMode'
    <2>1. req[r].pc \in OpeningPcs
      BY <1>3, OpenMoves DEF Opening
    <2> QED
      BY <1>3, <2>1, OpenMoves DEF RouteMode, OpeningPcs
  <1>4. ASSUME NEW r \in Requests, Begin(r)
        PROVE  RouteMode'
    <2>1. req[r] \in Working
      BY <1>4, Shapes DEF Begin, RequestTypes
    <2>2. /\ [req[r] EXCEPT !.pc = "writing"].t = req[r].t
          /\ [req[r] EXCEPT !.pc = "writing"].op = req[r].op
      BY <2>1 DEF Working
    <2> QED
      BY <1>4, <2>2 DEF Begin, RouteMode, RequestTypes, NoReq, OpeningPcs
  <1>5. ASSUME NEW r \in Requests, Finish(r)
        PROVE  RouteMode'
    BY <1>5, FinishMoves DEF RouteMode, OpeningPcs
  <1>6. CASE ClientSteps
    BY <1>6, ClientMoves DEF ClientSteps, RouteMode
  <1> QED
    BY <1>1, <1>2, <1>3, <1>4, <1>5, <1>6, StepCases

LEMMA RouteModeInit == Init => RouteMode
  BY DEF Init, RouteMode, NoReq, OpeningPcs

--------------------------------------------------------------------------------
(* The tenants there will be when command a has finished.                     *)
After(a) ==
  CASE admin[a].cmd = "create" -> wanted \cup {admin[a].t}
    [] admin[a].cmd = "delete" -> wanted \ {admin[a].t}
    [] OTHER                   -> wanted

CommandShape(c) ==
  /\ c.pc \in {"loaded", "truncated"}
  /\ c = [pc |-> c.pc, cmd |-> c.cmd, t |-> c.t, m |-> c.m]

(* While commands come one at a time: the one under way holds in memory what  *)
(* the file is to be, and the file is right unless it is truncated.           *)
RegistryInv ==
  /\ admin = [a \in Admins |-> admin[a]]
  /\ \A a \in Admins : admin[a] = NoReq \/ CommandShape(admin[a])
  /\ quiet => /\ \A a, b \in Admins : ~Idle(a) /\ ~Idle(b) => a = b
              /\ \A a \in Admins : ~Idle(a) => DOMAIN admin[a].m = After(a)
              /\ (\A a \in Admins : admin[a].pc # "truncated") => DOMAIN file = wanted

LEMMA RegistryNext ==
  ASSUME RegistryInv, [Next]_vars
  PROVE  RegistryInv'
  <1>1. ASSUME NEW a \in Admins, NEW t \in Tenants, NEW c \in Caps,
               NEW cmd \in {"create", "delete", "set"}, AdminLoad(a, cmd, t, c)
        PROVE  RegistryInv'
    <2> DEFINE m == CASE cmd = "create" -> Create(file, t, c)
                      [] cmd = "delete" -> Remove(file, t)
                      [] OTHER          -> SetQuotas(file, t, c)
               new == [pc |-> "loaded", cmd |-> cmd, t |-> t, m |-> m]
    <2>1. admin' = [admin EXCEPT ![a] = new]
      BY <1>1 DEF AdminLoad
    <2>2. DOMAIN m = CASE cmd = "create" -> DOMAIN file \cup {t}
                       [] cmd = "delete" -> DOMAIN file \ {t}
                       [] OTHER          -> DOMAIN file
      BY DEF Create, Remove, SetQuotas
    <2> HIDE DEF m
    <2>3. CommandShape(new)
      BY DEF CommandShape
    <2>4. quiet' => /\ quiet /\ \A b \in Admins : Idle(b)
      BY <1>1 DEF AdminLoad
    <2>5. quiet' => DOMAIN file = wanted
      BY <2>4 DEF RegistryInv, Idle, NoReq
    <2>6. UNCHANGED <<file, wanted>>
      BY <1>1 DEF AdminLoad
    <2>7. /\ admin' = [b \in Admins |-> admin'[b]]
          /\ \A b \in Admins : admin'[b] = NoReq \/ CommandShape(admin'[b])
      BY <2>1, <2>3 DEF RegistryInv
    <2>8. quiet' => /\ \A b \in Admins \ {a} : Idle(b)'
                    /\ DOMAIN admin'[a].m = After(a)'
      BY <2>1, <2>2, <2>4, <2>5, <2>6 DEF RegistryInv, Idle, After, NoReq
    <2> QED
      BY <2>5, <2>6, <2>7, <2>8 DEF RegistryInv
  <1>2. ASSUME NEW a \in Admins, AdminTruncate(a)
        PROVE  RegistryInv'
    <2>1. CommandShape(admin[a])
      BY <1>2 DEF RegistryInv, AdminTruncate, NoReq
    <2>2. /\ admin'[a] = [pc |-> "truncated", cmd |-> admin[a].cmd, t |-> admin[a].t, m |-> admin[a].m]
          /\ \A b \in Admins \ {a} : admin'[b] = admin[b]
          /\ admin' = [b \in Admins |-> admin'[b]]
      BY <1>2, <2>1 DEF RegistryInv, AdminTruncate, CommandShape
    <2>3. CommandShape(admin'[a])
      BY <2>2 DEF CommandShape
    <2>4. UNCHANGED <<wanted, quiet>>
      BY <1>2 DEF AdminTruncate
    <2>5. ~Idle(a) /\ ~Idle(a)' /\ After(a)' = After(a) /\ admin'[a].m = admin[a].m
      BY <1>2, <2>2, <2>4 DEF Idle, AdminTruncate, After
    <2>6. \A b \in Admins \ {a} : (Idle(b)' <=> Idle(b)) /\ After(b)' = After(b)
      BY <2>2, <2>4 DEF Idle, After
    <2> QED
      BY <2>2, <2>3, <2>4, <2>5, <2>6 DEF RegistryInv
  <1>3. ASSUME NEW a \in Admins, AdminWrite(a)
        PROVE  RegistryInv'
    <2>1. /\ admin'[a] = NoReq /\ \A b \in Admins \ {a} : admin'[b] = admin[b]
          /\ admin' = [b \in Admins |-> admin'[b]]
      BY <1>3 DEF RegistryInv, AdminWrite
    <2>2. ~Idle(a) /\ wanted' = After(a) /\ file' = admin[a].m /\ quiet' = quiet
      BY <1>3 DEF AdminWrite, Idle, After
    <2>3. quiet => \A b \in Admins \ {a} : Idle(b)
      BY <2>2 DEF RegistryInv
    <2>4. quiet => \A b \in Admins : Idle(b)'
      BY <2>1, <2>3 DEF Idle, NoReq
    <2>5. quiet => DOMAIN file' = wanted'
      BY <2>2 DEF RegistryInv
    <2> QED
      BY <2>1, <2>2, <2>4, <2>5 DEF RegistryInv
  <1>4. ASSUME NEW a \in Admins, AdminCrash(a)
        PROVE  RegistryInv'
    BY <1>4 DEF RegistryInv, AdminCrash
  <1>5. CASE UNCHANGED adminVars
    BY <1>5 DEF RegistryInv, adminVars, Idle, After
  <1>6. AdminSteps \/ UNCHANGED adminVars
    <2>1. CASE \E r \in Requests : OpenSteps(r) \/ Begin(r) \/ Finish(r)
      BY <2>1 DEF OpenSteps, Cached, Probe, MakeDirs, WriteHead, Insert, Begin, Finish
    <2>2. CASE Elsewhere \/ Restart
      BY <2>2, Zenon DEF Elsewhere, Restart, Arrive, Unlocked, Announce, Cancel, EventSteps, Publish,
         Subscribe, Receive, vars, adminVars
    <2>3. CASE ClientSteps
      BY <2>3 DEF ClientSteps, EncAdd, EncCommit
    <2> QED
      BY <2>1, <2>2, <2>3, StepCases
  <1> QED
    BY <1>1, <1>2, <1>3, <1>4, <1>5, <1>6 DEF AdminSteps

(* RegistryExact: as long as admin commands do not overlap and none is        *)
(* interrupted, tenants.toml has the tenants that were created and not        *)
(* deleted.                                                                   *)
THEOREM RegistryKept == Spec => []RegistryExact
  <1>1. Init => RegistryInv
    BY DEF Init, RegistryInv, Idle, NoReq
  <1>2. RegistryInv => RegistryExact
    BY DEF RegistryInv, RegistryExact, Idle
  <1> QED
    BY <1>1, <1>2, RegistryNext, PTL DEF Spec

--------------------------------------------------------------------------------
(* Quotas are numbers, wherever they are kept, and a request is of a tenant   *)
(* that the server knows.                                                     *)
Quotas(m) == \A t \in DOMAIN m : m[t] \in Caps

CapTypes ==
  /\ Quotas(file) /\ Quotas(reg) /\ restarts \in Nat
  /\ \A a \in Admins : ~Idle(a) => Quotas(admin[a].m)
  /\ \A r \in Requests : req[r].pc \in OpeningPcs \cup {"ready", "writing"} =>
       req[r].t \in DOMAIN reg

LEMMA CommandQuotas ==
  ASSUME NEW m, Quotas(m), NEW t, NEW c \in Caps
  PROVE  Quotas(Create(m, t, c)) /\ Quotas(Remove(m, t)) /\ Quotas(SetQuotas(m, t, c))
  BY DEF Quotas, Create, Remove, SetQuotas

LEMMA RequestsKnown ==
  ASSUME RequestTypes, CapTypes, [Next]_vars, reg' = reg
  PROVE  \A r \in Requests : req'[r].pc \in OpeningPcs \cup {"ready", "writing"} =>
           req'[r].t \in DOMAIN reg'
  <1>1. CASE Elsewhere
    <2>1. CASE \E r \in Requests : Cancel(r) \/ Unlocked(r) \/ Announce(r)
      <3>1. \A r \in Requests : req'[r] = req[r] \/ req'[r].pc = "idle"
        BY <2>1 DEF Cancel, Unlocked, Announce, RequestTypes, NoReq
      <3> QED
        BY <3>1 DEF CapTypes, OpeningPcs
    <2>2. CASE \E r \in Requests, t \in Tenants, op \in Router : Arrive(r, t, op)
      BY <2>2 DEF Arrive, RequestTypes, CapTypes
    <2>3. CASE AdminSteps \/ EventSteps \/ UNCHANGED vars
      <3>1. req' = req
        BY <2>3, Zenon DEF AdminSteps, AdminLoad, AdminTruncate, AdminWrite, AdminCrash, EventSteps,
           Publish, Subscribe, Receive, vars
      <3> QED
        BY <3>1 DEF CapTypes
    <2> QED
      BY <1>1, <2>1, <2>2, <2>3 DEF Elsewhere
  <1>2. CASE Restart
    BY <1>2 DEF Restart, NoReq, OpeningPcs
  <1>3. ASSUME NEW r \in Requests, OpenSteps(r)
        PROVE  \A q \in Requests : req'[q].pc \in OpeningPcs \cup {"ready", "writing"} =>
                 req'[q].t \in DOMAIN reg
    <2>1. req[r].pc \in OpeningPcs
      BY <1>3, OpenMoves DEF Opening
    <2> QED
      BY <1>3, <2>1, OpenMoves DEF CapTypes
  <1>4. ASSUME NEW r \in Requests, Begin(r)
        PROVE  \A q \in Requests : req'[q].pc \in OpeningPcs \cup {"ready", "writing"} =>
                 req'[q].t \in DOMAIN reg
    <2>1. req[r] \in Working
      BY <1>4, Shapes DEF Begin, RequestTypes
    <2>2. [req[r] EXCEPT !.pc = "writing"].t = req[r].t
      BY <2>1 DEF Working
    <2> QED
      BY <1>4, <2>2 DEF Begin, CapTypes, RequestTypes, NoReq, OpeningPcs
  <1>5. ASSUME NEW r \in Requests, Finish(r)
        PROVE  \A q \in Requests : req'[q].pc \in OpeningPcs \cup {"ready", "writing"} =>
                 req'[q].t \in DOMAIN reg
    BY <1>5, FinishMoves DEF CapTypes, OpeningPcs
  <1>6. CASE ClientSteps
    BY <1>6, ClientMoves DEF ClientSteps, CapTypes
  <1> QED
    BY <1>1, <1>2, <1>3, <1>4, <1>5, <1>6, StepCases

LEMMA CapTypesNext ==
  ASSUME RequestTypes, RegistryInv, CapTypes, [Next]_vars
  PROVE  CapTypes'
  <1>1. CASE Restart
    <2>1. /\ UNCHANGED <<file, admin>> /\ reg' = file /\ restarts' = restarts + 1
          /\ \A r \in Requests : req'[r].pc = "idle"
      BY <1>1 DEF Restart, NoReq, adminVars
    <2> QED
      BY <2>1 DEF CapTypes, OpeningPcs, Idle
  <1>2. CASE AdminSteps
    <2>1. UNCHANGED <<reg, req, restarts>>
      BY <1>2, Zenon DEF AdminSteps, AdminLoad, AdminTruncate, AdminWrite, AdminCrash
    <2>2. PICK a \in Admins : \/ \E t \in Tenants, c \in Caps, cmd \in {"create", "delete", "set"} :
                                   AdminLoad(a, cmd, t, c)
                              \/ AdminTruncate(a) \/ AdminWrite(a) \/ AdminCrash(a)
      BY <1>2 DEF AdminSteps
    <2>3. \A b \in Admins \ {a} : admin'[b] = admin[b]
      BY <2>2 DEF AdminLoad, AdminTruncate, AdminWrite, AdminCrash, RegistryInv
    <2>4. Quotas(file') /\ (admin'[a].pc # "idle" => Quotas(admin'[a].m))
      <3>1. ASSUME NEW t \in Tenants, NEW c \in Caps, NEW cmd \in {"create", "delete", "set"},
                   AdminLoad(a, cmd, t, c)
            PROVE  Quotas(file') /\ Quotas(admin'[a].m)
        <4> DEFINE m == CASE cmd = "create" -> Create(file, t, c)
                          [] cmd = "delete" -> Remove(file, t)
                          [] OTHER          -> SetQuotas(file, t, c)
        <4>1. Quotas(m)
          BY CommandQuotas DEF CapTypes
        <4>2. admin'[a] = [pc |-> "loaded", cmd |-> cmd, t |-> t, m |-> m] /\ file' = file
          BY <3>1 DEF AdminLoad, RegistryInv
        <4> HIDE DEF m
        <4> QED
          BY <4>1, <4>2 DEF CapTypes
      <3>2. CASE AdminTruncate(a)
        <4>1. CommandShape(admin[a]) /\ ~Idle(a)
          BY <3>2 DEF RegistryInv, AdminTruncate, NoReq, Idle
        <4>2. admin'[a].m = admin[a].m /\ file' = <<>>
          BY <3>2, <4>1 DEF AdminTruncate, RegistryInv, CommandShape
        <4> QED
          BY <4>1, <4>2 DEF CapTypes, Quotas
      <3>3. CASE AdminWrite(a)
        <4>1. admin'[a] = NoReq /\ file' = admin[a].m /\ ~Idle(a)
          BY <3>3 DEF AdminWrite, RegistryInv, Idle
        <4> QED
          BY <4>1 DEF CapTypes, NoReq
      <3>4. CASE AdminCrash(a)
        BY <3>4 DEF AdminCrash, RegistryInv, CapTypes, NoReq
      <3> QED
        BY <2>2, <3>1, <3>2, <3>3, <3>4
    <2>5. \A b \in Admins : admin'[b].pc # "idle" => Quotas(admin'[b].m)
      BY <2>3, <2>4 DEF CapTypes, Idle
    <2> QED
      BY <2>1, <2>4, <2>5 DEF CapTypes, Idle
  <1>3. CASE UNCHANGED <<file, admin, reg, restarts>>
    BY <1>3, RequestsKnown DEF CapTypes, Idle
  <1>4. Restart \/ AdminSteps \/ UNCHANGED <<file, admin, reg, restarts>>
    <2>1. CASE \E r \in Requests : OpenSteps(r) \/ Begin(r) \/ Finish(r)
      BY <2>1 DEF OpenSteps, Cached, Probe, MakeDirs, WriteHead, Insert, Begin, Finish, adminVars
    <2>2. CASE Elsewhere
      BY <2>2, Zenon DEF Elsewhere, Arrive, Unlocked, Announce, Cancel, EventSteps, Publish,
         Subscribe, Receive, vars, adminVars
    <2>3. CASE ClientSteps
      BY <2>3 DEF ClientSteps, EncAdd, EncCommit, adminVars
    <2> QED
      BY <2>1, <2>2, <2>3, StepCases
  <1> QED
    BY <1>1, <1>2, <1>3, <1>4

--------------------------------------------------------------------------------
(* What check_quota_for_write saw stays true until the write it let through   *)
(* puts its objects: the only step that adds objects to the tenant is that    *)
(* write itself.  The tenant's own commands put objects without a check, but  *)
(* only in encrypted tenants, which have no checked route.                    *)
QuotaInv ==
  \A r \in Requests : req[r].pc = "writing" /\ req[r].op.checked => QuotaAllows(req[r].t)

LEMMA QuotaNext ==
  ASSUME RequestTypes, WritersExclusive, RouteMode, QuotaInv, [Next]_vars
  PROVE  QuotaInv'
  <1> USE DEF QuotaInv, QuotaAllows
  <1>1. CASE Elsewhere
    BY <1>1, ElsewhereLeaves
  <1>2. CASE Restart
    BY <1>2 DEF Restart, NoReq
  <1>3. ASSUME NEW r \in Requests, OpenSteps(r)
        PROVE  QuotaInv'
    BY <1>3, OpenMoves DEF OpeningPcs
  <1>4. ASSUME NEW r \in Requests, Begin(r)
        PROVE  QuotaInv'
    <2>1. req[r] \in Working
      BY <1>4, Shapes DEF Begin, RequestTypes
    <2>2. /\ [req[r] EXCEPT !.pc = "writing"].t = req[r].t
          /\ [req[r] EXCEPT !.pc = "writing"].op = req[r].op
      BY <2>1 DEF Working
    <2> QED
      BY <1>4, <2>2 DEF Begin, Possible, RequestTypes, NoReq, tenantVars
  <1>5. ASSUME NEW r \in Requests, Finish(r)
        PROVE  QuotaInv'
    <2> SUFFICES ASSUME NEW q \in Requests, req'[q].pc = "writing", req'[q].op.checked
                 PROVE  objs'[req'[q].t] + 1 <= reg'[req'[q].t]
      OBVIOUS
    <2>1. q # r /\ req'[q] = req[q] /\ req[q] \in Working
      BY <1>5, FinishMoves, Shapes DEF RequestTypes
    <2>2. req[q].t \in Tenants \ {req[r].t}
      BY <1>5, <2>1 DEF WritersExclusive, Working, Finish
    <2> QED
      BY <1>5, <2>1, <2>2, FinishMoves
  <1>6. ASSUME NEW t \in Tenants, EncAdd(t) \/ EncCommit(t)
        PROVE  QuotaInv'
    <2> SUFFICES ASSUME NEW q \in Requests, req'[q].pc = "writing", req'[q].op.checked
                 PROVE  objs'[req'[q].t] + 1 <= reg'[req'[q].t]
      OBVIOUS
    <2>1. req' = req /\ reg' = reg
      BY <1>6, ClientMoves
    <2>2. req[q] \in Working /\ req[q].op.plain
      BY <2>1, Shapes DEF RequestTypes, Working, Routes
    <2>3. req[q].t \in Tenants \ {t}
      BY <1>6, <2>1, <2>2, ClientMoves DEF RouteMode, Working
    <2> QED
      BY <1>6, <2>1, <2>3, ClientMoves
  <1> QED
    BY <1>1, <1>2, <1>3, <1>4, <1>5, <1>6, StepCases DEF ClientSteps

(* What a write puts.                                                         *)
LEMMA FinishPuts ==
  ASSUME RequestTypes, NEW r \in Requests, Finish(r)
  PROVE  objs'[req[r].t] <= objs[req[r].t] + MaxPut
  <1>1. req[r].t \in Tenants /\ objs[req[r].t] \in Nat
    BY FinishMoves DEF Working, RequestTypes
  <1>2. PICK n \in 0 .. MaxPut : objs' = [objs EXCEPT ![req[r].t] = @ + n]
    BY DEF Finish
  <1>3. objs'[req[r].t] = objs[req[r].t] + n
    BY <1>1, <1>2 DEF RequestTypes
  <1> QED
    BY <1>1, <1>3, ServerAssumption

(* A request that is writing is moved on by its own Finish or by a restart.   *)
LEMMA OnlyFinish ==
  ASSUME RequestTypes, CapTypes, [Next]_vars,
         NEW r \in Requests, req[r].pc = "writing", req'[r] # req[r],
         restarts' = restarts
  PROVE  Finish(r)
  <1>1. CASE Elsewhere
    <2>1. ASSUME NEW q \in Requests, Cancel(q) \/ Unlocked(q) \/ Announce(q)
          PROVE  FALSE
      BY <2>1 DEF Cancel, Unlocked, Announce, RequestTypes
    <2>2. ASSUME NEW q \in Requests, NEW t \in Tenants, NEW op \in Router, Arrive(q, t, op)
          PROVE  FALSE
      BY <2>2 DEF Arrive, RequestTypes
    <2>3. CASE AdminSteps \/ EventSteps \/ UNCHANGED vars
      BY <2>3, Zenon DEF AdminSteps, AdminLoad, AdminTruncate, AdminWrite, AdminCrash, EventSteps,
         Publish, Subscribe, Receive, vars
    <2> QED
      BY <1>1, <2>1, <2>2, <2>3 DEF Elsewhere
  <1>2. CASE Restart
    BY <1>2 DEF Restart, CapTypes
  <1>3. ASSUME NEW q \in Requests, OpenSteps(q)
        PROVE  FALSE
    BY <1>3, OpenMoves DEF Opening, OpeningPcs
  <1>4. ASSUME NEW q \in Requests, Begin(q)
        PROVE  FALSE
    BY <1>4 DEF Begin, RequestTypes
  <1>5. ASSUME NEW q \in Requests, Finish(q)
        PROVE  Finish(r)
    BY <1>5, FinishMoves
  <1>6. CASE ClientSteps
    BY <1>6, ClientMoves DEF ClientSteps
  <1> QED
    BY <1>1, <1>2, <1>3, <1>4, <1>5, <1>6, StepCases

(* QuotaHolds: the overshoot of a checked write is what its own operation     *)
(* puts beyond one object, whatever the other requests do between its check   *)
(* and its put, and whoever raced to open the Repo.                           *)
THEOREM QuotaKept == Spec => QuotaHolds
  <1>1. Init => OneRepo /\ WritersExclusive /\ QuotaInv /\ RegistryInv /\ CapTypes
    BY ServerAssumption DEF Init, OneRepo, WritersExclusive, QuotaInv, NoReq, RegistryInv, Idle,
       CapTypes, Quotas, OpeningPcs
  <1>2. RequestTypes /\ CapTypes /\ QuotaInv /\ [Next]_vars =>
          [\A r \in Requests : req[r].pc = "writing" /\ req[r].op.checked /\ req'[r] # req[r]
             /\ restarts' = restarts => objs'[req[r].t] <= reg[req[r].t] + MaxPut - 1]_vars
    <2> SUFFICES ASSUME RequestTypes, CapTypes, QuotaInv, [Next]_vars, NEW r \in Requests,
                        req[r].pc = "writing", req[r].op.checked, req'[r] # req[r],
                        restarts' = restarts
                 PROVE  objs'[req[r].t] <= reg[req[r].t] + MaxPut - 1
      OBVIOUS
    <2>1. Finish(r)
      BY OnlyFinish
    <2>2. objs'[req[r].t] <= objs[req[r].t] + MaxPut
      BY <2>1, FinishPuts
    <2>3. objs[req[r].t] + 1 <= reg[req[r].t]
      BY DEF QuotaInv, QuotaAllows
    <2>4. req[r] \in Working /\ req[r].t \in DOMAIN reg
      BY <2>1, FinishMoves DEF CapTypes
    <2>5. objs[req[r].t] \in Nat /\ objs'[req[r].t] \in Nat /\ reg[req[r].t] \in Nat
      BY <2>1, <2>4, WorkTypes, ServerAssumption DEF Working, RequestTypes, CapTypes, Quotas
    <2> QED
      BY <2>2, <2>3, <2>5, ServerAssumption
  <1> QED
    BY <1>1, <1>2, TypesInit, TypesNext, OneRepoNext, ExclusiveNext, RouteModeInit, RouteModeNext,
       RegistryNext, CapTypesNext, QuotaNext, PTL
    DEF Spec, QuotaHolds

--------------------------------------------------------------------------------
(* An encrypted tenant gets a commit, a staged file, or a route that is       *)
(* writing a commit only after something sealed was put: deletions alone are  *)
(* nothing to commit.                                                         *)
ModeInv ==
  /\ NoPlainContent
  /\ \A t \in Encrypted : "sealed" \in staged[t] \/ commits[t] # <<>> => "sealed" \in stored[t]
  /\ \A r \in Requests : req[r].pc = "writing" /\ req[r].op.does = "commit" =>
       (req[r].t \in Encrypted => "sealed" \in stored[req[r].t])

(* Of one tenant.                                                             *)
ModeOf(t) ==
  /\ "file" \notin staged[t] /\ "content" \notin stored[t] /\ uploads[t] = 0
  /\ "commit" \in stored[t] => "sealed" \in stored[t]
  /\ "sealed" \in staged[t] \/ commits[t] # <<>> => "sealed" \in stored[t]

LEMMA ModeNext ==
  ASSUME RequestTypes, RouteMode, ModeInv, [Next]_vars
  PROVE  ModeInv'
  <1>0. Encrypted \subseteq Tenants /\ \A t \in Encrypted : ModeOf(t)
    BY ServerAssumption DEF ModeInv, NoPlainContent, ModeOf
  <1>a. ASSUME \A t \in Encrypted : ModeOf(t)',
               \A r \in Requests : req'[r].pc = "writing" /\ req'[r].op.does = "commit" =>
                 (req'[r].t \in Encrypted => "sealed" \in stored'[req'[r].t])
        PROVE  ModeInv'
    BY <1>a DEF ModeInv, NoPlainContent, ModeOf
  <1>1. CASE Elsewhere
    <2>1. \A t \in Encrypted : uploads'[t] = uploads[t]
      <3>1. ASSUME NEW r \in Requests, Unlocked(r)
            PROVE  \A t \in Encrypted : uploads'[t] = uploads[t]
        <4>1. req[r] \in Working
          BY <3>1, Shapes DEF Unlocked, RequestTypes
        <4>2. req[r].t \in Encrypted => req[r].op.does # "open" /\ ~(uploads[req[r].t] > 0)
          BY <1>0, <3>1, <4>1 DEF Unlocked, RouteMode, ModeOf, Working, Routes
        <4> QED
          BY <1>0, <3>1, <4>1, <4>2 DEF Unlocked, RequestTypes, Working
      <3>2. CASE \/ \E r \in Requests : Cancel(r) \/ Announce(r)
                 \/ \E r \in Requests, t \in Tenants, op \in Router : Arrive(r, t, op)
                 \/ AdminSteps \/ EventSteps \/ UNCHANGED vars
        BY <3>2, Zenon DEF Cancel, Announce, Arrive, AdminSteps, AdminLoad, AdminTruncate, AdminWrite,
           AdminCrash, EventSteps, Publish, Subscribe, Receive, vars, tenantVars
      <3> QED
        BY <1>1, <3>1, <3>2 DEF Elsewhere
    <2> QED
      BY <1>0, <1>1, <1>a, <2>1, ElsewhereLeaves DEF ModeInv, ModeOf
  <1>2. CASE Restart
    BY <1>0, <1>2, <1>a DEF Restart, ModeOf, NoReq
  <1>3. ASSUME NEW r \in Requests, OpenSteps(r)
        PROVE  ModeInv'
    BY <1>0, <1>3, <1>a, OpenMoves DEF ModeInv, ModeOf, OpeningPcs
  <1>4. ASSUME NEW r \in Requests, Begin(r)
        PROVE  ModeInv'
    <2>1. req[r] \in Working
      BY <1>4, Shapes DEF Begin, RequestTypes
    <2>2. /\ [req[r] EXCEPT !.pc = "writing"].t = req[r].t
          /\ [req[r] EXCEPT !.pc = "writing"].op = req[r].op
      BY <2>1 DEF Working
    <2>3. req[r].t \in Encrypted /\ req[r].op.does = "commit" /\ Possible(req[r].t, req[r].op)
            => "sealed" \in stored[req[r].t]
      <3> SUFFICES ASSUME req[r].t \in Encrypted, req[r].op.does = "commit",
                          Possible(req[r].t, req[r].op)
                   PROVE  "sealed" \in stored[req[r].t]
        OBVIOUS
      <3>1. staged[req[r].t] \subseteq {"delete", "sealed"}
        BY <1>0 DEF ModeOf, RequestTypes, StagedKinds
      <3>2. "sealed" \in staged[req[r].t] \/ commits[req[r].t] # <<>>
        BY <3>1 DEF Possible
      <3> QED
        BY <1>0, <3>2 DEF ModeOf
    <2>4. UNCHANGED <<stored, staged, uploads, commits>>
      BY <1>4 DEF Begin, tenantVars
    <2>5. ASSUME NEW q \in Requests, req'[q].pc = "writing", req'[q].op.does = "commit",
                 req'[q].t \in Encrypted
          PROVE  "sealed" \in stored'[req'[q].t]
      <3>1. CASE q = r
        BY <1>4, <2>2, <2>3, <2>4, <2>5, <3>1 DEF Begin, RequestTypes, NoReq
      <3>2. CASE q # r
        BY <1>4, <2>4, <2>5, <3>2 DEF Begin, RequestTypes, ModeInv
      <3> QED
        BY <3>1, <3>2
    <2> QED
      BY <1>0, <1>a, <2>4, <2>5 DEF ModeOf
  <1>5. ASSUME NEW r \in Requests, Finish(r)
        PROVE  ModeInv'
    <2> DEFINE t == req[r].t
               does == req[r].op.does
    <2>1. req[r] \in Working /\ t \in Tenants
      BY <1>5, FinishMoves DEF Working
    <2>2. t \in Encrypted => does \notin {"stage", "take"}
      BY <1>5, <2>1 DEF Finish, RouteMode, Working, Routes
    <2>3. t \in Encrypted /\ does = "commit" => "sealed" \in stored[t]
      BY <1>5 DEF Finish, ModeInv
    <2>4. stored' = stored \/ stored' = [stored EXCEPT ![t] = @ \cup {Kind(does)}]
      BY <1>5 DEF Finish
    <2>5. t \in Encrypted /\ does # "commit" => stored' = stored
      <3> SUFFICES ASSUME t \in Encrypted, does # "commit"
                   PROVE  stored' = stored
        OBVIOUS
      <3>1. PICK n \in 0 .. MaxPut : /\ n > 0 => does \in {"stage", "commit", "take"}
                                     /\ stored' = IF n = 0 THEN stored
                                                  ELSE [stored EXCEPT ![t] = @ \cup {Kind(does)}]
        BY <1>5 DEF Finish
      <3>2. ~(n > 0)
        BY <2>2, <3>1
      <3>3. n = 0
        BY <3>2, ServerAssumption
      <3> QED
        BY <3>1, <3>3
    <2>6. \A u \in Tenants : "sealed" \in stored[u] => "sealed" \in stored'[u]
      BY <2>1, <2>4 DEF RequestTypes
    <2>7. ASSUME NEW u \in Encrypted, u = t
          PROVE  ModeOf(u)'
      <3>1. "file" \notin staged'[u] /\ ("sealed" \in staged'[u] => "sealed" \in staged[u])
        BY <1>0, <1>5, <2>1, <2>2, <2>7 DEF Finish, RequestTypes, ModeOf
      <3>2. uploads'[u] = 0
        BY <1>0, <1>5, <2>1, <2>2, <2>7 DEF Finish, RequestTypes, ModeOf
      <3>3. CASE does = "commit"
        <4>1. "sealed" \in stored'[u]
          BY <2>1, <2>3, <2>6, <2>7, <3>3
        <4>2. "content" \notin stored'[u]
          <5>1. stored'[u] \subseteq stored[u] \cup {"commit"}
            BY <2>1, <2>4, <2>7, <3>3 DEF Kind, RequestTypes
          <5> QED
            BY <1>0, <5>1 DEF ModeOf
        <4> QED
          BY <3>1, <3>2, <4>1, <4>2 DEF ModeOf
      <3>4. CASE does # "commit"
        <4>1. stored' = stored
          BY <2>5, <2>7, <3>4
        <4>2. commits' = commits
          BY <1>5, <3>4 DEF Finish
        <4> QED
          BY <1>0, <3>1, <3>2, <4>1, <4>2 DEF ModeOf
      <3> QED
        BY <3>3, <3>4
    <2>8. ASSUME NEW u \in Encrypted
          PROVE  ModeOf(u)'
      <3>1. CASE u = t
        BY <2>7, <3>1
      <3>2. CASE u # t
        <4>1. /\ stored'[u] = stored[u] /\ staged'[u] = staged[u]
              /\ uploads'[u] = uploads[u] /\ commits'[u] = commits[u]
          BY <1>0, <1>5, <3>2, FinishMoves
        <4> QED
          BY <1>0, <4>1 DEF ModeOf
      <3> QED
        BY <3>1, <3>2
    <2>9. \A q \in Requests : req'[q].pc = "writing" => q # r /\ req'[q] = req[q]
      BY <1>5, FinishMoves
    <2> QED
      BY <1>0, <1>a, <2>6, <2>8, <2>9 DEF ModeInv
  <1>6. ASSUME NEW t \in Tenants, EncAdd(t) \/ EncCommit(t)
        PROVE  ModeInv'
    <2>0. /\ req' = req /\ uploads' = uploads
          /\ stored' = [stored EXCEPT ![t] = @ \cup {"sealed"}]
          /\ \/ staged' = [staged EXCEPT ![t] = @ \cup {"sealed"}]
             \/ staged' = [staged EXCEPT ![t] = {}]
             \/ UNCHANGED staged
          /\ commits' = commits \/ commits' = [commits EXCEPT ![t] = Append(@, head[t])]
      BY <1>6, ClientMoves
    <2>1. /\ "sealed" \in stored'[t]
          /\ \A u \in Tenants : /\ stored[u] \subseteq stored'[u]
                                /\ stored'[u] \subseteq stored[u] \cup {"sealed"}
      BY <2>0 DEF RequestTypes
    <2>2. \A u \in Tenants : staged'[u] \subseteq staged[u] \cup {"sealed"}
      BY <2>0 DEF RequestTypes
    <2>3. \A u \in Tenants \ {t} : staged'[u] = staged[u] /\ commits'[u] = commits[u]
      BY <2>0 DEF RequestTypes
    <2>4. \A u \in Encrypted : ModeOf(u)'
      BY <1>0, <2>0, <2>1, <2>2, <2>3 DEF ModeOf
    <2> QED
      BY <1>0, <1>a, <2>0, <2>1, <2>4 DEF ModeInv
  <1> QED
    BY <1>1, <1>2, <1>3, <1>4, <1>5, <1>6, StepCases DEF ClientSteps

(* NoPlainContent: whatever the routes and the tenant's own commands do, in   *)
(* any order, a route puts nothing but commits and their trees into the       *)
(* repository of an encrypted tenant, and those only once the client has put  *)
(* something sealed.                                                          *)
THEOREM EncryptedKept == Spec => []NoPlainContent
  <1>1. Init => ModeInv
    BY ServerAssumption DEF Init, ModeInv, NoPlainContent, NoReq
  <1>2. ModeInv => NoPlainContent
    BY DEF ModeInv
  <1> QED
    BY <1>1, <1>2, TypesInit, TypesNext, RouteModeInit, RouteModeNext, ModeNext, PTL DEF Spec

--------------------------------------------------------------------------------
Same(e, f) == e.t = f.t /\ e.n = f.n

EventTypes ==
  /\ spawned \subseteq Event
  /\ bus \in Seq(Event)
  /\ sub \in [Watchers -> Watcher]

(* A commit is announced at most once: by the request that made it and has    *)
(* not spawned its task, by the task, or by its event in the channel.  What a *)
(* watcher has seen lies before its place in the channel.                     *)
EventInv ==
  /\ \A r \in Requests : req[r].pc = "committed" =>
       /\ req[r].n <= Len(commits[req[r].t])
       /\ \A q \in Requests : req[q].pc = "committed" /\ Same(req[q], req[r]) => q = r
       /\ \A e \in spawned : ~Same(e, req[r])
       /\ \A i \in 1 .. Len(bus) : ~Same(bus[i], req[r])
  /\ \A e \in spawned :
       /\ e.n <= Len(commits[e.t])
       /\ \A f \in spawned : Same(e, f) => e = f
       /\ \A i \in 1 .. Len(bus) : ~Same(bus[i], e)
  /\ \A i \in 1 .. Len(bus) :
       /\ bus[i].n <= Len(commits[bus[i].t])
       /\ \A j \in 1 .. Len(bus) : Same(bus[i], bus[j]) => i = j

SeenInv ==
  \A w \in Watchers :
    /\ sub[w].pos <= Len(bus)
    /\ \A i \in 1 .. Len(sub[w].seen) : \E k \in 1 .. sub[w].pos : sub[w].seen[i] = bus[k]
    /\ \A i, j \in 1 .. Len(sub[w].seen) : Same(sub[w].seen[i], sub[w].seen[j]) => i = j

LEMMA WatcherMoves ==
  ASSUME NEW v \in Watcher, NEW at \in Nat, NEW s \in Seq(Event), NEW l \in BOOLEAN
  PROVE  [v EXCEPT !.pos = at, !.seen = s, !.lagged = l] \in Watcher
  BY DEF Watcher

LEMMA EventTypesNext ==
  ASSUME RequestTypes, EventTypes, [Next]_vars
  PROVE  EventTypes'
  <1>1. ASSUME NEW r \in Requests, Announce(r)
        PROVE  EventTypes'
    <2>1. req[r] \in Committed
      BY <1>1, Shapes DEF Announce, RequestTypes
    <2>2. CommitCreated(req[r].t, req[r].n) \in Event
      BY <2>1 DEF CommitCreated, Event, Committed, RequestTypes
    <2> QED
      BY <1>1, <2>2 DEF Announce, EventTypes
  <1>2. ASSUME NEW e \in spawned, Publish(e)
        PROVE  EventTypes'
    BY <1>2 DEF Publish, EventTypes
  <1>3. ASSUME NEW w \in Watchers, Subscribe(w)
        PROVE  EventTypes'
    <2>1. Len(bus) \in Nat /\ <<>> \in Seq(Event)
      BY DEF EventTypes
    <2>2. [Off EXCEPT !.on = TRUE, !.pos = Len(bus)] \in Watcher
      BY <2>1 DEF Off, Watcher
    <2> QED
      BY <1>3, <2>2 DEF Subscribe, EventTypes
  <1>4. ASSUME NEW w \in Watchers, Receive(w)
        PROVE  EventTypes'
    <2> DEFINE at == IF sub[w].pos < Oldest THEN Oldest ELSE sub[w].pos
    <2>1. sub[w] \in Watcher
      BY DEF EventTypes
    <2>2. at + 1 \in 1 .. Len(bus)
      BY <1>4, <2>1, ServerAssumption DEF Receive, Oldest, EventTypes, Watcher
    <2>3. bus[at + 1] \in Event
      BY <2>2 DEF EventTypes
    <2>4. Append(sub[w].seen, bus[at + 1]) \in Seq(Event)
      BY <2>1, <2>3 DEF Watcher
    <2>5. at + 1 \in Nat /\ (sub[w].lagged \/ at # sub[w].pos) \in BOOLEAN
      BY <2>2
    <2>6. [sub[w] EXCEPT !.pos = at + 1, !.seen = Append(@, bus[at + 1]),
                         !.lagged = @ \/ at # sub[w].pos] \in Watcher
      BY Zenon, <2>1, <2>4, <2>5, WatcherMoves
    <2> QED
      BY <1>4, <2>6 DEF Receive, EventTypes
  <1>5. CASE Restart
    BY <1>5 DEF Restart, EventTypes, Off, Watcher
  <1>6. CASE UNCHANGED busVars
    BY <1>6 DEF EventTypes, busVars
  <1> QED
    <2>1. CASE \E r \in Requests : OpenSteps(r) \/ Begin(r) \/ Finish(r)
      BY <1>6, <2>1 DEF OpenSteps, Cached, Probe, MakeDirs, WriteHead, Insert, Begin, Finish
    <2>2. CASE Elsewhere
      BY <1>1, <1>2, <1>3, <1>4, <1>6, <2>2 DEF Elsewhere, Cancel, Unlocked, Arrive, AdminSteps,
         AdminLoad, AdminTruncate, AdminWrite, AdminCrash, EventSteps, vars, busVars
    <2>3. CASE ClientSteps
      BY <1>6, <2>3 DEF ClientSteps, EncAdd, EncCommit
    <2> QED
      BY <1>5, <2>1, <2>2, <2>3, StepCases

LEMMA EventNext ==
  ASSUME RequestTypes, EventTypes, EventInv, [Next]_vars
  PROVE  EventInv'
  <1> USE DEF Same
  <1>0. \A e \in Event : e.t \in Tenants /\ e.n \in Nat
    BY DEF Event
  <1>1. ASSUME NEW r \in Requests, Announce(r)
        PROVE  EventInv'
    <2> DEFINE e == CommitCreated(req[r].t, req[r].n)
    <2>1. e.t = req[r].t /\ e.n = req[r].n
      BY DEF CommitCreated
    <2>2. /\ spawned' = spawned \cup {e} /\ UNCHANGED <<bus, commits>>
          /\ req'[r].pc = "idle" /\ \A q \in Requests \ {r} : req'[q] = req[q]
          /\ req[r].pc = "committed"
      BY <1>1 DEF Announce, RequestTypes, NoReq, tenantVars
    <2> HIDE DEF e
    <2> QED
      BY <2>1, <2>2 DEF EventInv
  <1>2. ASSUME NEW e \in spawned, Publish(e)
        PROVE  EventInv'
    <2>1. spawned' = spawned \ {e} /\ UNCHANGED <<req, commits>>
      BY <1>2 DEF Publish, tenantVars
    <2>2. /\ Len(bus') = Len(bus) + 1 /\ bus'[Len(bus) + 1] = e
          /\ \A i \in 1 .. Len(bus) : bus'[i] = bus[i]
          /\ Len(bus) \in Nat
      BY <1>2 DEF Publish, EventTypes
    <2>3. \A i \in 1 .. Len(bus') : i \in 1 .. Len(bus) \/ (i = Len(bus) + 1 /\ bus'[i] = e)
      BY <2>2
    <2>4. ASSUME NEW r \in Requests, req'[r].pc = "committed"
          PROVE  /\ req'[r].n <= Len(commits'[req'[r].t])
                 /\ \A q \in Requests : req'[q].pc = "committed" /\ Same(req'[q], req'[r]) => q = r
                 /\ \A f \in spawned' : ~Same(f, req'[r])
                 /\ \A i \in 1 .. Len(bus') : ~Same(bus'[i], req'[r])
      BY <2>1, <2>2, <2>3, <2>4 DEF EventInv
    <2>5. ASSUME NEW f \in spawned'
          PROVE  /\ f.n <= Len(commits'[f.t])
                 /\ \A g \in spawned' : Same(f, g) => f = g
                 /\ \A i \in 1 .. Len(bus') : ~Same(bus'[i], f)
      BY <2>1, <2>2, <2>3 DEF EventInv
    <2>6. ASSUME NEW i \in 1 .. Len(bus')
          PROVE  /\ bus'[i].n <= Len(commits'[bus'[i].t])
                 /\ \A j \in 1 .. Len(bus') : Same(bus'[i], bus'[j]) => i = j
      BY <2>1, <2>2, <2>3 DEF EventInv
    <2> QED
      BY <2>4, <2>5, <2>6 DEF EventInv
  <1>3. ASSUME NEW r \in Requests, Finish(r)
        PROVE  EventInv'
    <2> DEFINE t == req[r].t
    <2>1. /\ UNCHANGED <<spawned, bus>>
          /\ \A q \in Requests \ {r} : req'[q] = req[q]
          /\ req[r] \in Working /\ t \in Tenants
      BY <1>3, FinishMoves DEF busVars, Working
    <2>2. \/ req'[r].pc = "idle"
          \/ req'[r].pc = "committed" /\ req'[r].t = t /\ req'[r].n = Len(commits[t]) + 1
             /\ commits' = [commits EXCEPT ![t] = Append(@, head[t])]
      BY <1>3 DEF Finish, RequestTypes, NoReq
    <2>3. commits' = commits \/ commits' = [commits EXCEPT ![t] = Append(@, head[t])]
      BY <1>3 DEF Finish
    <2>4. \A u \in Tenants : Len(commits[u]) \in Nat /\ Len(commits[u]) <= Len(commits'[u])
      <3>1. \A u \in Tenants : Len(commits[u]) \in Nat
        BY DEF RequestTypes
      <3>2. Len(Append(commits[t], head[t])) = Len(commits[t]) + 1
        BY <2>1 DEF RequestTypes
      <3>3. \A u \in Tenants :
              \/ commits'[u] = commits[u]
              \/ u = t /\ commits'[u] = Append(commits[t], head[t])
        <4>1. CASE commits' = [commits EXCEPT ![t] = Append(@, head[t])]
          BY <2>1, <4>1 DEF RequestTypes
        <4> QED
          BY <2>3, <4>1
      <3> QED
        BY <3>1, <3>2, <3>3
    <2>5. req'[r].pc = "committed" => req'[r].n <= Len(commits'[t])
      BY <2>1, <2>2 DEF RequestTypes
    <2>6. /\ \A q \in Requests : req[q].pc = "committed" => req[q].t \in Tenants /\ req[q].n \in Nat
          /\ \A e \in spawned : e.t \in Tenants /\ e.n \in Nat
          /\ \A i \in 1 .. Len(bus) : bus[i].t \in Tenants /\ bus[i].n \in Nat
      BY <1>0, Shapes DEF RequestTypes, EventTypes, Committed
    <2>7. ASSUME NEW q \in Requests, req'[q].pc = "committed"
          PROVE  /\ req'[q].n <= Len(commits'[req'[q].t])
                 /\ \A p \in Requests : req'[p].pc = "committed" /\ Same(req'[p], req'[q]) => p = q
                 /\ \A f \in spawned' : ~Same(f, req'[q])
                 /\ \A i \in 1 .. Len(bus') : ~Same(bus'[i], req'[q])
      <3>1. CASE q = r
        BY <2>1, <2>2, <2>4, <2>5, <2>6, <2>7, <3>1 DEF EventInv
      <3>2. CASE q # r
        <4>1. req'[q] = req[q] /\ req[q].t \in Tenants /\ req[q].n \in Nat
          BY <2>1, <2>6, <2>7, <3>2
        <4>2. req[q].n <= Len(commits[req[q].t])
          BY <2>7, <4>1 DEF EventInv
        <4>3. req'[r].pc = "committed" => ~Same(req'[r], req'[q])
          BY <2>2, <2>4, <4>1, <4>2
        <4> QED
          BY <2>1, <2>4, <2>7, <4>1, <4>2, <4>3 DEF EventInv
      <3> QED
        BY <3>1, <3>2
    <2>8. ASSUME NEW f \in spawned'
          PROVE  /\ f.n <= Len(commits'[f.t])
                 /\ \A g \in spawned' : Same(f, g) => f = g
                 /\ \A i \in 1 .. Len(bus') : ~Same(bus'[i], f)
      BY <2>1, <2>4, <2>6 DEF EventInv
    <2>9. ASSUME NEW i \in 1 .. Len(bus')
          PROVE  /\ bus'[i].n <= Len(commits'[bus'[i].t])
                 /\ \A j \in 1 .. Len(bus') : Same(bus'[i], bus'[j]) => i = j
      BY <2>1, <2>4, <2>6 DEF EventInv
    <2> QED
      BY <2>7, <2>8, <2>9 DEF EventInv
  <1>4. CASE Restart
    BY <1>4 DEF Restart, EventInv, NoReq
  <1>5. CASE /\ UNCHANGED <<commits, spawned, bus>>
             /\ \A r \in Requests : req'[r] = req[r] \/ req'[r].pc # "committed"
    BY <1>5 DEF EventInv
  <1>6. ASSUME NEW t \in Tenants, EncAdd(t) \/ EncCommit(t)
        PROVE  EventInv'
    <2>1. UNCHANGED <<req, spawned, bus>>
      BY <1>6, ClientMoves DEF busVars
    <2>2. \A u \in Tenants : Len(commits[u]) \in Nat /\ Len(commits[u]) <= Len(commits'[u])
      <3>1. \A u \in Tenants : Len(commits[u]) \in Nat
        BY DEF RequestTypes
      <3>2. Len(Append(commits[t], head[t])) = Len(commits[t]) + 1
        BY DEF RequestTypes
      <3>3. \A u \in Tenants :
              \/ commits'[u] = commits[u]
              \/ u = t /\ commits'[u] = Append(commits[t], head[t])
        BY <1>6, ClientMoves DEF RequestTypes
      <3> QED
        BY <3>1, <3>2, <3>3
    <2>3. /\ \A q \in Requests : req[q].pc = "committed" => req[q].t \in Tenants /\ req[q].n \in Nat
          /\ \A e \in spawned : e.t \in Tenants /\ e.n \in Nat
          /\ \A i \in 1 .. Len(bus) : bus[i].t \in Tenants /\ bus[i].n \in Nat
      BY <1>0, Shapes DEF RequestTypes, EventTypes, Committed
    <2>4. /\ \A q \in Requests : req[q].pc = "committed" => req[q].n <= Len(commits'[req[q].t])
          /\ \A e \in spawned : e.n <= Len(commits'[e.t])
          /\ \A i \in 1 .. Len(bus) : bus[i].n <= Len(commits'[bus[i].t])
      BY <2>2, <2>3 DEF EventInv
    <2> QED
      BY <2>1, <2>4 DEF EventInv
  <1> QED
    <2>1. ASSUME NEW r \in Requests, OpenSteps(r)
          PROVE  EventInv'
      BY <1>5, <2>1, OpenMoves DEF busVars, OpeningPcs
    <2>2. ASSUME NEW r \in Requests, Begin(r)
          PROVE  EventInv'
      <3>1. req[r] \in Working
        BY <2>2, Shapes DEF Begin, RequestTypes
      <3>2. [req[r] EXCEPT !.pc = "writing"].pc = "writing"
        BY <3>1 DEF Working
      <3> QED
        BY <1>5, <2>2, <3>2 DEF Begin, RequestTypes, NoReq, tenantVars, busVars
    <2>3. CASE Elsewhere
      <3>1. CASE \E r \in Requests : Announce(r)
        BY <1>1, <3>1
      <3>2. CASE \E e \in spawned : Publish(e)
        BY <1>2, <3>2
      <3>3. CASE \/ \E r \in Requests : Cancel(r) \/ Unlocked(r)
                 \/ \E r \in Requests, t \in Tenants, op \in Router : Arrive(r, t, op)
                 \/ AdminSteps \/ \E w \in Watchers : Subscribe(w) \/ Receive(w)
                 \/ UNCHANGED vars
        <4>1. UNCHANGED <<commits, spawned, bus>>
          BY <3>3, Zenon DEF Cancel, Unlocked, Arrive, AdminSteps, AdminLoad, AdminTruncate, AdminWrite,
             AdminCrash, Subscribe, Receive, vars, tenantVars, busVars
        <4> QED
          BY <1>5, <2>3, <4>1, ElsewhereLeaves
      <3> QED
        BY <2>3, <3>1, <3>2, <3>3 DEF Elsewhere, EventSteps
    <2>4. CASE ClientSteps
      BY <1>6, <2>4 DEF ClientSteps
    <2> QED
      BY <1>3, <1>4, <2>1, <2>2, <2>3, <2>4, StepCases

(* A watcher that falls behind skips ahead, never back.                       *)
LEMMA SeenNext ==
  ASSUME EventTypes, EventInv, SeenInv, [Next]_vars
  PROVE  SeenInv'
  <1>1. ASSUME NEW e \in spawned, Publish(e)
        PROVE  SeenInv'
    <2>1. /\ Len(bus') = Len(bus) + 1 /\ Len(bus) \in Nat /\ sub' = sub
          /\ \A i \in 1 .. Len(bus) : bus'[i] = bus[i]
      BY <1>1 DEF Publish, EventTypes
    <2>2. \A w \in Watchers : sub[w].pos \in Nat
      BY DEF EventTypes, Watcher
    <2>3. \A w \in Watchers : \A k \in 1 .. sub[w].pos : bus'[k] = bus[k]
      BY <2>1, <2>2 DEF SeenInv
    <2> SUFFICES ASSUME NEW v \in Watchers
                 PROVE  /\ sub'[v].pos <= Len(bus')
                        /\ \A i \in 1 .. Len(sub'[v].seen) :
                             \E k \in 1 .. sub'[v].pos : sub'[v].seen[i] = bus'[k]
                        /\ \A i, j \in 1 .. Len(sub'[v].seen) :
                             Same(sub'[v].seen[i], sub'[v].seen[j]) => i = j
      BY DEF SeenInv, Same
    <2>4. sub'[v].pos <= Len(bus')
      BY <2>1, <2>2 DEF SeenInv
    <2> QED
      BY <2>1, <2>3, <2>4 DEF SeenInv
  <1>2. ASSUME NEW w \in Watchers, Subscribe(w)
        PROVE  SeenInv'
    <2>1. /\ sub'[w].pos = Len(bus) /\ sub'[w].seen = <<>> /\ bus' = bus
          /\ \A v \in Watchers \ {w} : sub'[v] = sub[v]
      BY <1>2 DEF Subscribe, EventTypes, Off
    <2>2. Len(bus) \in Nat
      BY DEF EventTypes
    <2> SUFFICES ASSUME NEW v \in Watchers
                 PROVE  /\ sub'[v].pos <= Len(bus')
                        /\ \A i \in 1 .. Len(sub'[v].seen) :
                             \E k \in 1 .. sub'[v].pos : sub'[v].seen[i] = bus'[k]
                        /\ \A i, j \in 1 .. Len(sub'[v].seen) :
                             Same(sub'[v].seen[i], sub'[v].seen[j]) => i = j
      BY DEF SeenInv, Same
    <2>3. CASE v = w
      BY <2>1, <2>2, <2>3
    <2>4. CASE v # w
      <3>1. sub'[v] = sub[v] /\ bus' = bus
        BY <2>1, <2>4
      <3> QED
        BY <3>1 DEF SeenInv
    <2> QED
      BY <2>3, <2>4
  <1>3. ASSUME NEW w \in Watchers, Receive(w)
        PROVE  SeenInv'
    <2> DEFINE at == IF sub[w].pos < Oldest THEN Oldest ELSE sub[w].pos
               seen == sub[w].seen
    <2>1. sub[w] \in Watcher /\ sub[w].pos \in Nat /\ seen \in Seq(Event)
      BY DEF EventTypes, Watcher
    <2>2. at + 1 \in 1 .. Len(bus) /\ sub[w].pos <= at /\ at \in Nat
      <3>1. Len(bus) \in Nat /\ sub[w].pos < Len(bus)
        BY <1>3 DEF Receive, EventTypes
      <3>2. Oldest = 0 \/ (Oldest \in Nat /\ Oldest < Len(bus))
        BY <3>1, ServerAssumption DEF Oldest
      <3> QED
        BY <2>1, <3>1, <3>2
    <2>3. /\ sub'[w].pos = at + 1 /\ sub'[w].seen = Append(seen, bus[at + 1]) /\ bus' = bus
          /\ \A v \in Watchers \ {w} : sub'[v] = sub[v]
      BY <1>3, <2>1 DEF Receive, EventTypes, Watcher
    <2>4. /\ Len(sub'[w].seen) = Len(seen) + 1 /\ Len(seen) \in Nat
          /\ sub'[w].seen[Len(seen) + 1] = bus[at + 1]
          /\ \A i \in 1 .. Len(seen) : sub'[w].seen[i] = seen[i]
      BY <2>1, <2>3
    <2> HIDE DEF at
    <2>5. \A i \in 1 .. Len(sub'[w].seen) : \E k \in 1 .. at + 1 : sub'[w].seen[i] = bus[k]
      <3> SUFFICES ASSUME NEW i \in 1 .. Len(sub'[w].seen)
                   PROVE  \E k \in 1 .. at + 1 : sub'[w].seen[i] = bus[k]
        OBVIOUS
      <3>1. CASE i = Len(seen) + 1
        BY <2>2, <2>4, <3>1
      <3>2. CASE i # Len(seen) + 1
        <4>1. i \in 1 .. Len(seen)
          BY <2>4, <3>2
        <4>2. PICK k \in 1 .. sub[w].pos : seen[i] = bus[k]
          BY <4>1 DEF SeenInv
        <4> QED
          BY <2>1, <2>2, <2>4, <4>1, <4>2
      <3> QED
        BY <3>1, <3>2
    <2>6. \A i \in 1 .. Len(seen) : ~Same(seen[i], bus[at + 1])
      <3> SUFFICES ASSUME NEW i \in 1 .. Len(seen)
                   PROVE  ~Same(seen[i], bus[at + 1])
        OBVIOUS
      <3>1. PICK k \in 1 .. sub[w].pos : seen[i] = bus[k]
        BY DEF SeenInv
      <3>2. k \in 1 .. Len(bus) /\ k # at + 1
        BY <2>1, <2>2
      <3> QED
        BY <2>2, <3>1, <3>2 DEF EventInv
    <2>7. \A i, j \in 1 .. Len(sub'[w].seen) : Same(sub'[w].seen[i], sub'[w].seen[j]) => i = j
      <3> SUFFICES ASSUME NEW i \in 1 .. Len(sub'[w].seen), NEW j \in 1 .. Len(sub'[w].seen),
                          Same(sub'[w].seen[i], sub'[w].seen[j])
                   PROVE  i = j
        OBVIOUS
      <3>1. /\ i \in 1 .. Len(seen) \/ i = Len(seen) + 1
            /\ j \in 1 .. Len(seen) \/ j = Len(seen) + 1
        BY <2>4
      <3>2. \A a, b \in 1 .. Len(seen) : Same(seen[a], seen[b]) => a = b
        BY DEF SeenInv
      <3> QED
        BY <2>4, <2>6, <3>1, <3>2 DEF Same
    <2>8. at + 1 <= Len(bus)
      BY <2>2
    <2> QED
      <3> SUFFICES ASSUME NEW v \in Watchers
                   PROVE  /\ sub'[v].pos <= Len(bus')
                          /\ \A i \in 1 .. Len(sub'[v].seen) :
                               \E k \in 1 .. sub'[v].pos : sub'[v].seen[i] = bus'[k]
                          /\ \A i, j \in 1 .. Len(sub'[v].seen) :
                               Same(sub'[v].seen[i], sub'[v].seen[j]) => i = j
        BY DEF SeenInv, Same
      <3>1. CASE v = w
        BY <2>3, <2>5, <2>7, <2>8, <3>1
      <3>2. CASE v # w
        <4>1. sub'[v] = sub[v] /\ bus' = bus
          BY <2>3, <3>2
        <4> QED
          BY <4>1 DEF SeenInv
      <3> QED
        BY <3>1, <3>2
  <1>4. CASE Restart
    BY <1>4 DEF Restart, SeenInv, Off
  <1>5. CASE UNCHANGED <<bus, sub>>
    BY <1>5 DEF SeenInv
  <1> QED
    <2>1. CASE \E r \in Requests : OpenSteps(r) \/ Begin(r) \/ Finish(r)
      BY <1>5, <2>1 DEF OpenSteps, Cached, Probe, MakeDirs, WriteHead, Insert, Begin, Finish, busVars
    <2>2. CASE Elsewhere
      BY <1>1, <1>2, <1>3, <1>5, <2>2 DEF Elsewhere, Cancel, Unlocked, Announce, Arrive,
         AdminSteps, AdminLoad, AdminTruncate, AdminWrite, AdminCrash, EventSteps, vars, busVars
    <2>3. CASE ClientSteps
      BY <1>5, <2>3 DEF ClientSteps, EncAdd, EncCommit, busVars
    <2> QED
      BY <1>4, <2>1, <2>2, <2>3, StepCases

(* EventsTrue: an event is of a commit that is in the repository, whatever    *)
(* order the spawned tasks publish in, and no watcher sees one twice, also    *)
(* when it has lagged.                                                        *)
THEOREM EventsAreTrue == Spec => []EventsTrue
  <1>1. Init => EventTypes /\ EventInv /\ SeenInv
    BY DEF Init, EventTypes, EventInv, SeenInv, Off, Watcher, NoReq
  <1>2. EventTypes /\ EventInv /\ SeenInv => EventsTrue
    <2> SUFFICES ASSUME EventTypes, EventInv, SeenInv
                 PROVE  EventsTrue
      OBVIOUS
    <2>1. \A e \in spawned : e.n <= Len(commits[e.t])
      BY DEF EventInv
    <2>2. ASSUME NEW w \in Watchers, NEW i \in DOMAIN sub[w].seen
          PROVE  sub[w].seen[i].n <= Len(commits[sub[w].seen[i].t])
      <3>1. sub[w].seen \in Seq(Event) /\ sub[w].pos \in Nat /\ Len(bus) \in Nat
        BY DEF EventTypes, Watcher
      <3>2. PICK k \in 1 .. sub[w].pos : sub[w].seen[i] = bus[k]
        BY <3>1 DEF SeenInv
      <3>3. k \in 1 .. Len(bus)
        BY <3>1 DEF SeenInv
      <3> QED
        BY <3>2, <3>3 DEF EventInv
    <2>3. ASSUME NEW w \in Watchers, NEW i \in DOMAIN sub[w].seen, NEW j \in DOMAIN sub[w].seen,
                 sub[w].seen[i].t = sub[w].seen[j].t, sub[w].seen[i].n = sub[w].seen[j].n
          PROVE  i = j
      <3>1. sub[w].seen \in Seq(Event)
        BY DEF EventTypes, Watcher
      <3>2. i \in 1 .. Len(sub[w].seen) /\ j \in 1 .. Len(sub[w].seen)
        BY <3>1
      <3>3. Same(sub[w].seen[i], sub[w].seen[j])
        BY <2>3 DEF Same
      <3> QED
        BY <3>2, <3>3 DEF SeenInv
    <2> QED
      BY <2>1, <2>2, <2>3 DEF EventsTrue
  <1> QED
    BY <1>1, <1>2, TypesInit, TypesNext, EventTypesNext, EventNext, SeenNext, PTL DEF Spec
================================================================================
