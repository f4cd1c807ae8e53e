-------------------------------- MODULE Server --------------------------------
(* omp-server: the tenant registry and the admin commands that edit it, how a *)
(* request gets its tenant's Repo (one per tenant, made on first use), what   *)
(* each route needs and changes, the quotas, and the events of commits on     *)
(* their way to the watchers.  What the Repo operations do to index and refs  *)
(* is the subject of module Repo; here they are counts of objects, staged     *)
(* entries and upload sessions.                                               *)
EXTENDS Integers, FiniteSets, Sequences

CONSTANTS
  Tenants,
  Encrypted,              \* tenants whose registry entry has an identity key
  Requests, Watchers, Admins,
  Caps, InitCap,          \* object_count quotas; the one tenants start with
  MaxPut,                 \* objects one operation adds, at most
  BusCap,                 \* capacity of the broadcast channel
  MaxCommits, MaxObjects, MaxUploads, MaxRestarts,   \* bounds of the model
  None

ASSUME ServerAssumption ==
  /\ Encrypted \subseteq Tenants
  /\ Caps \subseteq Nat /\ InitCap \in Caps
  /\ None \notin Requests
  /\ MaxPut \in Nat \ {0} /\ BusCap \in Nat \ {0}
  /\ MaxCommits \in Nat /\ MaxObjects \in Nat /\ MaxUploads \in Nat /\ MaxRestarts \in Nat

VARIABLES
  file,      \* tenants.toml: the quota of every tenant in it
  admin,     \* admin commands under way
  wanted,    \* tenants created and not deleted by commands that finished
  quiet,     \* admin commands have so far run one at a time, to their end
  reg,       \* TenantRegistry in the server's memory
  disk,      \* a tenant's directory: "none", "dir" (.omp without HEAD), "ready"
  head,      \* branch that HEAD names
  repos,     \* AppState's cache of open Repos
  objs,      \* objects in the store of a tenant
  stored,    \* kinds of objects among them: of files in plaintext ("content"),
             \* of commits through the server ("commit"), put with keys ("sealed")
  staged,    \* kinds of changes a tenant has staged
  uploads,   \* open upload sessions
  commits,   \* branches of a tenant's commits, in the order they were made
  req,       \* requests in progress
  spawned,   \* tasks with an event to publish
  bus,       \* all events published since the server started
  sub,       \* watchers: where they are in the bus, what they saw
  restarts

adminVars == <<file, admin, wanted, quiet>>
busVars == <<spawned, bus, sub>>
tenantVars == <<disk, head, repos, objs, stored, staged, uploads, commits>>
vars == <<file, admin, wanted, quiet, reg, disk, head, repos, objs, stored, staged, uploads,
          commits, req, spawned, bus, sub, restarts>>

NoReq == [pc |-> "idle"]
Off == [on |-> FALSE, pos |-> 0, lagged |-> FALSE, seen |-> <<>>]
Branches == {"main", "dev"}

--------------------------------------------------------------------------------
(* Routes: whether the tenant must be in plaintext mode, whether the quota is *)
(* checked, whether the operation takes the Repo's write_lock, and what it    *)
(* does.                                                                      *)
Route(plain, checked, locks, does) ==
  [plain |-> plain, checked |-> checked, locks |-> locks, does |-> does]

post_file          == Route(TRUE, TRUE, TRUE, "stage")
patch_fields       == Route(TRUE, FALSE, TRUE, "stage")
delete_file        == Route(FALSE, FALSE, TRUE, "unstage")
commit_route       == Route(FALSE, FALSE, TRUE, "commit")
create_branch      == Route(FALSE, FALSE, TRUE, "branch")
checkout_route     == Route(FALSE, FALSE, TRUE, "checkout")
test_ingest        == Route(TRUE, FALSE, FALSE, "nothing")
(* Faulty: the encryption mode is not looked at.                              *)
PostUploadAnyMode  == Route(FALSE, TRUE, FALSE, "open")
post_upload        == Route(TRUE, TRUE, FALSE, "open")
patch_upload_chunk == Route(FALSE, FALSE, FALSE, "nothing")
post_upload_commit == Route(TRUE, FALSE, TRUE, "take")
delete_upload      == Route(FALSE, FALSE, FALSE, "abort")
status             == Route(FALSE, FALSE, FALSE, "nothing")
list_files         == Route(FALSE, FALSE, FALSE, "nothing")
get_file           == Route(FALSE, FALSE, FALSE, "nothing")
get_bytes          == Route(FALSE, FALSE, FALSE, "nothing")
tree_root          == Route(FALSE, FALSE, FALSE, "nothing")
tree_path          == Route(FALSE, FALSE, FALSE, "nothing")
log_route          == Route(FALSE, FALSE, FALSE, "nothing")
diff_route         == Route(FALSE, FALSE, FALSE, "nothing")
list_branches      == Route(FALSE, FALSE, FALSE, "nothing")
query_route        == Route(FALSE, FALSE, FALSE, "nothing")
list_schemas_route == Route(FALSE, FALSE, FALSE, "nothing")
audit_route        == Route(FALSE, FALSE, FALSE, "nothing")

Router ==
  {post_file, patch_fields, delete_file, commit_route, create_branch, checkout_route,
   test_ingest, post_upload, patch_upload_chunk, post_upload_commit, delete_upload,
   status, list_files, get_file, get_bytes, tree_root, tree_path, log_route, diff_route,
   list_branches, query_route, list_schemas_route, audit_route}

--------------------------------------------------------------------------------
Init ==
  /\ file = [t \in Tenants |-> InitCap] /\ reg = file
  /\ admin = [a \in Admins |-> NoReq]
  /\ wanted = Tenants /\ quiet = TRUE
  /\ disk = [t \in Tenants |-> "none"] /\ head = [t \in Tenants |-> None]
  /\ repos = [t \in Tenants |-> None]
  /\ objs = [t \in Tenants |-> 0] /\ stored = [t \in Tenants |-> {}]
  /\ staged = [t \in Tenants |-> {}]
  /\ uploads = [t \in Tenants |-> 0] /\ commits = [t \in Tenants |-> <<>>]
  /\ req = [r \in Requests |-> NoReq]
  /\ spawned = {} /\ bus = <<>> /\ sub = [w \in Watchers |-> Off]
  /\ restarts = 0

(* The process ends and starts again: it has what the disk has.               *)
Restart ==
  /\ restarts < MaxRestarts /\ restarts' = restarts + 1
  /\ reg' = file
  /\ repos' = [t \in Tenants |-> None]
  /\ req' = [r \in Requests |-> NoReq]
  /\ spawned' = {} /\ bus' = <<>> /\ sub' = [w \in Watchers |-> Off]
  /\ UNCHANGED <<adminVars, disk, head, objs, stored, staged, uploads, commits>>

--------------------------------------------------------------------------------
(* omp admin tenant create, delete, set-quota                                 *)

Idle(a) == admin[a].pc = "idle"

(* TenantRegistry::create, ::remove and ::set_quotas on a loaded registry     *)
Create(m, t, c) == [u \in DOMAIN m \cup {t} |-> IF u = t THEN c ELSE m[u]]
Remove(m, t) == [u \in DOMAIN m \ {t} |-> m[u]]
SetQuotas(m, t, c) == [m EXCEPT ![t] = c]

(* The command loads the registry and changes it in memory; what it asks for  *)
(* twice, or of a tenant there is none of, is an error.                       *)
AdminLoad(a, cmd, t, c) ==
  /\ Idle(a)
  /\ (cmd = "create") = (t \notin DOMAIN file)
  /\ admin' = [admin EXCEPT ![a] =
                 [pc |-> "loaded", cmd |-> cmd, t |-> t,
                  m |-> CASE cmd = "create" -> Create(file, t, c)
                          [] cmd = "delete" -> Remove(file, t)
                          [] OTHER          -> SetQuotas(file, t, c)]]
  /\ quiet' = (quiet /\ \A b \in Admins : Idle(b))
  /\ UNCHANGED <<file, wanted, reg, tenantVars, req, busVars, restarts>>

(* TenantRegistry::save, 1: fs::write truncates the file.  An empty file is   *)
(* an empty registry to load.                                                 *)
AdminTruncate(a) ==
  /\ admin[a].pc = "loaded"
  /\ admin' = [admin EXCEPT ![a].pc = "truncated"]
  /\ file' = <<>>
  /\ UNCHANGED <<wanted, quiet, reg, tenantVars, req, busVars, restarts>>

(* Faulty: what the command loaded is saved, without the change.              *)
AdminWriteLoaded(a) ==
  /\ admin[a].pc = "truncated"
  /\ file' = IF admin[a].cmd = "create" THEN Remove(admin[a].m, admin[a].t) ELSE admin[a].m
  /\ wanted' = CASE admin[a].cmd = "create" -> wanted \cup {admin[a].t}
                 [] admin[a].cmd = "delete" -> wanted \ {admin[a].t}
                 [] OTHER                   -> wanted
  /\ admin' = [admin EXCEPT ![a] = NoReq]
  /\ UNCHANGED <<quiet, reg, tenantVars, req, busVars, restarts>>

(* TenantRegistry::save, 2: and writes it; the command reports its success    *)
AdminWrite(a) ==
  /\ admin[a].pc = "truncated"
  /\ file' = admin[a].m
  /\ wanted' = CASE admin[a].cmd = "create" -> wanted \cup {admin[a].t}
                 [] admin[a].cmd = "delete" -> wanted \ {admin[a].t}
                 [] OTHER                   -> wanted
  /\ admin' = [admin EXCEPT ![a] = NoReq]
  /\ UNCHANGED <<quiet, reg, tenantVars, req, busVars, restarts>>

AdminCrash(a) ==
  /\ ~Idle(a)
  /\ admin' = [admin EXCEPT ![a] = NoReq]
  /\ quiet' = FALSE
  /\ UNCHANGED <<file, wanted, reg, tenantVars, req, busVars, restarts>>

--------------------------------------------------------------------------------
(* resolve and get_or_open.                                                   *)

(* resolve: the token's entry, and require_plaintext_mode                     *)
Arrive(r, t, op) ==
  /\ req[r].pc = "idle"
  /\ t \in DOMAIN reg
  /\ op.plain => t \notin Encrypted
  /\ req' = [req EXCEPT ![r] = [pc |-> "cache", t |-> t, op |-> op]]
  /\ UNCHANGED <<adminVars, reg, tenantVars, busVars, restarts>>

(* get_or_open: the cached Repo                                               *)
Cached(r) ==
  /\ req[r].pc = "cache"
  /\ LET h == repos[req[r].t] IN
     req' = [req EXCEPT ![r] =
       IF h # None THEN [pc |-> "ready", t |-> @.t, op |-> @.op, h |-> h]
       ELSE [@ EXCEPT !.pc = "probe"]]
  /\ UNCHANGED <<adminVars, reg, tenantVars, busVars, restarts>>

(* Faulty: while there is no HEAD, waits for the request that makes it.       *)
ProbeWaits(r) ==
  /\ req[r].pc = "probe"
  /\ disk[req[r].t] # "dir"
  /\ req' = [req EXCEPT ![r].pc = IF disk[req[r].t] = "none" THEN "init" ELSE "insert"]
  /\ UNCHANGED <<adminVars, reg, tenantVars, busVars, restarts>>

(* get_or_open: does .omp exist?  If so, open_tenant                          *)
Probe(r) ==
  /\ req[r].pc = "probe"
  /\ req' = [req EXCEPT ![r].pc = IF disk[req[r].t] = "none" THEN "init" ELSE "insert"]
  /\ UNCHANGED <<adminVars, reg, tenantVars, busVars, restarts>>

(* init_tenant, DiskStore::init: the directories, and is there a HEAD?        *)
MakeDirs(r) ==
  /\ req[r].pc = "init"
  /\ LET t == req[r].t IN
     /\ disk' = [disk EXCEPT ![t] = IF @ = "none" THEN "dir" ELSE @]
     /\ req' = [req EXCEPT ![r].pc = IF disk[t] = "ready" THEN "insert" ELSE "head"]
  /\ UNCHANGED <<adminVars, reg, head, repos, objs, stored, staged, uploads, commits, busVars, restarts>>

(* DiskStore::init: HEAD on main                                              *)
WriteHead(r) ==
  /\ req[r].pc = "head"
  /\ disk' = [disk EXCEPT ![req[r].t] = "ready"]
  /\ head' = [head EXCEPT ![req[r].t] = "main"]
  /\ req' = [req EXCEPT ![r].pc = "insert"]
  /\ UNCHANGED <<adminVars, reg, repos, objs, stored, staged, uploads, commits, busVars, restarts>>

(* Faulty: the cache is not looked at again.                                  *)
InsertUnchecked(r) ==
  /\ req[r].pc = "insert"
  /\ LET t == req[r].t IN
     /\ repos' = [repos EXCEPT ![t] = r]
     /\ req' = [req EXCEPT ![r] = [pc |-> "ready", t |-> t, op |-> @.op, h |-> r]]
  /\ UNCHANGED <<adminVars, reg, disk, head, objs, stored, staged, uploads, commits, busVars, restarts>>

(* get_or_open: the Repo that another request cached meanwhile, or this one.  *)
(* A Repo is named by the request that made it.                               *)
Insert(r) ==
  /\ req[r].pc = "insert"
  /\ LET t == req[r].t
         h == IF repos[t] # None THEN repos[t] ELSE r
     IN /\ repos' = [repos EXCEPT ![t] = h]
        /\ req' = [req EXCEPT ![r] = [pc |-> "ready", t |-> t, op |-> @.op, h |-> h]]
  /\ UNCHANGED <<adminVars, reg, disk, head, objs, stored, staged, uploads, commits, busVars, restarts>>

(* The client is gone, and the handler is dropped where it waits for a lock;  *)
(* or the disk fails it while it opens the Repo.                              *)
Cancel(r) ==
  /\ req[r].pc \in {"cache", "init", "head", "insert"}
  /\ req' = [req EXCEPT ![r] = NoReq]
  /\ UNCHANGED <<adminVars, reg, tenantVars, busVars, restarts>>

--------------------------------------------------------------------------------
(* The operations of a Repo.                                                  *)

Holds(q, t, h) == req[q].pc = "writing" /\ req[q].t = t /\ req[q].h = h

(* Faulty: at the quota a write is still let through.                         *)
QuotaAllowsOneMore(t) == objs[t] <= reg[t]

(* check_quota_for_write(_, 1): usage() walks the store                       *)
QuotaAllows(t) == objs[t] + 1 <= reg[t]

(* A read, or a write that takes no write_lock, is over at once: post_upload  *)
(* opens a session, delete_upload drops one.                                  *)
Unlocked(r) ==
  /\ req[r].pc = "ready" /\ ~req[r].op.locks
  /\ LET t == req[r].t  does == req[r].op.does IN
     uploads' = CASE does = "open" /\ QuotaAllows(t) /\ uploads[t] < MaxUploads
                       -> [uploads EXCEPT ![t] = @ + 1]
                  [] does = "abort" /\ uploads[t] > 0 -> [uploads EXCEPT ![t] = @ - 1]
                  [] OTHER -> uploads
  /\ req' = [req EXCEPT ![r] = NoReq]
  /\ UNCHANGED <<adminVars, reg, disk, head, repos, objs, stored, staged, commits, busVars, restarts>>

(* What the operation finds out under the lock before it writes: the quota,   *)
(* something to commit, a session to take, a HEAD to read.                    *)
Possible(t, op) ==
  /\ op.checked => QuotaAllows(t)
  /\ op.does = "commit" => /\ staged[t] # {} /\ disk[t] = "ready"
                           /\ commits[t] = <<>> => staged[t] # {"delete"}
                           /\ Len(commits[t]) < MaxCommits
  /\ op.does \in {"branch", "checkout"} => commits[t] # <<>>
  /\ op.does = "take" => uploads[t] > 0

(* The write_lock of the Repo is taken and the operation begins, or fails.    *)
Begin(r) ==
  /\ req[r].pc = "ready" /\ req[r].op.locks
  /\ ~\E q \in Requests : Holds(q, req[r].t, req[r].h)
  /\ req' = [req EXCEPT ![r] =
       IF Possible(@.t, @.op) THEN [@ EXCEPT !.pc = "writing"] ELSE NoReq]
  /\ UNCHANGED <<adminVars, reg, tenantVars, busVars, restarts>>

(* What an operation puts: trees and a commit, in plaintext since a route has *)
(* no keys; or the source and the manifest of a file.                         *)
Kind(does) == IF does = "commit" THEN "commit" ELSE "content"

(* Its objects are put and its result is saved, and the lock is given back;   *)
(* or it fails on the way, and the objects it has put stay.  upload_commit    *)
(* removes its session, unless the file was small enough for add, or an abort *)
(* was faster.                                                                *)
Finish(r) ==
  /\ req[r].pc = "writing"
  /\ LET t == req[r].t  does == req[r].op.does IN
     /\ \E n \in 0 .. MaxPut :
          /\ n > 0 => does \in {"stage", "commit", "take"}
          /\ objs[t] + n <= MaxObjects
          /\ objs' = [objs EXCEPT ![t] = @ + n]
          /\ stored' = IF n = 0 THEN stored
                       ELSE [stored EXCEPT ![t] = @ \cup {Kind(does)}]
     /\ \/ /\ staged' = CASE does \in {"stage", "take"} -> [staged EXCEPT ![t] = @ \cup {"file"}]
                          [] does = "unstage" -> [staged EXCEPT ![t] = @ \cup {"delete"}]
                          [] does = "commit" -> [staged EXCEPT ![t] = {}]
                          [] OTHER -> staged
           /\ \/ does = "take" /\ uploads[t] > 0 /\ uploads' = [uploads EXCEPT ![t] = @ - 1]
              \/ UNCHANGED uploads
           /\ commits' = IF does = "commit" THEN [commits EXCEPT ![t] = Append(@, head[t])]
                         ELSE commits
           /\ IF does = "checkout" THEN \E b \in Branches : head' = [head EXCEPT ![t] = b]
              ELSE UNCHANGED head
           /\ req' = [req EXCEPT ![r] =
                IF does = "commit" THEN [pc |-> "committed", t |-> t, n |-> Len(commits[t]) + 1]
                ELSE NoReq]
        \/ /\ req' = [req EXCEPT ![r] = NoReq]
           /\ UNCHANGED <<head, staged, uploads, commits>>
  /\ UNCHANGED <<adminVars, reg, disk, repos, busVars, restarts>>

--------------------------------------------------------------------------------
(* `omp enc` on the directory of an encrypted tenant: another process, with   *)
(* the tenant's keys and without a quota.                                     *)

(* add_encrypted: the objects are put sealed, then the file is staged, unless *)
(* a call fails before.                                                       *)
EncAdd(t) ==
  /\ t \in Encrypted /\ disk[t] = "ready"
  /\ \E n \in 1 .. MaxPut : /\ objs[t] + n <= MaxObjects
                            /\ objs' = [objs EXCEPT ![t] = @ + n]
  /\ stored' = [stored EXCEPT ![t] = @ \cup {"sealed"}]
  /\ \/ staged' = [staged EXCEPT ![t] = @ \cup {"sealed"}]
     \/ UNCHANGED staged
  /\ UNCHANGED <<adminVars, reg, disk, head, repos, uploads, commits, req, busVars, restarts>>

(* commit_encrypted: commit_with_keys as in a route, but it seals what it     *)
(* puts and announces nothing.                                                *)
EncCommit(t) ==
  /\ t \in Encrypted /\ Possible(t, commit_route)
  /\ \E n \in 1 .. MaxPut : /\ objs[t] + n <= MaxObjects
                            /\ objs' = [objs EXCEPT ![t] = @ + n]
  /\ stored' = [stored EXCEPT ![t] = @ \cup {"sealed"}]
  /\ \/ /\ staged' = [staged EXCEPT ![t] = {}]
        /\ commits' = [commits EXCEPT ![t] = Append(@, head[t])]
     \/ UNCHANGED <<staged, commits>>
  /\ UNCHANGED <<adminVars, reg, disk, head, repos, uploads, req, busVars, restarts>>

--------------------------------------------------------------------------------
(* Events.                                                                    *)

(* envelope_for: commit n of tenant t, with the branch HEAD names now         *)
CommitCreated(t, n) == [t |-> t, n |-> n, branch |-> head[t]]

(* Faulty: the event is made before the commit.                               *)
AnnounceFirst(r) ==
  /\ req[r].pc = "writing" /\ req[r].op.does = "commit"
  /\ spawned' = spawned \cup {CommitCreated(req[r].t, Len(commits[req[r].t]) + 1)}
  /\ req' = [req EXCEPT ![r] = [pc |-> "committed", t |-> @.t, n |-> Len(commits[@.t]) + 1]]
  /\ UNCHANGED <<adminVars, reg, tenantVars, bus, sub, restarts>>

(* Faulty: only the first commit of a tenant is announced.                    *)
AnnounceOnce(r) ==
  /\ req[r].pc = "committed"
  /\ spawned' = IF req[r].n = 1 THEN spawned \cup {CommitCreated(req[r].t, 1)} ELSE spawned
  /\ req' = [req EXCEPT ![r] = NoReq]
  /\ UNCHANGED <<adminVars, reg, tenantVars, bus, sub, restarts>>

(* commit_route, after the commit: the task that publishes is spawned         *)
Announce(r) ==
  /\ req[r].pc = "committed"
  /\ spawned' = spawned \cup {CommitCreated(req[r].t, req[r].n)}
  /\ req' = [req EXCEPT ![r] = NoReq]
  /\ UNCHANGED <<adminVars, reg, tenantVars, bus, sub, restarts>>

(* InMemoryBus::publish: the tasks run in any order                           *)
Publish(e) ==
  /\ e \in spawned
  /\ spawned' = spawned \ {e}
  /\ bus' = Append(bus, e)
  /\ UNCHANGED <<adminVars, reg, tenantVars, req, sub, restarts>>

(* watch_route: the events from now on                                        *)
Subscribe(w) ==
  /\ ~sub[w].on
  /\ sub' = [sub EXCEPT ![w] = [Off EXCEPT !.on = TRUE, !.pos = Len(bus)]]
  /\ UNCHANGED <<adminVars, reg, tenantVars, req, spawned, bus, restarts>>

(* The oldest event the channel still holds                                   *)
Oldest == IF Len(bus) > BusCap THEN Len(bus) - BusCap ELSE 0

(* Subscription::next: skips what the channel has dropped                     *)
Receive(w) ==
  /\ sub[w].on /\ sub[w].pos < Len(bus)
  /\ LET at == IF sub[w].pos < Oldest THEN Oldest ELSE sub[w].pos IN
     sub' = [sub EXCEPT ![w].pos = at + 1, ![w].seen = Append(@, bus[at + 1]),
                        ![w].lagged = @ \/ at # sub[w].pos]
  /\ UNCHANGED <<adminVars, reg, tenantVars, req, spawned, bus, restarts>>

--------------------------------------------------------------------------------
AdminSteps ==
  \E a \in Admins :
    \/ \E t \in Tenants, c \in Caps, cmd \in {"create", "delete", "set"} : AdminLoad(a, cmd, t, c)
    \/ AdminTruncate(a) \/ AdminWrite(a) \/ AdminCrash(a)

OpenSteps(r) ==
  Cached(r) \/ Probe(r) \/ MakeDirs(r) \/ WriteHead(r) \/ Insert(r)

RequestSteps(r) == OpenSteps(r) \/ Unlocked(r) \/ Begin(r) \/ Finish(r) \/ Announce(r)

ClientSteps == \E t \in Tenants : EncAdd(t) \/ EncCommit(t)

EventSteps ==
  \/ \E e \in spawned : Publish(e)
  \/ \E w \in Watchers : Subscribe(w) \/ Receive(w)

Next ==
  \/ AdminSteps
  \/ Restart
  \/ \E r \in Requests :
       \/ \E t \in Tenants, op \in Router : Arrive(r, t, op)
       \/ RequestSteps(r) \/ Cancel(r)
  \/ ClientSteps
  \/ EventSteps

(* The runtime runs every ready task, a mutex wakes its waiters in turn, and  *)
(* a watcher's connection is read.                                            *)
Fairness ==
  /\ \A r \in Requests : /\ WF_vars(OpenSteps(r)) /\ WF_vars(Unlocked(r)) /\ SF_vars(Begin(r))
                         /\ WF_vars(Finish(r)) /\ WF_vars(Announce(r))
  /\ WF_vars(\E e \in spawned : Publish(e))
  /\ \A w \in Watchers : WF_vars(Receive(w))

Spec == Init /\ [][Next]_vars
LiveSpec == Spec /\ Fairness

--------------------------------------------------------------------------------

(* Two requests never write to one tenant's Repo at the same time, however    *)
(* the first requests of the tenant raced to open it: get_or_open's second    *)
(* look at the cache leaves one Repo, and so one write_lock, in use.          *)
WritersExclusive ==
  \A q, r \in Requests : q # r /\ req[q].pc = "writing" /\ req[r].pc = "writing" =>
    req[q].t # req[r].t

(* The routes, called in any order and between the client's own `omp enc`     *)
(* calls, never put or stage the content of a file of an encrypted tenant, or *)
(* open an upload session for one: it would be plaintext.  DELETE and commit  *)
(* look at no mode.  With what the client has sealed there is something to    *)
(* commit, and the commit and its trees are then put in plaintext, with the   *)
(* names and the message in them; before that there is nothing.               *)
NoPlainContent ==
  \A t \in Encrypted :
    /\ "file" \notin staged[t] /\ "content" \notin stored[t] /\ uploads[t] = 0
    /\ "commit" \in stored[t] => "sealed" \in stored[t]

(* Every event that is on its way or has been seen is of a commit that is in  *)
(* the repository (commit_route publishes "after the commit is durable"), and *)
(* no watcher sees one twice.                                                 *)
EventsTrue ==
  LET true(e) == e.n <= Len(commits[e.t]) IN
  /\ \A e \in spawned : true(e)
  /\ \A w \in Watchers : LET s == sub[w].seen IN
       /\ \A i \in DOMAIN s : true(s[i])
       /\ \A i, j \in DOMAIN s : s[i].t = s[j].t /\ s[i].n = s[j].n => i = j

(* After a checked write the tenant is over its quota by no more than what    *)
(* one operation puts beyond the one object that check_quota_for_write asks   *)
(* room for: what the check saw cannot be out of date when the objects are    *)
(* put, so the overshoots of two writes never add up.  An `omp` process at    *)
(* work on the same directory is outside this: it checks no quota.            *)
QuotaHolds ==
  [][\A r \in Requests : req[r].pc = "writing" /\ req[r].op.checked /\ req'[r] # req[r]
       /\ restarts' = restarts => objs'[req[r].t] <= reg[req[r].t] + MaxPut - 1]_vars

(* While admin commands run one at a time and to their end, the registry file *)
(* has exactly the tenants that were created and not deleted.                 *)
RegistryExact ==
  quiet /\ (\A a \in Admins : Idle(a)) => DOMAIN file = wanted

(* Every request ends.                                                        *)
RequestsEnd == \A r \in Requests : req[r].pc # "idle" ~> req[r].pc = "idle"

(* A commit is announced to a watcher that listens, unless the server stops   *)
(* or the watcher lags.                                                       *)
CommitsAnnounced ==
  \A t \in Tenants, n \in 1 .. MaxCommits, w \in Watchers :
    (\E r \in Requests : req[r].pc = "committed" /\ req[r].t = t /\ req[r].n = n) /\ sub[w].on
      ~> \/ \E i \in DOMAIN sub[w].seen : sub[w].seen[i].t = t /\ sub[w].seen[i].n = n
         \/ ~sub[w].on \/ sub[w].lagged
================================================================================
