------------------------------ MODULE Builder ------------------------------
(***************************************************************************)
(* The probe builder (crates/omp-builder): POST /probes/build puts a job   *)
(* into the table and spawns run_build, which waits for one of the permits *)
(* of a semaphore, stamps a scratch directory, runs cargo in it, and       *)
(* reports by updating the job.  The job can be deleted and its log can be *)
(* followed at any time; every access to the table is one step under its   *)
(* mutex.  Requests of other tenants are answered as for an unknown job,   *)
(* so only the job's own tenant is modelled.                               *)
(*                                                                         *)
(* A line of a job's log is its position in log_buffer.                    *)
(***************************************************************************)
EXTENDS Integers, Sequences, FiniteSets

CONSTANTS
    Jobs,        \* job ids, one per request
    Followers,   \* clients of the log endpoint
    NoJob,       \* a follower that is not connected
    MaxBuilds,   \* max_concurrent_builds
    Capacity,    \* capacity of a job's broadcast channel, 256 in the code
    Watched,     \* bound: the jobs whose log is followed
    MaxLines     \* bound: lines that the cargo of each job prints

ASSUME BuilderAssumption ==
    /\ MaxBuilds \in Nat \ {0} /\ Capacity \in Nat \ {0} /\ MaxLines \in [Jobs -> Nat]
    /\ NoJob \notin Jobs /\ Watched \subseteq Jobs

VARIABLES
    table,     \* state of each job in the table: "absent" before, "deleted" after
    log,       \* number of lines in log_buffer
    permits,   \* free permits of build_semaphore
    pc,        \* where run_build of the job is
    early,     \* run_build failed before it ran cargo, and returns at once
    result,    \* what the wait for cargo gave
    cargo,     \* the cargo process
    pipe,      \* lines printed and not yet read by stream_lines
    printed,   \* lines printed
    scratch,   \* the scratch directory exists
    follower   \* the log streams

task == <<permits, pc, early, result, scratch>>
proc == <<cargo, pipe, printed>>
vars == <<table, log, task, proc, follower>>

Offline == [job |-> NoJob, replay |-> <<>>, queue |-> <<>>, seen |-> <<>>, lagged |-> FALSE]

Init ==
    /\ table = [j \in Jobs |-> "absent"]
    /\ log = [j \in Jobs |-> 0]
    /\ permits = MaxBuilds
    /\ pc = [j \in Jobs |-> "none"]
    /\ early = [j \in Jobs |-> FALSE]
    /\ result = [j \in Jobs |-> "none"]
    /\ cargo = [j \in Jobs |-> "none"]
    /\ pipe = [j \in Jobs |-> 0] /\ printed = pipe
    /\ scratch = [j \in Jobs |-> FALSE]
    /\ follower = [f \in Followers |-> Offline]

At(j, s)    == pc[j] = s
Go(j, s)    == pc' = [pc EXCEPT ![j] = s]
InTable(j)  == table[j] \notin {"absent", "deleted"}

-----------------------------------------------------------------------------
(* JobsTable.                                                               *)

(* Faulty: an update of a job that is not there puts it back.               *)
UpdateAnyway(j, s) == table' = [table EXCEPT ![j] = s]

(* update: a job that has been deleted stays deleted.                       *)
Update(j, s) == table' = IF InTable(j) THEN [table EXCEPT ![j] = s] ELSE table

(* The broadcast channel keeps the last Capacity lines for each receiver.   *)
Sent(f, line) ==
    LET q == Append(f.queue, line)
    IN  IF Len(q) <= Capacity THEN [f EXCEPT !.queue = q]
        ELSE [f EXCEPT !.queue = Tail(q), !.lagged = TRUE]

(* append_log: into the buffer and to the followers, under one lock.        *)
AppendLog(j) ==
    IF InTable(j)
    THEN /\ log' = [log EXCEPT ![j] = @ + 1]
         /\ follower' = [f \in Followers |-> IF follower[f].job = j THEN Sent(follower[f], log[j] + 1)
                                             ELSE follower[f]]
    ELSE UNCHANGED <<log, follower>>

(* post_build: create the job, spawn run_build, answer 202.                 *)
PostBuild(j) ==
    /\ table[j] = "absent"
    /\ table' = [table EXCEPT ![j] = "queued"]
    /\ Go(j, "acquire")
    /\ UNCHANGED <<log, permits, early, result, scratch, proc, follower>>

(* delete_build removes the record; the build goes on.                      *)
Delete(j) ==
    /\ InTable(j)
    /\ table' = [table EXCEPT ![j] = "deleted"]
    /\ UNCHANGED <<log, task, proc, follower>>

(* Faulty: the follower subscribes after the buffer was copied, and misses  *)
(* what is appended in between.                                             *)
SubscribeLate(f, j) ==
    /\ follower[f] = Offline
    /\ InTable(j)
    /\ \E n \in 0 .. log[j] :
          follower' = [follower EXCEPT ![f] = [Offline EXCEPT !.job = j, !.replay = [i \in 1 .. n |-> i]]]
    /\ UNCHANGED <<table, log, task, proc>>

(* subscribe_log: the buffer so far and a receiver, under one lock.         *)
Subscribe(f, j) ==
    /\ follower[f] = Offline
    /\ InTable(j)
    /\ follower' = [follower EXCEPT ![f] = [Offline EXCEPT !.job = j, !.replay = [i \in 1 .. log[j] |-> i]]]
    /\ UNCHANGED <<table, log, task, proc>>

(* get_build_log streams the copy first, then the channel.                  *)
Deliver(f) ==
    /\ \/ /\ follower[f].replay # <<>>
          /\ follower' = [follower EXCEPT ![f].seen = Append(@, Head(follower[f].replay)),
                                          ![f].replay = Tail(@)]
       \/ /\ follower[f].replay = <<>> /\ follower[f].queue # <<>>
          /\ follower' = [follower EXCEPT ![f].seen = Append(@, Head(follower[f].queue)),
                                          ![f].queue = Tail(@)]
    /\ UNCHANGED <<table, log, task, proc>>

(* The client goes away, or the channel is closed because the job and its   *)
(* sender were deleted.                                                     *)
Disconnect(f) ==
    /\ follower[f] # Offline
    /\ follower' = [follower EXCEPT ![f] = Offline]
    /\ UNCHANGED <<table, log, task, proc>>

-----------------------------------------------------------------------------
(* run_build.                                                               *)

(* Faulty: the permit is dropped as soon as it is there.                    *)
AcquireAndDrop(j) ==
    /\ At(j, "acquire")
    /\ permits > 0
    /\ Go(j, "set building")
    /\ UNCHANGED <<table, log, permits, early, result, scratch, proc, follower>>

Acquire(j) ==
    /\ At(j, "acquire")
    /\ permits > 0
    /\ permits' = permits - 1
    /\ Go(j, "set building")
    /\ UNCHANGED <<table, log, early, result, scratch, proc, follower>>

(* What follows each update of the job and each line of the builder.        *)
Then(j) == CASE At(j, "set building") -> "log preparing"
             [] At(j, "log preparing") -> "mkdir"
             [] At(j, "log running") -> "spawn"
             [] At(j, "set ok") -> "log ok"
             [] At(j, "log ok") -> "cleanup"
             [] At(j, "log failed") -> "set failed"
             [] At(j, "set failed") -> IF early[j] THEN "return" ELSE "cleanup"

SetState(j) ==
    /\ \/ At(j, "set building") /\ Update(j, "building")
       \/ At(j, "set ok") /\ Update(j, "ok")
       \/ At(j, "set failed") /\ Update(j, "failed")
    /\ Go(j, Then(j))
    /\ UNCHANGED <<log, permits, early, result, scratch, proc, follower>>

LogLine(j) ==
    /\ pc[j] \in {"log preparing", "log running", "log ok", "log failed"}
    /\ AppendLog(j)
    /\ Go(j, Then(j))
    /\ UNCHANGED <<table, permits, early, result, scratch, proc>>

(* create_dir_all of the scratch directory; when it fails run_build returns *)
(* after fail, without the cleanup at its end.                              *)
MakeScratch(j) ==
    /\ At(j, "mkdir")
    /\ \/ scratch' = [scratch EXCEPT ![j] = TRUE] /\ Go(j, "stamp") /\ UNCHANGED early
       \/ Go(j, "log failed") /\ early' = [early EXCEPT ![j] = TRUE] /\ UNCHANGED scratch
    /\ UNCHANGED <<table, log, permits, result, proc, follower>>

StampSkeleton(j) ==
    /\ At(j, "stamp")
    /\ \/ Go(j, "log running") /\ UNCHANGED early
       \/ Go(j, "log failed") /\ early' = [early EXCEPT ![j] = TRUE]
    /\ UNCHANGED <<table, log, permits, result, scratch, proc, follower>>

SpawnCargo(j) ==
    /\ At(j, "spawn")
    /\ \/ cargo' = [cargo EXCEPT ![j] = "running"] /\ Go(j, "wait")
       \/ Go(j, "log failed") /\ UNCHANGED cargo
    /\ UNCHANGED <<table, log, permits, early, result, scratch, pipe, printed, follower>>

(* The process prints and ends, the stream_lines tasks copy what it prints. *)
CargoPrints(j) ==
    /\ cargo[j] = "running"
    /\ printed[j] < MaxLines[j]
    /\ printed' = [printed EXCEPT ![j] = @ + 1]
    /\ pipe' = [pipe EXCEPT ![j] = @ + 1]
    /\ UNCHANGED <<table, log, task, cargo, follower>>

CargoExits(j) ==
    /\ cargo[j] = "running"
    /\ \E code \in {"ok", "bad"} : cargo' = [cargo EXCEPT ![j] = code]
    /\ UNCHANGED <<table, log, task, pipe, printed, follower>>

(* Faulty: the copying stops when the job is deleted.                       *)
StreamLineIfListed(j) ==
    /\ pipe[j] > 0
    /\ InTable(j)
    /\ pipe' = [pipe EXCEPT ![j] = @ - 1]
    /\ AppendLog(j)
    /\ UNCHANGED <<table, task, cargo, printed>>

StreamLine(j) ==
    /\ pipe[j] > 0
    /\ pipe' = [pipe EXCEPT ![j] = @ - 1]
    /\ AppendLog(j)
    /\ UNCHANGED <<table, task, cargo, printed>>

CargoWaited(j) ==
    /\ At(j, "wait")
    /\ cargo[j] # "running"
    /\ result' = [result EXCEPT ![j] = cargo[j]]
    /\ Go(j, "drain")
    /\ UNCHANGED <<table, log, permits, early, scratch, proc, follower>>

(* tokio::time::timeout gives up waiting.  The child is only dropped, and   *)
(* with it killed, when run_cargo returns.                                  *)
WaitTimeout(j) ==
    /\ At(j, "wait")
    /\ result' = [result EXCEPT ![j] = "timeout"]
    /\ Go(j, "drain")
    /\ UNCHANGED <<table, log, permits, early, scratch, proc, follower>>

(* out_task and err_task end when the pipes are closed and empty.           *)
Drained(j) == cargo[j] # "running" /\ pipe[j] = 0

AfterCargo(j) == IF result[j] = "ok" THEN "artifacts" ELSE "log failed"

(* run_cargo returns and drops the child: kill_on_drop.                     *)
DrainLogs(j) ==
    /\ At(j, "drain")
    /\ Drained(j)
    /\ cargo' = [cargo EXCEPT ![j] = IF @ = "running" THEN "bad" ELSE @]
    /\ Go(j, AfterCargo(j))
    /\ UNCHANGED <<table, log, permits, early, result, scratch, pipe, printed, follower>>

ReadArtifacts(j) ==
    /\ At(j, "artifacts")
    /\ Go(j, "set ok") \/ Go(j, "log failed")
    /\ UNCHANGED <<table, log, permits, early, result, scratch, proc, follower>>

(* remove_dir_all, which may fail; then the permit is dropped.              *)
Cleanup(j) ==
    /\ At(j, "cleanup")
    /\ \E left \in {FALSE, scratch[j]} : scratch' = [scratch EXCEPT ![j] = left]
    /\ Go(j, "return")
    /\ UNCHANGED <<table, log, permits, early, result, proc, follower>>

Return(j) ==
    /\ At(j, "return")
    /\ permits' = permits + 1
    /\ Go(j, "done")
    /\ UNCHANGED <<table, log, early, result, scratch, proc, follower>>

-----------------------------------------------------------------------------
Task(j) ==
    \/ SetState(j) \/ LogLine(j) \/ MakeScratch(j) \/ StampSkeleton(j) \/ SpawnCargo(j)
    \/ CargoWaited(j) \/ WaitTimeout(j) \/ DrainLogs(j) \/ ReadArtifacts(j)
    \/ Cleanup(j) \/ Return(j)

Next ==
    \/ \E j \in Jobs :
          PostBuild(j) \/ Delete(j) \/ Acquire(j) \/ Task(j)
          \/ CargoPrints(j) \/ CargoExits(j) \/ StreamLine(j)
    \/ \E f \in Followers : (\E j \in Watched : Subscribe(f, j)) \/ Deliver(f) \/ Disconnect(f)

Spec == Init /\ [][Next]_vars

(* The runtime runs every task that can run, and the semaphore serves its   *)
(* waiters in turn.  Nothing is assumed of cargo.                           *)
FairSpec == Spec /\ \A j \in Jobs : WF_vars(Task(j)) /\ WF_vars(StreamLine(j)) /\ SF_vars(Acquire(j))

(* With a cargo that always ends.                                           *)
LiveSpec == FairSpec /\ \A j \in Jobs : WF_vars(CargoExits(j))

-----------------------------------------------------------------------------

(* There are never more cargo processes than max_concurrent_builds, not     *)
(* even after builds have timed out, and the scratch directory outlives the *)
(* process that works in it.                                                *)
CargoContained ==
    /\ Cardinality({j \in Jobs : cargo[j] = "running"}) <= MaxBuilds
    /\ \A j \in Jobs : cargo[j] = "running" => scratch[j]

(* A follower sees the log from its first line, in order and without a line *)
(* missing or twice, wherever it subscribed between two lines, unless it    *)
(* fell behind the channel; then it misses lines but never gets one twice.  *)
LogReplayed ==
    \A f \in Followers :
        LET s == follower[f]
            all == s.seen \o s.replay \o s.queue
        IN  /\ \A i, k \in 1 .. Len(all) : i < k => all[i] < all[k]
            /\ s # Offline /\ ~s.lagged => Len(all) = log[s.job]

(* A job's state only moves forward: a reported outcome is never replaced,  *)
(* and a deleted job does not come back when its build ends.                *)
JobsMoveForward ==
    [][\A j \in Jobs :
          /\ table[j] = "deleted" => table'[j] = "deleted"
          /\ table[j] \in {"ok", "failed"} => table'[j] \in {table[j], "deleted"}]_vars

(* A job is ok only if cargo ended well within the time limit.              *)
OkIsBuilt == \A j \in Jobs : table[j] = "ok" => cargo[j] = "ok" /\ result[j] = "ok"

(* Every build ends and gives its permit back, deleted or not, and a job    *)
(* that is not deleted gets its outcome, if cargo always ends.              *)
BuildsEnd ==
    \A j \in Jobs : pc[j] = "acquire" ~> pc[j] = "done" /\ table[j] \in {"ok", "failed", "deleted"}
=============================================================================
