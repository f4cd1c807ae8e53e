---------------------------- MODULE BuilderProofs ----------------------------
(***************************************************************************)
(* Theorems about the probe builder, for any number of jobs, permits and   *)
(* followers: what a job reports is what cargo did, a report is final, and *)
(* the semaphore bounds the cargo processes even though a job that was     *)
(* deleted or timed out goes on.                                           *)
(***************************************************************************)
EXTENDS Builder, FiniteSetTheorems, SequenceTheorems, TLAPS

USE DEF task, proc

(* Where run_build is while it holds its permit                             *)
Holding == {"set building", "log preparing", "mkdir", "stamp", "log running", "spawn", "wait",
            "drain", "artifacts", "set ok", "log ok", "log failed", "set failed", "cleanup",
            "return"}
Pcs == Holding \cup {"none", "acquire", "done"}

States == {"absent", "queued", "building", "ok", "failed", "deleted"}

Shape ==
    /\ table \in [Jobs -> States]
    /\ pc \in [Jobs -> Pcs]
    /\ result \in [Jobs -> {"none", "ok", "bad", "timeout"}]
    /\ cargo \in [Jobs -> {"none", "running", "ok", "bad"}]
    /\ scratch \in [Jobs -> BOOLEAN]
    /\ early \in [Jobs -> BOOLEAN]

(* How the table, the task and the process of one job agree                 *)
Agree(j) ==
    /\ table[j] = "absent" <=> pc[j] = "none"
    /\ pc[j] \in {"acquire", "set building"} => table[j] \in {"queued", "deleted"}
    /\ table[j] = "ok" => /\ pc[j] \in {"log ok", "cleanup", "return", "done"}
                          /\ result[j] = "ok" /\ cargo[j] = "ok"
    /\ table[j] = "failed" => pc[j] \in {"cleanup", "return", "done"}
    /\ cargo[j] = "running" => pc[j] \in {"wait", "drain"}
    /\ pc[j] \in {"stamp", "log running", "spawn", "wait", "drain"} => scratch[j] = TRUE
    /\ pc[j] = "drain" /\ result[j] = "ok" => cargo[j] = "ok"
    /\ pc[j] \in {"artifacts", "set ok"} => result[j] = "ok" /\ cargo[j] = "ok"

BuildInv == Shape /\ \A j \in Jobs : Agree(j)

(* What may change for one job in a step                                    *)
Forward(j) ==
    /\ table[j] = "deleted" => table'[j] = "deleted"
    /\ table[j] \in {"ok", "failed"} => table'[j] \in {table[j], "deleted"}

(* A step of the task of one job, its cargo or its log readers              *)
Steps(j) == PostBuild(j) \/ Delete(j) \/ Acquire(j) \/ Task(j)
            \/ CargoPrints(j) \/ CargoExits(j) \/ StreamLine(j)

(* ... leaves the other jobs alone, and keeps its own in agreement.         *)
LEMMA JobStep ==
  ASSUME BuildInv, NEW j \in Jobs, Steps(j)
  PROVE  /\ Shape'
         /\ Agree(j)'
         /\ Forward(j)
         /\ \A k \in Jobs \ {j} : /\ table'[k] = table[k] /\ pc'[k] = pc[k] /\ result'[k] = result[k]
                                  /\ cargo'[k] = cargo[k] /\ scratch'[k] = scratch[k]
  <1> DEFINE Others == \A k \in Jobs \ {j} :
                 /\ table'[k] = table[k] /\ pc'[k] = pc[k] /\ result'[k] = result[k]
                 /\ cargo'[k] = cargo[k] /\ scratch'[k] = scratch[k]
             Goal == Shape' /\ Agree(j)' /\ Forward(j) /\ Others
  <1> SUFFICES Goal
    OBVIOUS
  <1>s. Shape
    BY DEF BuildInv
  <1>a. Agree(j)
    BY DEF BuildInv
  <1> USE DEF At, Go, Pcs, Holding, States
  <1>1. CASE PostBuild(j)
    <2>1. Shape'
      BY <1>s, <1>1 DEF Shape, PostBuild
    <2>2. Others
      BY <1>s, <1>1 DEF Shape, PostBuild
    <2>3. Agree(j)'
      BY <1>s, <1>a, <1>1 DEF Shape, Agree, PostBuild
    <2>4. Forward(j)
      BY <1>s, <1>a, <1>1 DEF Shape, Agree, Forward, PostBuild
    <2> QED
      BY <2>1, <2>2, <2>3, <2>4
  <1>2. CASE Delete(j)
    <2>1. Shape'
      BY <1>s, <1>2 DEF Shape, Delete, InTable
    <2>2. Others
      BY <1>s, <1>2 DEF Shape, Delete, InTable
    <2>3. Agree(j)'
      BY <1>s, <1>a, <1>2 DEF Shape, Agree, Delete, InTable
    <2>4. Forward(j)
      BY <1>s, <1>a, <1>2 DEF Shape, Agree, Forward, Delete, InTable
    <2> QED
      BY <2>1, <2>2, <2>3, <2>4
  <1>3. CASE Acquire(j)
    <2>1. Shape'
      BY <1>s, <1>3 DEF Shape, Acquire
    <2>2. Others
      BY <1>s, <1>3 DEF Shape, Acquire
    <2>3. Agree(j)'
      BY <1>s, <1>a, <1>3 DEF Shape, Agree, Acquire
    <2>4. Forward(j)
      BY <1>s, <1>a, <1>3 DEF Shape, Agree, Forward, Acquire
    <2> QED
      BY <2>1, <2>2, <2>3, <2>4
  <1>4. CASE SetState(j)
    <2>1. CASE At(j, "set building")
      <3>1. Shape'
        BY <1>s, <1>4, <2>1 DEF Shape, SetState, Update, InTable, Then
      <3>2. Others
        BY <1>s, <1>4, <2>1 DEF Shape, SetState, Update, InTable, Then
      <3>3. Agree(j)'
        BY <1>s, <1>a, <1>4, <2>1 DEF Shape, Agree, SetState, Update, InTable, Then
      <3>4. Forward(j)
        BY <1>s, <1>a, <1>4, <2>1 DEF Shape, Agree, Forward, SetState, Update, InTable, Then
      <3> QED
        BY <3>1, <3>2, <3>3, <3>4
    <2>2. CASE At(j, "set ok")
      <3>1. Shape'
        BY <1>s, <1>4, <2>2 DEF Shape, SetState, Update, InTable, Then
      <3>2. Others
        BY <1>s, <1>4, <2>2 DEF Shape, SetState, Update, InTable, Then
      <3>3. Agree(j)'
        BY <1>s, <1>a, <1>4, <2>2 DEF Shape, Agree, SetState, Update, InTable, Then
      <3>4. Forward(j)
        BY <1>s, <1>a, <1>4, <2>2 DEF Shape, Agree, Forward, SetState, Update, InTable, Then
      <3> QED
        BY <3>1, <3>2, <3>3, <3>4
    <2>3. CASE At(j, "set failed")
      <3>1. Shape'
        BY <1>s, <1>4, <2>3 DEF Shape, SetState, Update, InTable, Then
      <3>2. Others
        BY <1>s, <1>4, <2>3 DEF Shape, SetState, Update, InTable, Then
      <3>3. Agree(j)'
        BY <1>s, <1>a, <1>4, <2>3 DEF Shape, Agree, SetState, Update, InTable, Then
      <3>4. Forward(j)
        BY <1>s, <1>a, <1>4, <2>3 DEF Shape, Agree, Forward, SetState, Update, InTable, Then
      <3> QED
        BY <3>1, <3>2, <3>3, <3>4
    <2> QED
      BY <1>4, <2>1, <2>2, <2>3 DEF SetState
  <1>5. CASE LogLine(j)
    <2>1. Shape'
      BY <1>s, <1>5 DEF Shape, LogLine, Then
    <2>2. Others
      BY <1>s, <1>5 DEF Shape, LogLine, Then
    <2>3. Agree(j)'
      BY <1>s, <1>a, <1>5 DEF Shape, Agree, LogLine, Then
    <2>4. Forward(j)
      BY <1>s, <1>a, <1>5 DEF Shape, Agree, Forward, LogLine, Then
    <2> QED
      BY <2>1, <2>2, <2>3, <2>4
  <1>6. CASE MakeScratch(j)
    <2>1. Shape'
      BY <1>s, <1>6 DEF Shape, MakeScratch
    <2>2. Others
      BY <1>s, <1>6 DEF Shape, MakeScratch
    <2>3. Agree(j)'
      BY <1>s, <1>a, <1>6 DEF Shape, Agree, MakeScratch
    <2>4. Forward(j)
      BY <1>s, <1>a, <1>6 DEF Shape, Agree, Forward, MakeScratch
    <2> QED
      BY <2>1, <2>2, <2>3, <2>4
  <1>7. CASE StampSkeleton(j)
    <2>1. Shape'
      BY <1>s, <1>7 DEF Shape, StampSkeleton
    <2>2. Others
      BY <1>s, <1>7 DEF Shape, StampSkeleton
    <2>3. Agree(j)'
      BY <1>s, <1>a, <1>7 DEF Shape, Agree, StampSkeleton
    <2>4. Forward(j)
      BY <1>s, <1>a, <1>7 DEF Shape, Agree, Forward, StampSkeleton
    <2> QED
      BY <2>1, <2>2, <2>3, <2>4
  <1>8. CASE SpawnCargo(j)
    <2>1. Shape'
      BY <1>s, <1>8 DEF Shape, SpawnCargo
    <2>2. Others
      BY <1>s, <1>8 DEF Shape, SpawnCargo
    <2>3. Agree(j)'
      BY <1>s, <1>a, <1>8 DEF Shape, Agree, SpawnCargo
    <2>4. Forward(j)
      BY <1>s, <1>a, <1>8 DEF Shape, Agree, Forward, SpawnCargo
    <2> QED
      BY <2>1, <2>2, <2>3, <2>4
  <1>9. CASE CargoWaited(j) \/ WaitTimeout(j)
    <2>0. result' \in [Jobs -> {"none", "ok", "bad", "timeout"}]
      <3>1. CASE CargoWaited(j)
        <4>1. cargo[j] \in {"none", "ok", "bad", "timeout"}
          BY <1>s, <3>1 DEF Shape, CargoWaited
        <4> QED
          BY <1>s, <3>1, <4>1 DEF Shape, CargoWaited
      <3>2. CASE WaitTimeout(j)
        BY <1>s, <3>2 DEF Shape, WaitTimeout
      <3> QED
        BY <1>9, <3>1, <3>2
    <2>1. Shape'
      BY <1>s, <1>9, <2>0 DEF Shape, CargoWaited, WaitTimeout
    <2>2. Others
      BY <1>s, <1>9 DEF Shape, CargoWaited, WaitTimeout
    <2>3. Agree(j)'
      BY <1>s, <1>a, <1>9 DEF Shape, Agree, CargoWaited, WaitTimeout
    <2>4. Forward(j)
      BY <1>s, <1>a, <1>9 DEF Shape, Agree, Forward, CargoWaited, WaitTimeout
    <2> QED
      BY <2>1, <2>2, <2>3, <2>4
  <1>10. CASE DrainLogs(j)
    <2>1. Shape'
      BY <1>s, <1>10 DEF Shape, DrainLogs, Drained, AfterCargo
    <2>2. Others
      BY <1>s, <1>10 DEF Shape, DrainLogs, Drained, AfterCargo
    <2>3. Agree(j)'
      BY <1>s, <1>a, <1>10 DEF Shape, Agree, DrainLogs, Drained, AfterCargo
    <2>4. Forward(j)
      BY <1>s, <1>a, <1>10 DEF Shape, Agree, Forward, DrainLogs, Drained, AfterCargo
    <2> QED
      BY <2>1, <2>2, <2>3, <2>4
  <1>11. CASE ReadArtifacts(j)
    <2>1. Shape'
      BY <1>s, <1>11 DEF Shape, ReadArtifacts
    <2>2. Others
      BY <1>s, <1>11 DEF Shape, ReadArtifacts
    <2>3. Agree(j)'
      BY <1>s, <1>a, <1>11 DEF Shape, Agree, ReadArtifacts
    <2>4. Forward(j)
      BY <1>s, <1>a, <1>11 DEF Shape, Agree, Forward, ReadArtifacts
    <2> QED
      BY <2>1, <2>2, <2>3, <2>4
  <1>12. CASE Cleanup(j) \/ Return(j)
    <2>0. scratch' \in [Jobs -> BOOLEAN]
      <3>1. CASE Cleanup(j)
        <4>1. PICK left \in {FALSE, scratch[j]} : scratch' = [scratch EXCEPT ![j] = left]
          BY <3>1 DEF Cleanup
        <4>2. left \in BOOLEAN
          BY <1>s, <4>1 DEF Shape
        <4> QED
          BY <1>s, <4>1, <4>2 DEF Shape
      <3>2. CASE Return(j)
        BY <1>s, <3>2 DEF Shape, Return
      <3> QED
        BY <1>12, <3>1, <3>2
    <2>1. Shape'
      BY <1>s, <1>12, <2>0 DEF Shape, Cleanup, Return
    <2>2. Others
      BY <1>s, <1>12 DEF Shape, Cleanup, Return
    <2>3. Agree(j)'
      BY <1>s, <1>a, <1>12 DEF Shape, Agree, Cleanup, Return
    <2>4. Forward(j)
      BY <1>s, <1>a, <1>12 DEF Shape, Agree, Forward, Cleanup, Return
    <2> QED
      BY <2>1, <2>2, <2>3, <2>4
  <1>13. CASE CargoPrints(j) \/ StreamLine(j)
    <2>1. Shape'
      BY <1>s, <1>13 DEF Shape, CargoPrints, StreamLine
    <2>2. Others
      BY <1>s, <1>13 DEF Shape, CargoPrints, StreamLine
    <2>3. Agree(j)'
      BY <1>s, <1>a, <1>13 DEF Shape, Agree, CargoPrints, StreamLine
    <2>4. Forward(j)
      BY <1>s, <1>a, <1>13 DEF Shape, Agree, Forward, CargoPrints, StreamLine
    <2> QED
      BY <2>1, <2>2, <2>3, <2>4
  <1>14. CASE CargoExits(j)
    <2>0. PICK code \in {"ok", "bad"} : cargo' = [cargo EXCEPT ![j] = code]
      BY <1>14 DEF CargoExits
    <2>1. Shape'
      BY <1>s, <1>14, <2>0 DEF Shape, CargoExits
    <2>2. Others
      BY <1>s, <1>14 DEF Shape, CargoExits
    <2>3. Agree(j)'
      BY <1>s, <1>a, <1>14 DEF Shape, Agree, CargoExits
    <2>4. Forward(j)
      BY <1>s, <1>a, <1>14 DEF Shape, Agree, Forward, CargoExits
    <2> QED
      BY <2>1, <2>2, <2>3, <2>4
  <1> QED
    BY <1>1, <1>2, <1>3, <1>4, <1>5, <1>6, <1>7, <1>8, <1>9, <1>10, <1>11, <1>12, <1>13, <1>14
       DEF Steps, Task

(* Following a log changes no job.                                          *)
LEMMA FollowerStep ==
  ASSUME NEW f \in Followers, (\E j \in Watched : Subscribe(f, j)) \/ Deliver(f) \/ Disconnect(f)
  PROVE  UNCHANGED <<table, log, task, proc>>
  BY DEF Subscribe, Deliver, Disconnect

LEMMA BuildNext ==
  ASSUME BuildInv, [Next]_vars
  PROVE  BuildInv' /\ \A j \in Jobs : Forward(j)
  <1>1. CASE \E j \in Jobs : Steps(j)
    <2>1. PICK j \in Jobs : Steps(j)
      BY <1>1
    <2>2. Shape' /\ Agree(j)' /\ Forward(j)
      BY <2>1, JobStep
    <2>3. ASSUME NEW k \in Jobs \ {j} PROVE Agree(k)' /\ Forward(k)
      <3>1. /\ table'[k] = table[k] /\ pc'[k] = pc[k] /\ result'[k] = result[k]
            /\ cargo'[k] = cargo[k] /\ scratch'[k] = scratch[k]
        BY <2>1, JobStep
      <3> QED
        BY <3>1 DEF BuildInv, Agree, Forward
    <2> QED
      BY <2>2, <2>3 DEF BuildInv
  <1>2. CASE UNCHANGED <<table, log, task, proc>>
    BY <1>2 DEF BuildInv, Shape, Agree, Forward
  <1>3. CASE UNCHANGED vars
    BY <1>2, <1>3 DEF vars
  <1> QED
    BY <1>1, <1>2, <1>3, FollowerStep DEF Next, Steps

LEMMA BuildInvariant == Spec => []BuildInv
  <1>1. Init => BuildInv
    BY DEF Init, BuildInv, Shape, Agree, Pcs, Holding, States
  <1>2. BuildInv /\ [Next]_vars => BuildInv'
    BY BuildNext
  <1> QED
    BY <1>1, <1>2, PTL DEF Spec

(* A job reports ok only when its cargo ended well within the time limit,  *)
(* whatever was deleted meanwhile.                                         *)
THEOREM OutcomesTrue == Spec => []OkIsBuilt
  <1>1. BuildInv => OkIsBuilt
    BY DEF BuildInv, Agree, OkIsBuilt
  <1> QED
    BY <1>1, BuildInvariant, PTL

(* An outcome is final and a deleted job stays deleted, whatever its build *)
(* still does.                                                             *)
THEOREM OutcomesFinal == Spec => JobsMoveForward
  <1>1. BuildInv /\ [Next]_vars => [\A j \in Jobs :
          /\ table[j] = "deleted" => table'[j] = "deleted"
          /\ table[j] \in {"ok", "failed"} => table'[j] \in {table[j], "deleted"}]_vars
    BY BuildNext DEF Forward
  <1> QED
    BY <1>1, BuildInvariant, PTL DEF Spec, JobsMoveForward

-----------------------------------------------------------------------------
(* The semaphore                                                            *)

Holders == {j \in Jobs : pc[j] \in Holding}

(* Every permit is free or held by a task that has not returned.            *)
PermitInv ==
    /\ permits \in Nat
    /\ IsFiniteSet(Holders)
    /\ permits + Cardinality(Holders) = MaxBuilds

LEMMA PermitStep ==
  ASSUME BuildInv, PermitInv, NEW j \in Jobs, Steps(j)
  PROVE  PermitInv'
  <1>0. pc \in [Jobs -> Pcs] /\ pc' \in [Jobs -> Pcs]
    BY JobStep DEF BuildInv, Shape
  <1>o. \A k \in Jobs \ {j} : pc'[k] = pc[k]
    BY JobStep
  <1>f. Cardinality(Holders) \in Nat
    BY FS_CardinalityType DEF PermitInv
  <1>1. CASE Acquire(j)
    <2>1. permits' = permits - 1 /\ permits > 0 /\ pc[j] = "acquire" /\ pc'[j] = "set building"
      BY <1>1, <1>0 DEF Acquire, At, Go
    <2>2. j \notin Holders /\ Holders' = Holders \cup {j}
      BY <1>o, <2>1 DEF Holders, Holding
    <2>3. IsFiniteSet(Holders') /\ Cardinality(Holders') = Cardinality(Holders) + 1
      BY <2>2, FS_AddElement DEF PermitInv
    <2>4. permits \in Nat /\ permits + Cardinality(Holders) = MaxBuilds
      BY DEF PermitInv
    <2>5. \A p, n \in Nat : p > 0 => p - 1 \in Nat /\ (p - 1) + (n + 1) = p + n
      OBVIOUS
    <2>6. permits - 1 \in Nat /\ (permits - 1) + (Cardinality(Holders) + 1) = MaxBuilds
      BY <1>f, <2>1, <2>4, <2>5
    <2> QED
      BY <2>1, <2>3, <2>6 DEF PermitInv
  <1>2. CASE Return(j)
    <2>1. permits' = permits + 1 /\ pc[j] = "return" /\ pc'[j] = "done"
      BY <1>2, <1>0 DEF Return, At, Go
    <2>2. j \in Holders /\ Holders' = Holders \ {j}
      BY <1>o, <2>1 DEF Holders, Holding
    <2>3. IsFiniteSet(Holders') /\ Cardinality(Holders') = Cardinality(Holders) - 1
      BY <2>2, FS_RemoveElement DEF PermitInv
    <2> QED
      BY <1>f, <2>1, <2>3 DEF PermitInv
  <1>3. CASE ~Acquire(j) /\ ~Return(j)
    <2>1. permits' = permits /\ (pc'[j] \in Holding <=> pc[j] \in Holding)
      <3> USE DEF At, Go, Holding
      <3>1. CASE PostBuild(j)
        <4>1. pc[j] = "none"
          BY <3>1 DEF PostBuild, BuildInv, Agree
        <4> QED
          BY <1>0, <3>1, <4>1 DEF PostBuild
      <3>2. CASE Delete(j) \/ CargoPrints(j) \/ CargoExits(j) \/ StreamLine(j)
        BY <3>2 DEF Delete, CargoPrints, CargoExits, StreamLine
      <3>3. CASE SetState(j)
        BY <1>0, <3>3 DEF SetState, Then
      <3>4. CASE LogLine(j)
        BY <1>0, <3>4 DEF LogLine, Then
      <3>5. CASE MakeScratch(j) \/ StampSkeleton(j) \/ SpawnCargo(j)
        BY <1>0, <3>5 DEF MakeScratch, StampSkeleton, SpawnCargo
      <3>6. CASE CargoWaited(j) \/ WaitTimeout(j) \/ DrainLogs(j)
        BY <1>0, <3>6 DEF CargoWaited, WaitTimeout, DrainLogs, AfterCargo
      <3>7. CASE ReadArtifacts(j) \/ Cleanup(j)
        BY <1>0, <3>7 DEF ReadArtifacts, Cleanup
      <3> QED
        BY <1>3, <3>1, <3>2, <3>3, <3>4, <3>5, <3>6, <3>7 DEF Steps, Task
    <2>2. Holders' = Holders
      BY <1>o, <2>1 DEF Holders
    <2> QED
      BY <2>1, <2>2 DEF PermitInv
  <1> QED
    BY <1>1, <1>2, <1>3

LEMMA PermitInvariant == Spec => []PermitInv
  <1>1. Init => PermitInv
    <2>1. ASSUME Init PROVE Holders = {} /\ permits = MaxBuilds
      BY <2>1 DEF Init, Holders, Holding
    <2> QED
      BY <2>1, FS_EmptySet, BuilderAssumption DEF PermitInv, BuilderAssumption
  <1>2. BuildInv /\ PermitInv /\ [Next]_vars => PermitInv'
    <2> SUFFICES ASSUME BuildInv, PermitInv, [Next]_vars PROVE PermitInv'
      OBVIOUS
    <2>1. CASE \E j \in Jobs : Steps(j)
      BY <2>1, PermitStep
    <2>2. CASE UNCHANGED <<permits, pc>>
      BY <2>2 DEF PermitInv, Holders
    <2> QED
      BY <2>1, <2>2, FollowerStep DEF Next, Steps, vars
  <1> QED
    BY <1>1, <1>2, BuildInvariant, PTL DEF Spec

(* There are never more cargo processes than permits, and each has its     *)
(* scratch directory, for any number of jobs that are deleted, time out or *)
(* fail: the permit is kept until the process is gone.                     *)
THEOREM CargoBounded == Spec => []CargoContained
  <1>1. BuildInv /\ PermitInv => CargoContained
    <2> SUFFICES ASSUME BuildInv, PermitInv PROVE CargoContained
      OBVIOUS
    <2> DEFINE Running == {j \in Jobs : cargo[j] = "running"}
    <2>1. Running \subseteq Holders
      BY DEF BuildInv, Agree, Holders, Holding
    <2>2. Cardinality(Running) <= Cardinality(Holders) /\ IsFiniteSet(Running)
      BY <2>1, FS_Subset DEF PermitInv
    <2>3. Cardinality(Running) \in Nat /\ Cardinality(Holders) \in Nat
      BY <2>2, FS_CardinalityType DEF PermitInv
    <2>4. Cardinality(Running) <= MaxBuilds
      BY <2>2, <2>3 DEF PermitInv
    <2>5. \A j \in Jobs : cargo[j] = "running" => scratch[j]
      BY DEF BuildInv, Agree
    <2> QED
      BY <2>4, <2>5 DEF CargoContained
  <1> QED
    BY <1>1, BuildInvariant, PermitInvariant, PTL

-----------------------------------------------------------------------------
(* The log streams                                                          *)

(* Lines 1 .. n, some perhaps missing, none twice or out of order           *)
Rising(q, n) ==
    /\ q \in Seq(Nat)
    /\ \A i \in 1 .. Len(q) : q[i] \in 1 .. n
    /\ \A i, k \in 1 .. Len(q) : i < k => q[i] < q[k]

LEMMA RisingAppend ==
  ASSUME NEW a \in Seq(Nat), NEW b \in Seq(Nat), NEW n \in Nat, Rising(a \o b, n)
  PROVE  Rising(a \o Append(b, n + 1), n + 1) /\ Len(a \o Append(b, n + 1)) = Len(a \o b) + 1
  <1> DEFINE q == a \o b
             r == a \o Append(b, n + 1)
  <1>1. q \in Seq(Nat) /\ r \in Seq(Nat) /\ Len(q) = Len(a) + Len(b) /\ Len(r) = Len(q) + 1
    OBVIOUS
  <1>2. \A i \in 1 .. Len(q) : r[i] = q[i]
    OBVIOUS
  <1>3. r[Len(q) + 1] = n + 1
    OBVIOUS
  <1>4. (\A i \in 1 .. Len(q) : q[i] \in 1 .. n) /\ \A i, k \in 1 .. Len(q) : i < k => q[i] < q[k]
    BY DEF Rising
  <1> HIDE DEF q, r
  <1>5. ASSUME NEW i \in 1 .. Len(r) PROVE r[i] \in 1 .. (n + 1)
    <2>1. \A x \in 1 .. n : x \in 1 .. (n + 1)
      OBVIOUS
    <2>0. Len(q) \in Nat /\ Len(r) = Len(q) + 1
      BY <1>1
    <2>2. i \in 1 .. Len(q) \/ i = Len(q) + 1
      BY <2>0
    <2>3. CASE i \in 1 .. Len(q)
      <3>1. r[i] = q[i] /\ q[i] \in 1 .. n
        BY <1>2, <1>4, <2>3
      <3> QED
        BY <2>1, <3>1
    <2>4. CASE i = Len(q) + 1
      <3>1. n + 1 \in 1 .. (n + 1)
        OBVIOUS
      <3> QED
        BY <1>3, <2>4, <3>1
    <2> QED
      BY <2>2, <2>3, <2>4
  <1>6. ASSUME NEW i \in 1 .. Len(r), NEW k \in 1 .. Len(r), i < k
        PROVE  r[i] < r[k]
    <2>0. Len(q) \in Nat /\ Len(r) = Len(q) + 1
      BY <1>1
    <2>i. i \in 1 .. Len(q)
      BY <1>6, <2>0
    <2>1. i \in 1 .. Len(q) /\ r[i] = q[i] /\ q[i] \in 1 .. n
      BY <1>2, <1>4, <2>i
    <2>2. CASE k \in 1 .. Len(q)
      BY <1>2, <1>4, <1>6, <2>1, <2>2
    <2>3. CASE k = Len(q) + 1
      BY <1>3, <2>1, <2>3
    <2> QED
      BY <2>0, <2>2, <2>3
  <1> QED
    BY <1>1, <1>5, <1>6 DEF Rising, q, r

LEMMA RisingTail ==
  ASSUME NEW a \in Seq(Nat), NEW b \in Seq(Nat), NEW n \in Nat, Rising(a \o b, n), b # <<>>
  PROVE  Rising(a \o Tail(b), n)
  <1> DEFINE q == a \o b
             r == a \o Tail(b)
             at(i) == IF i <= Len(a) THEN i ELSE i + 1
  <1>1. /\ Tail(b) \in Seq(Nat) /\ Len(Tail(b)) = Len(b) - 1 /\ Len(b) > 0
        /\ \A i \in 1 .. Len(b) - 1 : Tail(b)[i] = b[i + 1]
    BY HeadTailProperties
  <1>2. /\ q \in Seq(Nat) /\ r \in Seq(Nat)
        /\ Len(q) = Len(a) + Len(b) /\ Len(r) = Len(a) + Len(b) - 1
        /\ Len(a) \in Nat /\ Len(b) \in Nat
    BY <1>1, ConcatProperties
  <1>3. ASSUME NEW i \in 1 .. Len(r) PROVE at(i) \in 1 .. Len(q) /\ r[i] = q[at(i)]
    <2>1. at(i) \in 1 .. Len(q)
      BY <1>2
    <2>2. CASE i <= Len(a)
      BY <1>1, <1>2, <2>2, ConcatProperties
    <2>3. CASE i > Len(a)
      <3>1. i - Len(a) \in 1 .. Len(b) - 1
        BY <1>2, <2>3
      <3>2. r[i] = Tail(b)[i - Len(a)]
        BY <1>1, <1>2, <2>3, ConcatProperties
      <3>3. q[i + 1] = b[i + 1 - Len(a)]
        BY <1>1, <1>2, <2>3, ConcatProperties
      <3>4. Tail(b)[i - Len(a)] = b[i - Len(a) + 1]
        BY <1>1, <3>1
      <3>5. i - Len(a) + 1 = i + 1 - Len(a)
        BY <1>2
      <3>6. at(i) = i + 1
        BY <1>2, <2>3
      <3> QED
        BY <2>1, <3>2, <3>3, <3>4, <3>5, <3>6
    <2> QED
      BY <1>2, <2>2, <2>3
  <1>4. \A i, k \in 1 .. Len(r) : i < k => at(i) < at(k)
    BY <1>2
  <1>5. (\A i \in 1 .. Len(q) : q[i] \in 1 .. n) /\ \A i, k \in 1 .. Len(q) : i < k => q[i] < q[k]
    BY DEF Rising
  <1> HIDE DEF q, r, at
  <1>6. /\ \A i \in 1 .. Len(r) : r[i] \in 1 .. n
        /\ \A i, k \in 1 .. Len(r) : i < k => r[i] < r[k]
    BY <1>3, <1>4, <1>5
  <1> QED
    BY <1>2, <1>6 DEF Rising, r

(* Moving a line from the front of one part to the end of the one before   *)
LEMMA MoveLine ==
  ASSUME NEW a \in Seq(Nat), NEW b \in Seq(Nat), b # <<>>
  PROVE  /\ Append(a, Head(b)) \in Seq(Nat) /\ Tail(b) \in Seq(Nat)
         /\ Append(a, Head(b)) \o Tail(b) = a \o b
  <1>1. /\ Head(b) \in Nat /\ Head(b) = b[1] /\ Tail(b) \in Seq(Nat) /\ Len(Tail(b)) = Len(b) - 1
        /\ Len(b) \in Nat /\ Len(b) > 0
        /\ \A i \in 1 .. Len(b) - 1 : Tail(b)[i] = b[i + 1]
    BY HeadTailProperties
  <1>2. /\ Append(a, Head(b)) \in Seq(Nat) /\ Len(Append(a, Head(b))) = Len(a) + 1 /\ Len(a) \in Nat
        /\ \A i \in 1 .. Len(a) : Append(a, Head(b))[i] = a[i]
        /\ Append(a, Head(b))[Len(a) + 1] = Head(b)
    BY <1>1, AppendProperties
  <1> DEFINE q == a \o b
             c == Append(a, Head(b))
             d == Tail(b)
             r == c \o d
  <1> HIDE DEF c, d
  <1>3. /\ q \in Seq(Nat) /\ r \in Seq(Nat) /\ Len(q) = Len(r) /\ Len(q) = Len(a) + Len(b)
    BY <1>1, <1>2, ConcatProperties DEF c, d
  <1>4. ASSUME NEW i \in 1 .. Len(q) PROVE q[i] = r[i]
    <2>1. CASE i <= Len(a)
      BY <1>1, <1>2, <1>3, <2>1, ConcatProperties DEF c, d
    <2>2. CASE i = Len(a) + 1
      <3>1. r[i] = c[i]
        BY <1>1, <1>2, <1>3, <2>2, ConcatProperties DEF c, d
      <3>2. q[i] = b[i - Len(a)] /\ i - Len(a) = 1
        BY <1>1, <1>2, <1>3, <2>2, ConcatProperties
      <3> QED
        BY <1>1, <1>2, <2>2, <3>1, <3>2 DEF c
    <2>3. CASE i > Len(a) + 1
      <3>1. r[i] = d[i - (Len(a) + 1)]
        BY <1>1, <1>2, <1>3, <2>3, ConcatProperties DEF c, d
      <3>2. q[i] = b[i - Len(a)]
        BY <1>1, <1>2, <1>3, <2>3, ConcatProperties
      <3>3. i - (Len(a) + 1) \in 1 .. Len(b) - 1 /\ i - (Len(a) + 1) + 1 = i - Len(a)
        BY <1>1, <1>2, <1>3, <2>3
      <3> QED
        BY <1>1, <3>1, <3>2, <3>3 DEF d
    <2>4. i \in Nat /\ Len(a) \in Nat
      BY <1>1, <1>2, <1>3
    <2>5. i <= Len(a) \/ i = Len(a) + 1 \/ i > Len(a) + 1
      BY <2>4
    <2> HIDE DEF q, r
    <2> QED
      BY <2>1, <2>2, <2>3, <2>5
  <1>5. q = r
    BY <1>3, <1>4, SeqEqual
  <1> QED
    BY <1>1, <1>2, <1>5 DEF c, d

(* Everything a follower has got, is about to replay or has in its queue    *)
Stream(s) == s.seen \o s.replay \o s.queue

Following == [job : Jobs \cup {NoJob}, replay : Seq(Nat), queue : Seq(Nat), seen : Seq(Nat),
              lagged : BOOLEAN]

(* It is a rising part of the log so far, all of it unless the follower fell behind. *)
InStep(s) ==
    /\ s \in Following
    /\ \/ s = Offline
       \/ /\ s.job \in Jobs
          /\ Rising(Stream(s), log[s.job])
          /\ s.lagged = TRUE \/ Len(Stream(s)) = log[s.job]

StreamInv ==
    /\ log \in [Jobs -> Nat]
    /\ DOMAIN follower = Followers
    /\ \A f \in Followers : InStep(follower[f])

LEMMA SentInStep ==
  ASSUME NEW s \in Following, NEW n \in Nat, s.job \in Jobs,
         Rising(Stream(s), n), s.lagged = TRUE \/ Len(Stream(s)) = n
  PROVE  LET t == Sent(s, n + 1)
         IN  /\ t \in Following /\ t.job = s.job
             /\ Rising(Stream(t), n + 1)
             /\ t.lagged = TRUE \/ Len(Stream(t)) = n + 1
  <1> DEFINE a == s.seen \o s.replay
             q == Append(s.queue, n + 1)
             t == Sent(s, n + 1)
  <1>1. /\ s.seen \in Seq(Nat) /\ s.replay \in Seq(Nat) /\ s.queue \in Seq(Nat) /\ s.lagged \in BOOLEAN
        /\ a \in Seq(Nat)
    BY ConcatProperties DEF Following
  <1>2. Stream(s) = a \o s.queue
    BY DEF Stream
  <1>3. Rising(a \o q, n + 1) /\ Len(a \o q) = Len(Stream(s)) + 1
    BY <1>1, <1>2, RisingAppend
  <1>n. n + 1 \in Nat
    OBVIOUS
  <1>4. q \in Seq(Nat) /\ q # <<>>
    <2>1. q \in Seq(Nat) /\ Len(q) = Len(s.queue) + 1 /\ Len(s.queue) \in Nat
      BY <1>1, <1>n
    <2> HIDE DEF q
    <2> QED
      BY <2>1, EmptySeq
  <1>5. CASE Len(q) <= Capacity
    <2>1. t = [s EXCEPT !.queue = q]
      BY <1>5 DEF Sent
    <2>2. t \in Following /\ t.job = s.job /\ t.lagged = s.lagged
      BY <1>4, <2>1 DEF Following
    <2>3. Stream(t) = a \o q
      BY <2>1 DEF Stream, Following
    <2>4. t.lagged = TRUE \/ Len(Stream(t)) = n + 1
      BY <1>3, <2>2, <2>3
    <2> QED
      BY <1>3, <2>2, <2>3, <2>4
  <1>6. CASE ~(Len(q) <= Capacity)
    <2>1. t = [s EXCEPT !.queue = Tail(q), !.lagged = TRUE]
      BY <1>6 DEF Sent
    <2>0. Tail(q) \in Seq(Nat)
      BY <1>4, HeadTailProperties
    <2>2. t \in Following /\ t.job = s.job /\ t.lagged = TRUE
      BY <2>0, <2>1 DEF Following
    <2>3. Stream(t) = a \o Tail(q)
      BY <2>1 DEF Stream, Following
    <2>4. Rising(a \o Tail(q), n + 1)
      BY <1>1, <1>n, <1>3, <1>4, RisingTail
    <2> QED
      BY <2>2, <2>3, <2>4
  <1> QED
    BY <1>5, <1>6

LEMMA AppendLogStep ==
  ASSUME StreamInv, NEW j \in Jobs, AppendLog(j)
  PROVE  StreamInv'
  <1>1. CASE InTable(j)
    <2>1. /\ log' = [log EXCEPT ![j] = @ + 1]
          /\ follower' = [f \in Followers |-> IF follower[f].job = j THEN Sent(follower[f], log[j] + 1)
                                              ELSE follower[f]]
      BY <1>1 DEF AppendLog
    <2>2. log \in [Jobs -> Nat] /\ log[j] \in Nat /\ log' \in [Jobs -> Nat] /\ log'[j] = log[j] + 1
      BY <2>1 DEF StreamInv
    <2>3. ASSUME NEW f \in Followers PROVE InStep(follower[f])'
      <3> DEFINE s == follower[f]
      <3>1. InStep(s)
        BY DEF StreamInv
      <3>2. CASE s.job = j
        <4>1. s # Offline
          BY <3>2, BuilderAssumption DEF Offline, BuilderAssumption
        <4>2. s \in Following /\ Rising(Stream(s), log[j]) /\ (s.lagged = TRUE \/ Len(Stream(s)) = log[j])
          BY <3>1, <3>2, <4>1 DEF InStep
        <4> DEFINE t == Sent(s, log[j] + 1)
        <4> HIDE DEF s
        <4>3. /\ t \in Following /\ t.job = j
              /\ Rising(Stream(t), log[j] + 1)
              /\ t.lagged = TRUE \/ Len(Stream(t)) = log[j] + 1
          BY <2>2, <3>2, <4>2, SentInStep
        <4>4. follower'[f] = t
          BY <2>1, <3>2 DEF s
        <4> HIDE DEF t
        <4> QED
          BY <2>2, <4>3, <4>4 DEF InStep
      <3>3. CASE s.job # j
        <4>1. follower'[f] = s
          BY <2>1, <3>3
        <4>2. s.job \in Jobs => log'[s.job] = log[s.job]
          BY <2>1, <2>2, <3>3
        <4> HIDE DEF s
        <4> QED
          BY <3>1, <4>1, <4>2 DEF InStep
      <3> QED
        BY <3>2, <3>3
    <2> QED
      BY <2>1, <2>2, <2>3 DEF StreamInv
  <1>2. CASE ~InTable(j)
    BY <1>2 DEF AppendLog, StreamInv, InStep
  <1> QED
    BY <1>1, <1>2

LEMMA FollowStep ==
  ASSUME StreamInv, NEW f \in Followers,
         (\E j \in Watched : Subscribe(f, j)) \/ Deliver(f) \/ Disconnect(f)
  PROVE  StreamInv'
  <1>0. log' = log /\ log \in [Jobs -> Nat] /\ DOMAIN follower = Followers
    BY FollowerStep DEF StreamInv
  <1>e. <<>> \in Seq(Nat)
    BY EmptySeq
  <1>1. SUFFICES ASSUME NEW s, follower' = [follower EXCEPT ![f] = s], InStep(s)
                 PROVE StreamInv'
    <2>1. CASE \E j \in Watched : Subscribe(f, j)
      <3>1. PICK j \in Jobs : Subscribe(f, j)
        BY <2>1, BuilderAssumption DEF BuilderAssumption
      <3> DEFINE all == [i \in 1 .. log[j] |-> i]
                 s == [Offline EXCEPT !.job = j, !.replay = all]
      <3>2. all \in Seq(Nat) /\ Len(all) = log[j] /\ \A i \in 1 .. log[j] : all[i] = i
        BY <1>0
      <3> HIDE DEF all
      <3>0. Offline \in Following
        BY <1>e DEF Offline, Following
      <3>3. s.job = j /\ s.replay = all /\ s.queue = <<>> /\ s.seen = <<>>
        BY DEF Offline
      <3>4. Stream(s) = all
        BY <3>2, <3>3, ConcatEmptySeq DEF Stream
      <3>5. Rising(all, log[j])
        BY <1>0, <3>2 DEF Rising
      <3>6. s \in Following
        BY <3>0, <3>2 DEF Following
      <3>7. InStep(s)
        BY <3>2, <3>3, <3>4, <3>5, <3>6 DEF InStep
      <3>8. follower' = [follower EXCEPT ![f] = s]
        BY <3>1 DEF Subscribe, all
      <3> QED
        BY <3>7, <3>8
    <2>2. CASE Disconnect(f)
      <3>1. Offline \in Following
        BY <1>e DEF Offline, Following
      <3> QED
        BY <2>2, <3>1 DEF Disconnect, InStep
    <2>3. CASE Deliver(f)
      <3> DEFINE o == follower[f]
      <3>1. InStep(o) /\ o \in Following
        BY DEF StreamInv, InStep
      <3>2. o.seen \in Seq(Nat) /\ o.replay \in Seq(Nat) /\ o.queue \in Seq(Nat)
        BY <3>1 DEF Following
      <3>3. CASE o.replay # <<>>
        <4> DEFINE s == [o EXCEPT !.seen = Append(@, Head(o.replay)), !.replay = Tail(@)]
        <4>1. follower' = [follower EXCEPT ![f] = s]
          BY <2>3, <3>3, <1>0 DEF Deliver
        <4>2. /\ s.seen = Append(o.seen, Head(o.replay)) /\ s.replay = Tail(o.replay)
              /\ s.queue = o.queue /\ s.job = o.job /\ s.lagged = o.lagged
          BY <3>1 DEF Following
        <4>3. s.seen \in Seq(Nat) /\ s.replay \in Seq(Nat) /\ s.seen \o s.replay = o.seen \o o.replay
          BY <3>2, <3>3, <4>2, MoveLine
        <4>4. s \in Following /\ Stream(s) = Stream(o)
          BY <3>1, <4>2, <4>3 DEF Following, Stream
        <4>5. o # Offline
          BY <3>3 DEF Offline
        <4>6. InStep(s)
          BY <3>1, <4>2, <4>4, <4>5 DEF InStep
        <4> QED
          BY <4>1, <4>6
      <3>4. CASE o.replay = <<>> /\ o.queue # <<>>
        <4> DEFINE s == [o EXCEPT !.seen = Append(@, Head(o.queue)), !.queue = Tail(@)]
        <4>1. follower' = [follower EXCEPT ![f] = s]
          BY <2>3, <3>4, <1>0 DEF Deliver
        <4>2. /\ s.seen = Append(o.seen, Head(o.queue)) /\ s.queue = Tail(o.queue)
              /\ s.replay = <<>> /\ s.job = o.job /\ s.lagged = o.lagged
          BY <3>1, <3>4 DEF Following
        <4>3. s.seen \in Seq(Nat) /\ s.queue \in Seq(Nat) /\ s.seen \o s.queue = o.seen \o o.queue
          BY <3>2, <3>4, <4>2, MoveLine
        <4>4. Stream(s) = s.seen \o s.queue /\ Stream(o) = o.seen \o o.queue
          BY <3>2, <3>4, <4>2, <4>3, ConcatEmptySeq DEF Stream
        <4>5. s \in Following
          BY <1>e, <3>1, <4>2, <4>3 DEF Following
        <4>6. o # Offline
          BY <3>4 DEF Offline
        <4>7. InStep(s)
          BY <3>1, <4>2, <4>3, <4>4, <4>5, <4>6 DEF InStep
        <4> QED
          BY <4>1, <4>7
      <3> QED
        BY <2>3, <3>3, <3>4 DEF Deliver
    <2> QED
      BY <2>1, <2>2, <2>3
  <1>2. ASSUME NEW g \in Followers PROVE InStep(follower[g])'
    <2>1. InStep(follower'[g])
      BY <1>0, <1>1 DEF StreamInv
    <2> QED
      BY <1>0, <2>1 DEF InStep
  <1> QED
    BY <1>0, <1>1, <1>2 DEF StreamInv

LEMMA StreamInvariant == Spec => []StreamInv
  <1>1. Init => StreamInv
    <2>1. Offline \in Following
      BY EmptySeq DEF Offline, Following
    <2> QED
      BY <2>1 DEF Init, StreamInv, InStep
  <1>2. StreamInv /\ [Next]_vars => StreamInv'
    <2> SUFFICES ASSUME StreamInv, [Next]_vars PROVE StreamInv'
      OBVIOUS
    <2>1. ASSUME NEW j \in Jobs, LogLine(j) \/ StreamLine(j) PROVE StreamInv'
      BY <2>1, AppendLogStep DEF LogLine, StreamLine
    <2>2. CASE UNCHANGED <<log, follower>>
      BY <2>2 DEF StreamInv, InStep
    <2>3. ASSUME NEW j \in Jobs, Steps(j), ~LogLine(j), ~StreamLine(j) PROVE UNCHANGED <<log, follower>>
      BY <2>3 DEF Steps, Task, PostBuild, Delete, Acquire, SetState, MakeScratch, StampSkeleton, SpawnCargo,
         CargoWaited, WaitTimeout, DrainLogs, ReadArtifacts, Cleanup, Return, CargoPrints, CargoExits
    <2>4. CASE UNCHANGED vars
      BY <2>2, <2>4 DEF vars
    <2>5. CASE \E j \in Jobs : Steps(j)
      BY <2>1, <2>2, <2>3, <2>5
    <2>6. CASE \E f \in Followers : (\E j \in Watched : Subscribe(f, j)) \/ Deliver(f) \/ Disconnect(f)
      BY <2>6, FollowStep
    <2> QED
      BY <2>4, <2>5, <2>6 DEF Next, Steps
  <1> QED
    BY <1>1, <1>2, PTL DEF Spec

(* What a follower gets is the log of its job from the first line, in      *)
(* order, nothing twice, and all of it unless it fell behind the channel;  *)
(* for any number of jobs and followers and any capacity.                  *)
THEOREM LogsReplayed == Spec => []LogReplayed
  <1>1. StreamInv => LogReplayed
    <2> SUFFICES ASSUME StreamInv, NEW f \in Followers
                 PROVE  LET s == follower[f]
                            all == s.seen \o s.replay \o s.queue
                        IN  /\ \A i, k \in 1 .. Len(all) : i < k => all[i] < all[k]
                            /\ s # Offline /\ ~s.lagged => Len(all) = log[s.job]
      BY DEF LogReplayed
    <2> DEFINE s == follower[f]
    <2>1. InStep(s)
      BY DEF StreamInv
    <2>2. CASE s = Offline
      <3>1. Stream(s) = <<>>
        BY <2>2, EmptySeq, ConcatEmptySeq DEF Stream, Offline
      <3> QED
        BY <2>2, <3>1 DEF Stream
    <2>3. CASE s # Offline
      BY <2>1, <2>3 DEF InStep, Rising, Stream
    <2> QED
      BY <2>2, <2>3
  <1> QED
    BY <1>1, StreamInvariant, PTL
=============================================================================
