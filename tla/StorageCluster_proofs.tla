------------------------ MODULE StorageCluster_proofs ------------------------
(***************************************************************************)
(* The storage plugin under core, for every node, every edit and every     *)
(* request: records and workloads keep their types through the scheduler,  *)
(* a set that succeeded can be rolled back to what it found, between       *)
(* operations the books hold what the workloads do, and every operation is *)
(* one step of the ledger.                                                 *)
(***************************************************************************)
EXTENDS StorageCluster, StorageRecord_proofs

-----------------------------------------------------------------------------
(* Bindings and workloads *)

WorksOk(works) ==
    DOMAIN works = Ids /\ \A id \in Ids : works[id] = Nil \/ WorkOk(works[id])

\* What the constants say of them
LEMMA RequestsAreWishes ==
    /\ \A req \in DeployRequests \cup ReallocRequests : Wishes(req)
    /\ \A req \in DeployRequests : Folded(req).storage >= 0
BY ClusterInputsAssumption DEF Wishes, Requests, Bindings, Distinct

-----------------------------------------------------------------------------
(* What a set does to the half of the record it leaves alone *)

\* Usage that went through Validate: what is gone was none
KeptUsage(usage, usage1) ==
    /\ usage.volumes = usage1.volumes /\ usage.storage = usage1.storage
    /\ DOMAIN usage.disks \subseteq DOMAIN usage1.disks
    /\ \A name \in DOMAIN usage.disks : usage.disks[name] = usage1.disks[name]
    /\ \A name \in DOMAIN usage1.disks \ DOMAIN usage.disks : usage1.disks[name] = NoIO

\* An edit leaves the usage alone, but for disks it takes away
LEMMA EditStores ==
    ASSUME NEW info, Sound(info), NEW edit \in CapacityEdits, NEW set,
           set = SetNodeResourceCapacity(info, Nil, edit.req, edit.delta, edit.incr), set.ok
    PROVE  Sound(set.info) /\ KeptUsage(set.info.usage, info.usage)
<1> DEFINE capacity == NextCapacity(info.capacity, Nil, edit.req, edit.delta, edit.incr)
           next == [info EXCEPT !.capacity =
                       NextCapacity(@, Nil, edit.req, edit.delta, edit.incr)]
<1>1. Given(Nil, edit.req) /\ edit.delta \in BOOLEAN /\ edit.incr \in BOOLEAN
  BY ClusterInputsAssumption DEF Given
<1>2. Sound(set.info) /\ set = Put(info, next)
  BY <1>1, CapacitySetStores
<1>3. IsCapacity(capacity)
  BY <1>1, NextCapacityIsCapacity DEF Sound, IsInfo
<1>4. next = [capacity |-> capacity, usage |-> info.usage]
  BY DEF Sound, IsInfo
<1> HIDE DEF capacity
<1>5. IsInfo(next) /\ next.usage = info.usage
  BY <1>3, <1>4 DEF Sound, IsInfo
<1> HIDE DEF next
<1>6. /\ ValidInfo(next)
      /\ set.info.usage.volumes = next.usage.volumes
      /\ set.info.usage.storage = next.usage.storage
      /\ DOMAIN set.info.usage.disks = DOMAIN next.usage.disks \cap DOMAIN next.capacity.disks
      /\ \A name \in DOMAIN set.info.usage.disks :
            set.info.usage.disks[name] = next.usage.disks[name]
  BY <1>2, <1>5, PutStores
<1>7. \A name \in DOMAIN next.usage.disks \ DOMAIN next.capacity.disks :
         next.usage.disks[name] = NoIO
  BY <1>6 DEF ValidInfo, ValidDisks
<1> QED
  BY <1>2, <1>5, <1>6, <1>7 DEF KeptUsage

\* Over a record of the same capacity a usage is put back
LEMMA UsageIsRestored ==
    ASSUME NEW now, Sound(now), NEW info, Sound(info), now.capacity = info.capacity,
           NEW undone, undone = RestoreUsage(now, info.usage)
    PROVE  /\ undone.ok
           /\ undone.info.capacity = info.capacity
           /\ Alike(undone.info.usage, info.usage)
<1>1. info = [capacity |-> info.capacity, usage |-> info.usage] /\ IsInfo(info) /\ ValidInfo(info)
  BY DEF Sound, IsInfo
<1>2. undone = Put(now, info)
  BY <1>1, SnapshotsAreReplayed
<1>3. undone.ok
  BY <1>1, <1>2 DEF Put
<1> QED
  BY <1>1, <1>2, <1>3, PutKeepsUsage

\* Over a record whose usage was kept a capacity is put back
LEMMA CapacityIsRestored ==
    ASSUME NEW now, Sound(now), NEW info, Sound(info), KeptUsage(now.usage, info.usage),
           NEW undone, undone = RestoreCapacity(now, info.capacity)
    PROVE  /\ undone.ok
           /\ undone.info.capacity = info.capacity
           /\ Alike(undone.info.usage, info.usage)
<1> DEFINE next == [capacity |-> info.capacity, usage |-> now.usage]
<1>1. undone = Put(now, next)
  BY SnapshotsAreReplayed
<1>2. /\ IsInfo(next) /\ next.capacity = info.capacity /\ next.usage = now.usage
  BY DEF Sound, IsInfo
<1> HIDE DEF next
<1>3. ValidInfo(next)
  <2>1. ValidVolumes(next)
    BY <1>2 DEF Sound, ValidInfo, ValidVolumes, KeptUsage
  <2>2. ValidStorage(next)
    BY <1>2 DEF Sound, ValidInfo, ValidStorage, KeptUsage
  <2>3. ValidDisks(next)
    <3>1. /\ ValidDisks(info) /\ DOMAIN info.usage.disks \subseteq DOMAIN info.capacity.disks
          /\ DOMAIN now.usage.disks \subseteq DOMAIN info.usage.disks
          /\ \A name \in DOMAIN now.usage.disks : now.usage.disks[name] = info.usage.disks[name]
      BY DEF Sound, ValidInfo, KeptUsage
    <3> QED
      BY <1>2, <3>1 DEF ValidDisks
  <2> QED
    BY <2>1, <2>2, <2>3 DEF ValidInfo
<1>4. undone.ok
  BY <1>1, <1>3 DEF Put
<1>5. undone.info.capacity = info.capacity /\ Alike(undone.info.usage, now.usage)
  BY <1>1, <1>2, <1>4, PutKeepsUsage
<1>6. \A name : UsedOf(now.usage.disks, name) = UsedOf(info.usage.disks, name)
  BY DEF KeptUsage, UsedOf
<1> QED
  BY <1>4, <1>5, <1>6 DEF Alike, KeptUsage

-----------------------------------------------------------------------------
(* The invariant *)

StoredOk == etcd = Absent \/ Sound(etcd)

CountersOk ==
    member \in BOOLEAN /\ repair \in BOOLEAN /\ ops \in 0..MaxOps /\ faults \in 0..MaxFaults

TaskOk ==
    task # Nil => /\ task.op \in Ops /\ task.step \in {"call", "undo"} /\ task.ok \in BOOLEAN
                  /\ Sound(task.before) /\ WorksOk(task.next)
                  /\ task = [op |-> task.op, step |-> task.step, ok |-> task.ok,
                             before |-> task.before, next |-> task.next]

\* While a set that succeeded may still be rolled back, the half of the record
\* that it leaves alone is the one it found
Undoable ==
    task # Nil /\ task.step = "call" /\ task.ok =>
        /\ task.op \in Bookings => Sound(etcd) /\ etcd.capacity = task.before.capacity
        /\ task.op = "edit" => Sound(etcd) /\ KeptUsage(etcd.usage, task.before.usage)

IInv == StoredOk /\ CountersOk /\ WorksOk(workload) /\ TaskOk /\ Undoable

\* The record a verb reads is sound
LEMMA ReadIsSound ==
    ASSUME StoredOk
    PROVE  Sound(GetOrEmpty)
BY EmptyInfoIsInfo DEF StoredOk, GetOrEmpty, Sound

\* A verb that is executed leaves what is stored sound
LEMMA ExecutedIsStored ==
    ASSUME StoredOk, CountersOk, NEW result, NEW ok \in BOOLEAN, Execute(result, ok),
           result.ok => result.info = Absent \/ Sound(result.info)
    PROVE  /\ StoredOk' /\ faults' \in 0..MaxFaults
           /\ ok => result.ok /\ etcd' = result.info
<1>1. faults' \in 0..MaxFaults
  BY ClusterBoundsAssumption DEF CountersOk, Execute
<1>2. etcd' = etcd \/ (result.ok /\ etcd' = result.info)
  BY DEF Execute
<1>3. ok => result.ok /\ etcd' = result.info
  BY DEF Execute
<1>4. StoredOk'
  <2>1. CASE etcd' = etcd
    BY <2>1 DEF StoredOk, Sound
  <2>2. CASE result.ok /\ etcd' = result.info
    BY <2>2 DEF StoredOk, Sound
  <2> QED
    BY <1>2, <2>1, <2>2
<1> QED
  BY <1>1, <1>3, <1>4

\* What a set may leave to be rolled back
Leaves(op, result) ==
    result.ok =>
        /\ result.info = Absent \/ Sound(result.info)
        /\ op \in Bookings => Sound(result.info) /\ result.info.capacity = GetOrEmpty.capacity
        /\ op = "edit" => Sound(result.info) /\ KeptUsage(result.info.usage, GetOrEmpty.usage)

\* An operation that begins keeps the invariant
LEMMA CallKeepsIInv ==
    ASSUME IInv, NEW op \in Ops, NEW result, NEW next, WorksOk(next), Leaves(op, result),
           Call(op, result, next), ops' \in 0..MaxOps
    PROVE  IInv'
<1>1. PICK ok \in BOOLEAN :
         /\ Execute(result, ok)
         /\ task' = [op |-> op, step |-> "call", ok |-> ok, before |-> GetOrEmpty,
                     next |-> next]
  BY DEF Call
<1>2. UNCHANGED <<member, workload, repair>>
  BY DEF Call
<1>3. Sound(GetOrEmpty)
  BY ReadIsSound DEF IInv
<1>4. StoredOk' /\ faults' \in 0..MaxFaults /\ (ok => result.ok /\ etcd' = result.info)
  BY <1>1, ExecutedIsStored DEF IInv, Leaves
<1>5. CountersOk'
  BY <1>2, <1>4 DEF IInv, CountersOk
<1>6. WorksOk(workload)'
  BY <1>2 DEF IInv, WorksOk, WorkOk
<1> DEFINE before == GetOrEmpty
           begun == [op |-> op, step |-> "call", ok |-> ok, before |-> before, next |-> next]
<1>7. task' = begun
  BY <1>1
<1> HIDE DEF before
<1>8. /\ begun.op = op /\ begun.step = "call" /\ begun.ok = ok /\ begun.before = before
      /\ begun.next = next
  OBVIOUS
<1> HIDE DEF begun
<1>9. TaskOk'
  <2>1. Sound(before)
    BY <1>3 DEF before
  <2>2. /\ begun.op \in Ops /\ begun.step \in {"call", "undo"} /\ begun.ok \in BOOLEAN
        /\ Sound(begun.before) /\ WorksOk(begun.next)
    BY <1>8, <2>1
  <2>3. begun = [op |-> begun.op, step |-> begun.step, ok |-> begun.ok,
                 before |-> begun.before, next |-> begun.next]
    BY DEF begun
  <2> QED
    BY <1>7, <2>2, <2>3 DEF TaskOk, Sound, WorksOk, WorkOk
<1>10. Undoable'
  <2>1. ok => /\ op \in Bookings => Sound(etcd') /\ etcd'.capacity = before.capacity
              /\ op = "edit" => Sound(etcd') /\ KeptUsage(etcd'.usage, before.usage)
    BY <1>4 DEF Leaves, before
  <2> QED
    BY <1>7, <1>8, <2>1 DEF Undoable, Sound, KeptUsage
<1> QED
  BY <1>4, <1>5, <1>6, <1>9, <1>10 DEF IInv

\* A roll-back keeps the invariant
LEMMA UndoKeepsIInv ==
    ASSUME IInv, NEW result, result.ok => result.info = Absent \/ Sound(result.info),
           Undo(result)
    PROVE  IInv'
<1>1. PICK ok \in BOOLEAN :
         Execute(result, ok) /\ task' = [task EXCEPT !.step = "undo", !.ok = ok]
  BY DEF Undo
<1>2. UNCHANGED <<member, workload, repair, ops>> /\ task # Nil
  BY DEF Undo
<1>3. StoredOk' /\ faults' \in 0..MaxFaults
  BY <1>1, ExecutedIsStored DEF IInv
<1>4. CountersOk'
  BY <1>2, <1>3 DEF IInv, CountersOk
<1>5. WorksOk(workload)'
  BY <1>2 DEF IInv, WorksOk, WorkOk
<1>6. TaskOk' /\ Undoable'
  BY <1>1, <1>2 DEF IInv, TaskOk, Undoable, Sound, WorksOk, WorkOk
<1> QED
  BY <1>3, <1>4, <1>5, <1>6 DEF IInv

\* Workloads one by one
LEMMA TakenIsTaken ==
    ASSUME NEW works, WorksOk(works)
    PROVE  AreTaken(Taken(works))
<1> DEFINE taken == Taken(works)
<1>1. \A id \in Ids : IsUsage(taken[id])
  <2> TAKE id \in Ids
  <2>1. taken[id] = IF works[id] = Nil THEN NoUsage ELSE Held(works[id])
    BY DEF Taken
  <2> QED
    BY <2>1, EmptyInfoIsInfo, HeldIsUsage DEF WorksOk
<1>2. DOMAIN taken = 1..MaxWorkloads /\ MaxWorkloads \in Nat
  BY ClusterBoundsAssumption DEF Taken, Ids
<1>3. taken = [id \in 1..MaxWorkloads |-> taken[id]]
  BY DEF Taken, Ids
<1> HIDE DEF taken
<1>4. Len(taken) = MaxWorkloads
  <2>1. taken \in Seq({taken[id] : id \in 1..MaxWorkloads})
    BY <1>2, <1>3
  <2> QED
    BY <1>2, <2>1
<1> QED
  BY <1>1, <1>2, <1>4 DEF AreTaken, Ids, taken

\* Each step keeps the invariant
LEMMA DeployKeepsIInv == IInv /\ Deploy => IInv'
<1> SUFFICES ASSUME IInv, Deploy PROVE IInv'
  OBVIOUS
<1>0. PICK req \in DeployRequests, count \in 1..MaxWorkloads :
         LET deployed == Deployed(GetOrEmpty, count, req)
         IN  /\ deployed.ok /\ Counted
             /\ Call("deploy", Book(GetOrEmpty, HeldBy(deployed.works), TRUE),
                     Enrolled(deployed.works, count))
  BY DEF Deploy
<1>1. PICK deployed :
         /\ deployed = Deployed(GetOrEmpty, count, req) /\ deployed.ok /\ Counted
         /\ Call("deploy", Book(GetOrEmpty, HeldBy(deployed.works), TRUE),
                 Enrolled(deployed.works, count))
  BY <1>0
<1> DEFINE works == deployed.works
           taken == HeldBy(works)
           next == Enrolled(works, count)
           ids == NewIds
           result == Book(GetOrEmpty, taken, TRUE)
<1>2. Sound(GetOrEmpty) /\ IsInfo(GetOrEmpty) /\ count \in Nat
  BY ReadIsSound, ClusterBoundsAssumption DEF IInv, Sound
<1>3. /\ Len(works) \in Nat /\ DOMAIN works = 1..Len(works) /\ count <= Len(works)
      /\ \A i \in DOMAIN works : WorkOk(works[i])
  BY <1>1, <1>2, RequestsAreWishes, DeployedAreOk
<1>4. Call("deploy", result, next) /\ Counted
  BY <1>1
<1> HIDE DEF works
<1>5. WorksOk(next)
  <2> HIDE DEF ids
  <2>0. next = [id \in Ids |-> IF \E i \in 1..count : ids[i] = id
                               THEN works[CHOOSE i \in 1..count : ids[i] = id]
                               ELSE workload[id]]
    BY DEF Enrolled, ids
  <2> HIDE DEF next
  <2>1. \A id \in Ids : next[id] = Nil \/ WorkOk(next[id])
    <3> TAKE id \in Ids
    <3>0. next[id] = IF \E i \in 1..count : ids[i] = id
                     THEN works[CHOOSE i \in 1..count : ids[i] = id]
                     ELSE workload[id]
      BY <2>0
    <3>1. CASE \E i \in 1..count : ids[i] = id
      <4>1. PICK i \in 1..count : next[id] = works[i]
        BY <3>0, <3>1
      <4>2. i \in DOMAIN works
        BY <1>2, <1>3, <4>1
      <4> QED
        BY <1>3, <4>1, <4>2
    <3>2. CASE ~ \E i \in 1..count : ids[i] = id
      BY <3>0, <3>2 DEF IInv, WorksOk
    <3> QED
      BY <3>1, <3>2
  <2>2. DOMAIN next = Ids
    BY <2>0
  <2> QED
    BY <2>1, <2>2 DEF WorksOk
<1>6. AreTaken(taken)
  BY <1>3, HeldAreTaken
<1> HIDE DEF taken, next
<1>7. Leaves("deploy", result)
  <2>1. result.ok => Sound(result.info) /\ result.info.capacity = GetOrEmpty.capacity
    BY <1>2, <1>6, BookingStores
  <2> HIDE DEF result
  <2> QED
    BY <2>1 DEF Leaves
<1>8. ops' \in 0..MaxOps
  BY <1>4, ClusterBoundsAssumption DEF IInv, CountersOk, Counted
<1> HIDE DEF result
<1> QED
  BY <1>4, <1>5, <1>7, <1>8, CallKeepsIInv DEF Ops

LEMMA ReallocKeepsIInv == IInv /\ Realloc => IInv'
<1> SUFFICES ASSUME IInv, Realloc PROVE IInv'
  OBVIOUS
<1>0. PICK id \in Live, req \in ReallocRequests :
         LET target == Reallocated(GetOrEmpty, workload[id], req)
         IN  /\ target.ok /\ Counted
             /\ Call("realloc", Book(GetOrEmpty, <<ReallocDelta(workload[id], target.work)>>, TRUE),
                     [workload EXCEPT ![id] = target.work])
  BY DEF Realloc
<1>1. PICK target :
         /\ target = Reallocated(GetOrEmpty, workload[id], req) /\ target.ok /\ Counted
         /\ Call("realloc", Book(GetOrEmpty, <<ReallocDelta(workload[id], target.work)>>, TRUE),
                 [workload EXCEPT ![id] = target.work])
  BY <1>0
<1> DEFINE delta == ReallocDelta(workload[id], target.work)
           next == [workload EXCEPT ![id] = target.work]
           result == Book(GetOrEmpty, <<delta>>, TRUE)
<1>2. Sound(GetOrEmpty) /\ IsInfo(GetOrEmpty)
  BY ReadIsSound DEF IInv, Sound
<1>3. id \in Ids /\ WorkOk(workload[id]) /\ WorksOk(workload)
  BY DEF IInv, Live, WorksOk
<1>4. WorkOk(target.work)
  BY <1>1, <1>2, <1>3, RequestsAreWishes, ReallocatedIsOk
<1>5. Call("realloc", result, next) /\ Counted
  BY <1>1
<1>6. WorksOk(next)
  BY <1>3, <1>4 DEF WorksOk
<1>7. IsUsage(delta)
  <2>1. IsUsage(Held(target.work)) /\ IsUsage(Held(workload[id]))
    BY <1>3, <1>4, HeldIsUsage
  <2> QED
    BY <2>1, TakeIsUsage DEF Take, ReallocDelta
<1> HIDE DEF delta, next
<1>8. Leaves("realloc", result)
  <2>1. AreTaken(<<delta>>)
    BY <1>7, OneIsTaken
  <2>2. result.ok => Sound(result.info) /\ result.info.capacity = GetOrEmpty.capacity
    BY <1>2, <2>1, BookingStores
  <2> HIDE DEF result
  <2> QED
    BY <2>2 DEF Leaves
<1>9. ops' \in 0..MaxOps
  BY <1>5, ClusterBoundsAssumption DEF IInv, CountersOk, Counted
<1> HIDE DEF result
<1> QED
  BY <1>5, <1>6, <1>8, <1>9, CallKeepsIInv DEF Ops

LEMMA DiscardKeepsIInv == IInv /\ Discard => IInv'
<1> SUFFICES ASSUME IInv, Discard PROVE IInv'
  OBVIOUS
<1>1. PICK id \in Live :
         /\ Call("discard", Book(GetOrEmpty, <<Held(workload[id])>>, FALSE),
                 [workload EXCEPT ![id] = Nil])
         /\ UNCHANGED ops
  BY DEF Discard
<1> DEFINE held == Held(workload[id])
           next == [workload EXCEPT ![id] = Nil]
           result == Book(GetOrEmpty, <<held>>, FALSE)
<1>2. Sound(GetOrEmpty)
  BY ReadIsSound DEF IInv
<1>3. id \in Ids /\ WorkOk(workload[id]) /\ WorksOk(workload)
  BY DEF IInv, Live, WorksOk
<1>4. Call("discard", result, next)
  BY <1>1
<1>5. WorksOk(next)
  BY <1>3 DEF WorksOk
<1>6. IsUsage(held)
  BY <1>3, HeldIsUsage
<1> HIDE DEF held, next
<1>7. Leaves("discard", result)
  <2>1. AreTaken(<<held>>)
    BY <1>6, OneIsTaken
  <2>2. result.ok => Sound(result.info) /\ result.info.capacity = GetOrEmpty.capacity
    BY <1>2, <2>1, BookingStores
  <2> HIDE DEF result
  <2> QED
    BY <2>2 DEF Leaves
<1>8. ops' \in 0..MaxOps
  BY <1>1 DEF IInv, CountersOk
<1> HIDE DEF result
<1> QED
  BY <1>4, <1>5, <1>7, <1>8, CallKeepsIInv DEF Ops

LEMMA EnlistKeepsIInv == IInv /\ Enlist => IInv'
<1> SUFFICES ASSUME IInv, Enlist PROVE IInv'
  OBVIOUS
<1>1. PICK req \in NewNodes :
         /\ Counted
         /\ Call("add", IF etcd = Absent THEN AddNode(req, EngineStorage) ELSE Failure(etcd),
                 workload)
  BY DEF Enlist
<1> DEFINE result == IF etcd = Absent THEN AddNode(req, EngineStorage) ELSE Failure(etcd)
<1>2. result.ok => Sound(result.info)
  <2>1. CASE etcd = Absent
    <3>1. result = AddNode(req, EngineStorage)
      BY <2>1
    <3> HIDE DEF result
    <3> QED
      BY <3>1, AddStores, ClusterInputsAssumption, ClusterBoundsAssumption
  <2>2. CASE etcd # Absent
    BY <2>2 DEF Failure
  <2> QED
    BY <2>1, <2>2
<1>3. Call("add", result, workload)
  BY <1>1
<1>4. ops' \in 0..MaxOps
  BY <1>1, ClusterBoundsAssumption DEF IInv, CountersOk, Counted
<1> HIDE DEF result
<1>5. Leaves("add", result)
  BY <1>2 DEF Leaves, Bookings
<1> QED
  BY <1>3, <1>4, <1>5, CallKeepsIInv DEF Ops, IInv

LEMMA DelistKeepsIInv == IInv /\ Delist => IInv'
<1> SUFFICES ASSUME IInv, Delist PROVE IInv'
  OBVIOUS
<1>1. Call("remove", Deleted, workload) /\ ops' = ops
  BY DEF Delist
<1>2. Leaves("remove", Deleted)
  BY DEF Leaves, Deleted, Bookings
<1>3. ops' \in 0..MaxOps
  BY <1>1 DEF IInv, CountersOk
<1> QED
  BY <1>1, <1>2, <1>3, CallKeepsIInv DEF Ops, IInv

LEMMA EditKeepsIInv == IInv /\ Edit => IInv'
<1> SUFFICES ASSUME IInv, Edit PROVE IInv'
  OBVIOUS
<1>1. PICK edit \in CapacityEdits :
         /\ Counted
         /\ Call("edit",
                 SetNodeResourceCapacity(GetOrEmpty, Nil, edit.req, edit.delta, edit.incr),
                 workload)
  BY DEF Edit
<1> DEFINE result == SetNodeResourceCapacity(GetOrEmpty, Nil, edit.req, edit.delta, edit.incr)
<1>2. result.ok => Sound(result.info) /\ KeptUsage(result.info.usage, GetOrEmpty.usage)
  BY ReadIsSound, EditStores DEF IInv
<1>3. Call("edit", result, workload)
  BY <1>1
<1>4. ops' \in 0..MaxOps
  BY <1>1, ClusterBoundsAssumption DEF IInv, CountersOk, Counted
<1> HIDE DEF result
<1>5. Leaves("edit", result)
  BY <1>2 DEF Leaves, Bookings
<1> QED
  BY <1>3, <1>4, <1>5, CallKeepsIInv DEF Ops, IInv

LEMMA FixKeepsIInv == IInv /\ Fix => IInv'
<1> SUFFICES ASSUME IInv, Fix PROVE IInv'
  OBVIOUS
<1> DEFINE result == IF etcd = Absent THEN Failure(etcd)
                     ELSE FixNodeResource(etcd, Taken(workload))
<1>1. Call("fix", result, workload) /\ ops' = ops
  BY DEF Fix
<1>2. result.ok => Sound(result.info)
  <2>1. CASE etcd = Absent
    BY <2>1 DEF Failure
  <2>2. CASE etcd # Absent
    <3>1. result = FixNodeResource(etcd, Taken(workload))
      BY <2>2
    <3>2. Sound(etcd) /\ AreTaken(Taken(workload))
      BY <2>2, TakenIsTaken DEF IInv, StoredOk
    <3> HIDE DEF result
    <3> QED
      BY <3>1, <3>2, FixStores
  <2> QED
    BY <2>1, <2>2
<1>3. ops' \in 0..MaxOps
  BY <1>1 DEF IInv, CountersOk
<1> HIDE DEF result
<1>4. Leaves("fix", result)
  BY <1>2 DEF Leaves, Bookings
<1> QED
  BY <1>1, <1>3, <1>4, CallKeepsIInv DEF Ops, IInv

LEMMA RollBackKeepsIInv == IInv /\ RollBack => IInv'
<1> SUFFICES ASSUME IInv, RollBack PROVE IInv'
  OBVIOUS
<1>1. Sound(GetOrEmpty)
  BY ReadIsSound DEF IInv
<1>2. CASE UndoUsage
  <2> DEFINE result == RestoreUsage(GetOrEmpty, task.before.usage)
             next == [capacity |-> GetOrEmpty.capacity, usage |-> task.before.usage]
  <2>1. Undo(result) /\ Sound(task.before)
    BY <1>2 DEF UndoUsage, IInv, TaskOk
  <2>2. result = Put(GetOrEmpty, next)
    BY <1>1, <2>1, SnapshotsAreReplayed
  <2>3. IsInfo(next)
    BY <1>1, <2>1 DEF Sound, IsInfo
  <2> HIDE DEF next, result
  <2>4. result.ok => Sound(result.info)
    BY <2>2, <2>3, PutIsSound
  <2> QED
    BY <2>1, <2>4, UndoKeepsIInv
<1>3. CASE UndoCapacity
  <2> DEFINE result == RestoreCapacity(GetOrEmpty, task.before.capacity)
             next == [capacity |-> task.before.capacity, usage |-> GetOrEmpty.usage]
  <2>1. Undo(result) /\ Sound(task.before)
    BY <1>3 DEF UndoCapacity, IInv, TaskOk
  <2>2. result = Put(GetOrEmpty, next)
    BY <1>1, <2>1, SnapshotsAreReplayed
  <2>3. IsInfo(next)
    BY <1>1, <2>1 DEF Sound, IsInfo
  <2> HIDE DEF next, result
  <2>4. result.ok => Sound(result.info)
    BY <2>2, <2>3, PutIsSound
  <2> QED
    BY <2>1, <2>4, UndoKeepsIInv
<1>4. CASE UndoAdd
  <2>1. Undo(Deleted) /\ Deleted.info = Absent
    BY <1>4 DEF UndoAdd, Deleted
  <2> QED
    BY <2>1, UndoKeepsIInv
<1> QED
  BY <1>2, <1>3, <1>4 DEF RollBack

LEMMA EndKeepsIInv == IInv /\ End => IInv'
<1> SUFFICES ASSUME IInv, End PROVE IInv'
  OBVIOUS
<1>1. task # Nil /\ task' = Nil /\ UNCHANGED <<etcd, ops, faults>>
  BY DEF End, Commit, Abandon
<1>2. workload' = task.next \/ workload' = workload
  BY DEF End, Commit, Abandon
<1>3. member' \in BOOLEAN /\ repair' \in BOOLEAN
  BY DEF End, Commit, Abandon, IInv, CountersOk
<1>4. StoredOk' /\ CountersOk'
  BY <1>1, <1>3 DEF IInv, StoredOk, CountersOk, Sound
<1>5. WorksOk(workload)'
  BY <1>1, <1>2 DEF IInv, TaskOk, WorksOk, WorkOk
<1>6. TaskOk' /\ Undoable'
  BY <1>1 DEF TaskOk, Undoable
<1> QED
  BY <1>4, <1>5, <1>6 DEF IInv

-----------------------------------------------------------------------------
(* The invariant holds *)

LEMMA InitIsIInv == Init => IInv
<1> SUFFICES ASSUME Init PROVE IInv
  OBVIOUS
<1>1. etcd = Absent /\ task = Nil
      /\ member \in BOOLEAN /\ repair = FALSE /\ ops = 0 /\ faults = 0
  BY DEF Init
<1>3. StoredOk /\ TaskOk /\ Undoable
  BY <1>1 DEF StoredOk, TaskOk, Undoable
<1>4. CountersOk
  <2>1. 0 \in 0..MaxOps /\ 0 \in 0..MaxFaults
    BY ClusterBoundsAssumption
  <2> QED
    BY <1>1, <2>1 DEF CountersOk
<1>2. WorksOk(workload)
  BY DEF Init, WorksOk
<1> QED
  BY <1>2, <1>3, <1>4 DEF IInv

LEMMA NextKeepsIInv == IInv /\ [Next]_vars => IInv'
<1> SUFFICES ASSUME IInv, [Next]_vars PROVE IInv'
  OBVIOUS
<1>1. CASE Begin
  BY <1>1, EnlistKeepsIInv, DelistKeepsIInv, EditKeepsIInv, DeployKeepsIInv, ReallocKeepsIInv,
     DiscardKeepsIInv DEF Begin
<1>2. CASE Fix \/ RollBack \/ End
  BY <1>2, FixKeepsIInv, RollBackKeepsIInv, EndKeepsIInv
<1>3. CASE UNCHANGED vars
  <2>1. UNCHANGED etcd /\ UNCHANGED <<member, repair, ops, faults>> /\ UNCHANGED workload
        /\ UNCHANGED task
    BY <1>3 DEF vars
  <2> QED
    BY <2>1 DEF IInv, StoredOk, CountersOk, TaskOk, Undoable, Sound, WorksOk, WorkOk, KeptUsage
<1> QED
  BY <1>1, <1>2, <1>3 DEF Next

\* What is reachable: stored records are sound, workloads hold what a plan gave
\* them, and what may be rolled back is as it was in the half a set leaves alone
THEOREM InvariantHolds == Spec => []IInv
<1>1. Init => IInv
  BY InitIsIInv
<1>2. IInv /\ [Next]_vars => IInv'
  BY NextKeepsIInv
<1> QED
  BY <1>1, <1>2, PTL DEF Spec

\* Types: whatever is stored passes Validate and lists no usage of a disk that
\* is not there, whatever calls fail, get lost or are rolled back
THEOREM ClusterTypesHold == Spec => []ClusterTypeOK
<1>1. IInv => ClusterTypeOK
  <2> SUFFICES ASSUME IInv PROVE ClusterTypeOK
    OBVIOUS
  <2>1. etcd # Absent => /\ ValidInfo(etcd)
                         /\ DOMAIN etcd.usage.disks \subseteq DOMAIN etcd.capacity.disks
    BY DEF IInv, StoredOk, Sound
  <2>2. \A id \in Live : workload[id].storage \in Nat
    BY DEF IInv, WorksOk, WorkOk, Live
  <2> QED
    BY <2>1, <2>2 DEF ClusterTypeOK, IInv, CountersOk, TaskOk
<1> QED
  BY <1>1, InvariantHolds, PTL

\* Whatever a set has done, the replay of its snapshot is accepted and brings
\* back the record it found (RestoreUsage and RestoreCapacity: the absolute sets
\* of SetNodeResourceUsage and SetNodeResourceCapacity)
THEOREM RollbackIsAlwaysExact == Spec => []RollbackIsExact
<1>1. IInv => RollbackIsExact
  <2> SUFFICES ASSUME IInv, task # Nil, task.step = "call", task.ok,
                      task.op \in Bookings \cup {"edit"}
               PROVE  LET undone == IF task.op = "edit"
                                    THEN RestoreCapacity(etcd, task.before.capacity)
                                    ELSE RestoreUsage(etcd, task.before.usage)
                      IN  /\ undone.ok
                          /\ undone.info.capacity = task.before.capacity
                          /\ Alike(undone.info.usage, task.before.usage)
    BY DEF RollbackIsExact
  <2> DEFINE undone == IF task.op = "edit"
                       THEN RestoreCapacity(etcd, task.before.capacity)
                       ELSE RestoreUsage(etcd, task.before.usage)
  <2>1. Sound(etcd) /\ Sound(task.before)
    BY DEF IInv, TaskOk, Undoable
  <2>2. CASE task.op = "edit"
    <3>1. undone = RestoreCapacity(etcd, task.before.capacity)
      BY <2>2
    <3>2. KeptUsage(etcd.usage, task.before.usage)
      BY <2>2 DEF IInv, Undoable
    <3> HIDE DEF undone
    <3>3. /\ undone.ok
          /\ undone.info.capacity = task.before.capacity
          /\ Alike(undone.info.usage, task.before.usage)
      BY <2>1, <3>1, <3>2, CapacityIsRestored
    <3> QED
      BY <3>3 DEF undone
  <2>3. CASE task.op \in Bookings
    <3>1. undone = RestoreUsage(etcd, task.before.usage)
      BY <2>3 DEF Bookings
    <3>2. etcd.capacity = task.before.capacity
      BY <2>3 DEF IInv, Undoable
    <3> HIDE DEF undone
    <3>3. /\ undone.ok
          /\ undone.info.capacity = task.before.capacity
          /\ Alike(undone.info.usage, task.before.usage)
      BY <2>1, <3>1, <3>2, UsageIsRestored
    <3> QED
      BY <3>3 DEF undone
  <2> QED
    BY <2>2, <2>3
<1> QED
  BY <1>1, InvariantHolds, PTL

-----------------------------------------------------------------------------
(* What is held *)

\* What the workloads hold, none where there is none
HeldIn(works, m) == [id \in Ids |-> IF works[id] = Nil THEN 0 ELSE Amount(Held(works[id]), m)]

\* Ids are finitely many, and what is held is an amount
LEMMA HeldInIsInt ==
    ASSUME NEW works, WorksOk(works), NEW m \in Measures
    PROVE  /\ IsFiniteSet(Ids) /\ \A id \in Ids : HeldIn(works, m)[id] \in Int
           /\ \A s \in SUBSET Ids : Integral(HeldIn(works, m), s)
<1>1. IsFiniteSet(Ids)
  BY ClusterBoundsAssumption, FS_Interval DEF Ids
<1>2. ASSUME NEW id \in Ids
      PROVE  HeldIn(works, m)[id] \in Int
  <2>1. CASE works[id] = Nil
    BY <2>1 DEF HeldIn
  <2>2. CASE works[id] # Nil
    <3>1. IsUsage(Held(works[id]))
      BY <2>2, HeldIsUsage DEF WorksOk
    <3>2. Amount(Held(works[id]), m) \in Int
      BY <3>1, AmountsAdd
    <3> QED
      BY <2>2, <3>2 DEF HeldIn
  <2> QED
    BY <2>1, <2>2
<1>3. ASSUME NEW s \in SUBSET Ids
      PROVE  Integral(HeldIn(works, m), s)
  <2>1. IsFiniteSet(s)
    BY <1>1, FS_Subset
  <2> QED
    BY <1>2, <2>1 DEF Integral
<1> QED
  BY <1>1, <1>2, <1>3

\* One workload changes
LEMMA OneMoves ==
    ASSUME NEW works, WorksOk(works), NEW next, WorksOk(next), NEW id \in Ids,
           \A id1 \in Ids : id1 # id => next[id1] = works[id1], NEW m \in Measures
    PROVE  SumOver(HeldIn(next, m), Ids)
             = SumOver(HeldIn(works, m), Ids) - HeldIn(works, m)[id] + HeldIn(next, m)[id]
<1> DEFINE f == HeldIn(works, m)
           g == HeldIn(next, m)
           rest == Ids \ {id}
<1>1. \A id1 \in rest : f[id1] = g[id1]
  BY DEF HeldIn
<1>2. /\ Integral(f, Ids) /\ Integral(g, Ids) /\ Integral(f, rest)
      /\ f[id] \in Int /\ g[id] \in Int
  BY HeldInIsInt
<1> HIDE DEF f, g
<1>3. SumOver(f, Ids) = f[id] + SumOver(f, rest) /\ SumOver(g, Ids) = g[id] + SumOver(g, rest)
      /\ SumOver(f, rest) \in Int
  BY <1>2, SumSplits
<1> HIDE DEF rest
<1>4. SumOver(f, rest) = SumOver(g, rest)
  BY <1>1, SumSame
<1>5. SumOver(g, Ids) = SumOver(f, Ids) - f[id] + g[id]
  BY <1>2, <1>3, <1>4
<1> QED
  BY <1>5 DEF f, g

\* Core lists the ids that are free
LEMMA NewIdsAreListed == Lists(NewIds, Ids \ Live)
<1> DEFINE S == Ids \ Live
           lower == [x \in S |-> {y \in S : y < x}]
           r == NewIds
<1>1. IsFiniteSet(S) /\ S \subseteq Int
  <2>1. IsFiniteSet(Ids) /\ Ids \subseteq Int
    BY ClusterBoundsAssumption, FS_Interval DEF Ids
  <2> QED
    BY <2>1, FS_Subset
<1>2. Orders(lower, S)
  <2>1. \A x \in S, y \in S : x = y \/ x < y \/ y < x
    BY <1>1
  <2>2. \A x \in S, y \in S : x < y => \A z \in S : z < x => z < y
    BY <1>1
  <2>3. \A x \in S : ~(x < x)
    BY <1>1
  <2> HIDE DEF S
  <2> QED
    BY <2>1, <2>2, <2>3 DEF Orders
<1>3. IsList(r, Cardinality(S))
  BY SMTT(30) DEF NewIds, Ranked, IsList
<1>4. \A i \in 1..Cardinality(S) : (\E x \in S : Cardinality(lower[x]) = i - 1)
         => r[i] \in S /\ Cardinality(lower[r[i]]) = i - 1
  <2> TAKE i \in 1..Cardinality(S)
  <2> HAVE \E x \in S : Cardinality(lower[x]) = i - 1
  <2>0. PICK x \in S : Cardinality(lower[x]) = i - 1
    OBVIOUS
  <2>1. Cardinality({y \in S : y < x}) = i - 1
    BY <2>0
  <2>2. r[i] = CHOOSE z \in S : Cardinality({y \in S : y < z}) = i - 1
    BY DEF NewIds, Ranked
  <2> HIDE DEF r, S
  <2>3. r[i] \in S /\ Cardinality({y \in S : y < r[i]}) = i - 1
    BY <2>1, <2>2
  <2> QED
    BY <2>3
<1> HIDE DEF lower, r, S
<1>5. Lists(r, S)
  BY <1>1, <1>2, <1>3, <1>4, OrderLists
<1> QED
  BY <1>5 DEF r, S

\* New workloads are added to what there was
LEMMA EnrolledMove ==
    ASSUME WorksOk(workload), NEW works, NEW count \in Nat, DOMAIN works = 1..count,
           \A i \in 1..count : WorkOk(works[i]) /\ works[i] # Nil, count <= Cardinality(Ids \ Live),
           NEW next, next = Enrolled(works, count), WorksOk(next), NEW m \in Measures
    PROVE  SumOver(HeldIn(next, m), Ids)
             = SumOver(HeldIn(workload, m), Ids) + SumOver(AmountIn(HeldBy(works), m), 1..count)
<1> DEFINE ids == NewIds
           T == {ids[i] : i \in 1..count}
           f == HeldIn(workload, m)
           g == HeldIn(next, m)
           k == AmountIn(HeldBy(works), m)
<1>1. /\ Len(ids) = Cardinality(Ids \ Live) /\ Len(ids) \in Nat
      /\ \A i \in 1..Len(ids), j \in 1..Len(ids) : ids[i] = ids[j] => i = j
      /\ \A i \in 1..Len(ids) : ids[i] \in Ids \ Live
  <2> DEFINE S == Ids \ Live
  <2>1. Lists(ids, S)
    BY NewIdsAreListed
  <2> HIDE DEF ids, S
  <2>2. ids \in Seq(S) /\ Len(ids) = Cardinality(S)
        /\ \A i \in 1..Len(ids), j \in 1..Len(ids) : ids[i] = ids[j] => i = j
    BY <2>1 DEF Lists
  <2>3. Len(ids) \in Nat /\ \A i \in 1..Len(ids) : ids[i] \in S
    BY <2>2
  <2> QED
    BY <2>2, <2>3 DEF S
<1>2. next = [id \in Ids |-> IF \E i \in 1..count : ids[i] = id
                             THEN works[CHOOSE i \in 1..count : ids[i] = id]
                             ELSE workload[id]]
  BY DEF Enrolled
<1> HIDE DEF ids
<1>0. \A i \in 1..count : i \in 1..Len(ids)
  BY <1>1
<1>3. \A i \in 1..count : ids[i] \in Ids \ Live
  BY <1>0, <1>1
<1>4. \A i \in 1..count : \A j \in 1..count : ids[i] = ids[j] => i = j
  BY <1>0, <1>1
<1>5. T \in SUBSET Ids /\ \A id \in T : workload[id] = Nil
  BY <1>3 DEF Live
<1>6. ASSUME NEW i \in 1..count
      PROVE  k[i] = g[ids[i]] /\ g[ids[i]] \in Int
  <2>1. next[ids[i]] = works[i]
    BY <1>2, <1>3, <1>4
  <2>2. g[ids[i]] = Amount(Held(works[i]), m)
    BY <1>3, <2>1 DEF HeldIn
  <2>3. k[i] = Amount(Held(works[i]), m)
    BY DEF AmountIn, HeldBy
  <2>4. \A id \in Ids : g[id] \in Int
    BY HeldInIsInt
  <2> HIDE DEF g
  <2> QED
    BY <1>3, <2>2, <2>3, <2>4
<1>7. \A id \in Ids \ T : g[id] = f[id]
  BY <1>2 DEF HeldIn
<1>8. \A id \in T : f[id] = 0
  BY <1>5 DEF HeldIn
<1>9. /\ IsFiniteSet(T) /\ Integral(f, T) /\ Integral(g, T)
      /\ Integral(f, Ids \ T) /\ Integral(g, Ids \ T)
  <2>1. IsFiniteSet(T)
    BY <1>5, HeldInIsInt, FS_Subset
  <2>2. Ids \ T \in SUBSET Ids
    OBVIOUS
  <2> HIDE DEF T
  <2> QED
    BY <1>5, <2>1, <2>2, HeldInIsInt
<1>10. SumOver(g, T) = SumOver(k, 1..count)
  <2> DEFINE S == 1..count
  <2>1. IsFiniteSet(S)
    BY FS_Interval
  <2>2. \A i \in S : \A j \in S : ids[i] = ids[j] => i = j
    BY <1>4
  <2>3. (\A i \in S : g[ids[i]] \in Int) /\ \A i \in S : k[i] = g[ids[i]]
    BY <1>6
  <2> HIDE DEF g, k, S
  <2>4. SumOver(g, {ids[i] : i \in S}) = SumOver(k, S)
    BY <2>1, <2>2, <2>3, SumMoves
  <2> QED
    BY <2>4 DEF S
<1> HIDE DEF f, g, k, T
<1>11. T \cup (Ids \ T) = Ids /\ T \cap (Ids \ T) = {}
  BY <1>5
<1> DEFINE U == Ids \ T
<1>12. /\ SumOver(g, T \cup U) = SumOver(g, T) + SumOver(g, U)
       /\ SumOver(f, T \cup U) = SumOver(f, T) + SumOver(f, U)
  BY <1>9, <1>11, SumJoins
<1>13. SumOver(f, T) = 0
  BY <1>8, <1>9, SumOfZeros
<1>14. SumOver(g, U) = SumOver(f, U)
  BY <1>7, SumSame
<1>15. SumOver(f, U) \in Int /\ SumOver(g, T) \in Int
  BY <1>9, SumSplits
<1>17. T \cup U = Ids
  BY <1>11
<1> HIDE DEF U
<1>18. SumOver(g, Ids) = SumOver(g, T \cup U) /\ SumOver(f, Ids) = SumOver(f, T \cup U)
  BY <1>17
<1>19. SumOver(g, Ids) = SumOver(g, T) + SumOver(g, U)
       /\ SumOver(f, Ids) = SumOver(f, T) + SumOver(f, U)
  BY <1>12, <1>18
<1>16. SumOver(g, Ids) = SumOver(f, Ids) + SumOver(k, 1..count)
  BY <1>10, <1>13, <1>14, <1>15, <1>19
<1> QED
  BY <1>16 DEF f, g, k
-----------------------------------------------------------------------------
(* The books.  For the measures of K what is used is what the workloads    *)
(* hold; an operation that fails in doubt leaves a repair entry, one that  *)
(* is rolled back or ends well leaves the books in order.                  *)

\* What is used of the node according to a record, or to none
UsageIn(record) == IF record = Absent THEN NoUsage ELSE record.usage

Tallies(K, usage, works) == \A m \in K : Amount(usage, m) = SumOver(HeldIn(works, m), Ids)

\* Between operations
Balanced(K) == task = Nil /\ ~repair => Tallies(K, UsageIn(etcd), workload)

\* What an operation found, and what it has left if its last call succeeded
Proceeds(K, t) ==
    /\ t.op \notin Bookings => t.next = workload
    /\ t.op = "remove" => Live = {} /\ (t.ok => etcd = Absent)
    /\ t.op = "fix" => repair
    /\ t.op = "add" /\ t.step = "call" /\ t.ok => t.before.usage = NoUsage
    /\ ~repair => Tallies(K, t.before.usage, workload)
    /\ ~repair /\ t.op \notin Bookings => Tallies(K, UsageIn(etcd), workload)
    /\ t.step = "call" /\ t.ok /\ (t.op = "fix" \/ (t.op \in Bookings /\ ~repair))
          => Tallies(K, UsageIn(etcd), t.next)
    /\ t.step = "undo" /\ t.ok /\ ~repair => Tallies(K, UsageIn(etcd), workload)

\* What stands for nothing is no workload, no operation and no record
NoneIsApart ==
    /\ Nil \notin Workloads
    /\ \A op, step, ok, before, next :
          Nil # [op |-> op, step |-> step, ok |-> ok, before |-> before, next |-> next]
    /\ \A capacity, usage : Absent # [capacity |-> capacity, usage |-> usage]

SInv(K) == NoneIsApart /\ IInv /\ Balanced(K) /\ (task # Nil => Proceeds(K, task))

\* What an operation calls keeps the books in order
Promises(K, op, result, next) ==
    /\ op \notin Bookings => next = workload
    /\ op = "remove" => Live = {} /\ result = Deleted
    /\ op = "fix" => repair
    /\ op = "add" /\ result.ok => GetOrEmpty.usage = NoUsage
    /\ result.ok /\ (op = "fix" \/ (op \in Bookings /\ ~repair))
          => Tallies(K, UsageIn(result.info), next)
    /\ result.ok /\ op \notin Bookings /\ ~repair => Tallies(K, UsageIn(result.info), workload)

\* The usage a verb reads
LEMMA ReadUsage == GetOrEmpty.usage = UsageIn(etcd)
BY DEF GetOrEmpty, UsageIn, EmptyInfo

LEMMA CallBalances ==
    ASSUME NEW K \in SUBSET Measures, SInv(K), NEW op \in Ops, NEW result, NEW next,
           Promises(K, op, result, next), Call(op, result, next), IInv'
    PROVE  SInv(K)'
<1>1. PICK ok \in BOOLEAN :
         /\ Execute(result, ok)
         /\ task' = [op |-> op, step |-> "call", ok |-> ok, before |-> GetOrEmpty,
                     next |-> next]
  BY DEF Call
<1>2. UNCHANGED <<member, workload, repair>> /\ task = Nil
  BY DEF Call
<1>3. (etcd' = etcd \/ (result.ok /\ etcd' = result.info)) /\ (ok => result.ok /\ etcd' = result.info)
  BY <1>1 DEF Execute
<1>4. PICK t : t = task'
  OBVIOUS
<1>5. /\ t.op = op /\ t.step = "call" /\ t.ok = ok /\ t.next = next
      /\ t.before.usage = UsageIn(etcd) /\ t.before.usage = GetOrEmpty.usage
  BY <1>1, <1>4, ReadUsage
<1>6. ~repair => Tallies(K, UsageIn(etcd), workload)
  BY <1>2 DEF SInv, Balanced
<1>7. Live' = Live
  BY <1>2 DEF Live, Ids
<1>8. PICK record : record = etcd'
  OBVIOUS
<1>9. /\ t.op \notin Bookings => t.next = workload
      /\ t.op = "remove" => Live = {} /\ (t.ok => record = Absent)
      /\ t.op = "fix" => repair
      /\ t.op = "add" /\ t.step = "call" /\ t.ok => t.before.usage = NoUsage
      /\ ~repair => Tallies(K, t.before.usage, workload)
  BY <1>3, <1>5, <1>6, <1>8 DEF Promises, Deleted
<1>10. ~repair /\ t.op \notin Bookings => Tallies(K, UsageIn(record), workload)
  BY <1>3, <1>5, <1>6, <1>8 DEF Promises
<1>11. t.step = "call" /\ t.ok /\ (t.op = "fix" \/ (t.op \in Bookings /\ ~repair))
          => Tallies(K, UsageIn(record), t.next)
  BY <1>3, <1>5, <1>8 DEF Promises
<1>12. task' # Nil
  <2>1. PICK before : before = GetOrEmpty
    OBVIOUS
  <2>2. task' = [op |-> op, step |-> "call", ok |-> ok, before |-> before, next |-> next]
    BY <1>1, <2>1
  <2> QED
    BY <2>2 DEF SInv, NoneIsApart
<1>13. Proceeds(K, task)'
  <2>1. UsageIn(etcd)' = UsageIn(record)
    BY <1>8 DEF UsageIn
  <2>2. /\ Tallies(K, UsageIn(etcd), workload)' <=> Tallies(K, UsageIn(record), workload)
        /\ Tallies(K, task.before.usage, workload)' <=> Tallies(K, t.before.usage, workload)
        /\ Tallies(K, UsageIn(etcd), task.next)' <=> Tallies(K, UsageIn(record), t.next)
    BY <1>2, <1>4, <2>1 DEF Tallies, HeldIn, Ids
  <2>3. /\ (task'.op \notin Bookings => task'.next = workload')
        /\ (task'.op = "remove" => Live' = {} /\ (task'.ok => etcd' = Absent))
        /\ (task'.op = "fix" => repair')
        /\ (task'.op = "add" /\ task'.step = "call" /\ task'.ok => task'.before.usage = NoUsage)
    BY <1>2, <1>4, <1>7, <1>8, <1>9
  <2>4. ~repair' => Tallies(K, task.before.usage, workload)'
    BY <1>2, <1>9, <2>2
  <2>5. ~repair' /\ task'.op \notin Bookings => Tallies(K, UsageIn(etcd), workload)'
    BY <1>2, <1>4, <1>10, <2>2
  <2>6. task'.step = "call" /\ task'.ok /\ (task'.op = "fix" \/ (task'.op \in Bookings /\ ~repair'))
          => Tallies(K, UsageIn(etcd), task.next)'
    BY <1>2, <1>4, <1>11, <2>2
  <2>7. task'.step # "undo"
    BY <1>4, <1>5
  <2> QED
    BY <2>3, <2>4, <2>5, <2>6, <2>7 DEF Proceeds
<1> QED
  BY <1>12, <1>13 DEF SInv, Balanced, NoneIsApart

\* A roll-back keeps the books in order, if it puts back what the workloads hold
LEMMA UndoBalances ==
    ASSUME NEW K \in SUBSET Measures, SInv(K), NEW result, task.op \in Bookings \cup {"edit", "add"},
           result.ok /\ ~repair => Tallies(K, UsageIn(result.info), workload),
           Undo(result), IInv'
    PROVE  SInv(K)'
<1>1. PICK ok \in BOOLEAN :
         Execute(result, ok) /\ task' = [task EXCEPT !.step = "undo", !.ok = ok]
  BY DEF Undo
<1>2. UNCHANGED <<member, workload, repair, ops>> /\ task # Nil
  BY DEF Undo
<1>3. (etcd' = etcd \/ (result.ok /\ etcd' = result.info)) /\ (ok => result.ok /\ etcd' = result.info)
  BY <1>1 DEF Execute
<1>4. task = [op |-> task.op, step |-> task.step, ok |-> task.ok,
              before |-> task.before, next |-> task.next]
  BY <1>2 DEF SInv, IInv, TaskOk
<1>5. PICK t : t = task'
  OBVIOUS
<1>6. t = [op |-> task.op, step |-> "undo", ok |-> ok, before |-> task.before, next |-> task.next]
  BY <1>1, <1>4, <1>5
<1>7. /\ t.op = task.op /\ t.step = "undo" /\ t.ok = ok /\ t.next = task.next
      /\ t.before = task.before /\ t # Nil
  BY <1>6 DEF SInv, NoneIsApart
<1>8. Proceeds(K, task)
  BY <1>2 DEF SInv
<1>9. PICK record : record = etcd'
  OBVIOUS
<1>10. t.op \notin {"remove", "fix"}
  BY <1>7 DEF Bookings
<1>11. Proceeds(K, task)'
  <2>1. UsageIn(etcd)' = UsageIn(record)
    BY <1>9 DEF UsageIn
  <2>2. /\ Tallies(K, UsageIn(etcd), workload)' <=> Tallies(K, UsageIn(record), workload)
        /\ Tallies(K, task.before.usage, workload)' <=> Tallies(K, t.before.usage, workload)
    BY <1>2, <1>5, <2>1 DEF Tallies, HeldIn, Ids
  <2>3. /\ (task'.op \notin Bookings => task'.next = workload')
        /\ task'.op \notin {"remove", "fix"} /\ task'.step # "call"
    BY <1>2, <1>5, <1>7, <1>8, <1>10 DEF Proceeds
  <2>4. ~repair' => Tallies(K, task.before.usage, workload)'
    BY <1>2, <1>7, <1>8, <2>2 DEF Proceeds
  <2>5. ~repair' /\ task'.op \notin Bookings => Tallies(K, UsageIn(etcd), workload)'
    <3>1. ~repair /\ t.op \notin Bookings => Tallies(K, UsageIn(record), workload)
      <4>1. ~repair /\ t.op \notin Bookings => Tallies(K, UsageIn(etcd), workload)
        BY <1>7, <1>8 DEF Proceeds
      <4> QED
        BY <1>3, <1>9, <4>1
    <3> QED
      BY <1>2, <1>5, <2>2, <3>1
  <2>6. task'.ok /\ ~repair' => Tallies(K, UsageIn(etcd), workload)'
    <3>1. t.ok /\ ~repair => Tallies(K, UsageIn(record), workload)
      BY <1>3, <1>7, <1>9
    <3> QED
      BY <1>2, <1>5, <2>2, <3>1
  <2> QED
    BY <2>3, <2>4, <2>5, <2>6 DEF Proceeds
<1> QED
  BY <1>5, <1>7, <1>11 DEF SInv, Balanced, NoneIsApart

\* Nothing is used where there are no workloads
LEMMA NothingIsHeld ==
    ASSUME NEW K \in SUBSET Measures, NEW works, \A id \in Ids : works[id] = Nil
    PROVE  Tallies(K, NoUsage, works)
<1> SUFFICES ASSUME NEW m \in K
             PROVE  Amount(NoUsage, m) = SumOver(HeldIn(works, m), Ids)
  BY DEF Tallies
<1> DEFINE g == HeldIn(works, m)
<1>1. \A id \in Ids : g[id] = 0
  BY DEF HeldIn
<1>2. IsFiniteSet(Ids)
  BY ClusterBoundsAssumption, FS_Interval DEF Ids
<1> HIDE DEF g
<1>3. SumOver(g, Ids) = 0
  BY <1>1, <1>2, SumOfZeros
<1>4. Amount(NoUsage, m) = 0
  BY NothingAmounts
<1> QED
  BY <1>3, <1>4 DEF g

\* An operation that ends leaves the books in order, or a repair entry
LEMMA EndBalances ==
    ASSUME NEW K \in SUBSET Measures, SInv(K), End, IInv'
    PROVE  SInv(K)'
<1>1. task # Nil /\ task' = Nil /\ UNCHANGED etcd /\ Proceeds(K, task)
  BY DEF End, Commit, Abandon, SInv
<1>2. task.op \in Ops /\ task.step \in {"call", "undo"} /\ task.ok \in BOOLEAN
  BY <1>1 DEF SInv, IInv, TaskOk
<1>3. ASSUME ~repair'
      PROVE  Tallies(K, UsageIn(etcd), workload')
  <2>1. CASE Commit
    <3>1. /\ task.step = "call" /\ task.ok /\ workload' = task.next
          /\ repair' = (repair /\ task.op \notin {"fix", "remove"})
      BY <2>1 DEF Commit
    <3>2. CASE task.op = "remove"
      <4>1. workload' = workload /\ Live = {} /\ UsageIn(etcd) = NoUsage
        BY <1>1, <3>1, <3>2 DEF Proceeds, Bookings, UsageIn
      <4>2. Tallies(K, NoUsage, workload)
        BY <4>1, NothingIsHeld DEF Live
      <4> QED
        BY <4>1, <4>2
    <3>3. CASE task.op = "fix"
      BY <1>1, <3>1, <3>3 DEF Proceeds
    <3>4. CASE task.op \in Bookings
      <4>1. ~repair
        BY <1>3, <3>1, <3>4 DEF Bookings
      <4> QED
        BY <1>1, <3>1, <3>4, <4>1 DEF Proceeds
    <3>5. CASE task.op \notin Bookings \cup {"fix", "remove"}
      <4>1. ~repair
        BY <1>3, <3>1, <3>5
      <4> QED
        BY <1>1, <3>1, <3>5, <4>1 DEF Proceeds
    <3> QED
      BY <3>2, <3>3, <3>4, <3>5
  <2>2. CASE Abandon
    <3>1. /\ workload' = workload /\ (task.step = "undo" \/ ~task.ok)
          /\ repair' = (repair \/ (task.op \in Bookings /\ ~task.ok))
      BY <2>2 DEF Abandon
    <3>2. ~repair /\ (task.op \notin Bookings \/ task.ok)
      BY <1>3, <3>1
    <3>3. CASE task.op \notin Bookings
      BY <1>1, <3>1, <3>2, <3>3 DEF Proceeds
    <3>4. CASE task.ok
      BY <1>1, <3>1, <3>2, <3>4 DEF Proceeds
    <3> QED
      BY <3>2, <3>3, <3>4
  <2> QED
    BY <2>1, <2>2 DEF End
<1>4. Balanced(K)'
  BY <1>1, <1>3 DEF Balanced, Tallies, HeldIn, Ids, UsageIn
<1> QED
  BY <1>1, <1>4 DEF SInv, NoneIsApart

-----------------------------------------------------------------------------
(* What may grow.  The usage of a node only grows within its capacity: the *)
(* storage is looked at by calculate-deploy and calculate-realloc, volumes *)
(* and disks by Validate; no plan is for a volume the node does not have.  *)

\* What a node offers
Offer(capacity, m) ==
    IF m[1] = "storage" THEN capacity.storage
    ELSE IF m[1] = "volume" THEN SizeOf(capacity.volumes, m[2])
    ELSE QuotaOf(capacity.disks, m[2])[m[3]]

GrownWithin(info, record) ==
    \A m \in Measures :
        Amount(record.usage, m) > Amount(info.usage, m)
            => Amount(record.usage, m) <= Offer(info.capacity, m)

\* What Validate sees to, and what is left to see to
LEMMA SoundIsWithin ==
    ASSUME NEW inf, Sound(inf), NEW record, Sound(record), record.capacity = inf.capacity,
           \/ record.usage.storage <= inf.usage.storage
           \/ record.usage.storage <= inf.capacity.storage,
           \A device \in Devices \ DOMAIN inf.capacity.volumes :
              record.usage.volumes[device] <= inf.usage.volumes[device]
    PROVE  GrownWithin(inf, record)
<1> SUFFICES ASSUME NEW m \in Measures, Amount(record.usage, m) > Amount(inf.usage, m)
             PROVE  Amount(record.usage, m) <= Offer(inf.capacity, m)
  BY DEF GrownWithin
<1>0. /\ IsUsage(inf.usage) /\ IsUsage(record.usage)
      /\ DOMAIN inf.capacity.volumes \in SUBSET Devices
      /\ \A name \in DOMAIN inf.capacity.disks : inf.capacity.disks[name].io \in IO
  BY DEF Sound, IsInfo, IsCapacity, CapacitiesOn, DiskCapacity
<1>1. CASE m[1] = "storage"
  <2>1. /\ Amount(record.usage, m) = record.usage.storage /\ Amount(inf.usage, m) = inf.usage.storage
        /\ Offer(inf.capacity, m) = inf.capacity.storage
    BY <1>1, MeasureKinds DEF Offer
  <2>2. record.usage.storage \in Int /\ inf.usage.storage \in Int
    BY <1>0, UsageParts
  <2> QED
    BY <2>1, <2>2
<1>2. CASE m[1] = "volume"
  <2>1. PICK device \in Devices : device = m[2]
    BY <1>2, MeasureKinds
  <2>2. /\ Amount(record.usage, m) = record.usage.volumes[device]
        /\ Amount(inf.usage, m) = inf.usage.volumes[device]
        /\ Offer(inf.capacity, m) = SizeOf(inf.capacity.volumes, device)
    BY <1>2, <2>1, MeasureKinds DEF Offer
  <2>3. record.usage.volumes[device] \in Int /\ inf.usage.volumes[device] \in Int
    BY <1>0, UsageParts
  <2>4. CASE device \in DOMAIN inf.capacity.volumes
    <3>1. record.usage.volumes[device] \in 0..inf.capacity.volumes[device]
      BY <2>4 DEF Sound, ValidInfo, ValidVolumes
    <3> QED
      BY <2>2, <2>4, <3>1 DEF SizeOf
  <2>5. CASE device \notin DOMAIN inf.capacity.volumes
    BY <2>2, <2>3, <2>5
  <2> QED
    BY <2>4, <2>5
<1>3. CASE m[1] = "disk"
  <2>1. PICK name \in DiskNames, rate \in Rates : name = m[2] /\ rate = m[3]
    BY <1>3, MeasureKinds
  <2>2. /\ Amount(record.usage, m) = UsedOf(record.usage.disks, name)[rate]
        /\ Offer(inf.capacity, m) = QuotaOf(inf.capacity.disks, name)[rate]
    BY <1>3, <2>1, MeasureKinds DEF Offer
  <2>3. CASE name \notin DOMAIN inf.capacity.disks
    <3>1. name \notin DOMAIN record.usage.disks
      BY <2>3 DEF Sound
    <3> QED
      BY <2>2, <2>3, <3>1 DEF UsedOf, QuotaOf, NoIO
  <2>4. CASE name \in DOMAIN inf.capacity.disks
    <3>1. QuotaOf(inf.capacity.disks, name) = inf.capacity.disks[name].io
      BY <2>4 DEF QuotaOf
    <3>2. /\ Covers(inf.capacity.disks[name].io, NoIO)
          /\ name \in DOMAIN record.usage.disks
                => Covers(inf.capacity.disks[name].io, record.usage.disks[name])
      BY <2>4 DEF Sound, ValidInfo, ValidDisks
    <3>3. Covers(inf.capacity.disks[name].io, UsedOf(record.usage.disks, name))
      BY <3>2 DEF UsedOf
    <3>4. inf.capacity.disks[name].io[rate] >= UsedOf(record.usage.disks, name)[rate]
      BY <3>3 DEF Covers
    <3>5. inf.capacity.disks[name].io[rate] \in Int /\ UsedOf(record.usage.disks, name)[rate] \in Int
      BY <1>0, <2>4, UsageParts DEF IO
    <3> QED
      BY <2>2, <3>1, <3>4, <3>5
  <2> QED
    BY <2>3, <2>4
<1> QED
  BY <1>1, <1>2, <1>3, MeasureKinds

\* Nothing grows where nothing changes
LEMMA SameIsWithin ==
    ASSUME NEW u, IsUsage(u), NEW inf, inf.usage = u, NEW record, IsUsage(record.usage),
           \A m \in Measures : Amount(record.usage, m) <= Amount(u, m)
    PROVE  GrownWithin(inf, record)
<1> SUFFICES ASSUME NEW m \in Measures
             PROVE  ~(Amount(record.usage, m) > Amount(inf.usage, m))
  BY DEF GrownWithin
<1>1. Amount(record.usage, m) \in Int /\ Amount(u, m) \in Int
  BY AmountsAdd
<1> QED
  BY <1>1

\* calculate-deploy looks at the storage, and answers each workload the same of it
LEMMA DeployedStorage ==
    ASSUME NEW inf, NEW req, NEW count,
           NEW deployed, deployed = Deployed(inf, count, req), deployed.ok
    PROVE  /\ StorageCapacity(inf, Folded(req).storage) >= count
           /\ \A i \in DOMAIN deployed.works : deployed.works[i].storage = Folded(req).storage
<1> DEFINE plans == IF NeedSchedule(req.vbs) THEN GetVolumePlans(inf, req.vbs, count)
                    ELSE Repeat(count, NoPlan)
           storage == Folded(req).storage
           Work(p) == [vbs |-> req.vbs, plan |-> p.plan, disks |-> p.disks, storage |-> storage]
           works == [i \in DOMAIN plans |-> Work(plans[i])]
           enough == Len(plans) >= count
<1>1. /\ StorageCapacity(inf, storage) >= count
      /\ deployed = [ok |-> enough, works |-> works]
  BY DEF Deployed
<1> HIDE DEF plans, storage, enough
<1>2. \A i \in DOMAIN works : works[i].storage = storage
  OBVIOUS
<1>3. deployed.works = works
  <2> HIDE DEF works
  <2> QED
    BY <1>1
<1> HIDE DEF works
<1> QED
  BY <1>1, <1>2, <1>3 DEF storage

\* A deploy takes no more storage than there is, and of the node's volumes only
LEMMA DeployGrows ==
    ASSUME NEW inf, Sound(inf), NEW req, Wishes(req), Sizes(req.vbs), Folded(req).storage >= 0,
           NEW count \in Nat, count > 0, NEW works, NEW deployed,
           deployed = Deployed(inf, count, req), deployed.ok, works = deployed.works,
           DOMAIN works = 1..count, \A i \in 1..count : WorkOk(works[i]),
           NEW set, set = Book(inf, HeldBy(works), TRUE), set.ok
    PROVE  GrownWithin(inf, set.info)
<1>1. PICK D \in SUBSET Devices : D = DOMAIN inf.capacity.volumes
  BY RecordParts
<1>2. PICK taken : taken = HeldBy(works)
  OBVIOUS
<1>3. /\ DOMAIN taken = 1..count /\ (\A i \in 1..count : IsUsage(taken[i]))
      /\ \A i \in 1..count : taken[i] = Held(works[i])
  BY <1>2, HeldIsUsage DEF HeldBy
<1>4. Booked(inf, taken, count, set)
  BY <1>2, <1>3 DEF Booked
<1>5. IsFiniteSet(1..count)
  BY FS_Interval
<1>6. IsUsage(inf.usage) /\ IsInfo(inf)
  BY DEF Sound, IsInfo
<1>7. set.info.usage.storage <= inf.usage.storage \/ set.info.usage.storage <= inf.capacity.storage
  <2>1. PICK storage \in Nat : storage = Folded(req).storage
    BY FoldedIsInt
  <2>2. StorageCapacity(inf, storage) >= count /\ \A i \in 1..count : works[i].storage = storage
    BY <2>1, DeployedStorage
  <2>3. PICK m \in Measures : m = <<"storage">>
    BY AmountsByName
  <2>4. \A u : Amount(u, m) = u.storage
    BY <2>3, AmountsByName
  <2>5. PICK g : g = AmountIn(taken, m)
    OBVIOUS
  <2>6. \A i \in 1..count : g[i] = storage
    BY <1>3, <2>2, <2>4, <2>5 DEF AmountIn, Held
  <2>7. SumOver(g, 1..count) = count * storage
    BY <2>6, SumRepeats
  <2>8. PICK all \in Int : all = count * storage
    OBVIOUS
  <2>9. PICK before \in Int, room \in Int :
           before = inf.usage.storage /\ room = inf.capacity.storage
    <3>1. inf.usage.storage \in Int
      BY <1>6, UsageParts
    <3>2. inf.capacity.storage \in Int
      BY <1>6 DEF IsInfo, IsCapacity, CapacitiesOn
    <3> QED
      BY <3>1, <3>2
  <2>10. set.info.usage.storage = before + all
    <3>1. Amount(set.info.usage, m) = Amount(inf.usage, m) + SumOver(g, 1..count)
      BY ONLY <1>4, <2>5, BookingAmounts, m \in Measures
    <3> QED
      BY <2>4, <2>7, <2>8, <2>9, <3>1
  <2>11. all = 0 \/ room - before >= all
    <3>1. CASE storage = 0
      BY <2>8, <3>1
    <3>2. CASE storage > 0
      <4>1. Truncated(room - before, storage) >= count
        BY <2>2, <2>9, <3>2 DEF StorageCapacity, FreeStorage
      <4>2. room - before >= count * storage
        BY <3>2, <4>1, TruncatedFits
      <4> QED
        BY <2>8, <4>2
    <3> QED
      BY <3>1, <3>2
  <2>12. before + all <= before \/ before + all <= room
    BY <2>11
  <2> QED
    BY <2>9, <2>10, <2>12
<1>8. ASSUME NEW device \in Devices \ D
      PROVE  set.info.usage.volumes[device] <= inf.usage.volumes[device]
  <2>1. PICK m \in Measures : m = <<"volume", device>>
    BY AmountsByName
  <2>2. \A u : Amount(u, m) = u.volumes[device]
    BY <2>1, AmountsByName
  <2>3. PICK g : g = AmountIn(taken, m)
    OBVIOUS
  <2>4. \A i \in 1..count : WorkSized(works[i], D)
    BY <1>1, DeployedAreSized
  <2>5. ASSUME NEW i \in 1..count
        PROVE  g[i] = 0
    <3>1. Confined(Held(works[i]), D)
      BY <2>4, HeldIsConfined DEF WorkSized
    <3> QED
      BY <1>3, <2>2, <2>3, <3>1 DEF Confined, AmountIn
  <2>6. SumOver(g, 1..count) = 0
    BY <1>5, <2>5, SumOfZeros
  <2>7. PICK before \in Int : before = inf.usage.volumes[device]
    BY <1>6, UsageParts
  <2>8. set.info.usage.volumes[device] = before + 0
    <3>1. Amount(set.info.usage, m) = Amount(inf.usage, m) + SumOver(g, 1..count)
      BY ONLY <1>4, <2>3, BookingAmounts, m \in Measures
    <3> QED
      BY <2>2, <2>6, <2>7, <3>1
  <2>9. before + 0 <= before
    OBVIOUS
  <2> QED
    BY <2>7, <2>8, <2>9
<1>9. Sound(set.info) /\ set.info.capacity = inf.capacity
  <2>1. AreTaken(taken)
    <3>1. Len(works) = count
      <4>1. Len(works) \in Nat /\ DOMAIN works = 1..Len(works)
        BY <1>6, DeployedAreOk
      <4> QED
        BY <4>1
    <3> QED
      BY <1>2, <3>1, HeldAreTaken
  <2>2. PICK plus \in BOOLEAN : plus = TRUE
    OBVIOUS
  <2>3. set = Book(inf, taken, plus) /\ set.ok
    BY <1>2, <2>2
  <2> QED
    BY ONLY <2>1, <2>3, BookingStores, Sound(inf)
<1> QED
  BY <1>1, <1>7, <1>8, <1>9, SoundIsWithin

\* A realloc asks for what is valid, of the storage there is; its plan is the old
\* one or one on the node
LEMMA ReallocatedParts ==
    ASSUME NEW inf, Sound(inf), NEW D, D = DOMAIN inf.capacity.volumes,
           NEW work, WorkOk(work), WorkSized(work, Devices), NEW req, Wishes(req),
           NEW target, target = Reallocated(inf, work, req), target.ok
    PROVE  /\ target.work.storage - work.storage <= FreeStorage(inf)
           /\ WorkSized(target.work, Devices)
           /\ target.work.plan = work.plan \/ target.work.plan \in PlansOn(D)
<1> DEFINE merged == Merged(work, req)
           to == IF NeedSchedule(req.vbs)
                 THEN GetAffinityPlan(inf, merged.vbs, work.plan, work.vbs)
                 ELSE [ok |-> TRUE, plan |-> work.plan, disks |-> work.disks]
<1>1. PICK N \in SUBSET DiskNames, M \in SUBSET DiskNames :
         D \in SUBSET Devices /\ inf.capacity \in CapacitiesOn(D, N) /\ inf.usage \in UsagesOn(M)
  BY RecordParts
<1>2. merged.vbs \in Bindings /\ Distinct(merged.vbs) /\ Sizes(merged.vbs)
  <2>1. merged.vbs = MergeVolumeBindings(req.vbs, work.vbs)
    BY DEF Merged
  <2> QED
    BY <2>1, MergedBindingsStay DEF Wishes, WorkOk, MergeVolumeBindings, Sizes
<1> HIDE DEF merged
<1>3. /\ ValidRequest(merged) /\ ~(merged.storage - work.storage > FreeStorage(inf))
      /\ target = [ok |-> to.ok, work |-> [vbs |-> merged.vbs, storage |-> merged.storage,
                                           plan |-> to.plan, disks |-> to.disks]]
  BY DEF Reallocated, Replanned, merged
<1>4. RequestOk(merged.vbs) /\ \A vb \in merged.vbs : Covers(vb.io, NoIO)
  BY <1>2, <1>3 DEF RequestOk, ValidRequest, ValidBindings
<1>5. Sized(to.plan) /\ (to.plan = work.plan \/ to.plan \in PlansOn(D))
  <2>1. PICK plan : plan = GetAffinityPlan(inf, merged.vbs, work.plan, work.vbs)
    OBVIOUS
  <2>2. work.plan \in PlansOn(Devices) /\ Sized(work.plan) /\ work.vbs \in Bindings
    BY DEF WorkSized, WorkOk
  <2>3. plan \in AnswersOn(D, N)
    BY <1>1, <1>4, <2>1, <2>2, ReplansAreOnTheNode
  <2>4. Sized(plan.plan)
    BY <1>1, <1>2, <1>4, <2>1, <2>2, ReplansAreSized
  <2>5. CASE NeedSchedule(req.vbs)
    <3>1. to = plan
      BY <2>1, <2>5
    <3> HIDE DEF to
    <3> QED
      BY <2>3, <2>4, <3>1 DEF AnswersOn
  <2>6. CASE ~NeedSchedule(req.vbs)
    BY <2>2, <2>6
  <2> QED
    BY <2>5, <2>6
<1>6. to.plan \in PlansOn(Devices)
  BY <1>1, <1>5, PlansOfTheNode DEF WorkSized
<1> HIDE DEF to
<1>7. /\ target.work.storage = merged.storage /\ target.work.plan = to.plan
      /\ target.work.vbs = merged.vbs
  BY <1>3
<1>8. target.work.storage - work.storage <= FreeStorage(inf)
  <2>1. WorkOk(target.work)
    BY ReallocatedIsOk DEF Sound
  <2>2. merged.storage \in Int /\ work.storage \in Int
    BY <1>7, <2>1 DEF WorkOk
  <2>3. FreeStorage(inf) \in Int
    BY <1>1, UsageParts DEF FreeStorage, CapacitiesOn, Sound, IsInfo
  <2> QED
    BY <1>3, <1>7, <2>2, <2>3
<1> QED
  BY <1>2, <1>4, <1>5, <1>6, <1>7, <1>8 DEF WorkSized

\* What a workload takes of a volume is not less than nothing
LEMMA HeldIsNat ==
    ASSUME NEW work, WorkSized(work, Devices), NEW device \in Devices
    PROVE  Held(work).volumes[device] \in Nat
<1>1. Space(work.plan, device) \in Nat
  BY SpaceIsNat DEF WorkSized
<1> QED
  BY <1>1, SpaceIsPlanned DEF Held

\* A realloc takes no more storage than there is, and of the node's volumes only
LEMMA ReallocGrows ==
    ASSUME NEW inf, Sound(inf), NEW work, WorkOk(work), WorkSized(work, Devices),
           NEW req, Wishes(req),
           NEW target, target = Reallocated(inf, work, req), target.ok,
           NEW delta, delta = ReallocDelta(work, target.work),
           NEW set, set = Book(inf, <<delta>>, TRUE), set.ok
    PROVE  GrownWithin(inf, set.info)
<1>1. PICK D \in SUBSET Devices : D = DOMAIN inf.capacity.volumes
  BY RecordParts
<1>2. PICK plus \in BOOLEAN : plus = TRUE
  OBVIOUS
<1>3. set = Book(inf, <<delta>>, plus) /\ set.ok
  BY <1>2
<1>4. IsUsage(inf.usage) /\ IsInfo(inf)
  BY DEF Sound, IsInfo
<1>5. WorkOk(target.work)
  BY <1>4, ReallocatedIsOk
<1>6. /\ target.work.storage - work.storage <= FreeStorage(inf)
      /\ WorkSized(target.work, Devices)
      /\ target.work.plan = work.plan \/ target.work.plan \in PlansOn(D)
  BY <1>1, ReallocatedParts
<1>7. /\ IsUsage(Held(work)) /\ IsUsage(Held(target.work)) /\ IsUsage(delta)
      /\ delta = SubUsage(Held(target.work), Held(work))
  <2>1. IsUsage(Held(target.work)) /\ IsUsage(Held(work))
    BY <1>5, HeldIsUsage
  <2> QED
    BY <1>2, <2>1, TakeIsUsage DEF Take, ReallocDelta
<1>8. ASSUME NEW m \in Measures
      PROVE  /\ Amount(set.info.usage, m)
                  = Amount(inf.usage, m) + (Amount(Held(target.work), m) - Amount(Held(work), m))
             /\ Amount(inf.usage, m) \in Int
             /\ Amount(Held(target.work), m) \in Int /\ Amount(Held(work), m) \in Int
  <2>1. Amount(set.info.usage, m) = Amount(Take(inf.usage, delta, plus), m)
    <3>1. Sound(inf) /\ IsUsage(delta) /\ plus \in BOOLEAN /\ m \in Measures
      BY <1>7
    <3> QED
      BY ONLY <1>3, <3>1, OneBooked
  <2>2. Amount(Take(inf.usage, delta, plus), m) = Amount(inf.usage, m) + Amount(delta, m)
    BY <1>2, <1>4, <1>7, AmountsAdd DEF Take
  <2>3. Amount(delta, m) = Amount(Held(target.work), m) - Amount(Held(work), m)
    BY <1>7, AmountsAdd
  <2> QED
    BY <1>4, <1>7, <2>1, <2>2, <2>3, AmountsAdd
<1>9. \/ set.info.usage.storage <= inf.usage.storage
      \/ set.info.usage.storage <= inf.capacity.storage
  <2>1. PICK m \in Measures : m = <<"storage">>
    BY AmountsByName
  <2>2. \A u : Amount(u, m) = u.storage
    BY <2>1, AmountsByName
  <2>3. Held(work).storage = work.storage /\ Held(target.work).storage = target.work.storage
    BY DEF Held
  <2>4. PICK before \in Int, room \in Int, had \in Int, has \in Int :
           /\ before = inf.usage.storage /\ room = inf.capacity.storage
           /\ had = work.storage /\ has = target.work.storage
    BY <1>4, <1>5, UsageParts DEF IsInfo, IsCapacity, CapacitiesOn, WorkOk
  <2>5. set.info.usage.storage = before + (has - had)
    BY <1>8, <2>2, <2>3, <2>4
  <2>6. has - had <= room - before
    BY <1>6, <2>4 DEF FreeStorage
  <2>7. before + (has - had) <= room
    BY <2>6
  <2> QED
    BY <2>4, <2>5, <2>7
<1>10. ASSUME NEW device \in Devices \ D
       PROVE  set.info.usage.volumes[device] <= inf.usage.volumes[device]
  <2>1. PICK m \in Measures : m = <<"volume", device>>
    BY AmountsByName
  <2>2. \A u : Amount(u, m) = u.volumes[device]
    BY <2>1, AmountsByName
  <2>3. PICK before \in Int, had \in Nat, has \in Nat :
           /\ before = inf.usage.volumes[device] /\ had = Held(work).volumes[device]
           /\ has = Held(target.work).volumes[device]
    BY <1>4, <1>6, UsageParts, HeldIsNat
  <2>4. set.info.usage.volumes[device] = before + (has - had)
    BY <1>8, <2>2, <2>3
  <2>5. has = had \/ has = 0
    <3>1. CASE target.work.plan = work.plan
      BY <2>3, <3>1 DEF Held
    <3>2. CASE target.work.plan \in PlansOn(D)
      BY <2>3, <3>2, HeldIsConfined DEF Confined
    <3> QED
      BY <1>6, <3>1, <3>2
  <2>6. before + (has - had) <= before
    BY <2>5
  <2> QED
    BY <2>3, <2>4, <2>6
<1>11. Sound(set.info) /\ set.info.capacity = inf.capacity
  <2>1. AreTaken(<<delta>>)
    BY <1>7, OneIsTaken
  <2>2. set = Book(inf, <<delta>>, plus) /\ set.ok
    BY <1>3
  <2> QED
    BY ONLY <2>1, <2>2, BookingStores, Sound(inf)
<1> QED
  BY <1>1, <1>9, <1>10, <1>11, SoundIsWithin

\* Nothing grows where a workload's is given back
LEMMA DiscardGrows ==
    ASSUME NEW inf, Sound(inf), NEW work, WorkOk(work), WorkSized(work, Devices),
           NEW set, set = Book(inf, <<Held(work)>>, FALSE), set.ok
    PROVE  GrownWithin(inf, set.info)
<1>1. PICK D \in SUBSET Devices : D = DOMAIN inf.capacity.volumes
  BY RecordParts
<1>2. PICK plus \in BOOLEAN : plus = FALSE
  OBVIOUS
<1>3. PICK held : held = Held(work)
  OBVIOUS
<1>4. set = Book(inf, <<held>>, plus) /\ set.ok
  BY <1>2, <1>3
<1>5. IsUsage(inf.usage) /\ IsInfo(inf) /\ IsUsage(held)
  BY <1>3, HeldIsUsage DEF Sound, IsInfo
<1>6. ASSUME NEW m \in Measures
      PROVE  Amount(set.info.usage, m) = Amount(inf.usage, m) - Amount(held, m)
  <2>1. Amount(set.info.usage, m) = Amount(Take(inf.usage, held, plus), m)
    BY <1>4, <1>5, OneBooked
  <2> QED
    BY <1>2, <1>5, <2>1, AmountsAdd DEF Take
<1>7. set.info.usage.storage <= inf.usage.storage
  <2>1. PICK m \in Measures : m = <<"storage">>
    BY AmountsByName
  <2>2. \A u : Amount(u, m) = u.storage
    BY <2>1, AmountsByName
  <2>3. PICK before \in Int, had \in Nat : before = inf.usage.storage /\ had = held.storage
    BY <1>3, <1>5, UsageParts DEF WorkOk, Held
  <2>4. set.info.usage.storage = before - had
    BY <1>6, <2>2, <2>3
  <2>5. before - had <= before
    OBVIOUS
  <2> QED
    BY <2>3, <2>4, <2>5
<1>8. ASSUME NEW device \in Devices \ D
      PROVE  set.info.usage.volumes[device] <= inf.usage.volumes[device]
  <2>1. PICK m \in Measures : m = <<"volume", device>>
    BY AmountsByName
  <2>2. \A u : Amount(u, m) = u.volumes[device]
    BY <2>1, AmountsByName
  <2>3. PICK before \in Int, had \in Nat :
           before = inf.usage.volumes[device] /\ had = held.volumes[device]
    BY <1>3, <1>5, UsageParts, HeldIsNat
  <2>4. set.info.usage.volumes[device] = before - had
    BY <1>6, <2>2, <2>3
  <2>5. before - had <= before
    OBVIOUS
  <2> QED
    BY <2>3, <2>4, <2>5
<1>9. Sound(set.info) /\ set.info.capacity = inf.capacity
  <2>1. AreTaken(<<held>>)
    BY <1>5, OneIsTaken
  <2>2. set = Book(inf, <<held>>, plus) /\ set.ok
    BY <1>4
  <2> QED
    BY ONLY <2>1, <2>2, BookingStores, Sound(inf)
<1> QED
  BY <1>1, <1>7, <1>8, <1>9, SoundIsWithin

-----------------------------------------------------------------------------
(* Rates of plans.  A plan charges disks for what bindings ask for, and of  *)
(* a request that is accepted none asks for less than nothing.              *)

\* Disks charged for no less than nothing
Rated(disks) == \A name \in DOMAIN disks : disks[name] \in [Rates -> Nat]

\* Bindings that ask for no less
RatesIn(reqs) == \A k \in 1..Len(reqs) : Covers(reqs[k].io, NoIO)

\* Plans and attempts that charge no less
RatedOn(D, N) == {p \in PlannedOn(D, N) : Rated(p.disks)}
RatedAttempts(D, N) == {a \in AttemptsOn(D, N) : Rated(a.disks)}

\* Rates that are not less than nothing
LEMMA RatesAreNat ==
    ASSUME NEW io \in IO, Covers(io, NoIO)
    PROVE  io \in [Rates -> Nat]
BY DEF IO, Covers, NoIO

\* Two such charges make one
LEMMA AddedAreRated ==
    ASSUME NEW disks, Rated(disks), NEW disks1, Rated(disks1)
    PROVE  Rated(AddDisks(disks, disks1))
<1> DEFINE all == DOMAIN disks \cup DOMAIN disks1
           one(name) == AddIO(UsedOf(disks, name), UsedOf(disks1, name))
<1>1. AddDisks(disks, disks1) = [name \in all |-> one(name)]
  BY DEF AddDisks
<1>2. \A name : UsedOf(disks, name) \in [Rates -> Nat] /\ UsedOf(disks1, name) \in [Rates -> Nat]
  <2>1. NoIO \in [Rates -> Nat]
    BY DEF NoIO
  <2> QED
    BY <2>1 DEF UsedOf, Rated
<1>3. \A name : one(name) \in [Rates -> Nat]
  BY <1>2 DEF AddIO
<1> HIDE DEF all, one
<1> QED
  BY <1>1, <1>3 DEF Rated

\* Nothing is charged
LEMMA NothingIsRated == Rated(NoDisks)
BY DEF Rated, NoDisks

\* A binding is charged for what it asks
LEMMA QuotaIsRated ==
    ASSUME NEW h, NEW path, NEW vb, vb.io \in IO, Covers(vb.io, NoIO)
    PROVE  Rated(DiskQuota(h, path, vb))
BY RatesAreNat DEF Rated, DiskQuota

\* A normal binding
LEMMA PlaceNormalIsRated ==
    ASSUME NEW D \in SUBSET Devices, NEW N \in SUBSET DiskNames,
           NEW a \in RatedAttempts(D, N), NEW req \in VolumeBinding, Covers(req.io, NoIO)
    PROVE  PlaceNormal(a, req) \in RatedAttempts(D, N)
<1> DEFINE fitting == Fitting(a.host, req)
           device == Least(a.host.free, fitting)
           quota == DiskQuota(a.host, device, req)
           next == PlaceNormal(a, req)
<1>1. a \in AttemptsOn(D, N) /\ Rated(a.disks)
  BY DEF RatedAttempts
<1>2. next \in AttemptsOn(D, N)
  BY <1>1, PlaceNormalStays
<1>3. CASE ~(a.ok /\ fitting # {})
  <2>1. next.disks = a.disks
    BY <1>1, <1>3 DEF PlaceNormal, AttemptsOn
  <2> QED
    BY <1>1, <1>2, <2>1 DEF RatedAttempts
<1>4. CASE a.ok /\ fitting # {}
  <2>1. next = PlaceOn(a, device, req)
    BY <1>4 DEF PlaceNormal
  <2> HIDE DEF device
  <2>2. next.disks = AddDisks(a.disks, quota)
    BY <1>1, <2>1 DEF PlaceOn, AttemptsOn
  <2>3. Rated(quota)
    BY BindingParts, QuotaIsRated
  <2> HIDE DEF quota
  <2>4. Rated(next.disks)
    BY <1>1, <2>2, <2>3, AddedAreRated
  <2> QED
    BY <1>2, <2>4 DEF RatedAttempts
<1> QED
  BY <1>3, <1>4

\* A mount
LEMMA ChargeMountIsRated ==
    ASSUME NEW D \in SUBSET Devices, NEW N \in SUBSET DiskNames,
           NEW a \in RatedAttempts(D, N), NEW req \in VolumeBinding, Covers(req.io, NoIO)
    PROVE  ChargeMount(a, req) \in RatedAttempts(D, N)
<1> DEFINE quota == DiskQuota(a.host, req.source, req)
           next == ChargeMount(a, req)
<1>1. a \in AttemptsOn(D, N) /\ Rated(a.disks)
  BY DEF RatedAttempts
<1>2. next \in AttemptsOn(D, N)
  BY <1>1, ChargeMountStays
<1>3. Rated(quota)
  BY BindingParts, QuotaIsRated
<1>4. next.disks = a.disks \/ next.disks = AddDisks(a.disks, quota)
  <2> HIDE DEF quota
  <2> QED
    BY <1>1 DEF ChargeMount, AttemptsOn, quota
<1> HIDE DEF quota, next
<1>5. Rated(next.disks)
  BY <1>1, <1>3, <1>4, AddedAreRated
<1> QED
  BY <1>2, <1>5 DEF RatedAttempts, next

\* All mounts
LEMMA MountPassIsRated ==
    ASSUME NEW D \in SUBSET Devices, NEW N \in SUBSET DiskNames,
           NEW a \in RatedAttempts(D, N), NEW mount \in Seq(VolumeBinding), RatesIn(mount)
    PROVE  GetMountDiskPlan(a, mount) \in RatedAttempts(D, N)
<1> DEFINE V == RatedAttempts(D, N)
<1>1. \A b \in V, k \in 1..Len(mount) : ChargeMount(b, mount[k]) \in V
  BY BindingList, ChargeMountIsRated DEF RatesIn
<1>2. Len(mount) \in Nat /\ DOMAIN mount = 1..Len(mount)
  BY BindingList
<1> HIDE DEF V
<1>3. a \in V
  BY DEF V
<1>4. GetMountDiskPlan(a, mount) \in V
  BY <1>1, <1>2, <1>3, MountPlanStays
<1> QED
  BY <1>4 DEF V

\* An attempt at nothing
LEMMA AttemptIsRated ==
    ASSUME NEW D, NEW N, NEW h \in HostsOn(D, N)
    PROVE  Attempt(h) \in RatedAttempts(D, N)
<1>1. Attempt(h) \in AttemptsOn(D, N)
  BY EmptyPlansStay
<1>2. Attempt(h).disks = NoDisks
  BY DEF Attempt
<1> QED
  BY <1>1, <1>2, NothingIsRated DEF RatedAttempts

\* A pass over normal bindings and mounts
LEMMA PassIsRated ==
    ASSUME NEW D \in SUBSET Devices, NEW N \in SUBSET DiskNames, NEW h \in HostsOn(D, N),
           NEW normal \in Seq(VolumeBinding), RatesIn(normal),
           NEW mount \in Seq(VolumeBinding), RatesIn(mount)
    PROVE  GetMountDiskPlan(GetNormalPlan(h, normal), mount) \in RatedAttempts(D, N)
<1> DEFINE V == RatedAttempts(D, N)
<1>1. \A b \in V, k \in 1..Len(normal) : PlaceNormal(b, normal[k]) \in V
  BY BindingList, PlaceNormalIsRated DEF RatesIn
<1>2. Len(normal) \in Nat /\ DOMAIN normal = 1..Len(normal)
  BY BindingList
<1>3. Attempt(h) \in V
  BY AttemptIsRated
<1> HIDE DEF V
<1>4. GetNormalPlan(h, normal) \in V
  BY <1>1, <1>2, <1>3, NormalPlanStays
<1> QED
  BY <1>4, MountPassIsRated DEF V

\* Passes so far
RatedPasses(D, N) == {s \in PassesOn(D, N) : s.plans \in Seq(RatedOn(D, N))}

\* One more pass
LEMMA NormalPassIsRated ==
    ASSUME NEW D \in SUBSET Devices, NEW N \in SUBSET DiskNames,
           NEW normal \in Seq(VolumeBinding), RatesIn(normal),
           NEW mount \in Seq(VolumeBinding), RatesIn(mount), NEW s \in RatedPasses(D, N)
    PROVE  NormalPass(s, normal, mount) \in RatedPasses(D, N)
<1> DEFINE P == RatedOn(D, N)
           a == GetMountDiskPlan(GetNormalPlan(s.host, normal), mount)
           p == [plan |-> a.plan, disks |-> a.disks]
           next == NormalPass(s, normal, mount)
<1>1. s \in PassesOn(D, N) /\ s.host \in HostsOn(D, N) /\ s.plans \in Seq(P)
  BY DEF RatedPasses, PassesOn
<1>2. next \in PassesOn(D, N)
  BY <1>1, NormalPassStays
<1>3. CASE s.failed
  BY <1>3 DEF NormalPass
<1>4. CASE ~s.failed
  <2>1. a \in RatedAttempts(D, N)
    BY <1>1, PassIsRated
  <2>2. next.plans = IF ~a.ok THEN s.plans ELSE Append(s.plans, p)
    BY <1>4 DEF NormalPass
  <2> HIDE DEF a, next
  <2>3. p \in P
    BY <2>1 DEF RatedAttempts, AttemptsOn, RatedOn, PlannedOn
  <2> HIDE DEF p, P
  <2>4. Append(s.plans, p) \in Seq(P)
    BY <1>1, <2>3
  <2>5. next.plans \in Seq(P)
    BY <1>1, <2>2, <2>4
  <2> QED
    BY <1>2, <2>5 DEF RatedPasses, P, next
<1> QED
  BY <1>3, <1>4

\* All passes
LEMMA NormalPassesAreRated ==
    ASSUME NEW D \in SUBSET Devices, NEW N \in SUBSET DiskNames, NEW h \in HostsOn(D, N),
           NEW normal \in Seq(VolumeBinding), RatesIn(normal),
           NEW mount \in Seq(VolumeBinding), RatesIn(mount), NEW bound \in Nat
    PROVE  GetNormalPasses(h, normal, mount, bound).plans \in Seq(RatedOn(D, N))
<1> DEFINE V == RatedPasses(D, N)
           first == [failed |-> FALSE, host |-> h, plans |-> <<>>]
<1>1. first \in V
  <2>1. first \in PassesOn(D, N)
    BY DEF PassesOn
  <2>2. first.plans \in Seq(RatedOn(D, N))
    OBVIOUS
  <2> QED
    BY <2>1, <2>2 DEF RatedPasses
<1>2. \A s \in V : NormalPass(s, normal, mount) \in V
  BY NormalPassIsRated
<1> HIDE DEF V
<1>3. GetNormalPasses(h, normal, mount, bound) \in V
  <2>1. bound \in 0..bound
    OBVIOUS
  <2> QED
    BY <1>1, <1>2, <2>1, NormalPassesRun DEF RunsPasses
<1> QED
  BY <1>3 DEF V, RatedPasses

\* Plans of mounts alone
LEMMA MountOnlyPlansAreRated ==
    ASSUME NEW D \in SUBSET Devices, NEW N \in SUBSET DiskNames, NEW h \in HostsOn(D, N),
           NEW mount \in Seq(VolumeBinding), RatesIn(mount), NEW bound \in Nat
    PROVE  GetMountOnlyPlans(h, mount, bound).plans \in Seq(RatedOn(D, N))
<1> DEFINE first == GetMountDiskPlan(Attempt(h), mount)
           passes == ApplyMountPasses(h, mount, bound)
           plans == GetMountOnlyPlans(h, mount, bound).plans
           p == [plan |-> EmptyPlan, disks |-> passes.disks]
<1>1. plans = Repeat(passes.capacity, p)
  BY DEF GetMountOnlyPlans
<1>2. plans \in Seq(PlannedOn(D, N))
  BY MountOnlyPlansAreOn
<1>3. Rated(first.disks)
  BY AttemptIsRated, MountPassIsRated DEF RatedAttempts
<1>4. passes.disks = NoDisks \/ passes.disks = first.disks
  BY DEF ApplyMountPasses
<1> HIDE DEF first, passes
<1>5. Rated(p.disks)
  BY <1>3, <1>4, NothingIsRated
<1> HIDE DEF plans, p
<1>6. \A i \in 1..Len(plans) : plans[i] \in RatedOn(D, N)
  <2> TAKE i \in 1..Len(plans)
  <2>1. plans[i] \in PlannedOn(D, N) /\ DOMAIN plans = 1..Len(plans)
    BY <1>2, MembersAreIn
  <2>2. plans[i] = p
    BY <1>1, <2>1 DEF Repeat
  <2> QED
    BY <1>5, <2>1, <2>2 DEF RatedOn
<1>7. Len(plans) \in Nat /\ plans = [i \in 1..Len(plans) |-> plans[i]]
  BY <1>2
<1>8. plans \in Seq(RatedOn(D, N))
  BY <1>6, <1>7
<1> QED
  BY <1>8 DEF plans

\* Plans of nothing
LEMMA NoPlansAreRated ==
    ASSUME NEW D, NEW N, NEW count \in Nat
    PROVE  Repeat(count, NoPlan) \in Seq(RatedOn(D, N))
<1>1. NoPlan \in PlannedOn(D, N) /\ NoPlan.disks = NoDisks
  BY EmptyPlansStay DEF NoPlan
<1>2. NoPlan \in RatedOn(D, N)
  BY <1>1, NothingIsRated DEF RatedOn
<1> QED
  BY <1>2, RepeatsAreOn

\* Normal plans, whatever way they are made
LEMMA NormalPlansAreRated ==
    ASSUME NEW D \in SUBSET Devices, NEW N \in SUBSET DiskNames, NEW h \in HostsOn(D, N),
           NEW count \in Nat, NEW normal \in Seq(VolumeBinding), RatesIn(normal),
           NEW mount \in Seq(VolumeBinding), RatesIn(mount), NEW bound \in Nat
    PROVE  GetNormalPlans(h, count, normal, mount, bound).plans \in Seq(RatedOn(D, N))
<1>1. CASE normal # <<>>
  BY <1>1, NormalPassesAreRated DEF GetNormalPlans
<1>2. CASE normal = <<>> /\ AnyRequireIOPS(mount)
  BY <1>2, MountOnlyPlansAreRated DEF GetNormalPlans
<1>3. CASE normal = <<>> /\ ~AnyRequireIOPS(mount)
  BY <1>3, NoPlansAreRated DEF GetNormalPlans
<1> QED
  BY <1>1, <1>2, <1>3

\* A monopoly group is charged for what its bindings ask
LEMMA GroupIsRated ==
    ASSUME NEW h, NEW reqs, Grouped(reqs), NEW device
    PROVE  Rated(GetMonoPlan(h, reqs, device).disks)
<1>1. Group(reqs).io \in IO /\ Covers(Group(reqs).io, NoIO)
  BY GroupHasSize, GroupAddsUp DEF Grouped
<1>2. GetMonoPlan(h, reqs, device).disks = DiskQuota(h, device, Group(reqs))
  BY DEF GetMonoPlan
<1> QED
  BY <1>1, <1>2, QuotaIsRated

RatedGroups(D, N) == {s \in GroupsOn(D, N) : s.plans \in Seq(RatedOn(D, N))}

\* One more volume for the group
LEMMA TryVolumeIsRated ==
    ASSUME NEW D, NEW N \in SUBSET DiskNames, NEW mono, Grouped(mono), NEW bound,
           NEW s \in RatedGroups(D, N), NEW device \in D
    PROVE  TryVolume(s, mono, bound, device) \in RatedGroups(D, N)
<1> DEFINE P == RatedOn(D, N)
           m == GetMonoPlan(s.host, mono, device)
           p == [plan |-> m.plan, disks |-> m.disks]
           next == TryVolume(s, mono, bound, device)
<1>1. s \in GroupsOn(D, N) /\ s.host \in HostsOn(D, N) /\ s.plans \in Seq(P)
  BY DEF RatedGroups, GroupsOn
<1>2. next \in GroupsOn(D, N)
  BY <1>1, TryVolumeStays DEF Grouped
<1>3. next.plans = IF Len(s.plans) >= bound \/ ~m.ok THEN s.plans ELSE Append(s.plans, p)
  BY DEF TryVolume
<1>4. m.ok => m.plan \in PlansOn(D) /\ m.disks \in DiskPlansOn(N) /\ Rated(m.disks)
  BY <1>1, GroupIsPlanned, GroupIsRated DEF Grouped
<1> HIDE DEF m, next
<1>5. m.ok => p \in P
  BY <1>4 DEF PlannedOn, RatedOn
<1> HIDE DEF p, P
<1>6. m.ok => Append(s.plans, p) \in Seq(P)
  BY <1>1, <1>5
<1>7. next.plans \in Seq(P)
  BY <1>1, <1>3, <1>6
<1> QED
  BY <1>2, <1>7 DEF RatedGroups, P, next

\* Monopoly plans
LEMMA MonoPlansAreRated ==
    ASSUME NEW D, NEW N \in SUBSET DiskNames, NEW h \in HostsOn(D, N), NEW count \in Nat,
           NEW mono, Grouped(mono) \/ mono = <<>>, NEW bound
    PROVE  GetMonoPlans(h, count, mono, bound).plans \in Seq(RatedOn(D, N))
<1> DEFINE V == RatedGroups(D, N)
<1>1. CASE mono = <<>>
  BY <1>1, NoPlansAreRated DEF GetMonoPlans
<1>2. CASE mono # <<>>
  <2>1. [host |-> h, plans |-> <<>>] \in V
    <3>1. [host |-> h, plans |-> <<>>] \in GroupsOn(D, N)
      BY DEF GroupsOn
    <3>2. <<>> \in Seq(RatedOn(D, N))
      OBVIOUS
    <3> QED
      BY <3>1, <3>2 DEF RatedGroups
  <2>2. h.unused \in Seq(D)
    BY DEF HostsOn
  <2>3. Len(h.unused) \in Nat /\ DOMAIN h.unused = 1..Len(h.unused)
        /\ Len(h.unused) \in 0..Len(h.unused)
    BY <2>2, MembersAreIn
  <2>4. ASSUME NEW s \in V, NEW k \in 1..Len(h.unused)
        PROVE  TryVolume(s, mono, bound, h.unused[k]) \in V
    BY <1>2, <2>2, MembersAreIn, TryVolumeIsRated
  <2> HIDE DEF V
  <2>5. PICK g : RunsVolumes(g, V, h, count, mono, bound, Len(h.unused))
    BY <1>2, <2>1, <2>3, <2>4, MonoPlansRun
  <2>6. GetMonoPlans(h, count, mono, bound) \in V
    BY <2>3, <2>5 DEF RunsVolumes
  <2> QED
    BY <2>6 DEF V, RatedGroups
<1> QED
  BY <1>1, <1>2

\* Plans of all kinds, joined
LEMMA JoinedPlansAreRated ==
    ASSUME NEW D, NEW N, NEW normal \in Seq(RatedOn(D, N)), NEW mono \in Seq(RatedOn(D, N)),
           NEW unlimited, NEW n \in Int, n <= Len(normal), n <= Len(mono)
    PROVE  \A i \in 1..n : Rated(JoinPlans(n, normal, mono, unlimited)[i].disks)
<1> TAKE i \in 1..n
<1> DEFINE P == RatedOn(D, N)
<1>1. i \in 1..Len(normal) /\ i \in 1..Len(mono)
  <2>1. Len(normal) \in Nat /\ Len(mono) \in Nat
    OBVIOUS
  <2> QED
    BY <2>1
<1>2. normal[i] \in P /\ mono[i] \in P
  BY <1>1, MembersAreIn
<1>3. Rated(normal[i].disks) /\ Rated(mono[i].disks)
  BY <1>2 DEF RatedOn
<1>4. JoinPlans(n, normal, mono, unlimited)[i].disks = AddDisks(normal[i].disks, mono[i].disks)
  BY DEF JoinPlans
<1> QED
  BY <1>3, <1>4, AddedAreRated

\* What there is to plan
ClassesRated(classes) ==
    /\ ClassesOk(classes) /\ RatesIn(classes.normal) /\ RatesIn(classes.mount)
    /\ classes.mono = <<>> \/ Grouped(classes.mono)
    /\ \A vb \in classes.unlimited : Covers(vb.io, NoIO)

\* Lists of what is valid ask for no less than nothing
LEMMA ListsAreRated ==
    ASSUME NEW vbs, NEW reqs, Lists(reqs, vbs), vbs \in SUBSET VolumeBinding,
           \A vb \in vbs : Covers(vb.io, NoIO)
    PROVE  reqs \in Seq(VolumeBinding) /\ RatesIn(reqs)
<1>1. reqs \in Seq(vbs)
  BY DEF Lists
<1>2. Len(reqs) \in Nat /\ reqs \in [1..Len(reqs) -> vbs]
  BY <1>1
<1>3. reqs \in [1..Len(reqs) -> VolumeBinding]
  BY <1>2
<1> QED
  BY <1>2, <1>3 DEF RatesIn

\* The kinds of bindings of a request
LEMMA ClassesAreRated ==
    ASSUME NEW vbs, RequestOk(vbs)
    PROVE  ClassesRated(ClassifyVolumeBindings(vbs))
<1> DEFINE classes == ClassifyVolumeBindings(vbs)
<1>1. ClassesOk(classes) /\ Classified(vbs, classes)
  BY ClassesAreOk
<1> HIDE DEF classes
<1>2. vbs \in SUBSET VolumeBinding /\ \A vb \in vbs : Covers(vb.io, NoIO)
  BY DEF RequestOk, ValidBindings, Bindings
<1>3. RatesIn(classes.normal) /\ RatesIn(classes.mount) /\ RatesIn(classes.mono)
  <2>1. PICK normal : normal = {vb \in vbs : IsNormal(vb)}
    OBVIOUS
  <2>2. PICK mount : mount = {vb \in vbs : ~RequireSchedule(vb)}
    OBVIOUS
  <2>3. PICK mono : mono = {vb \in vbs : RequireScheduleMonopoly(vb)}
    OBVIOUS
  <2>4. Lists(classes.normal, normal) /\ Lists(classes.mount, mount) /\ Lists(classes.mono, mono)
    BY <1>1, <2>1, <2>2, <2>3 DEF Classified
  <2>5. normal \subseteq vbs /\ mount \subseteq vbs /\ mono \subseteq vbs
    BY <2>1, <2>2, <2>3
  <2> QED
    BY <1>2, <2>4, <2>5, ListsAreRated
<1>4. classes.mono = <<>> \/ Grouped(classes.mono)
  BY <1>1, <1>3 DEF ClassesOk, Classified, Lists, Grouped, RatesIn
<1>5. classes.unlimited \subseteq vbs
  BY <1>1 DEF Classified
<1> QED
  BY <1>1, <1>2, <1>3, <1>4, <1>5 DEF ClassesRated, classes

RatedEvaluations(D, N) ==
    {best \in EvaluationsOn(D, N) :
        best.normals \in Seq(RatedOn(D, N)) /\ best.monos \in Seq(RatedOn(D, N))}

\* What is planned on a host
LEMMA EvaluationIsRated ==
    ASSUME NEW D \in SUBSET Devices, NEW N \in SUBSET DiskNames, NEW h, NEW classes,
           ClassesRated(classes), NEW count \in Nat, NEW host \in HostsOn(D, N),
           Len(h.unused) \in Nat
    PROVE  EvaluatePlans(h, classes, count, host) \in RatedEvaluations(D, N)
<1> DEFINE P == RatedOn(D, N)
           bound == NormalBound(h, count, classes)
           normal == GetNormalPlans(host, count, classes.normal, classes.mount, bound)
           limit == IF classes.unlimited = {} THEN Larger(count, Len(normal.plans) + 1) ELSE MaxInt
           monos == GetMonoPlans(normal.host, count, classes.mono, limit).plans
           best == EvaluatePlans(h, classes, count, host)
<1>1. bound \in Nat
  BY MaxIntAssumption DEF NormalBound, Larger
<1>2. best \in EvaluationsOn(D, N)
  BY EvaluationIsOn DEF ClassesRated
<1>3. best.normals = normal.plans /\ best.monos = monos
  BY DEF EvaluatePlans
<1> HIDE DEF bound, best
<1>4. normal.host \in HostsOn(D, N) /\ normal.plans \in Seq(P)
  BY <1>1, NormalPlansAreOn, NormalPlansAreRated DEF ClassesOk, ClassesRated
<1> HIDE DEF normal, limit
<1>5. monos \in Seq(P)
  BY <1>4, MonoPlansAreRated DEF ClassesRated
<1> HIDE DEF monos
<1> QED
  BY <1>2, <1>3, <1>4, <1>5 DEF RatedEvaluations, best

\* The best of it
LEMMA ClassesPlansAreRated ==
    ASSUME NEW D \in SUBSET Devices, NEW N \in SUBSET DiskNames, NEW h \in HostsOn(D, N),
           NEW classes, ClassesRated(classes), NEW count \in Nat,
           NEW plans, plans = PlansOfClasses(h, classes, count)
    PROVE  \A i \in DOMAIN plans : Rated(plans[i].disks)
<1> DEFINE E == RatedEvaluations(D, N)
           V == [host : HostsOn(D, N), best : E]
           last == Promoted(h, classes, count)
           unlimited == GetUnlimitedPlan(last.host, last.best.normals \o last.best.monos,
                                         classes.unlimited)
           n == Min({last.best.normal, last.best.mono, count})
           joined == JoinPlans(n, last.best.normals, last.best.monos, unlimited)
<1>1. CASE NoVolumes(h, classes)
  <2>1. plans = <<>>
    BY <1>1 DEF PlansOfClasses
  <2> QED
    BY <2>1
<1>2. CASE ~NoVolumes(h, classes)
  <2>1. plans = joined
    BY <1>2 DEF PlansOfClasses, BestPlans, Promoted
  <2>2. Len(h.unused) \in Nat
    <3>1. h.unused \in Seq(D)
      BY DEF HostsOn
    <3> QED
      BY <3>1
  <2>3. \A host \in HostsOn(D, N) : EvaluatePlans(h, classes, count, host) \in E
    BY <2>2, EvaluationIsRated
  <2>4. [host |-> h, best |-> EvaluatePlans(h, classes, count, h)] \in V
    <3> HIDE DEF E
    <3> QED
      BY <2>3
  <2>5. ASSUME NEW s \in V
        PROVE  Opening(s, h, classes, count) \in V
    <3> DEFINE p == Candidate(s.host, classes.normal)
               host == Open(s.host, p)
               best == EvaluatePlans(h, classes, count, host)
               opened == [host |-> host, best |-> best]
    <3>1. Opening(s, h, classes, count) =
            IF WorthOpening(s.best, count) /\ p \in DOMAIN s.host.unused THEN opened ELSE s
      BY DEF Opening, PromoteOne
    <3> HIDE DEF p
    <3>2. s.host \in HostsOn(D, N)
      OBVIOUS
    <3>3. ASSUME p \in DOMAIN s.host.unused PROVE opened \in V
      <4>1. host \in HostsOn(D, N)
        BY <3>2, <3>3, OpenedStays
      <4> HIDE DEF host
      <4>2. best \in E
        BY <2>3, <4>1
      <4> HIDE DEF best, E
      <4> QED
        BY <4>1, <4>2
    <3> HIDE DEF opened, V
    <3> QED
      BY <3>1, <3>3
  <2> HIDE DEF V
  <2>6. last \in V
    <3>1. Len(h.unused) \in 0..Len(h.unused)
      BY <2>2
    <3> QED
      BY <2>2, <2>4, <2>5, <3>1, PromotionsRun DEF RunsPromotions
  <2> HIDE DEF last
  <2>7. last.best \in E
    <3> HIDE DEF E
    <3> QED
      BY <2>6 DEF V
  <2>8. /\ last.best.normals \in Seq(RatedOn(D, N)) /\ last.best.monos \in Seq(RatedOn(D, N))
        /\ last.best.normal = Len(last.best.normals) /\ last.best.mono = Len(last.best.monos)
        /\ last.best.normal \in Nat /\ last.best.mono \in Nat
    BY <2>7 DEF RatedEvaluations, EvaluationsOn
  <2> HIDE DEF unlimited
  <2>9. n \in Int /\ n <= Len(last.best.normals) /\ n <= Len(last.best.monos)
    <3>1. count \in Int /\ last.best.normal \in Int /\ last.best.mono \in Int
      BY <2>8
    <3>2. n \in Int /\ n <= last.best.normal /\ n <= last.best.mono
      BY <3>1, LeastOfThree
    <3> QED
      BY <2>8, <3>2
  <2> HIDE DEF n
  <2>10. \A i \in 1..n : Rated(joined[i].disks)
    BY <2>8, <2>9, JoinedPlansAreRated
  <2>11. DOMAIN joined = 1..n
    BY DEF JoinPlans
  <2> HIDE DEF joined
  <2> QED
    BY <2>1, <2>10, <2>11
<1> QED
  BY <1>1, <1>2

\* Volume plans
LEMMA VolumePlansAreRated ==
    ASSUME NEW D \in SUBSET Devices, NEW N \in SUBSET DiskNames, NEW h \in HostsOn(D, N),
           NEW vbs, RequestOk(vbs), NEW count \in Nat,
           NEW plans, plans = VolumePlansOn(h, vbs, count)
    PROVE  \A i \in DOMAIN plans : Rated(plans[i].disks)
<1>1. CASE NeedSchedule(vbs)
  <2>1. ClassesRated(ClassifyVolumeBindings(vbs))
    BY ClassesAreRated
  <2>2. plans = PlansOfClasses(h, ClassifyVolumeBindings(vbs), count)
    BY <1>1 DEF VolumePlansOn
  <2> QED
    BY <2>1, <2>2, ClassesPlansAreRated
<1>2. CASE ~NeedSchedule(vbs)
  <2>1. plans = Repeat(count, NoPlan)
    BY <1>2 DEF VolumePlansOn
  <2>2. \A i \in DOMAIN plans : plans[i] = NoPlan
    BY <2>1 DEF Repeat
  <2> QED
    BY <2>2, NothingIsRated DEF NoPlan
<1> QED
  BY <1>1, <1>2

\* A binding that is kept
LEMMA KeptOnIsRated ==
    ASSUME NEW D, NEW N \in SUBSET DiskNames, NEW a \in RatedAttempts(D, N),
           NEW req \in VolumeBinding, Covers(req.io, NoIO), NEW device \in D
    PROVE  KeepOn(a, req, device) \in RatedAttempts(D, N)
<1> DEFINE quota == DiskQuota(a.host, device, req)
           next == KeepOn(a, req, device)
<1>1. a \in AttemptsOn(D, N) /\ Rated(a.disks)
  BY DEF RatedAttempts
<1>2. next \in AttemptsOn(D, N)
  BY <1>1, KeptOnStays
<1>3. Rated(quota)
  BY BindingParts, QuotaIsRated
<1>4. next.disks = a.disks \/ next.disks = AddDisks(a.disks, quota)
  <2> HIDE DEF quota
  <2> QED
    BY <1>1 DEF KeepOn, AttemptsOn, quota
<1> HIDE DEF quota, next
<1>5. Rated(next.disks)
  BY <1>1, <1>3, <1>4, AddedAreRated
<1> QED
  BY <1>2, <1>5 DEF RatedAttempts, next

\* Bindings that keep their places
LEMMA KeptPlacesAreRated ==
    ASSUME NEW D, NEW N \in SUBSET DiskNames, NEW a \in RatedAttempts(D, N),
           NEW reqs \in Seq(VolumeBinding), RatesIn(reqs), NEW plan \in PlansOn(D)
    PROVE  KeepPlaces(a, reqs, plan) \in RatedAttempts(D, N)
<1> DEFINE V == RatedAttempts(D, N)
<1>1. ASSUME NEW b \in V, NEW k \in 1..Len(reqs)
      PROVE  KeepPlace(b, reqs[k], plan) \in V
  <2> DEFINE req == reqs[k]
             alike == Affinity(req, plan)
             vb == CHOOSE vb \in alike : TRUE
  <2>1. req \in VolumeBinding /\ Covers(req.io, NoIO)
    BY BindingList DEF RatesIn
  <2>2. CASE alike = {}
    BY <2>2 DEF KeepPlace
  <2>3. CASE alike # {}
    <3>1. vb \in alike /\ alike \in SUBSET DOMAIN plan
      BY <2>3 DEF Affinity
    <3>2. KeepPlace(b, req, plan) = KeepOn(b, req, plan[vb].device)
      BY <2>3 DEF KeepPlace
    <3> HIDE DEF vb, alike
    <3>3. plan[vb].device \in D
      BY <3>1, PlanParts
    <3> QED
      BY <2>1, <3>2, <3>3, KeptOnIsRated
  <2> QED
    BY <2>2, <2>3
<1>2. Len(reqs) \in Nat /\ DOMAIN reqs = 1..Len(reqs)
  BY BindingList
<1> HIDE DEF V
<1>3. a \in V
  BY DEF V
<1>4. KeepPlaces(a, reqs, plan) \in V
  BY <1>1, <1>2, <1>3, KeptPlacesStay
<1> QED
  BY <1>4 DEF V

\* A group that keeps its volume
LEMMA KeptGroupIsRated ==
    ASSUME NEW D, NEW N \in SUBSET DiskNames, NEW a \in RatedAttempts(D, N), NEW mono,
           Grouped(mono) \/ mono = <<>>, NEW plan \in PlansOn(D)
    PROVE  KeepGroup(a, mono, plan) \in RatedAttempts(D, N)
<1> DEFINE stay == UNION {Affinity(mono[i], plan) : i \in DOMAIN mono}
           room == SumFunction([vb \in {vb1 \in DOMAIN plan : RequireScheduleMonopoly(vb1)} |->
                                  plan[vb].size])
           device == plan[CHOOSE vb \in stay : TRUE].device
           m == GetMonoPlan(a.host, mono, device)
           short == room < TotalSize(ToSet(mono))
           next == KeepGroup(a, mono, plan)
<1>1. a \in AttemptsOn(D, N) /\ Rated(a.disks)
  BY DEF RatedAttempts
<1>2. next \in AttemptsOn(D, N)
  BY <1>1, KeptGroupIsOn DEF Grouped
<1>3. CASE ~a.ok \/ stay = {}
  BY <1>3 DEF KeepGroup
<1>4. CASE a.ok /\ stay # {}
  <2>1. next.disks = IF short \/ ~m.ok THEN a.disks ELSE AddDisks(a.disks, m.disks)
    BY <1>1, <1>4 DEF KeepGroup, AttemptsOn
  <2>2. mono # <<>>
    BY <1>4
  <2> HIDE DEF device, short, next
  <2>3. Rated(m.disks)
    BY <2>2, GroupIsRated
  <2> HIDE DEF m
  <2>4. Rated(next.disks)
    BY <1>1, <2>1, <2>3, AddedAreRated
  <2> QED
    BY <1>2, <2>4 DEF RatedAttempts, next
<1> QED
  BY <1>3, <1>4

\* All that is kept
LEMMA KeptAllIsRated ==
    ASSUME NEW D \in SUBSET Devices, NEW N \in SUBSET DiskNames, NEW a \in RatedAttempts(D, N),
           NEW classes, ClassesRated(classes), NEW plan \in PlansOn(D)
    PROVE  KeepAll(a, classes, plan) \in RatedAttempts(D, N)
<1> DEFINE b == GetMountDiskPlan(a, classes.mount)
           c == KeepPlaces(b, classes.normal, plan)
           d == KeepGroup(c, classes.mono, plan)
           rest == Ranked(classes.unlimited, CompareBinding)
<1>1. b \in RatedAttempts(D, N)
  BY MountPassIsRated DEF ClassesRated, ClassesOk
<1> HIDE DEF b
<1>2. c \in RatedAttempts(D, N)
  BY <1>1, KeptPlacesAreRated DEF ClassesRated, ClassesOk
<1> HIDE DEF c
<1>3. d \in RatedAttempts(D, N)
  BY <1>2, KeptGroupIsRated DEF ClassesRated
<1> HIDE DEF d
<1>4. rest \in Seq(VolumeBinding) /\ RatesIn(rest)
  <2>1. Lists(rest, classes.unlimited)
    BY BindingsAreRanked DEF ClassesRated, ClassesOk
  <2> HIDE DEF rest
  <2> QED
    BY <2>1, ListsAreRated DEF ClassesRated, ClassesOk
<1> HIDE DEF rest
<1>5. KeepPlaces(d, rest, plan) \in RatedAttempts(D, N)
  BY <1>3, <1>4, KeptPlacesAreRated
<1> QED
  BY <1>5 DEF KeepAll, b, c, d, rest

\* The rest, planned anew
LEMMA RestIsRated ==
    ASSUME NEW D \in SUBSET Devices, NEW N \in SUBSET DiskNames, NEW a \in RatedAttempts(D, N),
           NEW rest, RequestOk(rest)
    PROVE  Rated(PlanRest(a, rest).disks)
<1> DEFINE plans == VolumePlansOn(a.host, rest, 1)
           disks == AddDisks(a.disks, plans[1].disks)
<1>1. a.host \in HostsOn(D, N) /\ Rated(a.disks)
  BY DEF RatedAttempts, AttemptsOn
<1>2. PlanRest(a, rest).disks = IF ~a.ok THEN NoDisks
                                ELSE IF rest = {} THEN a.disks
                                ELSE IF plans = <<>> THEN NoDisks ELSE disks
  BY DEF PlanRest, Refused
<1>3. plans \in Seq(PlannedOn(D, N)) /\ \A i \in DOMAIN plans : Rated(plans[i].disks)
  BY <1>1, VolumePlansAreOn, VolumePlansAreRated
<1> HIDE DEF plans
<1>4. plans # <<>> => Rated(disks)
  <2> SUFFICES ASSUME plans # <<>> PROVE Rated(disks)
    OBVIOUS
  <2>1. Len(plans) \in Nat \ {0}
    BY <1>3, EmptySeq
  <2>2. 1 \in DOMAIN plans
    BY <1>3, <2>1, MembersAreIn
  <2> QED
    BY <1>1, <1>3, <2>2, AddedAreRated
<1> HIDE DEF disks
<1> QED
  BY <1>1, <1>2, <1>4, NothingIsRated

\* A workload that is planned again
LEMMA ReplansAreRated ==
    ASSUME NEW D \in SUBSET Devices, NEW N \in SUBSET DiskNames, NEW M \in SUBSET DiskNames,
           NEW inf, inf.capacity \in CapacitiesOn(D, N), inf.usage \in UsagesOn(M),
           NEW vbs, RequestOk(vbs), NEW E, NEW plan \in PlansOn(E), NEW old \in Bindings
    PROVE  Rated(GetAffinityPlan(inf, vbs, plan, old).disks)
<1> DEFINE h == NewHost(inf)
           classes == ClassifyVolumeBindings(vbs)
           back == GiveBack(h, plan, old)
           kept == KeepAll(Attempt(back), classes, plan)
           rest == NonAffinity(classes, plan)
<1>1. h \in HostsOn(D, N)
  BY NewHostIsOn
<1>2. /\ ClassesRated(classes) /\ ToSet(classes.normal) \subseteq vbs
      /\ ToSet(classes.mono) \subseteq vbs /\ classes.unlimited \subseteq vbs
  BY ClassesAreOk, ClassesAreRated
<1> HIDE DEF classes, h
<1>3. CASE ~(NeedSchedule(vbs) /\ CanGiveBack(h, plan, old))
  <2>1. GetAffinityPlan(inf, vbs, plan, old).disks = NoDisks
    BY <1>3 DEF GetAffinityPlan, AffinityPlanOn, Refused, h, classes
  <2> QED
    BY <2>1, NothingIsRated
<1>4. CASE NeedSchedule(vbs) /\ CanGiveBack(h, plan, old)
  <2>1. plan \in PlansOn(D)
    BY <1>1, <1>4, GivenBackIsOn
  <2>2. back \in HostsOn(D, N)
    BY <1>1, GivenBackStays
  <2> HIDE DEF back
  <2>3. Attempt(back) \in RatedAttempts(D, N)
    BY <2>2, AttemptIsRated
  <2>4. kept \in RatedAttempts(D, N)
    BY <1>2, <2>1, <2>3, KeptAllIsRated
  <2> HIDE DEF kept
  <2>5. rest \in SUBSET vbs
    BY <1>2 DEF NonAffinity
  <2> HIDE DEF rest
  <2>6. Rated(PlanRest(kept, rest).disks)
    BY <2>4, <2>5, LessIsRequest, RestIsRated
  <2>7. GetAffinityPlan(inf, vbs, plan, old) = PlanRest(kept, rest)
    BY <1>4 DEF GetAffinityPlan, AffinityPlanOn, kept, rest, back, h, classes
  <2> QED
    BY <2>6, <2>7
<1> QED
  BY <1>3, <1>4

\* calculate-deploy charges no disk less than nothing
LEMMA DeployedAreRated ==
    ASSUME NEW inf, Sound(inf), NEW req, Wishes(req), NEW count \in Nat,
           NEW deployed, deployed = Deployed(inf, count, req), deployed.ok
    PROVE  \A i \in DOMAIN deployed.works : Rated(deployed.works[i].disks)
<1> DEFINE plans == IF NeedSchedule(req.vbs) THEN GetVolumePlans(inf, req.vbs, count)
                    ELSE Repeat(count, NoPlan)
           storage == Folded(req).storage
           Work(p) == [vbs |-> req.vbs, plan |-> p.plan, disks |-> p.disks, storage |-> storage]
           enough == Len(plans) >= count
<1>1. /\ ValidRequest(req)
      /\ deployed = [ok |-> enough, works |-> [i \in DOMAIN plans |-> Work(plans[i])]]
  BY DEF Deployed
<1>2. PICK D \in SUBSET Devices, N \in SUBSET DiskNames, M \in SUBSET DiskNames :
         inf.capacity \in CapacitiesOn(D, N) /\ inf.usage \in UsagesOn(M)
  BY RecordParts
<1>3. RequestOk(req.vbs)
  BY <1>1 DEF RequestOk, ValidRequest, Wishes
<1>4. plans = VolumePlansOn(NewHost(inf), req.vbs, count)
  BY DEF GetVolumePlans, VolumePlansOn
<1>5. NewHost(inf) \in HostsOn(D, N)
  BY <1>2, NewHostIsOn
<1> HIDE DEF plans, storage, enough
<1>6. \A i \in DOMAIN plans : Rated(plans[i].disks)
  BY <1>2, <1>3, <1>4, <1>5, VolumePlansAreRated
<1> QED
  BY <1>1, <1>6

\* Neither does calculate-realloc
LEMMA ReallocatedIsRated ==
    ASSUME NEW inf, Sound(inf), NEW work, WorkOk(work), Rated(work.disks), NEW req, Wishes(req),
           NEW target, target = Reallocated(inf, work, req), target.ok
    PROVE  Rated(target.work.disks)
<1> DEFINE merged == Merged(work, req)
           plan == GetAffinityPlan(inf, merged.vbs, work.plan, work.vbs)
           to == IF NeedSchedule(req.vbs) THEN plan
                 ELSE [ok |-> TRUE, plan |-> work.plan, disks |-> work.disks]
<1>1. PICK D \in SUBSET Devices, N \in SUBSET DiskNames, M \in SUBSET DiskNames :
         inf.capacity \in CapacitiesOn(D, N) /\ inf.usage \in UsagesOn(M)
  BY RecordParts
<1>2. merged.vbs \in Bindings /\ Distinct(merged.vbs)
  <2>1. merged.vbs = MergeVolumeBindings(req.vbs, work.vbs)
    BY DEF Merged
  <2> QED
    BY <2>1, MergedBindingsStay DEF Wishes, WorkOk
<1> HIDE DEF merged
<1>3. /\ ValidRequest(merged)
      /\ target = [ok |-> to.ok, work |-> [vbs |-> merged.vbs, storage |-> merged.storage,
                                           plan |-> to.plan, disks |-> to.disks]]
  BY DEF Reallocated, Replanned, merged
<1>4. Rated(plan.disks)
  <2>1. RequestOk(merged.vbs)
    BY <1>2, <1>3 DEF RequestOk, ValidRequest
  <2>2. work.plan \in PlansOn(Devices) /\ work.vbs \in Bindings
    BY DEF WorkOk
  <2> QED
    BY <1>1, <2>1, <2>2, ReplansAreRated
<1> HIDE DEF plan
<1>5. Rated(to.disks)
  BY <1>4
<1> HIDE DEF to
<1> QED
  BY <1>3, <1>5

-----------------------------------------------------------------------------
(* What each operation does to the books *)

\* Usages that are alike have the same amounts
LEMMA AlikeAmounts ==
    ASSUME NEW u, NEW v, Alike(u, v), NEW m \in Measures
    PROVE  Amount(u, m) = Amount(v, m)
<1>1. /\ u.storage = v.storage /\ u.volumes = v.volumes
      /\ \A name \in DiskNames : UsedOf(u.disks, name) = UsedOf(v.disks, name)
  BY DEF Alike
<1> QED
  BY <1>1, MeasureKinds

LEMMA KeptIsAlike ==
    ASSUME NEW u, NEW v, KeptUsage(u, v)
    PROVE  Alike(u, v)
<1>1. \A name : UsedOf(u.disks, name) = UsedOf(v.disks, name)
  BY DEF KeptUsage, UsedOf
<1> QED
  BY <1>1 DEF Alike, KeptUsage

\* A record's usage is what is read of it
LEMMA UsageOfRecord ==
    ASSUME NoneIsApart, NEW record, Sound(record)
    PROVE  UsageIn(record) = record.usage
<1>1. record = [capacity |-> record.capacity, usage |-> record.usage]
  BY DEF Sound, IsInfo
<1>2. record # Absent
  BY <1>1 DEF NoneIsApart
<1> QED
  BY <1>2 DEF UsageIn

\* Usages that are alike tally alike
LEMMA AlikeTally ==
    ASSUME NEW K \in SUBSET Measures, NEW works, NEW u, NEW v, Alike(u, v), Tallies(K, v, works)
    PROVE  Tallies(K, u, works)
<1> SUFFICES ASSUME NEW m \in K PROVE Amount(u, m) = SumOver(HeldIn(works, m), Ids)
  BY DEF Tallies
<1>1. Amount(u, m) = Amount(v, m)
  BY AlikeAmounts
<1> QED
  BY <1>1 DEF Tallies

LEMMA EnlistBalances ==
    ASSUME NEW K \in SUBSET Measures, SInv(K), Enlist, IInv'
    PROVE  SInv(K)'
<1>1. PICK req \in NewNodes :
         Call("add", IF etcd = Absent THEN AddNode(req, EngineStorage) ELSE Failure(etcd),
              workload)
  BY DEF Enlist
<1>2. PICK result : result = IF etcd = Absent THEN AddNode(req, EngineStorage) ELSE Failure(etcd)
  OBVIOUS
<1>3. task = Nil /\ NoneIsApart
  BY <1>1 DEF Call, SInv
<1>4. result.ok => etcd = Absent /\ result = AddNode(req, EngineStorage)
  BY <1>2 DEF Failure
<1>5. result.ok => Sound(result.info) /\ Alike(result.info.usage, NoUsage)
  BY <1>4, AddStores, ClusterInputsAssumption, ClusterBoundsAssumption
<1>6. ASSUME result.ok
      PROVE  /\ GetOrEmpty.usage = NoUsage
             /\ ~repair => Tallies(K, UsageIn(result.info), workload)
  <2>1. UsageIn(etcd) = NoUsage
    BY <1>4, <1>6 DEF UsageIn
  <2>2. UsageIn(result.info) = result.info.usage
    BY <1>3, <1>5, <1>6, UsageOfRecord
  <2>3. ~repair => Tallies(K, NoUsage, workload)
    BY <1>3, <2>1 DEF SInv, Balanced
  <2> QED
    BY <1>5, <1>6, <2>1, <2>2, <2>3, AlikeTally, ReadUsage
<1>7. Promises(K, "add", result, workload)
  BY <1>6 DEF Promises, Bookings
<1> QED
  BY <1>1, <1>2, <1>7, CallBalances DEF Ops

LEMMA DelistBalances ==
    ASSUME NEW K \in SUBSET Measures, SInv(K), Delist, IInv'
    PROVE  SInv(K)'
<1>1. Call("remove", Deleted, workload) /\ Live = {}
  BY DEF Delist
<1>2. UsageIn(Deleted.info) = NoUsage
  BY DEF Deleted, UsageIn
<1>3. Tallies(K, NoUsage, workload)
  BY <1>1, NothingIsHeld DEF Live
<1>4. Promises(K, "remove", Deleted, workload)
  BY <1>1, <1>2, <1>3 DEF Promises, Bookings
<1> QED
  BY <1>1, <1>4, CallBalances DEF Ops

LEMMA EditBalances ==
    ASSUME NEW K \in SUBSET Measures, SInv(K), Edit, IInv'
    PROVE  SInv(K)'
<1>1. PICK edit \in CapacityEdits :
         Call("edit", SetNodeResourceCapacity(GetOrEmpty, Nil, edit.req, edit.delta, edit.incr),
              workload)
  BY DEF Edit
<1>2. PICK set : set = SetNodeResourceCapacity(GetOrEmpty, Nil, edit.req, edit.delta, edit.incr)
  OBVIOUS
<1>3. task = Nil /\ NoneIsApart /\ Sound(GetOrEmpty)
  BY <1>1, ReadIsSound DEF Call, SInv, IInv
<1>4. ASSUME set.ok, ~repair
      PROVE  Tallies(K, UsageIn(set.info), workload)
  <2>1. PICK info : info = GetOrEmpty
    OBVIOUS
  <2>2. Sound(set.info) /\ KeptUsage(set.info.usage, info.usage)
    BY <1>2, <1>3, <1>4, <2>1, EditStores
  <2>3. UsageIn(set.info) = set.info.usage /\ Alike(set.info.usage, info.usage)
    BY <1>3, <2>2, UsageOfRecord, KeptIsAlike
  <2>4. Tallies(K, info.usage, workload)
    BY <1>3, <1>4, <2>1, ReadUsage DEF SInv, Balanced
  <2> QED
    BY <2>3, <2>4, AlikeTally
<1>5. Promises(K, "edit", set, workload)
  BY <1>4 DEF Promises, Bookings
<1> QED
  BY <1>1, <1>2, <1>5, CallBalances DEF Ops

LEMMA RollBackBalances ==
    ASSUME NEW K \in SUBSET Measures, SInv(K), RollBack, IInv'
    PROVE  SInv(K)'
<1>1. PICK now : now = GetOrEmpty
  OBVIOUS
<1>2. /\ task # Nil /\ task.step = "call" /\ task.ok /\ NoneIsApart /\ IInv /\ Sound(now)
      /\ Proceeds(K, task)
  BY <1>1, ReadIsSound DEF RollBack, UndoUsage, UndoCapacity, UndoAdd, Undo, SInv, IInv
<1>3. PICK before : before = task.before
  OBVIOUS
<1>4. Sound(before)
  BY <1>2, <1>3 DEF IInv, TaskOk
<1>5. CASE UndoUsage
  <2>1. PICK result : result = RestoreUsage(now, before.usage)
    OBVIOUS
  <2>2. Undo(result) /\ task.op \in Bookings
    BY <1>1, <1>3, <1>5, <2>1 DEF UndoUsage
  <2>3. PICK next : next = [capacity |-> now.capacity, usage |-> before.usage]
    OBVIOUS
  <2>4. result = Put(now, next)
    BY <1>2, <1>4, <2>1, <2>3, SnapshotsAreReplayed
  <2>5. IsInfo(next) /\ next.usage = before.usage
    BY <1>2, <1>4, <2>3 DEF Sound, IsInfo
  <2>6. ASSUME result.ok, ~repair
        PROVE  Tallies(K, UsageIn(result.info), workload)
    <3>1. PICK record : record = Put(now, next).info
      OBVIOUS
    <3>2. Put(now, next).ok /\ result.info = record
      BY <2>4, <2>6, <3>1
    <3>3. Sound(record) /\ Alike(record.usage, before.usage)
      BY <2>4, <2>5, <2>6, <3>1, <3>2, PutIsSound, PutKeepsUsage
    <3>4. UsageIn(result.info) = record.usage
      BY <1>2, <3>2, <3>3, UsageOfRecord
    <3>5. Tallies(K, before.usage, workload)
      BY <1>2, <1>3, <2>6 DEF Proceeds
    <3> QED
      BY <3>3, <3>4, <3>5, AlikeTally
  <2> QED
    BY <2>2, <2>6, UndoBalances
<1>6. CASE UndoCapacity
  <2>1. PICK result : result = RestoreCapacity(now, before.capacity)
    OBVIOUS
  <2>2. Undo(result) /\ task.op = "edit"
    BY <1>1, <1>3, <1>6, <2>1 DEF UndoCapacity
  <2>3. PICK next : next = [capacity |-> before.capacity, usage |-> now.usage]
    OBVIOUS
  <2>4. result = Put(now, next)
    BY <1>2, <1>4, <2>1, <2>3, SnapshotsAreReplayed
  <2>5. IsInfo(next) /\ next.usage = now.usage
    BY <1>2, <1>4, <2>3 DEF Sound, IsInfo
  <2>6. ASSUME result.ok, ~repair
        PROVE  Tallies(K, UsageIn(result.info), workload)
    <3>1. PICK record : record = Put(now, next).info
      OBVIOUS
    <3>2. Put(now, next).ok /\ result.info = record
      BY <2>4, <2>6, <3>1
    <3>3. Sound(record) /\ Alike(record.usage, now.usage)
      BY <2>4, <2>5, <2>6, <3>1, <3>2, PutIsSound, PutKeepsUsage
    <3>4. UsageIn(result.info) = record.usage
      BY <1>2, <3>2, <3>3, UsageOfRecord
    <3>5. Tallies(K, now.usage, workload)
      BY <1>1, <1>2, <2>2, <2>6, ReadUsage DEF Proceeds, Bookings
    <3> QED
      BY <3>3, <3>4, <3>5, AlikeTally
  <2> QED
    BY <2>2, <2>6, UndoBalances
<1>7. CASE UndoAdd
  <2>1. Undo(Deleted) /\ task.op = "add"
    BY <1>7 DEF UndoAdd
  <2>2. UsageIn(Deleted.info) = NoUsage
    BY DEF Deleted, UsageIn
  <2>3. ~repair => Tallies(K, NoUsage, workload)
    BY <1>2, <2>1 DEF Proceeds
  <2> QED
    BY <2>1, <2>2, <2>3, UndoBalances
<1> QED
  BY <1>5, <1>6, <1>7 DEF RollBack

\* A deploy is answered with as many workloads as it asks for
LEMMA DeployedAreAsMany ==
    ASSUME NEW inf, IsInfo(inf), NEW req, Wishes(req), Folded(req).storage >= 0,
           NEW count \in Nat, NEW deployed, deployed = Deployed(inf, count, req), deployed.ok
    PROVE  DOMAIN deployed.works = 1..count
<1> DEFINE plans == IF NeedSchedule(req.vbs) THEN GetVolumePlans(inf, req.vbs, count)
                    ELSE Repeat(count, NoPlan)
           storage == Folded(req).storage
           Work(p) == [vbs |-> req.vbs, plan |-> p.plan, disks |-> p.disks, storage |-> storage]
           works == [i \in DOMAIN plans |-> Work(plans[i])]
           enough == Len(plans) >= count
           h == NewHost(inf)
           classes == ClassifyVolumeBindings(req.vbs)
<1>1. ValidRequest(req) /\ deployed = [ok |-> enough, works |-> works]
  BY DEF Deployed
<1>2. RequestOk(req.vbs)
  BY <1>1 DEF RequestOk, ValidRequest, Wishes
<1>3. PICK D \in SUBSET Devices, N \in SUBSET DiskNames, M \in SUBSET DiskNames :
         inf.capacity \in CapacitiesOn(D, N) /\ inf.usage \in UsagesOn(M)
  BY DEF IsInfo, IsCapacity, IsUsage
<1>4. h \in HostsOn(D, N) /\ ClassesOk(classes)
  BY <1>2, <1>3, NewHostIsOn, ClassesAreOk
<1> HIDE DEF h, classes
<1>5. \E S : plans \in Seq(S) /\ Len(plans) <= count
  <2>1. CASE NeedSchedule(req.vbs)
    <3>1. plans = PlansOfClasses(h, classes, count)
      BY <2>1 DEF GetVolumePlans, VolumePlansOn, h, classes
    <3> HIDE DEF plans
    <3> QED
      BY <1>4, <3>1, ClassesPlansAreOn
  <2>2. CASE ~NeedSchedule(req.vbs)
    <3>1. plans = Repeat(count, NoPlan)
      BY <2>2
    <3>2. Repeat(count, NoPlan) \in Seq({NoPlan}) /\ Len(Repeat(count, NoPlan)) = count
      BY RepeatedOften DEF Repeat
    <3> HIDE DEF plans
    <3> QED
      BY <3>1, <3>2
  <2> QED
    BY <2>1, <2>2
<1> HIDE DEF plans, Work
<1>6. enough /\ deployed.works = works
  <2> HIDE DEF works, enough
  <2> QED
    BY <1>1
<1>7. Len(plans) = count /\ DOMAIN plans = 1..count
  BY <1>5, <1>6
<1> QED
  BY <1>6, <1>7

\* What every workload takes of a volume or a disk is not less than nothing
WorkFits(work) == WorkSized(work, Devices) /\ Rated(work.disks)

WorksFit(works) == \A id \in Ids : works[id] = Nil \/ WorkFits(works[id])

\* The usage changes by what the workloads come to hold
Moved(u, v, works, next) ==
    \A m \in Measures : Amount(v, m) - Amount(u, m)
                          = SumOver(HeldIn(next, m), Ids) - SumOver(HeldIn(works, m), Ids)

\* A booking writes what its workloads come to hold, within what the node has
IsBooking(op, set, next) ==
    /\ op \in Bookings /\ Call(op, set, next) /\ WorksOk(next)
    /\ set.ok => /\ Sound(set.info) /\ set.info.capacity = GetOrEmpty.capacity
                 /\ Moved(GetOrEmpty.usage, set.info.usage, workload, next)
    /\ DeploysAskForSpace /\ WorksFit(workload)
          => WorksFit(next) /\ (set.ok => GrownWithin(GetOrEmpty, set.info))

\* What workloads hold is an amount
LEMMA HeldTotals ==
    ASSUME NEW works, WorksOk(works), NEW m \in Measures
    PROVE  SumOver(HeldIn(works, m), Ids) \in Int
<1>1. Integral(HeldIn(works, m), Ids)
  BY HeldInIsInt
<1> QED
  BY <1>1, SumSplits

\* Books in order stay so where workloads and usage move together
LEMMA MovedTallies ==
    ASSUME NEW K \in SUBSET Measures, NEW u, IsUsage(u), NEW v, IsUsage(v),
           NEW works, WorksOk(works), NEW next, WorksOk(next),
           Moved(u, v, works, next), Tallies(K, u, works)
    PROVE  Tallies(K, v, next)
<1> SUFFICES ASSUME NEW m \in K
             PROVE  Amount(v, m) = SumOver(HeldIn(next, m), Ids)
  BY DEF Tallies
<1>0. m \in Measures
  OBVIOUS
<1>1. PICK a \in Int, b \in Int, s \in Int, t \in Int :
         /\ a = Amount(u, m) /\ b = Amount(v, m)
         /\ s = SumOver(HeldIn(works, m), Ids) /\ t = SumOver(HeldIn(next, m), Ids)
  BY <1>0, AmountsAdd, HeldTotals
<1>2. a = s /\ b - a = t - s
  BY <1>0, <1>1 DEF Tallies, Moved
<1>3. b = t
  BY <1>2
<1> QED
  BY <1>1, <1>3

LEMMA BookingBalances ==
    ASSUME NEW K \in SUBSET Measures, SInv(K), NEW op, NEW set, NEW next,
           IsBooking(op, set, next), IInv'
    PROVE  SInv(K)'
<1>1. PICK info : info = GetOrEmpty
  OBVIOUS
<1>2. /\ op \in Bookings /\ Call(op, set, next) /\ WorksOk(next) /\ task = Nil
      /\ NoneIsApart /\ WorksOk(workload) /\ Sound(info)
  BY <1>1, ReadIsSound DEF IsBooking, Call, SInv, IInv
<1>3. ASSUME set.ok, ~repair
      PROVE  Tallies(K, UsageIn(set.info), next)
  <2>1. Sound(set.info) /\ Moved(info.usage, set.info.usage, workload, next)
    BY <1>1, <1>3 DEF IsBooking
  <2>2. UsageIn(set.info) = set.info.usage
    BY <1>2, <2>1, UsageOfRecord
  <2>3. IsUsage(info.usage) /\ IsUsage(set.info.usage)
    BY <1>2, <2>1 DEF Sound, IsInfo
  <2>4. Tallies(K, info.usage, workload)
    BY <1>1, <1>2, <1>3, ReadUsage DEF SInv, Balanced
  <2> QED
    BY <1>2, <2>1, <2>2, <2>3, <2>4, MovedTallies
<1>4. Promises(K, op, set, next)
  BY <1>2, <1>3 DEF Promises, Bookings
<1> QED
  BY <1>2, <1>4, CallBalances DEF Ops, Bookings

LEMMA DeployIsBooking ==
    ASSUME NoneIsApart, IInv, Deploy, IInv'
    PROVE  \E op, set, next : IsBooking(op, set, next)
<1>1. PICK req \in DeployRequests, count \in 1..MaxWorkloads :
         /\ count <= Cardinality(Ids \ Live)
         /\ LET deployed == Deployed(GetOrEmpty, count, req)
            IN  /\ deployed.ok
                /\ Call("deploy", Book(GetOrEmpty, HeldBy(deployed.works), TRUE),
                        Enrolled(deployed.works, count))
  BY DEF Deploy
<1>2. PICK info : info = GetOrEmpty
  OBVIOUS
<1>3. PICK deployed : deployed = Deployed(info, count, req)
  OBVIOUS
<1>4. PICK works : works = deployed.works
  OBVIOUS
<1>5. PICK taken : taken = HeldBy(works)
  OBVIOUS
<1>6. PICK set : set = Book(info, taken, TRUE)
  OBVIOUS
<1>7. PICK next : next = Enrolled(works, count)
  OBVIOUS
<1>8. deployed.ok /\ Call("deploy", set, next) /\ count <= Cardinality(Ids \ Live)
  BY <1>1, <1>2, <1>3, <1>4, <1>5, <1>6, <1>7
<1>9. /\ task = Nil /\ WorksOk(workload) /\ Sound(info) /\ IsInfo(info)
      /\ count \in Nat /\ count > 0 /\ Wishes(req) /\ Folded(req).storage >= 0
  BY <1>2, <1>8, ReadIsSound, RequestsAreWishes, ClusterBoundsAssumption
  DEF Call, IInv, Sound
<1>10. DOMAIN works = 1..count /\ \A i \in 1..count : WorkOk(works[i])
  BY <1>3, <1>4, <1>8, <1>9, DeployedAreAsMany, DeployedAreOk
<1>11. \A i \in 1..count : works[i] # Nil
  <2>1. \A i \in DOMAIN deployed.works : deployed.works[i] \in Workloads
    BY <1>3, <1>4, <1>8, <1>10, DeployedAreWorkloads
  <2> QED
    BY <1>4, <1>10, <2>1 DEF NoneIsApart
<1>12. WorksOk(next)
  <2>1. task'.next = next /\ task' # Nil
    <3>1. PICK ok, before : task' = [op |-> "deploy", step |-> "call", ok |-> ok,
                                     before |-> before, next |-> next]
      BY <1>8 DEF Call
    <3> QED
      BY <3>1 DEF NoneIsApart
  <2> QED
    BY <2>1 DEF IInv, TaskOk, WorksOk, WorkOk
<1>13. DOMAIN taken = 1..count /\ \A i \in 1..count : IsUsage(taken[i])
  BY <1>5, <1>10, HeldIsUsage DEF HeldBy
<1>14. ASSUME set.ok
       PROVE  /\ Sound(set.info) /\ set.info.capacity = info.capacity
              /\ Moved(info.usage, set.info.usage, workload, next)
  <2>1. Sound(set.info) /\ set.info.capacity = info.capacity
    <3>1. AreTaken(taken)
      BY <1>5, <1>10, HeldAreTaken
    <3>2. PICK plus \in BOOLEAN : plus = TRUE
      OBVIOUS
    <3>3. set = Book(info, taken, plus)
      BY <1>6, <3>2
    <3> QED
      BY <1>9, <1>14, <3>1, <3>3, BookingStores
  <2>2. ASSUME NEW m \in Measures
        PROVE  Amount(set.info.usage, m) - Amount(info.usage, m)
                 = SumOver(HeldIn(next, m), Ids) - SumOver(HeldIn(workload, m), Ids)
    <3>1. Booked(info, taken, count, set)
      BY <1>6, <1>9, <1>13, <1>14 DEF Booked
    <3>2. PICK g : g = AmountIn(taken, m)
      OBVIOUS
    <3>3. SumOver(g, 1..count) \in Int
      <4>1. \A i \in 1..count : g[i] \in Int
        BY <1>13, <3>2, AmountsAdd DEF AmountIn
      <4>2. Integral(g, 1..count)
        BY <4>1, FS_Interval DEF Integral
      <4> QED
        BY <4>2, SumSplits
    <3>4. Amount(set.info.usage, m) = Amount(info.usage, m) + SumOver(g, 1..count)
      BY <3>1, <3>2, BookingAmounts
    <3>5. SumOver(HeldIn(next, m), Ids) = SumOver(HeldIn(workload, m), Ids) + SumOver(g, 1..count)
      <4>1. AmountIn(HeldBy(works), m) = g
        BY <1>5, <3>2
      <4>2. SumOver(HeldIn(next, m), Ids)
              = SumOver(HeldIn(workload, m), Ids) + SumOver(AmountIn(HeldBy(works), m), 1..count)
        BY ONLY <1>7, <1>8, <1>9, <1>10, <1>11, <1>12, EnrolledMove, m \in Measures
      <4> QED
        BY <4>1, <4>2
    <3>6. Amount(info.usage, m) \in Int /\ SumOver(HeldIn(workload, m), Ids) \in Int
      BY <1>9, AmountsAdd, HeldTotals DEF IsInfo
    <3> QED
      BY <3>3, <3>4, <3>5, <3>6
  <2> QED
    BY <2>1, <2>2 DEF Moved
<1>15. ASSUME DeploysAskForSpace, WorksFit(workload)
       PROVE  WorksFit(next) /\ (set.ok => GrownWithin(info, set.info))
  <2>1. Sizes(req.vbs)
    BY <1>15 DEF DeploysAskForSpace, Sizes
  <2>2. \A i \in 1..count : WorkFits(works[i])
    <3>1. PICK D \in SUBSET Devices : D = DOMAIN info.capacity.volumes
      BY <1>9, RecordParts
    <3>2. \A i \in DOMAIN deployed.works : WorkSized(deployed.works[i], D)
      BY <1>3, <1>8, <1>9, <2>1, <3>1, DeployedAreSized
    <3>3. \A i \in DOMAIN deployed.works : Rated(deployed.works[i].disks)
      BY <1>3, <1>8, <1>9, DeployedAreRated
    <3>4. \A i \in 1..count : WorkSized(works[i], Devices)
      BY <1>4, <1>10, <3>1, <3>2, PlansOfTheNode DEF WorkSized
    <3> QED
      BY <1>4, <1>10, <3>3, <3>4 DEF WorkFits
  <2>3. \A id \in Ids : next[id] = workload[id] \/ \E i \in 1..count : next[id] = works[i]
    BY <1>7 DEF Enrolled
  <2>4. WorksFit(next)
    BY <1>15, <2>2, <2>3 DEF WorksFit
  <2>5. set.ok => GrownWithin(info, set.info)
    BY <1>3, <1>4, <1>5, <1>6, <1>8, <1>9, <1>10, <2>1, DeployGrows
  <2> QED
    BY <2>4, <2>5
<1>16. IsBooking("deploy", set, next)
  BY <1>2, <1>8, <1>12, <1>14, <1>15 DEF IsBooking, Bookings
<1> QED
  BY <1>16

\* One workload changes, the usage by the difference
LEMMA MoveIsMoved ==
    ASSUME NEW u, IsUsage(u), NEW v, IsUsage(v), NEW delta, IsUsage(delta), NEW plus \in BOOLEAN,
           \A m \in Measures : Amount(v, m) = Amount(Take(u, delta, plus), m),
           NEW works, WorksOk(works), NEW next, WorksOk(next), NEW id \in Ids,
           \A id1 \in Ids : id1 # id => next[id1] = works[id1],
           \A m \in Measures : Amount(Take(u, delta, plus), m) - Amount(u, m)
                                 = HeldIn(next, m)[id] - HeldIn(works, m)[id]
    PROVE  Moved(u, v, works, next)
<1> SUFFICES ASSUME NEW m \in Measures
             PROVE  Amount(v, m) - Amount(u, m)
                      = SumOver(HeldIn(next, m), Ids) - SumOver(HeldIn(works, m), Ids)
  BY DEF Moved
<1>1. PICK a \in Int, b \in Int, s \in Int, had \in Int, has \in Int :
         /\ a = Amount(u, m) /\ b = Amount(v, m) /\ s = SumOver(HeldIn(works, m), Ids)
         /\ had = HeldIn(works, m)[id] /\ has = HeldIn(next, m)[id]
  BY AmountsAdd, HeldTotals, HeldInIsInt
<1>2. SumOver(HeldIn(next, m), Ids) = s - had + has
  BY <1>1, OneMoves
<1>3. b - a = has - had
  BY <1>1
<1>4. b - a = (s - had + has) - s
  BY <1>3
<1> QED
  BY <1>1, <1>2, <1>4

LEMMA ReallocIsBooking ==
    ASSUME NoneIsApart, IInv, Realloc
    PROVE  \E op, set, next : IsBooking(op, set, next)
<1>1. PICK id \in Live, req \in ReallocRequests :
         LET target == Reallocated(GetOrEmpty, workload[id], req)
         IN  /\ target.ok
             /\ Call("realloc", Book(GetOrEmpty, <<ReallocDelta(workload[id], target.work)>>, TRUE),
                     [workload EXCEPT ![id] = target.work])
  BY DEF Realloc
<1>2. PICK info : info = GetOrEmpty
  OBVIOUS
<1>3. PICK work : work = workload[id]
  OBVIOUS
<1>4. PICK target : target = Reallocated(info, work, req)
  OBVIOUS
<1>5. PICK delta : delta = ReallocDelta(work, target.work)
  OBVIOUS
<1>6. PICK plus \in BOOLEAN : plus = TRUE
  OBVIOUS
<1>7. PICK set : set = Book(info, <<delta>>, plus)
  OBVIOUS
<1>8. PICK next : next = [workload EXCEPT ![id] = target.work]
  OBVIOUS
<1>9. target.ok /\ Call("realloc", set, next)
  BY <1>1, <1>2, <1>3, <1>4, <1>5, <1>6, <1>7, <1>8
<1>10. /\ WorksOk(workload) /\ Sound(info) /\ IsInfo(info) /\ IsUsage(info.usage)
       /\ Wishes(req) /\ id \in Ids /\ work # Nil /\ WorkOk(work)
  BY <1>2, <1>3, <1>9, ReadIsSound, RequestsAreWishes
  DEF Call, IInv, Sound, IsInfo, Live, WorksOk
<1>11. WorkOk(target.work)
  BY <1>4, <1>9, <1>10, ReallocatedIsOk
<1>12. target.work # Nil
  BY <1>4, <1>9, <1>11, ReallocatedIsWorkload DEF NoneIsApart
<1>13. /\ DOMAIN next = Ids /\ next[id] = target.work
       /\ \A id1 \in Ids : id1 # id => next[id1] = workload[id1]
  BY <1>8, <1>10 DEF WorksOk
<1>14. WorksOk(next)
  BY <1>10, <1>11, <1>13 DEF WorksOk
<1>15. /\ IsUsage(Held(target.work)) /\ IsUsage(Held(work))
       /\ IsUsage(delta) /\ delta = SubUsage(Held(target.work), Held(work))
  <2>1. IsUsage(Held(target.work)) /\ IsUsage(Held(work))
    BY <1>10, <1>11, HeldIsUsage
  <2>2. IsUsage(delta)
    BY <1>5, <2>1, TakeIsUsage DEF Take, ReallocDelta
  <2> QED
    BY <1>5, <2>1, <2>2 DEF ReallocDelta
<1>16. ASSUME set.ok
       PROVE  /\ Sound(set.info) /\ set.info.capacity = info.capacity
              /\ Moved(info.usage, set.info.usage, workload, next)
  <2>1. Sound(set.info) /\ set.info.capacity = info.capacity
    BY <1>7, <1>10, <1>15, <1>16, OneIsTaken, BookingStores
  <2>2. \A m \in Measures : Amount(set.info.usage, m) = Amount(Take(info.usage, delta, plus), m)
    BY <1>7, <1>10, <1>15, <1>16, OneBooked
  <2>3. ASSUME NEW m \in Measures
        PROVE  Amount(Take(info.usage, delta, plus), m) - Amount(info.usage, m)
                 = HeldIn(next, m)[id] - HeldIn(workload, m)[id]
    <3>1. /\ Amount(Take(info.usage, delta, plus), m) = Amount(info.usage, m) + Amount(delta, m)
          /\ Amount(info.usage, m) \in Int
      BY <1>6, <1>10, <1>15, AmountsAdd DEF Take
    <3>2. /\ Amount(delta, m) = Amount(Held(target.work), m) - Amount(Held(work), m)
          /\ Amount(Held(target.work), m) \in Int /\ Amount(Held(work), m) \in Int
      BY <1>15, AmountsAdd
    <3>3. /\ HeldIn(workload, m)[id] = Amount(Held(work), m)
          /\ HeldIn(next, m)[id] = Amount(Held(target.work), m)
      BY <1>3, <1>10, <1>12, <1>13 DEF HeldIn
    <3> QED
      BY <3>1, <3>2, <3>3
  <2>4. IsUsage(set.info.usage)
    BY <2>1 DEF Sound, IsInfo
  <2>5. Moved(info.usage, set.info.usage, workload, next)
    BY <1>10, <1>13, <1>14, <1>15, <2>2, <2>3, <2>4, MoveIsMoved
  <2> QED
    BY <2>1, <2>5
<1>17. ASSUME WorksFit(workload)
       PROVE  WorksFit(next) /\ (set.ok => GrownWithin(info, set.info))
  <2>1. WorkSized(work, Devices) /\ Rated(work.disks)
    BY <1>3, <1>10, <1>17 DEF WorksFit, WorkFits
  <2>2. WorkFits(target.work)
    <3>1. WorkSized(target.work, Devices)
      BY <1>4, <1>9, <1>10, <2>1, ReallocatedParts
    <3>2. Rated(target.work.disks)
      BY <1>4, <1>9, <1>10, <2>1, ReallocatedIsRated
    <3> QED
      BY <3>1, <3>2 DEF WorkFits
  <2>3. WorksFit(next)
    BY <1>13, <1>17, <2>2 DEF WorksFit
  <2>4. set = Book(info, <<delta>>, TRUE)
    BY <1>6, <1>7
  <2>5. set.ok => GrownWithin(info, set.info)
    BY <1>4, <1>5, <1>9, <1>10, <2>1, <2>4, ReallocGrows
  <2> QED
    BY <2>3, <2>5
<1>18. IsBooking("realloc", set, next)
  BY <1>2, <1>9, <1>14, <1>16, <1>17 DEF IsBooking, Bookings
<1> QED
  BY <1>18

LEMMA DiscardIsBooking ==
    ASSUME NoneIsApart, IInv, Discard
    PROVE  \E op, set, next : IsBooking(op, set, next)
<1>1. PICK id \in Live :
         Call("discard", Book(GetOrEmpty, <<Held(workload[id])>>, FALSE),
              [workload EXCEPT ![id] = Nil])
  BY DEF Discard
<1>2. PICK info : info = GetOrEmpty
  OBVIOUS
<1>3. PICK work : work = workload[id]
  OBVIOUS
<1>4. PICK held : held = Held(work)
  OBVIOUS
<1>5. PICK plus \in BOOLEAN : plus = FALSE
  OBVIOUS
<1>6. PICK set : set = Book(info, <<held>>, plus)
  OBVIOUS
<1>7. PICK next : next = [workload EXCEPT ![id] = Nil]
  OBVIOUS
<1>8. Call("discard", set, next)
  BY <1>1, <1>2, <1>3, <1>4, <1>5, <1>6, <1>7
<1>9. /\ WorksOk(workload) /\ Sound(info) /\ IsUsage(info.usage)
      /\ id \in Ids /\ work # Nil /\ WorkOk(work)
  BY <1>2, <1>3, <1>8, ReadIsSound DEF Call, IInv, Sound, IsInfo, Live, WorksOk
<1>10. /\ DOMAIN next = Ids /\ next[id] = Nil
       /\ \A id1 \in Ids : id1 # id => next[id1] = workload[id1]
  BY <1>7, <1>9 DEF WorksOk
<1>11. WorksOk(next)
  BY <1>9, <1>10 DEF WorksOk
<1>12. IsUsage(held)
  BY <1>4, <1>9, HeldIsUsage
<1>13. ASSUME set.ok
       PROVE  /\ Sound(set.info) /\ set.info.capacity = info.capacity
              /\ Moved(info.usage, set.info.usage, workload, next)
  <2>1. Sound(set.info) /\ set.info.capacity = info.capacity
    BY <1>6, <1>9, <1>12, <1>13, OneIsTaken, BookingStores
  <2>2. \A m \in Measures : Amount(set.info.usage, m) = Amount(Take(info.usage, held, plus), m)
    BY <1>6, <1>9, <1>12, <1>13, OneBooked
  <2>3. ASSUME NEW m \in Measures
        PROVE  Amount(Take(info.usage, held, plus), m) - Amount(info.usage, m)
                 = HeldIn(next, m)[id] - HeldIn(workload, m)[id]
    <3>1. /\ Amount(Take(info.usage, held, plus), m) = Amount(info.usage, m) - Amount(held, m)
          /\ Amount(info.usage, m) \in Int /\ Amount(held, m) \in Int
      BY <1>5, <1>9, <1>12, AmountsAdd DEF Take
    <3>2. HeldIn(workload, m)[id] = Amount(held, m) /\ HeldIn(next, m)[id] = 0
      BY <1>3, <1>4, <1>9, <1>10 DEF HeldIn
    <3> QED
      BY <3>1, <3>2
  <2>4. IsUsage(set.info.usage)
    BY <2>1 DEF Sound, IsInfo
  <2>5. Moved(info.usage, set.info.usage, workload, next)
    BY <1>9, <1>10, <1>11, <1>12, <2>2, <2>3, <2>4, MoveIsMoved
  <2> QED
    BY <2>1, <2>5
<1>14. ASSUME WorksFit(workload)
       PROVE  WorksFit(next) /\ (set.ok => GrownWithin(info, set.info))
  <2>1. WorkSized(work, Devices)
    BY <1>3, <1>9, <1>14 DEF WorksFit, WorkFits
  <2>2. WorksFit(next)
    BY <1>10, <1>14 DEF WorksFit
  <2>3. set = Book(info, <<Held(work)>>, FALSE)
    BY <1>4, <1>5, <1>6
  <2>4. set.ok => GrownWithin(info, set.info)
    BY <1>9, <2>1, <2>3, DiscardGrows
  <2> QED
    BY <2>2, <2>4
<1>15. IsBooking("discard", set, next)
  BY <1>2, <1>8, <1>11, <1>13, <1>14 DEF IsBooking, Bookings
<1> QED
  BY <1>15

LEMMA BookingsBalance ==
    ASSUME NEW K \in SUBSET Measures, SInv(K), Deploy \/ Realloc \/ Discard, IInv'
    PROVE  SInv(K)'
<1>1. NoneIsApart /\ IInv
  BY DEF SInv
<1>2. PICK op, set, next : IsBooking(op, set, next)
  BY <1>1, DeployIsBooking, ReallocIsBooking, DiscardIsBooking
<1> QED
  BY <1>2, BookingBalances

-----------------------------------------------------------------------------
(* The books between operations *)

\* What all workloads take together is what each holds
LEMMA SumIsHeld ==
    ASSUME IInv
    PROVE  IsUsage(Sum) /\ Tallies(Measures, Sum, workload)
<1>1. PICK taken : taken = Taken(workload)
  OBVIOUS
<1>2. PICK n : n = MaxWorkloads
  OBVIOUS
<1>3. PICK sum : sum = TakeAll(NoUsage, taken, TRUE)
  OBVIOUS
<1>4. /\ n \in Nat /\ DOMAIN taken = 1..n /\ IsUsage(NoUsage) /\ WorksOk(workload)
      /\ \A i \in 1..n : IsUsage(taken[i])
  <2>1. \A id \in Ids : workload[id] # Nil => IsUsage(Held(workload[id]))
    BY HeldIsUsage DEF IInv, WorksOk
  <2> QED
    BY <1>1, <1>2, <2>1, ClusterBoundsAssumption, EmptyInfoIsInfo DEF Taken, Ids, IInv
<1>5. IsUsage(sum)
  BY <1>3, <1>4, TakeAllIsUsage
<1>6. ASSUME NEW m \in Measures
      PROVE  Amount(sum, m) = SumOver(HeldIn(workload, m), Ids)
  <2>1. PICK f : f = AmountIn(taken, m)
    OBVIOUS
  <2>2. PICK g : g = HeldIn(workload, m)
    OBVIOUS
  <2>3. Amount(sum, m) = Amount(NoUsage, m) + SumOver(f, 1..n)
    BY <1>3, <1>4, <2>1, AmountsTotal
  <2>4. Amount(NoUsage, m) = 0
    BY NothingAmounts
  <2>5. \A id \in Ids : f[id] = g[id]
    BY <1>1, <2>1, <2>2, <2>4 DEF AmountIn, HeldIn, Taken
  <2>6. SumOver(g, Ids) \in Int
    BY <1>4, <2>2, HeldInIsInt, SumSplits
  <2>7. SumOver(f, Ids) = SumOver(g, Ids)
    BY <2>5, SumSame
  <2>8. Ids = 1..n
    BY <1>2 DEF Ids
  <2> QED
    BY <2>2, <2>3, <2>4, <2>6, <2>7, <2>8
<1>7. Tallies(Measures, sum, workload)
  BY <1>6 DEF Tallies
<1>8. Sum = sum
  BY <1>1, <1>3 DEF Sum
<1> QED
  BY <1>5, <1>7, <1>8

\* The storage and the sizes, without the rates of disks
SpaceOnly == {m \in Measures : m[1] # "disk"}

\* No repair takes a record for clean that passes over disks workloads use
NoneUnseen ==
    repair /\ etcd # Absent /\ Diffs(etcd.usage, Sum) = NoDiffs =>
        \A name \in DiskNames \ DOMAIN etcd.usage.disks : UsedOf(Sum.disks, name) = NoIO

\* A repair that finds nothing to do has found the storage and the sizes right,
\* and the disks but for those the record has no usage of
LEMMA CleanIsRight ==
    ASSUME IInv, etcd # Absent, repair, Diffs(etcd.usage, Sum) = NoDiffs,
           NEW K \in SUBSET Measures, K = SpaceOnly \/ NoneUnseen
    PROVE  Tallies(K, etcd.usage, workload)
<1>1. PICK sum : sum = Sum
  OBVIOUS
<1>2. PICK usage : usage = etcd.usage
  OBVIOUS
<1>3. IsUsage(sum) /\ Tallies(Measures, sum, workload) /\ IsUsage(usage)
  BY <1>1, <1>2, SumIsHeld DEF IInv, StoredOk, Sound, IsInfo
<1>4. /\ usage.storage = sum.storage
      /\ \A device \in Devices : usage.volumes[device] = sum.volumes[device]
      /\ \A name \in DOMAIN usage.disks : usage.disks[name] = UsedOf(sum.disks, name)
  <2>1. /\ (usage.storage # sum.storage) = FALSE
        /\ {device \in Devices : usage.volumes[device] # sum.volumes[device]} = {}
        /\ {name \in DOMAIN usage.disks : usage.disks[name] # UsedOf(sum.disks, name)} = {}
    BY <1>1, <1>2 DEF Diffs, NoDiffs
  <2> QED
    BY <2>1
<1>5. ASSUME NEW m \in K
      PROVE  Amount(usage, m) = Amount(sum, m)
  <2>0. m \in Measures
    OBVIOUS
  <2>1. CASE m[1] # "disk"
    <3>1. CASE m[1] = "storage"
      <4>1. \A u : Amount(u, m) = u.storage
        BY <2>0, <3>1, MeasureKinds
      <4> QED
        BY <1>4, <4>1
    <3>2. CASE m[1] = "volume"
      <4>1. m[2] \in Devices /\ \A u : Amount(u, m) = u.volumes[m[2]]
        BY <2>0, <3>2, MeasureKinds
      <4> QED
        BY <1>4, <4>1
    <3> QED
      BY <2>0, <2>1, <3>1, <3>2, MeasureKinds
  <2>2. CASE m[1] = "disk"
    <3>1. K # SpaceOnly
      BY <2>2 DEF SpaceOnly
    <3>2. \A name \in DiskNames \ DOMAIN usage.disks : UsedOf(sum.disks, name) = NoIO
      BY <1>1, <1>2, <3>1 DEF NoneUnseen
    <3>3. \A name \in DiskNames : UsedOf(usage.disks, name) = UsedOf(sum.disks, name)
      BY <1>4, <3>2 DEF UsedOf
    <3>4. m[2] \in DiskNames /\ \A u : Amount(u, m) = UsedOf(u.disks, m[2])[m[3]]
      BY <2>0, <2>2, MeasureKinds
    <3> QED
      BY <3>3, <3>4
  <2> QED
    BY <2>1, <2>2
<1> QED
  BY <1>2, <1>3, <1>5 DEF Tallies

LEMMA FixBalances ==
    ASSUME NEW K \in SUBSET Measures, K = SpaceOnly \/ NoneUnseen, SInv(K), Fix, IInv'
    PROVE  SInv(K)'
<1>1. PICK result : result = IF etcd = Absent THEN Failure(etcd)
                             ELSE FixNodeResource(etcd, Taken(workload))
  OBVIOUS
<1>2. Call("fix", result, workload) /\ repair
  BY <1>1 DEF Fix
<1>3. NoneIsApart /\ IInv
  BY DEF SInv
<1>4. ASSUME result.ok
      PROVE  Tallies(K, UsageIn(result.info), workload)
  <2>1. etcd # Absent /\ result = FixNodeResource(etcd, Taken(workload))
    BY <1>1, <1>4 DEF Failure
  <2>2. Sound(etcd) /\ AreTaken(Taken(workload))
    BY <1>3, <2>1, TakenIsTaken DEF IInv, StoredOk
  <2>3. UsageIn(result.info) = result.info.usage
    BY <1>3, <1>4, <2>1, <2>2, FixStores, UsageOfRecord
  <2>4. CASE Diffs(etcd.usage, Sum) = NoDiffs
    <3>1. result.info = etcd
      BY <2>1, <2>4 DEF FixNodeResource, Sum
    <3>2. Tallies(K, etcd.usage, workload)
      BY <1>2, <1>3, <2>1, <2>4, CleanIsRight
    <3> QED
      BY <2>3, <3>1, <3>2
  <2>5. CASE Diffs(etcd.usage, Sum) # NoDiffs
    <3>1. PICK sum : sum = Sum
      OBVIOUS
    <3>2. IsUsage(sum) /\ Tallies(Measures, sum, workload)
      BY <1>3, <3>1, SumIsHeld
    <3>3. PICK next : next = [etcd EXCEPT !.usage = sum]
      OBVIOUS
    <3>4. result = Put(etcd, next)
      BY <2>1, <2>5, <3>1, <3>3 DEF FixNodeResource, Sum
    <3>5. \A m \in Measures : Amount(result.info.usage, m) = Amount(sum, m)
      BY <1>4, <2>2, <3>2, <3>3, <3>4, StoredAmounts
    <3> QED
      BY <2>3, <3>2, <3>5 DEF Tallies
  <2> QED
    BY <2>4, <2>5
<1>5. Promises(K, "fix", result, workload)
  BY <1>2, <1>4 DEF Promises, Bookings
<1> QED
  BY <1>2, <1>5, CallBalances DEF Ops

LEMMA InitBalances ==
    ASSUME NEW K \in SUBSET Measures, NoneIsApart, Init
    PROVE  SInv(K)
<1>1. task = Nil /\ UsageIn(etcd) = NoUsage /\ \A id \in Ids : workload[id] = Nil
  BY DEF Init, UsageIn
<1>2. Tallies(K, UsageIn(etcd), workload)
  BY <1>1, NothingIsHeld
<1> QED
  BY <1>1, <1>2, InitIsIInv DEF SInv, Balanced

LEMMA NextBalances ==
    ASSUME NEW K \in SUBSET Measures, K = SpaceOnly \/ NoneUnseen, SInv(K), [Next]_vars
    PROVE  SInv(K)'
<1>1. IInv'
  BY NextKeepsIInv DEF SInv
<1>2. CASE Begin
  BY <1>1, <1>2, EnlistBalances, DelistBalances, EditBalances, BookingsBalance DEF Begin
<1>3. CASE Fix \/ RollBack \/ End
  BY <1>1, <1>3, FixBalances, RollBackBalances, EndBalances
<1>4. CASE UNCHANGED vars
  BY <1>1, <1>4 DEF vars, SInv, NoneIsApart, Balanced, Proceeds, Tallies, HeldIn, UsageIn, Ids, Live
<1> QED
  BY <1>1, <1>2, <1>3, <1>4 DEF Next

\* Between operations the storage and the volumes used are what the workloads hold
SpaceIsHeld ==
    Free => GetOrEmpty.usage.storage = Sum.storage /\ GetOrEmpty.usage.volumes = Sum.volumes

\* A free node's usage and the sum have the same amounts
LEMMA FreeTallies ==
    ASSUME NEW K \in SUBSET Measures, SInv(K), Free
    PROVE  /\ IsUsage(GetOrEmpty.usage) /\ IsUsage(Sum)
           /\ \A m \in K : Amount(GetOrEmpty.usage, m) = Amount(Sum, m)
<1>1. PICK usage : usage = GetOrEmpty.usage
  OBVIOUS
<1>2. PICK sum : sum = Sum
  OBVIOUS
<1>3. IsUsage(usage) /\ Tallies(K, usage, workload)
  BY <1>1, ReadUsage, ReadIsSound DEF SInv, IInv, Sound, IsInfo, Free, Balanced
<1>4. IsUsage(sum) /\ Tallies(Measures, sum, workload)
  BY <1>2, SumIsHeld DEF SInv
<1>5. \A m \in K : Amount(usage, m) = Amount(sum, m)
  BY <1>3, <1>4 DEF Tallies
<1> QED
  BY <1>1, <1>2, <1>3, <1>4, <1>5

\* The space of a node is accounted for: whatever calls fail, get lost, are
\* rolled back or repaired, and whatever operators do to its capacity, the
\* storage and the size used of each volume are what the workloads hold, unless a
\* repair entry is left (SetNodeResourceUsage, FixNodeResource).
THEOREM SpaceIsBooked == NoneIsApart /\ Spec => []SpaceIsHeld
<1> DEFINE Inv == SInv(SpaceOnly)
<1>0. SpaceOnly \in SUBSET Measures
  BY DEF SpaceOnly
<1>1. NoneIsApart /\ Init => Inv
  BY <1>0, InitBalances
<1>2. Inv /\ [Next]_vars => Inv'
  BY <1>0, NextBalances
<1>3. Inv => SpaceIsHeld
  <2> SUFFICES ASSUME SInv(SpaceOnly), Free
               PROVE  GetOrEmpty.usage.storage = Sum.storage /\ GetOrEmpty.usage.volumes = Sum.volumes
    BY DEF SpaceIsHeld
  <2>1. PICK usage : usage = GetOrEmpty.usage
    OBVIOUS
  <2>2. PICK sum : sum = Sum
    OBVIOUS
  <2>3. IsUsage(usage) /\ IsUsage(sum) /\ \A m \in SpaceOnly : Amount(usage, m) = Amount(sum, m)
    BY <1>0, <2>1, <2>2, FreeTallies
  <2>4. /\ <<"storage">> \in SpaceOnly
        /\ \A device \in Devices : <<"volume", device>> \in SpaceOnly
    BY AmountsByName DEF SpaceOnly
  <2>5. usage.storage = sum.storage /\ \A device \in Devices : usage.volumes[device] = sum.volumes[device]
    BY <2>3, <2>4, AmountsByName
  <2>6. usage.volumes \in [Devices -> Int] /\ sum.volumes \in [Devices -> Int]
    BY <2>3 DEF IsUsage, UsagesOn
  <2>7. usage.volumes = sum.volumes
    BY <2>5, <2>6
  <2> QED
    BY <2>1, <2>2, <2>5, <2>7
<1> HIDE DEF Inv
<1> QED
  BY <1>1, <1>2, <1>3, PTL DEF Spec

\* So are the rates of its disks, unless a repair once took a record for clean that
\* had no usage of a disk its workloads use: GetNodeResourceInfo looks for
\* differences among the disks of the stored usage only.
THEOREM UsageIsBooked == NoneIsApart /\ Spec /\ []NoneUnseen => []UsageIsHeld
<1> DEFINE Inv == SInv(Measures)
<1>1. NoneIsApart /\ Init => Inv
  BY InitBalances
<1>2. Inv /\ NoneUnseen /\ [Next]_vars => Inv'
  BY NextBalances
<1>3. Inv => UsageIsHeld
  <2> SUFFICES ASSUME SInv(Measures), Free
               PROVE  Alike(GetOrEmpty.usage, Sum)
    BY DEF UsageIsHeld
  <2>1. PICK usage : usage = GetOrEmpty.usage
    OBVIOUS
  <2>2. PICK sum : sum = Sum
    OBVIOUS
  <2>3. IsUsage(usage) /\ IsUsage(sum) /\ \A m \in Measures : Amount(usage, m) = Amount(sum, m)
    BY <2>1, <2>2, FreeTallies
  <2> QED
    BY <2>1, <2>2, <2>3, AmountsDecide
<1> HIDE DEF Inv
<1> QED
  BY <1>1, <1>2, <1>3, PTL DEF Spec
-----------------------------------------------------------------------------
(* The ledger's amounts *)

\* The kinds of amounts are the measures
LEMMA KindsAreMeasures == Kinds = Measures
BY DEF Kinds, Measures

\* Amounts are written kind by kind
LEMMA AmountsAreUsage ==
    ASSUME NEW u
    PROVE  UsageAmounts(u) = [node \in {1} |-> [kind \in Measures |-> Amount(u, kind)]]
<1>1. ASSUME NEW kind \in Measures
      PROVE  (CASE kind[1] = "storage" -> u.storage
                [] kind[1] = "volume"  -> u.volumes[kind[2]]
                [] kind[1] = "disk"    -> UsedOf(u.disks, kind[2])[kind[3]]) = Amount(u, kind)
  BY MeasureKinds DEF Amount
<1>2. [kind \in Measures |->
         CASE kind[1] = "storage" -> u.storage
           [] kind[1] = "volume"  -> u.volumes[kind[2]]
           [] kind[1] = "disk"    -> UsedOf(u.disks, kind[2])[kind[3]]]
        = [kind \in Measures |-> Amount(u, kind)]
  BY <1>1
<1> QED
  BY <1>2, KindsAreMeasures DEF UsageAmounts, Amounts

LEMMA OffersAreCapacity ==
    ASSUME NEW c
    PROVE  CapacityAmounts(c) = [node \in {1} |-> [kind \in Measures |-> Offer(c, kind)]]
<1>1. ASSUME NEW kind \in Measures
      PROVE  (CASE kind[1] = "storage" -> c.storage
                [] kind[1] = "volume"  -> SizeOf(c.volumes, kind[2])
                [] kind[1] = "disk"    -> QuotaOf(c.disks, kind[2])[kind[3]]) = Offer(c, kind)
  BY MeasureKinds DEF Offer
<1>2. [kind \in Measures |->
         CASE kind[1] = "storage" -> c.storage
           [] kind[1] = "volume"  -> SizeOf(c.volumes, kind[2])
           [] kind[1] = "disk"    -> QuotaOf(c.disks, kind[2])[kind[3]]]
        = [kind \in Measures |-> Offer(c, kind)]
  BY <1>1
<1> QED
  BY <1>2, KindsAreMeasures DEF CapacityAmounts, Amounts

SameAmounts(u, v) == \A m \in Measures : Amount(u, m) = Amount(v, m)

\* What the books say
Offers == CapacityAmounts(Settled.capacity)
Uses == UsageAmounts(Settled.usage)
Holds == UsageAmounts(Sum)

\* The books are of integers
LEMMA AmountsType ==
    /\ \A u : IsUsage(u) => UsageAmounts(u) \in [{1} -> [Kinds -> Int]]
    /\ \A c : IsCapacity(c) => CapacityAmounts(c) \in [{1} -> [Kinds -> Int]]
<1>1. ASSUME NEW u, IsUsage(u)
      PROVE  UsageAmounts(u) \in [{1} -> [Kinds -> Int]]
  <2>1. \A m \in Measures : Amount(u, m) \in Int
    BY <1>1, AmountsAdd
  <2> QED
    BY <2>1, AmountsAreUsage, KindsAreMeasures
<1>2. ASSUME NEW c, IsCapacity(c)
      PROVE  CapacityAmounts(c) \in [{1} -> [Kinds -> Int]]
  <2>1. ASSUME NEW m \in Measures
        PROVE  Offer(c, m) \in Int
    <3>1. PICK D \in SUBSET Devices, N \in SUBSET DiskNames : c \in CapacitiesOn(D, N)
      BY <1>2 DEF IsCapacity
    <3>2. CASE m[1] = "storage"
      BY <3>1, <3>2 DEF Offer, CapacitiesOn
    <3>3. CASE m[1] = "volume"
      <4>1. SizeOf(c.volumes, m[2]) \in Int
        BY <3>1 DEF SizeOf, CapacitiesOn
      <4> QED
        BY <3>3, <4>1 DEF Offer
    <3>4. CASE m[1] = "disk"
      <4>1. m[3] \in Rates
        BY <3>4, MeasureKinds
      <4>2. QuotaOf(c.disks, m[2]) \in IO
        BY <3>1 DEF QuotaOf, CapacitiesOn, DiskCapacity, NoIO, IO
      <4> QED
        BY <3>4, <4>1, <4>2 DEF Offer, IO
    <3> QED
      BY <3>2, <3>3, <3>4, MeasureKinds
  <2> QED
    BY <2>1, OffersAreCapacity, KindsAreMeasures
<1> QED
  BY <1>1, <1>2

\* The same amounts make the same books
LEMMA SameBooks ==
    ASSUME NEW u, NEW v, SameAmounts(u, v)
    PROVE  UsageAmounts(u) = UsageAmounts(v)
<1>1. [kind \in Measures |-> Amount(u, kind)] = [kind \in Measures |-> Amount(v, kind)]
  BY DEF SameAmounts
<1> QED
  BY <1>1, AmountsAreUsage

\* Where nothing is offered nothing is in the books
LEMMA EmptyBooks ==
    /\ CapacityAmounts(EmptyInfo.capacity) = [node \in {1} |-> [kind \in Kinds |-> 0]]
    /\ UsageAmounts(NoUsage) = [node \in {1} |-> [kind \in Kinds |-> 0]]
<1>1. \A m \in Measures : Amount(NoUsage, m) = 0
  BY NothingAmounts
<1>2. ASSUME NEW m \in Measures
      PROVE  Offer(EmptyInfo.capacity, m) = 0
  <2>1. m[1] \in {"storage", "volume"} \/ (m[1] = "disk" /\ m[3] \in Rates)
    BY MeasureKinds
  <2> QED
    BY <2>1 DEF Offer, EmptyInfo, NoCapacity, NoDisks, SizeOf, QuotaOf, NoIO
<1>3. [kind \in Measures |-> Amount(NoUsage, kind)] = [kind \in Measures |-> 0]
  BY <1>1
<1>4. [kind \in Measures |-> Offer(EmptyInfo.capacity, kind)] = [kind \in Measures |-> 0]
  BY <1>2
<1> QED
  BY <1>3, <1>4, AmountsAreUsage, OffersAreCapacity, KindsAreMeasures

\* The record where an operation's last call has left it: of a booking what its
\* workloads hold and within the capacity, or what was found; nothing else
\* changes the books but a removal and a repair
Leads(op, step, ok, before, next, now, works) ==
    /\ op \in Bookings \cup {"fix"} => now.capacity = before.capacity
    /\ op \in Bookings => GrownWithin(before, now)
    /\ op \in Bookings /\ step = "call" /\ ok => Moved(before.usage, now.usage, works, next)
    /\ op \in Bookings /\ step = "undo" /\ ok => SameAmounts(now.usage, before.usage)
    /\ op \in {"edit", "add"} => SameAmounts(now.usage, before.usage)
    /\ op = "remove" => now = before \/ now = EmptyInfo
    /\ op = "fix" => \/ SameAmounts(now.usage, before.usage)
                     \/ Tallies(Measures, now.usage, works)

TaskLeads ==
    task # Nil => /\ WorksFit(task.next)
                  /\ Leads(task.op, task.step, task.ok, task.before, task.next, GetOrEmpty, workload)

RInv == SInv(Measures) /\ WorksFit(workload) /\ TaskLeads

\* The record as it is read
ReadIn(record) == IF record = Absent THEN EmptyInfo ELSE record

\* A call that has not been executed leads nowhere
LEMMA NothingLeads ==
    ASSUME NEW op \in Ops, NEW now, Sound(now), NEW next, NEW works
    PROVE  Leads(op, "call", FALSE, now, next, now, works)
<1>1. GrownWithin(now, now)
  <2>1. \A m \in Measures : Amount(now.usage, m) \in Int
    BY AmountsAdd DEF Sound, IsInfo
  <2> QED
    BY <2>1 DEF GrownWithin
<1>2. SameAmounts(now.usage, now.usage)
  BY DEF SameAmounts
<1> QED
  BY <1>1, <1>2 DEF Leads

\* If the call leads there when it succeeds, it does when its answer is lost
LEMMA LostLeads ==
    ASSUME NEW op, NEW step, NEW before, NEW next, NEW now, NEW works,
           Leads(op, step, TRUE, before, next, now, works)
    PROVE  Leads(op, step, FALSE, before, next, now, works)
BY DEF Leads

LEMMA CallLeads ==
    ASSUME RInv, SInv(Measures)', NEW op \in Ops, NEW result, NEW next,
           Call(op, result, next), WorksFit(next),
           result.ok => Leads(op, "call", TRUE, GetOrEmpty, next, ReadIn(result.info), workload)
    PROVE  RInv'
<1>1. PICK ok \in BOOLEAN :
         /\ Execute(result, ok)
         /\ task' = [op |-> op, step |-> "call", ok |-> ok, before |-> GetOrEmpty,
                     next |-> next]
  BY DEF Call
<1>2. UNCHANGED <<member, workload, repair>> /\ task = Nil
  BY DEF Call
<1>3. (etcd' = etcd \/ (result.ok /\ etcd' = result.info)) /\ (ok => result.ok /\ etcd' = result.info)
  BY <1>1 DEF Execute
<1>4. PICK before : before = GetOrEmpty
  OBVIOUS
<1>5. PICK now : now = ReadIn(etcd')
  OBVIOUS
<1>6. GetOrEmpty' = now /\ GetOrEmpty = ReadIn(etcd)
  BY <1>5 DEF GetOrEmpty, ReadIn
<1>7. Leads(op, "call", ok, before, next, now, workload)
  <2>1. Sound(before)
    BY <1>4, ReadIsSound DEF RInv, SInv, IInv
  <2>2. CASE result.ok /\ etcd' = result.info
    <3>1. Leads(op, "call", TRUE, before, next, now, workload)
      BY <1>4, <1>5, <2>2
    <3> QED
      BY <3>1, LostLeads
  <2>3. CASE etcd' = etcd /\ ok = FALSE
    <3>1. now = before
      BY <1>4, <1>5, <1>6, <2>3
    <3>2. Leads(op, "call", FALSE, before, next, before, workload)
      BY <2>1, NothingLeads
    <3> QED
      BY <2>3, <3>1, <3>2
  <2> QED
    BY <1>3, <2>2, <2>3
<1>8. /\ task'.op = op /\ task'.step = "call" /\ task'.ok = ok /\ task'.before = before
      /\ task'.next = next
  BY <1>1, <1>4
<1>9. Leads(task.op, task.step, task.ok, task.before, task.next, GetOrEmpty, workload)'
  BY <1>2, <1>6, <1>7, <1>8 DEF Leads, Tallies, Moved, HeldIn, Ids
<1>10. WorksFit(task.next)' /\ WorksFit(workload)'
  BY <1>2, <1>8 DEF WorksFit, RInv, Ids
<1> QED
  BY <1>9, <1>10 DEF RInv, TaskLeads

\* A record is read as it is
LEMMA RecordIsRead ==
    ASSUME NoneIsApart, NEW record, Sound(record)
    PROVE  ReadIn(record) = record
<1>1. record = [capacity |-> record.capacity, usage |-> record.usage]
  BY DEF Sound, IsInfo
<1>2. record # Absent
  BY <1>1 DEF NoneIsApart
<1> QED
  BY <1>2 DEF ReadIn

\* What an operation calls leads to the same books, to empty ones, or to a booking
LEMMA EnlistLeads ==
    ASSUME RInv, SInv(Measures)', Enlist
    PROVE  RInv'
<1>1. PICK req \in NewNodes :
         Call("add", IF etcd = Absent THEN AddNode(req, EngineStorage) ELSE Failure(etcd),
              workload)
  BY DEF Enlist
<1>2. PICK result : result = IF etcd = Absent THEN AddNode(req, EngineStorage) ELSE Failure(etcd)
  OBVIOUS
<1>3. PICK before : before = GetOrEmpty
  OBVIOUS
<1>4. ASSUME result.ok
      PROVE  Leads("add", "call", TRUE, before, workload, ReadIn(result.info), workload)
  <2>1. etcd = Absent /\ result = AddNode(req, EngineStorage)
    BY <1>2, <1>4 DEF Failure
  <2>2. Sound(result.info) /\ Alike(result.info.usage, NoUsage)
    BY <1>4, <2>1, AddStores, ClusterInputsAssumption, ClusterBoundsAssumption
  <2>3. ReadIn(result.info) = result.info
    BY <2>2, RecordIsRead DEF RInv, SInv
  <2>4. before.usage = NoUsage
    BY <1>3, <2>1 DEF GetOrEmpty, EmptyInfo
  <2>5. SameAmounts(result.info.usage, before.usage)
    BY <2>2, <2>4, AlikeAmounts DEF SameAmounts
  <2> QED
    BY <2>3, <2>5 DEF Leads, Bookings
<1> QED
  BY <1>1, <1>2, <1>3, <1>4, CallLeads DEF Ops, RInv

LEMMA DelistLeads ==
    ASSUME RInv, SInv(Measures)', Delist
    PROVE  RInv'
<1>1. Call("remove", Deleted, workload)
  BY DEF Delist
<1>2. PICK before : before = GetOrEmpty
  OBVIOUS
<1>3. Leads("remove", "call", TRUE, before, workload, ReadIn(Deleted.info), workload)
  BY DEF Leads, Bookings, ReadIn, Deleted
<1> QED
  BY <1>1, <1>2, <1>3, CallLeads DEF Ops, RInv

LEMMA EditLeads ==
    ASSUME RInv, SInv(Measures)', Edit
    PROVE  RInv'
<1>1. PICK edit \in CapacityEdits :
         Call("edit", SetNodeResourceCapacity(GetOrEmpty, Nil, edit.req, edit.delta, edit.incr),
              workload)
  BY DEF Edit
<1>2. PICK before : before = GetOrEmpty
  OBVIOUS
<1>3. PICK set : set = SetNodeResourceCapacity(before, Nil, edit.req, edit.delta, edit.incr)
  OBVIOUS
<1>4. Sound(before)
  BY <1>2, ReadIsSound DEF RInv, SInv, IInv
<1>5. ASSUME set.ok
      PROVE  Leads("edit", "call", TRUE, before, workload, ReadIn(set.info), workload)
  <2>1. Sound(set.info) /\ KeptUsage(set.info.usage, before.usage)
    BY <1>3, <1>4, <1>5, EditStores
  <2>2. ReadIn(set.info) = set.info
    BY <2>1, RecordIsRead DEF RInv, SInv
  <2>3. SameAmounts(set.info.usage, before.usage)
    BY <2>1, KeptIsAlike, AlikeAmounts DEF SameAmounts
  <2> QED
    BY <2>2, <2>3 DEF Leads, Bookings
<1>6. Call("edit", set, workload)
  BY <1>1, <1>2, <1>3
<1> QED
  BY <1>2, <1>5, <1>6, CallLeads DEF Ops, RInv

LEMMA BookingLeads ==
    ASSUME DeploysAskForSpace, RInv, SInv(Measures)', Deploy \/ Realloc \/ Discard
    PROVE  RInv'
<1>1. NoneIsApart /\ IInv /\ IInv' /\ WorksFit(workload)
  BY DEF RInv, SInv
<1>2. PICK op, set, next : IsBooking(op, set, next)
  BY <1>1, DeployIsBooking, ReallocIsBooking, DiscardIsBooking
<1>3. PICK before : before = GetOrEmpty
  OBVIOUS
<1>4. op \in Bookings /\ Call(op, set, next) /\ WorksFit(next)
  BY <1>1, <1>2 DEF IsBooking
<1>5. ASSUME set.ok
      PROVE  Leads(op, "call", TRUE, before, next, ReadIn(set.info), workload)
  <2>1. /\ Sound(set.info) /\ set.info.capacity = before.capacity
        /\ Moved(before.usage, set.info.usage, workload, next)
        /\ GrownWithin(before, set.info)
    BY <1>1, <1>2, <1>3, <1>5 DEF IsBooking
  <2>2. ReadIn(set.info) = set.info
    BY <1>1, <2>1, RecordIsRead
  <2> QED
    BY <1>4, <2>1, <2>2 DEF Leads, Bookings
<1> QED
  BY <1>3, <1>4, <1>5, CallLeads DEF Ops, Bookings

LEMMA FixLeads ==
    ASSUME RInv, SInv(Measures)', Fix
    PROVE  RInv'
<1>1. PICK result : result = IF etcd = Absent THEN Failure(etcd)
                             ELSE FixNodeResource(etcd, Taken(workload))
  OBVIOUS
<1>2. Call("fix", result, workload) /\ NoneIsApart /\ IInv
  BY <1>1 DEF Fix, RInv, SInv
<1>3. PICK before : before = GetOrEmpty
  OBVIOUS
<1>4. ASSUME result.ok
      PROVE  Leads("fix", "call", TRUE, before, workload, ReadIn(result.info), workload)
  <2>1. etcd # Absent /\ result = FixNodeResource(etcd, Taken(workload)) /\ before = etcd
    BY <1>1, <1>3, <1>4 DEF Failure, GetOrEmpty
  <2>2. Sound(etcd)
    BY <1>2, <2>1 DEF IInv, StoredOk
  <2>3. CASE Diffs(etcd.usage, Sum) = NoDiffs
    <3>1. result.info = etcd
      BY <2>1, <2>3 DEF FixNodeResource, Sum
    <3>2. ReadIn(result.info) = before
      BY <2>1, <3>1 DEF ReadIn
    <3>3. SameAmounts(before.usage, before.usage)
      BY DEF SameAmounts
    <3> QED
      BY <3>2, <3>3 DEF Leads, Bookings
  <2>4. CASE Diffs(etcd.usage, Sum) # NoDiffs
    <3>1. PICK sum : sum = Sum
      OBVIOUS
    <3>2. IsUsage(sum) /\ Tallies(Measures, sum, workload)
      BY <1>2, <3>1, SumIsHeld
    <3>3. PICK next : next = [etcd EXCEPT !.usage = sum]
      OBVIOUS
    <3>4. result = Put(etcd, next)
      BY <2>1, <2>4, <3>1, <3>3 DEF FixNodeResource, Sum
    <3>5. \A m \in Measures : Amount(result.info.usage, m) = Amount(sum, m)
      BY <1>4, <2>2, <3>2, <3>3, <3>4, StoredAmounts
    <3>6. Tallies(Measures, result.info.usage, workload)
      BY <3>2, <3>5 DEF Tallies
    <3>7. IsInfo(next) /\ next.capacity = etcd.capacity
      BY <2>2, <3>2, <3>3 DEF Sound, IsInfo
    <3>8. Sound(result.info) /\ result.info.capacity = etcd.capacity
      BY <1>4, <3>4, <3>7, PutIsSound, PutStores
    <3>9. ReadIn(result.info) = result.info
      BY <1>2, <3>8, RecordIsRead
    <3> QED
      BY <2>1, <3>6, <3>8, <3>9 DEF Leads, Bookings
  <2> QED
    BY <2>3, <2>4
<1> QED
  BY <1>2, <1>3, <1>4, CallLeads DEF Ops, RInv

\* What a roll-back stores is sound
LEMMA RestoredIsSound ==
    ASSUME NEW now, Sound(now), NEW info, Sound(info), now.capacity = info.capacity,
           NEW undone, undone = RestoreUsage(now, info.usage), undone.ok
    PROVE  Sound(undone.info)
<1>1. info = [capacity |-> info.capacity, usage |-> info.usage] /\ IsInfo(info)
  BY DEF Sound, IsInfo
<1>2. undone = Put(now, info)
  BY <1>1, SnapshotsAreReplayed
<1> QED
  BY <1>1, <1>2, PutIsSound

\* So does a roll-back
LEMMA UndoLeads ==
    ASSUME RInv, SInv(Measures)', NEW result, Undo(result),
           result.ok => Leads(task.op, "undo", TRUE, task.before, task.next,
                              ReadIn(result.info), workload)
    PROVE  RInv'
<1>1. PICK ok \in BOOLEAN :
         Execute(result, ok) /\ task' = [task EXCEPT !.step = "undo", !.ok = ok]
  BY DEF Undo
<1>2. UNCHANGED <<member, workload, repair, ops>> /\ task # Nil /\ task.step = "call" /\ task.ok
  BY DEF Undo
<1>3. (etcd' = etcd \/ (result.ok /\ etcd' = result.info)) /\ (ok => result.ok /\ etcd' = result.info)
  BY <1>1 DEF Execute
<1>4. task = [op |-> task.op, step |-> task.step, ok |-> task.ok,
              before |-> task.before, next |-> task.next]
  BY <1>2 DEF RInv, SInv, IInv, TaskOk
<1>5. task' = [op |-> task.op, step |-> "undo", ok |-> ok, before |-> task.before, next |-> task.next]
  BY <1>1, <1>4
<1>6. PICK now : now = ReadIn(etcd')
  OBVIOUS
<1>7. GetOrEmpty' = now /\ GetOrEmpty = ReadIn(etcd)
  BY <1>6 DEF GetOrEmpty, ReadIn
<1>8. PICK op, before, next : op = task.op /\ before = task.before /\ next = task.next
  OBVIOUS
<1>9. Leads(op, "undo", ok, before, next, now, workload)
  <2>1. CASE result.ok /\ etcd' = result.info
    <3>1. Leads(op, "undo", TRUE, before, next, now, workload)
      BY <1>6, <1>8, <2>1
    <3> QED
      BY <3>1, LostLeads
  <2>2. CASE etcd' = etcd /\ ok = FALSE
    <3>1. now = GetOrEmpty
      BY <1>6, <1>7, <2>2
    <3>2. Leads(op, task.step, task.ok, before, next, now, workload)
      BY <1>2, <1>8, <3>1 DEF RInv, TaskLeads
    <3> QED
      BY <2>2, <3>2 DEF Leads
  <2> QED
    BY <1>3, <2>1, <2>2
<1>10. /\ task'.op = op /\ task'.step = "undo" /\ task'.ok = ok /\ task'.before = before
       /\ task'.next = next
  BY <1>5, <1>8
<1>11. Leads(task.op, task.step, task.ok, task.before, task.next, GetOrEmpty, workload)'
  BY <1>2, <1>7, <1>9, <1>10 DEF Leads, Tallies, Moved, HeldIn, Ids
<1>12. WorksFit(task.next)' /\ WorksFit(workload)'
  BY <1>2, <1>8, <1>10 DEF WorksFit, RInv, TaskLeads, Ids
<1> QED
  BY <1>11, <1>12 DEF RInv, TaskLeads

LEMMA RollBackLeads ==
    ASSUME RInv, SInv(Measures)', RollBack
    PROVE  RInv'
<1>1. PICK now : now = GetOrEmpty
  OBVIOUS
<1>2. PICK before : before = task.before
  OBVIOUS
<1>3. /\ task # Nil /\ task.step = "call" /\ task.ok /\ NoneIsApart /\ IInv
      /\ Proceeds(Measures, task)
      /\ Leads(task.op, task.step, task.ok, before, task.next, now, workload)
  BY <1>1, <1>2 DEF RollBack, UndoUsage, UndoCapacity, UndoAdd, Undo, RInv, SInv, TaskLeads
<1>4. Sound(now) /\ Sound(before)
  BY <1>1, <1>2, <1>3, ReadIsSound DEF IInv, TaskOk
<1>5. CASE UndoUsage
  <2>1. PICK result : result = RestoreUsage(now, before.usage)
    OBVIOUS
  <2>2. Undo(result) /\ task.op \in Bookings
    BY <1>1, <1>2, <1>5, <2>1 DEF UndoUsage
  <2>3. now.capacity = before.capacity
    BY <1>3, <2>2 DEF Leads
  <2>4. result.ok /\ result.info.capacity = before.capacity /\ Alike(result.info.usage, before.usage)
    BY <1>4, <2>1, <2>3, UsageIsRestored
  <2>5. \A m \in Measures : Amount(result.info.usage, m) = Amount(before.usage, m)
    BY <2>4, AlikeAmounts
  <2>6. Sound(result.info)
    BY <1>4, <2>1, <2>3, <2>4, RestoredIsSound
  <2>7. GrownWithin(before, result.info)
    <3>1. IsUsage(before.usage) /\ IsUsage(result.info.usage)
      BY <1>4, <2>6 DEF Sound, IsInfo
    <3>2. \A m \in Measures : Amount(result.info.usage, m) <= Amount(before.usage, m)
      BY <2>5, <3>1, AmountsAdd
    <3> QED
      BY <3>1, <3>2, SameIsWithin
  <2>8. ReadIn(result.info) = result.info
    BY <1>3, <2>6, RecordIsRead
  <2>9. SameAmounts(result.info.usage, before.usage)
    BY <2>5 DEF SameAmounts
  <2>10. Leads(task.op, "undo", TRUE, before, task.next, ReadIn(result.info), workload)
    BY <2>2, <2>4, <2>7, <2>8, <2>9 DEF Leads, Bookings
  <2> QED
    BY <1>2, <2>2, <2>10, UndoLeads
<1>6. CASE UndoCapacity
  <2>1. PICK result : result = RestoreCapacity(now, before.capacity)
    OBVIOUS
  <2>2. Undo(result) /\ task.op = "edit"
    BY <1>1, <1>2, <1>6, <2>1 DEF UndoCapacity
  <2>3. PICK next : next = [capacity |-> before.capacity, usage |-> now.usage]
    OBVIOUS
  <2>4. result = Put(now, next)
    BY <1>4, <2>1, <2>3, SnapshotsAreReplayed
  <2>5. IsInfo(next) /\ next.usage = now.usage
    BY <1>4, <2>3 DEF Sound, IsInfo
  <2>6. ASSUME result.ok
        PROVE  Leads(task.op, "undo", TRUE, before, task.next, ReadIn(result.info), workload)
    <3>1. PICK record : record = Put(now, next).info
      OBVIOUS
    <3>2. Put(now, next).ok /\ result.info = record
      BY <2>4, <2>6, <3>1
    <3>3. Sound(record) /\ Alike(record.usage, now.usage)
      BY <2>4, <2>5, <2>6, <3>1, <3>2, PutIsSound, PutKeepsUsage
    <3>4. ReadIn(result.info) = record
      BY <1>3, <3>2, <3>3, RecordIsRead
    <3>5. SameAmounts(now.usage, before.usage)
      BY <1>3, <2>2 DEF Leads
    <3>6. SameAmounts(record.usage, before.usage)
      BY <3>3, <3>5, AlikeAmounts DEF SameAmounts
    <3> QED
      BY <2>2, <3>4, <3>6 DEF Leads, Bookings
  <2> QED
    BY <1>2, <2>2, <2>6, UndoLeads
<1>7. CASE UndoAdd
  <2>1. Undo(Deleted) /\ task.op = "add"
    BY <1>7 DEF UndoAdd
  <2>2. before.usage = NoUsage
    BY <1>2, <1>3, <2>1 DEF Proceeds
  <2>3. ReadIn(Deleted.info) = EmptyInfo /\ EmptyInfo.usage = NoUsage
    BY DEF Deleted, ReadIn, EmptyInfo
  <2>4. SameAmounts(EmptyInfo.usage, before.usage)
    BY <2>2, <2>3 DEF SameAmounts
  <2>5. Leads(task.op, "undo", TRUE, before, task.next, ReadIn(Deleted.info), workload)
    BY <2>1, <2>3, <2>4 DEF Leads, Bookings
  <2> QED
    BY <1>2, <2>1, <2>5, UndoLeads
<1> QED
  BY <1>5, <1>6, <1>7 DEF RollBack

\* An operation's end
LEMMA EndLeads ==
    ASSUME RInv, SInv(Measures)', End
    PROVE  RInv'
<1>1. task' = Nil /\ (workload' = workload \/ workload' = task.next) /\ task # Nil
  BY DEF End, Commit, Abandon
<1>2. WorksFit(workload) /\ WorksFit(task.next)
  BY <1>1 DEF RInv, TaskLeads
<1>3. WorksFit(workload')
  BY <1>1, <1>2
<1> QED
  BY <1>1, <1>3 DEF RInv, TaskLeads, WorksFit, Ids

LEMMA NextLeads ==
    ASSUME DeploysAskForSpace, RInv, NoneUnseen, [Next]_vars
    PROVE  RInv'
<1>1. SInv(Measures)'
  BY NextBalances DEF RInv
<1>2. CASE Begin
  BY <1>1, <1>2, EnlistLeads, DelistLeads, EditLeads, BookingLeads DEF Begin
<1>3. CASE Fix \/ RollBack \/ End
  BY <1>1, <1>3, FixLeads, RollBackLeads, EndLeads
<1>4. CASE UNCHANGED vars
  BY <1>1, <1>4 DEF vars, RInv, TaskLeads, WorksFit, Leads, Tallies, Moved, HeldIn, GetOrEmpty, Ids
<1> QED
  BY <1>1, <1>2, <1>3, <1>4 DEF Next

LEMMA InitLeads ==
    ASSUME NoneIsApart, Init
    PROVE  RInv
<1>1. SInv(Measures) /\ task = Nil /\ \A id \in Ids : workload[id] = Nil
  BY InitBalances DEF Init
<1> QED
  BY <1>1 DEF RInv, TaskLeads, WorksFit

-----------------------------------------------------------------------------
(* The refinement.  Only the end of an operation is to be seen.            *)

\* The books and what they are made from have their types
BooksOK ==
    /\ Sound(Settled) /\ WorksOk(workload)
    /\ Offers \in [{1} -> [Kinds -> Int]]
    /\ Uses \in [{1} -> [Kinds -> Int]]
    /\ Holds \in [{1} -> [Kinds -> Int]]

LEMMA BooksType == IInv => BooksOK
<1> SUFFICES ASSUME IInv PROVE BooksOK
  OBVIOUS
<1>1. Sound(Settled)
  BY ReadIsSound DEF Settled, IInv, TaskOk
<1>2. IsCapacity(Settled.capacity) /\ IsUsage(Settled.usage) /\ IsUsage(Sum)
  BY <1>1, SumIsHeld DEF Sound, IsInfo
<1> QED
  BY <1>1, <1>2, AmountsType DEF BooksOK, Offers, Uses, Holds, IInv

LEMMA BooksTypeThen == IInv' => BooksOK'
BY BooksType, PTL

\* What is held is what the workloads hold
HoldsAreHeld == \A m \in Measures : Holds[1][m] = SumOver(HeldIn(workload, m), Ids)

LEMMA HeldIsSum == IInv => HoldsAreHeld
<1> SUFFICES ASSUME IInv PROVE HoldsAreHeld
  OBVIOUS
<1>1. Tallies(Measures, Sum, workload)
  BY SumIsHeld
<1> QED
  BY <1>1, AmountsAreUsage DEF Tallies, Holds, HoldsAreHeld

LEMMA HeldIsSumThen == IInv' => HoldsAreHeld'
BY HeldIsSum, PTL

\* Nothing happens to the books
LEMMA StutterStep ==
    ASSUME SameAmounts(Settled'.usage, Settled.usage), Settled'.capacity = Settled.capacity,
           workload' = workload, repair' = repair
    PROVE  UNCHANGED Ledger!ledger
<1>1. Sum' = Sum
  BY DEF Sum, Taken, Ids
<1>2. CapacityAmounts(Settled.capacity)' = CapacityAmounts(Settled.capacity)
  <2>1. CapacityAmounts(Settled'.capacity) = CapacityAmounts(Settled.capacity)
    OBVIOUS
  <2> QED
    BY <2>1
<1>3. UsageAmounts(Settled.usage)' = UsageAmounts(Settled.usage)
  <2>1. UsageAmounts(Settled'.usage) = UsageAmounts(Settled.usage)
    BY SameBooks
  <2> QED
    BY <2>1
<1>4. UsageAmounts(Sum)' = UsageAmounts(Sum)
  BY <1>1
<1> QED
  BY <1>2, <1>3, <1>4 DEF Ledger!ledger

\* A change of the capacity, and of nothing else, is a Declare
LEMMA DeclareStep ==
    ASSUME IInv, IInv', SameAmounts(Settled'.usage, Settled.usage),
           workload' = workload, repair' = repair
    PROVE  Ledger!Declare(1)
<1>1. Sum' = Sum
  BY DEF Sum, Taken, Ids
<1>2. UsageAmounts(Settled.usage)' = UsageAmounts(Settled.usage)
  <2>1. UsageAmounts(Settled'.usage) = UsageAmounts(Settled.usage)
    BY SameBooks
  <2> QED
    BY <2>1
<1>3. UsageAmounts(Sum)' = UsageAmounts(Sum)
  BY <1>1
<1>4. /\ CapacityAmounts(Settled.capacity) \in [{1} -> [Kinds -> Int]]
      /\ CapacityAmounts(Settled.capacity)' \in [{1} -> [Kinds -> Int]]
  BY BooksType, BooksTypeThen DEF BooksOK, Offers
<1> QED
  BY <1>2, <1>3, <1>4 DEF Ledger!Declare, Ledger!Only

\* What is shown of the node's usage and capacity, kind by kind
LEMMA ShownAmounts ==
    /\ \A m \in Measures : /\ UsageAmounts(Settled.usage)[1][m] = Amount(Settled.usage, m)
                           /\ CapacityAmounts(Settled.capacity)[1][m] = Offer(Settled.capacity, m)
    /\ \A m \in Measures : UsageAmounts(Settled.usage)'[1][m] = Amount(Settled'.usage, m)
<1>1. \A u : \A m \in Measures : UsageAmounts(u)[1][m] = Amount(u, m)
  BY AmountsAreUsage
<1>2. \A c : \A m \in Measures : CapacityAmounts(c)[1][m] = Offer(c, m)
  BY OffersAreCapacity
<1> QED
  BY <1>1, <1>2

LEMMA GrowthFits ==
    ASSUME GrownWithin(Settled, Settled')
    PROVE  Ledger!Fits(1)
<1>1. \A m \in Measures : /\ UsageAmounts(Settled.usage)[1][m] = Amount(Settled.usage, m)
                          /\ CapacityAmounts(Settled.capacity)[1][m] = Offer(Settled.capacity, m)
                          /\ UsageAmounts(Settled.usage)'[1][m] = Amount(Settled'.usage, m)
  BY ShownAmounts
<1>2. \A m \in Measures :
         Amount(Settled'.usage, m) > Amount(Settled.usage, m)
            => Amount(Settled'.usage, m) <= Offer(Settled.capacity, m)
  BY DEF GrownWithin
<1> QED
  BY <1>1, <1>2, KindsAreMeasures DEF Ledger!Fits

\* A booking that ends well is a Book
LEMMA BookStep ==
    ASSUME IInv, IInv', Settled'.capacity = Settled.capacity, GrownWithin(Settled, Settled'),
           Moved(Settled.usage, Settled'.usage, workload, workload'), repair' = repair
    PROVE  Ledger!Book(1)
<1>1. CapacityAmounts(Settled.capacity)' = CapacityAmounts(Settled.capacity)
  <2>1. CapacityAmounts(Settled'.capacity) = CapacityAmounts(Settled.capacity)
    OBVIOUS
  <2> QED
    BY <2>1
<1>2. /\ UsageAmounts(Settled.usage) \in [{1} -> [Kinds -> Int]]
      /\ UsageAmounts(Settled.usage)' \in [{1} -> [Kinds -> Int]]
      /\ UsageAmounts(Sum) \in [{1} -> [Kinds -> Int]]
      /\ UsageAmounts(Sum)' \in [{1} -> [Kinds -> Int]]
  BY BooksType, BooksTypeThen DEF BooksOK, Uses, Holds
<1>3. ASSUME NEW m \in Measures
      PROVE  UsageAmounts(Settled.usage)'[1][m] - UsageAmounts(Settled.usage)[1][m]
               = UsageAmounts(Sum)'[1][m] - UsageAmounts(Sum)[1][m]
  <2>1. /\ UsageAmounts(Settled.usage)[1][m] = Amount(Settled.usage, m)
        /\ UsageAmounts(Settled.usage)'[1][m] = Amount(Settled'.usage, m)
    BY ShownAmounts
  <2>2. UsageAmounts(Sum)[1][m] = SumOver(HeldIn(workload, m), Ids)
    BY HeldIsSum DEF HoldsAreHeld, Holds
  <2>3. UsageAmounts(Sum)'[1][m] = SumOver(HeldIn(workload', m), Ids)
    BY HeldIsSumThen DEF HoldsAreHeld, Holds, HeldIn, Ids
  <2>4. Amount(Settled'.usage, m) - Amount(Settled.usage, m)
          = SumOver(HeldIn(workload', m), Ids) - SumOver(HeldIn(workload, m), Ids)
    BY DEF Moved
  <2> QED
    BY <2>1, <2>2, <2>3, <2>4
<1>4. Ledger!Fits(1)
  BY GrowthFits
<1> QED
  BY <1>1, <1>2, <1>3, <1>4, KindsAreMeasures DEF Ledger!Book, Ledger!Only

\* A booking of which nobody knows whether it was written is a Doubt
LEMMA DoubtStep ==
    ASSUME IInv, IInv', Settled'.capacity = Settled.capacity, GrownWithin(Settled, Settled'),
           workload' = workload, repair' = TRUE
    PROVE  Ledger!Doubt(1)
<1>1. CapacityAmounts(Settled.capacity)' = CapacityAmounts(Settled.capacity)
  <2>1. CapacityAmounts(Settled'.capacity) = CapacityAmounts(Settled.capacity)
    OBVIOUS
  <2> QED
    BY <2>1
<1>2. UsageAmounts(Sum)' = UsageAmounts(Sum)
  <2>1. Sum' = Sum
    BY DEF Sum, Taken, Ids
  <2> QED
    BY <2>1
<1>3. /\ UsageAmounts(Settled.usage) \in [{1} -> [Kinds -> Int]]
      /\ UsageAmounts(Settled.usage)' \in [{1} -> [Kinds -> Int]]
  BY BooksType, BooksTypeThen DEF BooksOK, Uses
<1>4. Ledger!Fits(1)
  BY GrowthFits
<1> QED
  BY <1>1, <1>2, <1>3, <1>4 DEF Ledger!Doubt, Ledger!Only

\* A repair that writes what the workloads hold is a Recount
LEMMA RecountStep ==
    ASSUME IInv, IInv', Settled'.capacity = Settled.capacity,
           Tallies(Measures, Settled'.usage, workload),
           workload' = workload, repair, repair' \in BOOLEAN
    PROVE  Ledger!Recount(1)
<1>1. CapacityAmounts(Settled.capacity)' = CapacityAmounts(Settled.capacity)
  <2>1. CapacityAmounts(Settled'.capacity) = CapacityAmounts(Settled.capacity)
    OBVIOUS
  <2> QED
    BY <2>1
<1>2. UsageAmounts(Sum)' = UsageAmounts(Sum)
  <2>1. Sum' = Sum
    BY DEF Sum, Taken, Ids
  <2> QED
    BY <2>1
<1>3. UsageAmounts(Settled.usage)' = UsageAmounts(Sum)
  <2>1. SameAmounts(Settled'.usage, Sum)
    BY SumIsHeld DEF Tallies, SameAmounts
  <2>2. UsageAmounts(Settled'.usage) = UsageAmounts(Sum)
    BY <2>1, SameBooks
  <2> QED
    BY <2>2
<1>4. UsageAmounts(Settled.usage) \in [{1} -> [Kinds -> Int]] /\ UsageAmounts(Sum) \in [{1} -> [Kinds -> Int]]
  BY BooksType DEF BooksOK, Uses, Holds
<1>5. UsageAmounts(Sum) = [UsageAmounts(Settled.usage) EXCEPT ![1] = UsageAmounts(Sum)[1]]
  BY <1>4
<1> QED
  BY <1>1, <1>2, <1>3, <1>5 DEF Ledger!Recount

\* The end of a node is a Remove
LEMMA RemoveStep ==
    ASSUME IInv, IInv', Settled' = EmptyInfo, Live = {},
           workload' = workload, repair' \in {repair, FALSE}, repair \in BOOLEAN
    PROVE  Ledger!Remove(1)
<1> DEFINE none == [kind \in Kinds |-> 0]
<1>1. UsageAmounts(Sum)' = UsageAmounts(Sum)
  <2>1. Sum' = Sum
    BY DEF Sum, Taken, Ids
  <2> QED
    BY <2>1
<1>2. UsageAmounts(Sum) = [node \in {1} |-> none]
  <2>1. \A id \in Ids : workload[id] = Nil
    BY DEF Live
  <2>2. Tallies(Measures, NoUsage, workload)
    BY <2>1, NothingIsHeld
  <2>3. SameAmounts(Sum, NoUsage)
    BY <2>2, SumIsHeld DEF Tallies, SameAmounts
  <2>4. UsageAmounts(Sum) = UsageAmounts(NoUsage)
    BY <2>3, SameBooks
  <2> QED
    BY <2>4, EmptyBooks
<1>3. /\ CapacityAmounts(Settled.capacity)' = [node \in {1} |-> none]
      /\ UsageAmounts(Settled.usage)' = [node \in {1} |-> none]
  <2>1. Settled'.capacity = EmptyInfo.capacity /\ Settled'.usage = NoUsage
    BY DEF EmptyInfo
  <2>2. /\ CapacityAmounts(Settled'.capacity) = [node \in {1} |-> none]
        /\ UsageAmounts(Settled'.usage) = [node \in {1} |-> none]
    BY <2>1, EmptyBooks
  <2> QED
    BY <2>2
<1>4. /\ CapacityAmounts(Settled.capacity) \in [{1} -> [Kinds -> Int]]
      /\ UsageAmounts(Settled.usage) \in [{1} -> [Kinds -> Int]]
  BY BooksType DEF BooksOK, Offers, Uses
<1> HIDE DEF none
<1>5. /\ [node \in {1} |-> none] = [CapacityAmounts(Settled.capacity) EXCEPT ![1] = none]
      /\ [node \in {1} |-> none] = [UsageAmounts(Settled.usage) EXCEPT ![1] = none]
  BY <1>4
<1>6. UsageAmounts(Sum)[1] = none
  BY <1>2
<1>7. (IF repair' THEN {1} ELSE {})
        \in {IF repair THEN {1} ELSE {}, (IF repair THEN {1} ELSE {}) \ {1}}
  <2>1. (IF repair THEN {1} ELSE {}) \ {1} = {}
    OBVIOUS
  <2>2. CASE repair' = repair
    BY <2>2
  <2>3. CASE repair' = FALSE
    <3>1. (IF repair' THEN {1} ELSE {}) = {}
      BY <2>3
    <3> QED
      BY <2>1, <3>1
  <2> QED
    BY <2>2, <2>3
<1> QED
  BY <1>1, <1>3, <1>5, <1>6, <1>7 DEF Ledger!Remove, Ledger!Nothing, none

\* Begin and roll-back leave what is to be seen
LEMMA HiddenSteps ==
    ASSUME RInv, RInv', Begin \/ Fix \/ RollBack
    PROVE  UNCHANGED Ledger!ledger
<1>1. /\ task' # Nil /\ workload' = workload /\ repair' = repair
      /\ task'.before = Settled
  <2>1. NoneIsApart
    BY DEF RInv, SInv
  <2>2. ASSUME NEW op, NEW result, NEW next, Call(op, result, next)
        PROVE  /\ task' # Nil /\ workload' = workload /\ repair' = repair
               /\ task'.before = Settled
    <3>1. PICK before : before = GetOrEmpty
      OBVIOUS
    <3>2. PICK ok : task' = [op |-> op, step |-> "call", ok |-> ok, before |-> before, next |-> next]
      BY <2>2, <3>1 DEF Call
    <3>3. task' # Nil /\ task'.before = before
      BY <2>1, <3>2 DEF NoneIsApart
    <3> QED
      BY <2>2, <3>1, <3>3 DEF Call, Settled
  <2>3. ASSUME NEW result, Undo(result)
        PROVE  /\ task' # Nil /\ workload' = workload /\ repair' = repair
               /\ task'.before = Settled
    <3>1. task # Nil
      BY <2>3 DEF Undo
    <3>2. task = [op |-> task.op, step |-> task.step, ok |-> task.ok,
                  before |-> task.before, next |-> task.next]
      BY <3>1 DEF RInv, SInv, IInv, TaskOk
    <3>3. PICK ok : task' = [task EXCEPT !.step = "undo", !.ok = ok]
      BY <2>3 DEF Undo
    <3>4. task' = [op |-> task.op, step |-> "undo", ok |-> ok, before |-> task.before, next |-> task.next]
      BY <3>2, <3>3
    <3>5. task' # Nil /\ task'.before = task.before
      BY <2>1, <3>4 DEF NoneIsApart
    <3> QED
      BY <2>3, <3>1, <3>5 DEF Undo, Settled
  <2>4. (\E op, result, next : Call(op, result, next)) \/ (\E result : Undo(result))
    <3>1. Begin => \E op, result, next : Call(op, result, next)
      <4>1. Deploy => \E op, result, next : Call(op, result, next)
        BY DEF Deploy
      <4>2. Realloc => \E op, result, next : Call(op, result, next)
        BY DEF Realloc
      <4>3. Enlist \/ Delist \/ Edit \/ Discard => \E op, result, next : Call(op, result, next)
        BY DEF Enlist, Delist, Edit, Discard
      <4> QED
        BY <4>1, <4>2, <4>3 DEF Begin
    <3>2. Fix => \E op, result, next : Call(op, result, next)
      BY DEF Fix
    <3>3. RollBack => \E result : Undo(result)
      BY DEF RollBack, UndoUsage, UndoCapacity, UndoAdd
    <3> QED
      BY <3>1, <3>2, <3>3
  <2> QED
    BY <2>2, <2>3, <2>4
<1>2. Settled' = Settled
  BY <1>1 DEF Settled
<1> QED
  BY <1>1, <1>2, StutterStep DEF SameAmounts

\* An operation that ends well is a Declare, a Remove, a Recount or a Book
LEMMA CommitImplements ==
    ASSUME RInv, RInv', Commit
    PROVE  [Ledger!Next]_Ledger!ledger
<1>1. /\ task # Nil /\ task.step = "call" /\ task.ok /\ workload' = task.next
      /\ repair' = (repair /\ task.op \notin {"fix", "remove"}) /\ task' = Nil /\ etcd' = etcd
  BY DEF Commit
<1>2. /\ IInv /\ IInv' /\ Proceeds(Measures, task) /\ task.op \in Ops
      /\ repair \in BOOLEAN
  BY <1>1 DEF RInv, SInv, IInv, TaskOk, CountersOk
<1>3. Settled = task.before /\ Settled' = GetOrEmpty
  BY <1>1 DEF Settled, GetOrEmpty
<1>4. Leads(task.op, task.step, task.ok, Settled, task.next, Settled', workload)
  BY <1>1, <1>3 DEF RInv, TaskLeads
<1>5. CASE task.op \in Bookings
  <2>1. repair' = repair
    BY <1>1, <1>2, <1>5 DEF Bookings
  <2>2. Settled'.capacity = Settled.capacity /\ GrownWithin(Settled, Settled')
    BY <1>4, <1>5 DEF Leads
  <2>3. Moved(Settled.usage, Settled'.usage, workload, workload')
    BY <1>1, <1>4, <1>5 DEF Leads
  <2>4. Ledger!Book(1)
    BY <1>2, <2>1, <2>2, <2>3, BookStep
  <2> QED
    BY <2>4 DEF Ledger!Next
<1>6. ASSUME task.op \notin Bookings
      PROVE  workload' = workload
  BY <1>1, <1>2, <1>6 DEF Proceeds
<1>7. CASE task.op \in {"add", "edit"}
  <2>1. repair' = repair /\ workload' = workload
    BY <1>1, <1>2, <1>6, <1>7 DEF Bookings
  <2>2. SameAmounts(Settled'.usage, Settled.usage)
    BY <1>4, <1>7 DEF Leads
  <2>3. Ledger!Declare(1)
    BY <1>2, <2>1, <2>2, DeclareStep
  <2> QED
    BY <2>3 DEF Ledger!Next
<1>8. CASE task.op = "remove"
  <2>1. repair' = FALSE /\ workload' = workload
    BY <1>1, <1>6, <1>8 DEF Bookings
  <2>2. Live = {} /\ Settled' = EmptyInfo
    BY <1>1, <1>2, <1>3, <1>8 DEF Proceeds, GetOrEmpty
  <2>3. Ledger!Remove(1)
    BY <1>2, <2>1, <2>2, RemoveStep
  <2> QED
    BY <2>3 DEF Ledger!Next
<1>9. CASE task.op = "fix"
  <2>1. repair' = FALSE /\ repair /\ workload' = workload
    BY <1>1, <1>2, <1>6, <1>9 DEF Bookings, Proceeds
  <2>2. Tallies(Measures, Settled'.usage, workload)
    <3>1. Tallies(Measures, UsageIn(etcd), task.next) /\ task.next = workload
      BY <1>1, <1>2, <1>9, <2>1 DEF Proceeds
    <3> QED
      BY <1>3, <3>1, ReadUsage
  <2>3. Settled'.capacity = Settled.capacity
    BY <1>4, <1>9 DEF Leads
  <2>4. Ledger!Recount(1)
    BY <1>2, <2>1, <2>2, <2>3, RecountStep
  <2> QED
    BY <2>4 DEF Ledger!Next
<1> QED
  BY <1>2, <1>5, <1>7, <1>8, <1>9 DEF Ops, Bookings

\* One that does not is a Doubt, or what it was executed as
LEMMA AbandonImplements ==
    ASSUME RInv, RInv', Abandon
    PROVE  [Ledger!Next]_Ledger!ledger
<1>1. /\ task # Nil /\ (task.step = "undo" \/ ~task.ok) /\ workload' = workload
      /\ repair' = (repair \/ (task.op \in Bookings /\ ~task.ok)) /\ task' = Nil /\ etcd' = etcd
  BY DEF Abandon
<1>2. /\ IInv /\ IInv' /\ Proceeds(Measures, task) /\ task.op \in Ops /\ task.ok \in BOOLEAN
      /\ repair \in BOOLEAN
  BY <1>1 DEF RInv, SInv, IInv, TaskOk, CountersOk
<1>3. Settled = task.before /\ Settled' = GetOrEmpty
  BY <1>1 DEF Settled, GetOrEmpty
<1>4. Leads(task.op, task.step, task.ok, Settled, task.next, Settled', workload)
  BY <1>1, <1>3 DEF RInv, TaskLeads
<1>5. CASE task.op \in Bookings /\ ~task.ok
  <2>1. repair' = TRUE
    BY <1>1, <1>5
  <2>2. Settled'.capacity = Settled.capacity /\ GrownWithin(Settled, Settled')
    BY <1>4, <1>5 DEF Leads
  <2>3. Ledger!Doubt(1)
    BY <1>1, <1>2, <2>1, <2>2, DoubtStep
  <2> QED
    BY <2>3 DEF Ledger!Next
<1>6. CASE task.op \in Bookings /\ task.ok
  <2>1. repair' = repair
    BY <1>1, <1>2, <1>6
  <2>2. Settled'.capacity = Settled.capacity /\ SameAmounts(Settled'.usage, Settled.usage)
    BY <1>1, <1>4, <1>6 DEF Leads
  <2> QED
    BY <1>1, <2>1, <2>2, StutterStep
<1>7. ASSUME task.op \notin Bookings
      PROVE  repair' = repair
  BY <1>1, <1>2, <1>7
<1>8. CASE task.op \in {"add", "edit"}
  <2>1. repair' = repair
    BY <1>7, <1>8 DEF Bookings
  <2>2. SameAmounts(Settled'.usage, Settled.usage)
    BY <1>4, <1>8 DEF Leads
  <2>3. Ledger!Declare(1)
    BY <1>1, <1>2, <2>1, <2>2, DeclareStep
  <2> QED
    BY <2>3 DEF Ledger!Next
<1>9. CASE task.op = "remove"
  <2>1. repair' = repair
    BY <1>7, <1>9 DEF Bookings
  <2>2. CASE Settled' = Settled
    BY <1>1, <2>1, <2>2, StutterStep DEF SameAmounts
  <2>3. CASE Settled' = EmptyInfo
    <3>1. Live = {}
      BY <1>2, <1>9 DEF Proceeds
    <3>2. Ledger!Remove(1)
      BY <1>1, <1>2, <2>1, <2>3, <3>1, RemoveStep
    <3> QED
      BY <3>2 DEF Ledger!Next
  <2> QED
    BY <1>4, <1>9, <2>2, <2>3 DEF Leads
<1>10. CASE task.op = "fix"
  <2>1. repair' = repair /\ repair
    BY <1>2, <1>7, <1>10 DEF Bookings, Proceeds
  <2>2. Settled'.capacity = Settled.capacity
    BY <1>4, <1>10 DEF Leads
  <2>3. CASE SameAmounts(Settled'.usage, Settled.usage)
    BY <1>1, <2>1, <2>2, <2>3, StutterStep
  <2>4. CASE Tallies(Measures, Settled'.usage, workload)
    <3>1. Ledger!Recount(1)
      BY <1>1, <1>2, <2>1, <2>2, <2>4, RecountStep
    <3> QED
      BY <3>1 DEF Ledger!Next
  <2> QED
    BY <1>4, <1>10, <2>3, <2>4 DEF Leads
<1> QED
  BY <1>2, <1>5, <1>6, <1>8, <1>9, <1>10 DEF Ops, Bookings

\* Where nothing is recorded and no workload is, the ledger is empty
LEMMA InitIsLedger ==
    ASSUME Init
    PROVE  Ledger!Init
<1>1. /\ Settled.capacity = EmptyInfo.capacity /\ Settled.usage = NoUsage
      /\ (\A id \in Ids : workload[id] = Nil) /\ repair = FALSE
  BY DEF Init, Settled, GetOrEmpty, EmptyInfo
<1>2. UsageAmounts(Sum) = UsageAmounts(NoUsage)
  <2>1. Tallies(Measures, NoUsage, workload)
    BY <1>1, NothingIsHeld
  <2>2. SameAmounts(Sum, NoUsage)
    BY <2>1, InitIsIInv, SumIsHeld DEF Tallies, SameAmounts
  <2> QED
    BY <2>2, SameBooks
<1>3. /\ CapacityAmounts(Settled.capacity) = [node \in {1} |-> [kind \in Kinds |-> 0]]
      /\ UsageAmounts(Settled.usage) = [node \in {1} |-> [kind \in Kinds |-> 0]]
      /\ UsageAmounts(Sum) = [node \in {1} |-> [kind \in Kinds |-> 0]]
  BY <1>1, <1>2, EmptyBooks
<1> QED
  BY <1>1, <1>3 DEF Ledger!Init, Ledger!Nothing

\* Every step is one of the ledger or is not to be seen
LEMMA NextImplements ==
    ASSUME RInv, RInv', [Next]_vars
    PROVE  [Ledger!Next]_Ledger!ledger
<1>1. CASE Begin \/ Fix \/ RollBack
  BY <1>1, HiddenSteps
<1>2. CASE End
  BY <1>2, CommitImplements, AbandonImplements DEF End
<1>3. CASE UNCHANGED vars
  <2>1. Settled' = Settled /\ workload' = workload /\ repair' = repair
    BY <1>3 DEF vars, Settled, GetOrEmpty
  <2> QED
    BY <2>1, StutterStep DEF SameAmounts
<1> QED
  BY <1>1, <1>2, <1>3 DEF Next

\* Under core, with calls that fail or get lost, roll-backs, edits of the capacity
\* and repairs, the plugin keeps a ledger of the storage, of the size of each
\* volume and of the rates of each disk: what a deploy or a realloc takes, the
\* workloads get and the books show, and it fits; an edit leaves both alone; an
\* operation of which nobody knows whether it was written is repaired by counting
\* again.  No deploy asks for a volume of less than nothing, and no repair takes a
\* record for clean that has no usage of a disk its workloads use.
THEOREM ClusterImplementsLedger ==
    NoneIsApart /\ DeploysAskForSpace /\ Spec /\ []NoneUnseen => ImplementsLedger
<1> DEFINE Inv == DeploysAskForSpace /\ RInv
<1>1. NoneIsApart /\ DeploysAskForSpace /\ Init => Inv
  BY InitLeads
<1>2. Inv /\ NoneUnseen /\ [Next]_vars => Inv'
  BY NextLeads DEF DeploysAskForSpace
<1>3. Init => Ledger!Init
  BY InitIsLedger
<1>4. Inv /\ Inv' /\ [Next]_vars => [Ledger!Next]_Ledger!ledger
  BY NextImplements
<1> HIDE DEF Inv
<1> QED
  BY <1>1, <1>2, <1>3, <1>4, PTL DEF Spec, ImplementsLedger, Ledger!Spec

-----------------------------------------------------------------------------
(* Giving back.  No workload holds less than nothing of anything, so what   *)
(* one holds is no more than what all do, and that is what is used.         *)

\* A workload holds no storage, no space and no rates less than nothing
LEMMA HeldAmountsAreNat ==
    ASSUME NEW work, WorkOk(work), WorkFits(work), NEW m \in Measures
    PROVE  Amount(Held(work), m) \in Nat
<1> DEFINE held == Held(work)
<1>1. /\ held.storage = work.storage /\ held.volumes = PlannedVolumes(work.plan)
      /\ held.disks = work.disks
  BY DEF Held
<1> HIDE DEF held
<1>2. CASE m[1] = "storage"
  <2>1. Amount(held, m) = held.storage
    BY <1>2, MeasureKinds
  <2> QED
    BY <1>1, <2>1 DEF WorkOk, held
<1>3. CASE m[1] = "volume"
  <2>1. m[2] \in Devices /\ Amount(held, m) = held.volumes[m[2]]
    BY <1>3, MeasureKinds
  <2>2. held.volumes[m[2]] = Space(work.plan, m[2])
    BY <1>1, <2>1, SpaceIsPlanned
  <2> QED
    BY <2>1, <2>2, SpaceIsNat DEF WorkFits, WorkSized, held
<1>4. CASE m[1] = "disk"
  <2>1. PICK name \in DiskNames, rate \in Rates : Amount(held, m) = UsedOf(work.disks, name)[rate]
    BY <1>1, <1>4, MeasureKinds
  <2>2. UsedOf(work.disks, name)[rate] \in Nat
    <3>1. \A name1 \in DOMAIN work.disks : work.disks[name1] \in [Rates -> Nat]
      BY DEF WorkFits, Rated
    <3> QED
      BY <3>1 DEF UsedOf, NoIO
  <2> QED
    BY <2>1, <2>2 DEF held
<1> QED
  BY <1>2, <1>3, <1>4, MeasureKinds DEF held

LEMMA HeldIsReturnable ==
    ASSUME RInv, Free, NEW id \in Live
    PROVE  Returnable(Held(workload[id]), GetOrEmpty.usage)
<1> SUFFICES ASSUME NEW m \in Measures
             PROVE  /\ Amount(Held(workload[id]), m) \in Nat
                    /\ Amount(Held(workload[id]), m) <= Amount(GetOrEmpty.usage, m)
  BY DEF Returnable
<1>1. PICK g : g = HeldIn(workload, m)
  OBVIOUS
<1>2. id \in Ids /\ g[id] = Amount(Held(workload[id]), m)
  BY <1>1 DEF Live, HeldIn
<1>3. \A id1 \in Ids : g[id1] \in Nat
  <2> SUFFICES ASSUME NEW id1 \in Ids PROVE g[id1] \in Nat
    OBVIOUS
  <2>1. CASE workload[id1] = Nil
    BY <1>1, <2>1 DEF HeldIn
  <2>2. CASE workload[id1] # Nil
    <3>1. WorkOk(workload[id1]) /\ WorkFits(workload[id1])
      BY <2>2 DEF RInv, SInv, IInv, WorksOk, WorksFit
    <3>2. Amount(Held(workload[id1]), m) \in Nat
      BY <3>1, HeldAmountsAreNat
    <3> QED
      BY <1>1, <2>2, <3>2 DEF HeldIn
  <2> QED
    BY <2>1, <2>2
<1>4. Amount(GetOrEmpty.usage, m) = SumOver(g, Ids)
  <2>1. Amount(UsageIn(etcd), m) = SumOver(HeldIn(workload, m), Ids)
    BY DEF RInv, SInv, Balanced, Free, Tallies
  <2>2. GetOrEmpty.usage = UsageIn(etcd)
    BY DEF GetOrEmpty, UsageIn, EmptyInfo
  <2> QED
    BY <1>1, <2>1, <2>2
<1>5. IsFiniteSet(Ids)
  BY ClusterBoundsAssumption, FS_Interval DEF Ids
<1>6. SumOver(g, Ids) = g[id] + SumOver(g, Ids \ {id}) /\ SumOver(g, Ids \ {id}) \in Nat
  <2>1. Integral(g, Ids)
    BY <1>3, <1>5 DEF Integral
  <2> QED
    BY <1>2, <1>3, <1>5, <2>1, SumIsNat, SumSplits
<1> QED
  BY <1>2, <1>3, <1>4, <1>6

LEMMA ReturnsAreFit == RInv => ReturnsFit
<1> SUFFICES ASSUME RInv, Free, NEW id \in Live
             PROVE  Book(GetOrEmpty, <<Held(workload[id])>>, FALSE).ok
  BY DEF ReturnsFit
<1>1. Sound(GetOrEmpty)
  BY ReadIsSound DEF RInv, SInv, IInv
<1>2. WorkOk(workload[id])
  BY DEF RInv, SInv, IInv, WorksOk, Live
<1>3. IsUsage(Held(workload[id]))
  BY <1>2, HeldIsUsage
<1>4. Returnable(Held(workload[id]), GetOrEmpty.usage)
  BY HeldIsReturnable
<1> QED
  BY <1>1, <1>3, <1>4, GivenBackIsAccepted

\* Between operations whatever any workload holds can be given back: no edit of
\* the capacity, no lost answer, roll-back or repair leaves a record from which
\* SetNodeResourceUsage with Incr false refuses to take what core's remove gives
\* back.  No deploy asks for a volume of less than nothing, and no repair takes a
\* record for clean that has no usage of a disk its workloads use.
THEOREM ReturnsAreAccepted ==
    NoneIsApart /\ DeploysAskForSpace /\ Spec /\ []NoneUnseen => []ReturnsFit
<1> DEFINE Inv == DeploysAskForSpace /\ RInv
<1>1. NoneIsApart /\ DeploysAskForSpace /\ Init => Inv
  BY InitLeads
<1>2. Inv /\ NoneUnseen /\ [Next]_vars => Inv'
  BY NextLeads DEF DeploysAskForSpace
<1>3. Inv => ReturnsFit
  BY ReturnsAreFit
<1> HIDE DEF Inv
<1> QED
  BY <1>1, <1>2, <1>3, PTL DEF Spec
=============================================================================
