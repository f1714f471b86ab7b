--------------------------- MODULE StorageCluster ---------------------------
(***************************************************************************)
(* The storage plugin under core: one node, whose lock lets one operation  *)
(* of core at a time write its record.  Nothing comes in between a verb's  *)
(* read and its write, so that a verb is one step, and so are              *)
(* calculate-deploy or calculate-realloc, which only read, and the booking *)
(* of what they answer.                                                    *)
(*                                                                         *)
(* A call fails, its answer is lost, or another plugin fails after it and  *)
(* core replays the "before" snapshot; usage in doubt leaves a repair      *)
(* entry (docs/protocol.md).  What the lock is for is shown by GpuCluster: *)
(* the code around the verbs is the same.                                  *)
(***************************************************************************)
EXTENDS StorageRecord

CONSTANTS
    Absent,         \* no record in etcd
    NewNodes,       \* requests nodes are added with
    EngineStorage,  \* the storage the engine reports
    CapacityEdits,  \* what operators ask for: [req, delta, incr] of a set
    DeployRequests, \* what users ask a workload to hold
    ReallocRequests,\* what users ask to change about one
    MaxWorkloads,   \* bound: workloads at once
    MaxOps,         \* bound: edits, deploys and reallocs
    MaxFaults       \* bound: calls that fail or lose their answer

ASSUME ClusterBoundsAssumption ==
    /\ EngineStorage \in Nat
    /\ MaxWorkloads \in Nat /\ MaxOps \in Nat /\ MaxFaults \in Nat
\* A request names a volume once, and a deploy asks for no less than nothing
ASSUME ClusterInputsAssumption ==
    /\ \A req \in NewNodes : IsCapacityRequest(req)
    /\ \A edit \in CapacityEdits :
          IsCapacityRequest(edit.req) /\ edit.delta \in BOOLEAN /\ edit.incr \in BOOLEAN
    /\ \A req \in DeployRequests \cup ReallocRequests :
          /\ req \in Requests /\ IsFiniteSet(req.vbs)
          /\ \A vb \in req.vbs, vb1 \in req.vbs : GetMapKey(vb) = GetMapKey(vb1) => vb = vb1
    /\ \A req \in DeployRequests : Folded(req).storage >= 0

\* What the theorem about the ledger asks of them: not of one volume either
DeploysAskForSpace == \A req \in DeployRequests : \A vb \in req.vbs : vb.size >= 0

VARIABLES
    etcd,           \* the record of the node, or Absent
    member,         \* does core know the node
    workload,       \* workload id -> its resource, or Nil
    task,           \* the operation that holds the node's lock, or Nil
    repair,         \* has the node a repair entry
    ops,            \* edits, deploys and reallocs so far
    faults          \* faults so far

vars == <<etcd, member, workload, task, repair, ops, faults>>

Ids == 1..MaxWorkloads

Live == {id \in Ids : workload[id] # Nil}

\* A node without a record is read as an empty one
GetOrEmpty == IF etcd = Absent THEN EmptyInfo ELSE etcd

\* What each workload takes, nothing in the place of one that is not there
Taken(works) == [id \in Ids |-> IF works[id] = Nil THEN NoUsage ELSE Held(works[id])]

(***************************************************************************)
(* An operation: its last call was the verb itself or the roll-back of it, *)
(* and succeeded or not.  before is the record when the lock was taken,    *)
(* next the workloads if all goes well.                                    *)
(***************************************************************************)
Ops == {"add", "remove", "edit", "deploy", "realloc", "discard", "fix"}
Bookings == {"deploy", "realloc", "discard"}

\* Types.  Among them: every stored record passes Validate.
ClusterTypeOK ==
    /\ etcd # Absent => /\ ValidInfo(etcd)
                        /\ DOMAIN etcd.usage.disks \subseteq DOMAIN etcd.capacity.disks
    /\ member \in BOOLEAN /\ repair \in BOOLEAN
    /\ ops \in 0..MaxOps /\ faults \in 0..MaxFaults
    /\ \A id \in Live : workload[id].storage \in Nat
    /\ task # Nil => /\ task.op \in Ops /\ task.step \in {"call", "undo"}
                     /\ task.ok \in BOOLEAN

\* The node may predate the plugin: core knows it and the plugin does not
Init ==
    /\ etcd = Absent
    /\ member \in BOOLEAN
    /\ workload = [id \in Ids |-> Nil]
    /\ task = Nil
    /\ repair = FALSE
    /\ ops = 0
    /\ faults = 0

-----------------------------------------------------------------------------
(***************************************************************************)
(* A verb that would leave the record next is executed: it does and says   *)
(* so, or it fails, or it is lost before or after its write.               *)
(***************************************************************************)
Execute(result, ok) ==
    \/ /\ ok = result.ok
       /\ etcd' = IF result.ok THEN result.info ELSE etcd
       /\ UNCHANGED faults
    \/ /\ ~ok
       /\ faults < MaxFaults
       /\ faults' = faults + 1
       /\ \/ UNCHANGED etcd
          \/ result.ok /\ etcd' = result.info

Call(op, result, next) ==
    /\ task = Nil
    /\ \E ok \in BOOLEAN :
          /\ Execute(result, ok)
          /\ task' = [op |-> op, step |-> "call", ok |-> ok, before |-> GetOrEmpty,
                      next |-> next]
    /\ UNCHANGED <<member, workload, repair>>

\* One more of the operations that are bounded
Counted == ops < MaxOps /\ ops' = ops + 1

Deleted == [ok |-> TRUE, info |-> Absent]

Undo(result) ==
    /\ task # Nil /\ task.step = "call" /\ task.ok
    /\ \E ok \in BOOLEAN :
          /\ Execute(result, ok)
          /\ task' = [task EXCEPT !.step = "undo", !.ok = ok]
    /\ UNCHANGED <<member, workload, repair, ops>>

(* Nodes *)

Enlist ==
    \E req \in NewNodes :
        /\ ~member
        /\ Counted
        /\ Call("add", IF etcd = Absent THEN AddNode(req, EngineStorage) ELSE Failure(etcd),
                workload)

\* Core removes a node once no workload is left on it
Delist ==
    /\ member
    /\ Live = {}
    /\ Call("remove", Deleted, workload)
    /\ UNCHANGED ops

Edit ==
    \E edit \in CapacityEdits :
        /\ member
        /\ Counted
        /\ Call("edit",
                SetNodeResourceCapacity(GetOrEmpty, Nil, edit.req, edit.delta, edit.incr),
                workload)

(* Workloads *)

\* Core gives a new workload an id that is free
NewIds == Ranked(Ids \ Live, LAMBDA a, b : a < b)

Enrolled(works, count) ==
    [id \in Ids |-> IF \E i \in 1..count : NewIds[i] = id
                    THEN works[CHOOSE i \in 1..count : NewIds[i] = id]
                    ELSE workload[id]]

Deploy ==
    \E req \in DeployRequests, count \in 1..MaxWorkloads :
        LET Try(deployed) ==
                /\ deployed.ok
                /\ Call("deploy", Book(GetOrEmpty, HeldBy(deployed.works), TRUE),
                        Enrolled(deployed.works, count))
        IN  /\ member
            /\ Counted
            /\ count <= Cardinality(Ids \ Live)
            /\ Try(Deployed(GetOrEmpty, count, req))

Realloc ==
    \E id \in Live, req \in ReallocRequests :
        LET Delta(work) == <<ReallocDelta(workload[id], work)>>
            Try(target) ==
                /\ target.ok
                /\ Call("realloc", Book(GetOrEmpty, Delta(target.work), TRUE),
                        [workload EXCEPT ![id] = target.work])
        IN  /\ Counted
            /\ Try(Reallocated(GetOrEmpty, workload[id], req))

Discard ==
    \E id \in Live :
        /\ Call("discard", Book(GetOrEmpty, <<Held(workload[id])>>, FALSE),
                [workload EXCEPT ![id] = Nil])
        /\ UNCHANGED ops

(* Repair *)

Fix ==
    /\ repair
    /\ \E result \in {IF etcd = Absent THEN Failure(etcd)
                      ELSE FixNodeResource(etcd, Taken(workload))} :
          Call("fix", result, workload)
    /\ UNCHANGED ops

-----------------------------------------------------------------------------
(* The end of an operation *)

\* Every plugin succeeded
Commit ==
    /\ task # Nil /\ task.step = "call" /\ task.ok
    /\ workload' = task.next
    /\ member' = (task.op = "add" \/ (member /\ task.op # "remove"))
    /\ repair' = (repair /\ task.op \notin {"fix", "remove"})
    /\ task' = Nil
    /\ UNCHANGED <<etcd, ops, faults>>

\* Another one failed: put this one's snapshot back
UndoUsage ==
    /\ task # Nil /\ task.op \in Bookings
    /\ Undo(RestoreUsage(GetOrEmpty, task.before.usage))

UndoCapacity ==
    /\ task # Nil /\ task.op = "edit"
    /\ Undo(RestoreCapacity(GetOrEmpty, task.before.capacity))

UndoAdd ==
    /\ task # Nil /\ task.op = "add"
    /\ Undo(Deleted)

\* The call failed, or the roll-back came to its end: whether the usage is
\* what it was is known only if a roll-back succeeded
Abandon ==
    /\ task # Nil
    /\ task.step = "undo" \/ ~task.ok
    /\ repair' = (repair \/ (task.op \in Bookings /\ ~task.ok))
    /\ task' = Nil
    /\ UNCHANGED <<etcd, member, workload, ops, faults>>

-----------------------------------------------------------------------------
Begin == Enlist \/ Delist \/ Edit \/ Deploy \/ Realloc \/ Discard
RollBack == UndoUsage \/ UndoCapacity \/ UndoAdd
End == Commit \/ Abandon

Next == Begin \/ Fix \/ RollBack \/ End

Spec == Init /\ [][Next]_vars

\* Operations end, rolled back or not; a repair entry is replayed, whatever else
\* wants the lock
FairSpec == Spec /\ WF_vars(End) /\ SF_vars(Fix)

-----------------------------------------------------------------------------
(* Properties *)

Free == task = Nil /\ ~repair

Sum == TakeAll(NoUsage, Taken(workload), TRUE)

(***************************************************************************)
(* Between operations the stored usage is what the workloads hold of each  *)
(* volume, each disk and the storage, unless the node waits for a repair:  *)
(* also after its volumes and disks were taken away, moved or resized      *)
(* under the workloads (SetNodeResourceUsage, FixNodeResource, Validate).  *)
(***************************************************************************)
UsageIsHeld == Free => Alike(GetOrEmpty.usage, Sum)

(***************************************************************************)
(* Whatever a set has done, the replay of its snapshot is accepted and     *)
(* brings back the record it found, to the last volume and mount point;    *)
(* only usage of nothing, of a disk that was removed, may be gone          *)
(* (docs/storage.md: restores the capacity verbatim).                      *)
(***************************************************************************)
RollbackIsExact ==
    task # Nil /\ task.step = "call" /\ task.ok /\ task.op \in Bookings \cup {"edit"} =>
        LET undone == IF task.op = "edit"
                      THEN RestoreCapacity(etcd, task.before.capacity)
                      ELSE RestoreUsage(etcd, task.before.usage)
        IN  /\ undone.ok
            /\ undone.info.capacity = task.before.capacity
            /\ Alike(undone.info.usage, task.before.usage)

(***************************************************************************)
(* A workload can always be given back, whatever operators did to the      *)
(* volumes and disks it is on: no edit is accepted after which Validate    *)
(* refuses the record a discard leaves.                                    *)
(***************************************************************************)
ReturnsFit ==
    Free => \A id \in Live :
        Book(GetOrEmpty, <<Held(workload[id])>>, FALSE).ok

(***************************************************************************)
(* Every operation is one step of the ledger, the amounts being the size   *)
(* of each volume, the rates of each disk, and the storage.                *)
(***************************************************************************)
Kinds == {<<"storage">>} \cup ({"volume"} \X Devices) \cup ({"disk"} \X DiskNames \X Rates)

Amounts(storage, Size(_), Rate(_, _)) ==
    [node \in {1} |-> [kind \in Kinds |->
        CASE kind[1] = "storage" -> storage
          [] kind[1] = "volume"  -> Size(kind[2])
          [] kind[1] = "disk"    -> Rate(kind[2], kind[3])]]

CapacityAmounts(capacity) ==
    Amounts(capacity.storage, LAMBDA device : SizeOf(capacity.volumes, device),
            LAMBDA name, rate : QuotaOf(capacity.disks, name)[rate])

UsageAmounts(usage) ==
    Amounts(usage.storage, LAMBDA device : usage.volumes[device],
            LAMBDA name, rate : UsedOf(usage.disks, name)[rate])

Settled == IF task = Nil THEN GetOrEmpty ELSE task.before

Ledger == INSTANCE NodeLedger WITH
    Nodes    <- {1},
    capacity <- CapacityAmounts(Settled.capacity),
    usage    <- UsageAmounts(Settled.usage),
    held     <- UsageAmounts(Sum),
    doubt    <- IF repair THEN {1} ELSE {}

\* What a deploy or a realloc takes, the workloads get and the books show, and
\* it fits; an edit leaves both alone; what may have gone wrong is repaired by
\* counting again (calculate-deploy, calculate-realloc and the sets of usage
\* and capacity, with their roll-backs).
ImplementsLedger == Ledger!Spec

(***************************************************************************)
(* A repair comes to its end, if the record can take what the workloads    *)
(* hold: it cannot, and the repair is refused for ever, where operators    *)
(* have taken capacity away while the usage was too low.                   *)
(***************************************************************************)
Repairable == etcd # Absent /\ ValidInfo([etcd EXCEPT !.usage = Sum])

RepairEnds == (repair /\ Repairable) ~> (~repair \/ ~Repairable)

\* The storage of a node covers the sizes of its volumes (docs/storage.md:
\* "the total volume size is added to it").
CapacityCoversVolumes ==
    GetOrEmpty.capacity.storage >= TotalOf(GetOrEmpty.capacity.volumes)
=============================================================================
