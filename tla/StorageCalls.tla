---------------------------- MODULE StorageCalls ----------------------------
(***************************************************************************)
(* The storage plugin called by anybody, with any request: what the verbs  *)
(* owe each other on whatever record a sequence of calls has left.         *)
(* StorageCluster has core call them in its own order, and GpuCalls what   *)
(* calls do to each other that overlap: the code around the verbs is the   *)
(* same.  Here a call is one step.                                         *)
(***************************************************************************)
EXTENDS StorageRecord

CONSTANTS
    Absent,         \* no record in etcd
    NewNodes,       \* requests nodes are added with
    EngineStorage,  \* the storage the engine reports
    Edits,          \* capacities to set: [resource, req, delta, incr]
    Bookings,       \* what workloads take: sequences of usages
    UsageRequests,  \* usage an operator types
    NewInfos,       \* records to be set as a whole
    MaxCalls        \* bound: calls that succeed

ASSUME CallBoundsAssumption == EngineStorage \in Nat /\ MaxCalls \in Nat
ASSUME CallInputsAssumption ==
    /\ \A req \in NewNodes \cup UsageRequests : IsCapacityRequest(req)
    /\ \A edit \in Edits :
          /\ edit = [resource |-> edit.resource, req |-> edit.req,
                      delta |-> edit.delta, incr |-> edit.incr]
          /\ edit.resource = Nil \/ IsCapacity(edit.resource)
          /\ edit.req = Nil \/ IsCapacityRequest(edit.req)
          /\ edit.delta \in BOOLEAN /\ edit.incr \in BOOLEAN
    /\ \A taken \in Bookings :
          /\ Len(taken) \in Nat /\ DOMAIN taken = 1..Len(taken)
          /\ \A i \in DOMAIN taken : IsUsage(taken[i])
    /\ \A info \in NewInfos : IsInfo(info)

VARIABLES
    etcd,           \* the record of the node, or Absent
    snapshots,      \* records there have been: what set answers as before
    calls           \* calls so far

vars == <<etcd, snapshots, calls>>

GetOrEmpty == IF etcd = Absent THEN EmptyInfo ELSE etcd

\* Every stored record passes Validate and counts only disks it has
StoredValid ==
    /\ \A info \in snapshots : /\ IsInfo(info) /\ ValidInfo(info)
                            /\ DOMAIN info.usage.disks \subseteq DOMAIN info.capacity.disks
    /\ etcd = Absent \/ etcd \in snapshots
    /\ calls \in 0..MaxCalls

Init ==
    /\ etcd = Absent
    /\ snapshots = {EmptyInfo}
    /\ calls = 0

-----------------------------------------------------------------------------
\* A call succeeds and leaves a record; one that fails leaves all as it was
Call(result) ==
    /\ calls < MaxCalls
    /\ result.ok
    /\ etcd' = result.info
    /\ snapshots' = snapshots \cup {result.info}
    /\ calls' = calls + 1

AddANode ==
    /\ etcd = Absent                                    \* CheckAbsent
    /\ \E req \in NewNodes : Call(AddNode(req, EngineStorage))

RemoveNode ==
    /\ calls < MaxCalls
    /\ etcd' = Absent
    /\ calls' = calls + 1
    /\ UNCHANGED snapshots

SetCapacity(info, edit) ==
    SetNodeResourceCapacity(info, edit.resource, edit.req, edit.delta, edit.incr)

SetACapacity == \E edit \in Edits : Call(SetCapacity(GetOrEmpty, edit))

SetAnInfo ==
    \E info \in NewInfos : Call(SetNodeResourceInfo(GetOrEmpty, info.capacity, info.usage))

SetAUsage ==
    \E delta \in BOOLEAN, incr \in BOOLEAN :
        \/ \E taken \in Bookings :
              Call(SetNodeResourceUsage(GetOrEmpty, Nil, Nil, taken, delta, incr))
        \/ \E req \in UsageRequests :
              Call(SetNodeResourceUsage(GetOrEmpty, Nil, req, <<>>, delta, incr))

FixANode ==
    /\ etcd # Absent
    /\ \E taken \in Bookings : Call(FixNodeResource(etcd, taken))

Next == AddANode \/ RemoveNode \/ SetACapacity \/ SetAnInfo \/ SetAUsage \/ FixANode

Spec == Init /\ [][Next]_vars

-----------------------------------------------------------------------------
(* Properties *)

\* A snapshot put back over any later record, or none, is refused or restored
\* verbatim: nothing of what is stored by then shows through, no volume counts
\* as storage again (docs/storage.md: restores the capacity verbatim).
SnapshotsRestore ==
    \A info \in snapshots :
        LET capacity == RestoreCapacity(GetOrEmpty, info.capacity)
            usage == RestoreUsage(GetOrEmpty, info.usage)
        IN  /\ capacity.ok => /\ capacity.info.capacity = info.capacity
                              /\ Alike(capacity.info.usage, GetOrEmpty.usage)
            /\ usage.ok => /\ usage.info.capacity = GetOrEmpty.capacity
                           /\ Alike(usage.info.usage, info.usage)

\* An absolute set whose answer was lost may be sent again: it is accepted and
\* changes nothing, though the second time keys that are left out stand for
\* what the first one stored (SkipEmpty).
RetryIsHarmless ==
    \A edit \in {e \in Edits : ~e.delta} :
        LET first  == SetCapacity(GetOrEmpty, edit)
            second == SetCapacity(first.info, edit)
        IN  first.ok => second.ok /\ second.info = first.info

\* What was added is taken away again by the same request, to the byte, and
\* never refused, whatever volumes and disks it created
\* (NodeResource.Add, Sub, RemoveEmpty).
DeltaIsUndone ==
    \A edit \in {e \in Edits : e.delta /\ e.incr} :
        LET more == SetCapacity(GetOrEmpty, edit)
            less == SetCapacity(more.info, [edit EXCEPT !.incr = FALSE])
            Same(was, is) ==
                /\ is.storage = was.storage
                /\ \A device \in Devices :
                      SizeOf(is.volumes, device) = SizeOf(was.volumes, device)
                /\ \A name \in DiskNames :
                      QuotaOf(is.disks, name) = QuotaOf(was.disks, name)
        IN  more.ok => less.ok /\ Same(GetOrEmpty.capacity, less.info.capacity)
=============================================================================
