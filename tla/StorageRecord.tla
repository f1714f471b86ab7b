--------------------------- MODULE StorageRecord ---------------------------
(***************************************************************************)
(* What the verbs of the storage plugin make of a node's record            *)
(* (storage/node.go, storage/types/node.go).  A verb that writes reads the *)
(* record once and puts it back once; here it maps the record it reads to  *)
(* [ok, info]: whether it succeeds, and the record it leaves.              *)
(***************************************************************************)
EXTENDS StorageNode

CONSTANTS
    Nil,            \* an argument core left out of the call
    Unset           \* a key an operator left out of a request

(***************************************************************************)
(* A resource_request about a node's capacity: what an operator typed, or  *)
(* a capacity in its stored form.  A disk an operator types has a mount    *)
(* point; the sizes and rates in a request are not negative.               *)
(***************************************************************************)
CapacityRequestsOn(devices, names) ==
    [form : {"typed"}, volumes : [devices -> Nat] \cup {Unset}, storage : Nat \cup {Unset},
     disks : [names -> DiskCapacity] \cup {Unset}, rm : SUBSET DiskNames]
    \cup [form : {"stored"}, volumes : [devices -> Nat], storage : Nat,
          disks : [names -> DiskCapacity], rm : {{}}]

IsCapacityRequest(req) ==
    \E devices \in SUBSET Devices, names \in SUBSET DiskNames :
        req \in CapacityRequestsOn(devices, names)

ASSUME LeftOutAssumption ==
    \A devices \in SUBSET Devices, names \in SUBSET DiskNames :
        Nil \notin CapacityRequestsOn(devices, names) \cup UsagesOn(names)

Stored(capacity) ==
    [form |-> "stored", volumes |-> capacity.volumes, storage |-> capacity.storage,
     disks |-> capacity.disks, rm |-> {}]

NoCapacity == [volumes |-> [device \in {} |-> 0], disks |-> [name \in {} |-> NoIO],
               storage |-> 0]
EmptyInfo == [capacity |-> NoCapacity, usage |-> NoUsage]

Or(value, default) == IF value = Unset THEN default ELSE value

TotalOf(volumes) == SumFunction(volumes)

\* Usage of a disk without an entry is none
Alike(usage, usage1) ==
    /\ usage.volumes = usage1.volumes
    /\ usage.storage = usage1.storage
    /\ \A name \in DiskNames : UsedOf(usage.disks, name) = UsedOf(usage1.disks, name)

-----------------------------------------------------------------------------
(* A capacity and a change to it *)

SizeOf(volumes, device) == IF device \in DOMAIN volumes THEN volumes[device] ELSE 0
QuotaOf(disks, name) == IF name \in DOMAIN disks THEN disks[name].io ELSE NoIO

\* NodeResource.Add and Sub, where plus is 1 and -1.  The mount points of the
\* change replace those of the disk, if it has any.
Changed(capacity, change, plus) ==
    LET volumes == DOMAIN capacity.volumes \cup DOMAIN change.volumes
        old == capacity.disks
        new == change.disks
        Mounts(name) ==
            IF name \in DOMAIN old /\ (name \notin DOMAIN new \/ new[name].mounts = {})
            THEN old[name].mounts ELSE new[name].mounts
        Rate(name, rate) == QuotaOf(old, name)[rate] + plus * QuotaOf(new, name)[rate]
    IN  [volumes |-> [device \in volumes |-> SizeOf(capacity.volumes, device)
                                            + plus * SizeOf(change.volumes, device)],
         disks   |-> [name \in DOMAIN old \cup DOMAIN new |->
                        [mounts |-> Mounts(name),
                         io     |-> [rate \in Rates |-> Rate(name, rate)]]],
         storage |-> capacity.storage + plus * change.storage]

RemoveEmpty(capacity) ==
    LET kept == {device \in DOMAIN capacity.volumes : capacity.volumes[device] # 0}
    IN  [capacity EXCEPT !.volumes = Restrict(@, kept)]

\* NodeResourceRequest.Parse: the volumes count as storage, too
Parsed(req) ==
    LET volumes == Or(req.volumes, NoCapacity.volumes)
    IN  [volumes |-> volumes, disks |-> Or(req.disks, NoCapacity.disks),
         storage |-> Or(req.storage, 0) + TotalOf(volumes)]

\* Faulty variant: the volumes there were go on counting as storage
SkipEmptyOnTop(req, capacity) ==
    [volumes |-> Or(req.volumes, capacity.volumes), disks |-> Or(req.disks, capacity.disks),
     storage |-> IF req.storage # Unset THEN Parsed(req).storage
                 ELSE IF req.volumes = Unset THEN capacity.storage
                 ELSE capacity.storage + TotalOf(req.volumes)]

\* What an absolute set takes the place of the keys that are left out
SkipEmpty(req, capacity) ==
    [volumes |-> Or(req.volumes, capacity.volumes),
     disks   |-> Or(req.disks, capacity.disks),
     storage |-> IF req.storage # Unset THEN Parsed(req).storage
                 ELSE IF req.volumes = Unset THEN capacity.storage
                 ELSE capacity.storage - TotalOf(capacity.volumes) + TotalOf(req.volumes)]

(***************************************************************************)
(* Core rolls back: the request has every key in the form it is stored in. *)
(* What was typed does not parse as that, but where it has no volumes and  *)
(* no disks and asks for the same either way.                              *)
(***************************************************************************)
\* Faulty variant: the snapshot is taken for what an operator types
NeverRollback(resource, req, delta, incr) == FALSE

IsRollback(resource, req, delta, incr) ==
    resource = Nil /\ ~delta /\ ~incr /\ req.form = "stored"

WithoutDisks(capacity, req) ==
    [capacity EXCEPT !.disks = Restrict(@, DOMAIN @ \ req.rm)]

\* Faulty variant: incr is overruled whether delta is set or not
RewrittenUp(origin, change, delta, incr) ==
    Changed(IF delta THEN origin ELSE NoCapacity, change, 1)

\* calculateNodeResource: an absolute set adds to nothing, whatever incr says
Rewritten(origin, change, delta, incr) ==
    Changed(IF delta THEN origin ELSE NoCapacity, change, IF incr \/ ~delta THEN 1 ELSE -1)

\* What is to be applied to the capacity: the request wins over the resource
Asked(origin, resource, req, delta, incr) ==
    IF req = Nil THEN IF resource = Nil THEN NoCapacity ELSE resource
    ELSE IF IsRollback(resource, req, delta, incr) THEN req
    ELSE IF delta THEN Parsed(req) ELSE SkipEmpty(req, origin)

NextCapacity(capacity, resource, req, delta, incr) ==
    LET origin == IF req = Nil THEN capacity ELSE WithoutDisks(capacity, req)
        next   == Rewritten(origin, Asked(origin, resource, req, delta, incr), delta, incr)
    IN  IF delta THEN RemoveEmpty(next) ELSE next

-----------------------------------------------------------------------------
(* The verbs that write *)

Failure(info) == [ok |-> FALSE, info |-> info]

\* Faulty variant: nothing is validated
PutUnchecked(info, next) == [ok |-> TRUE, info |-> Normalized(next)]

\* Store.Put: validated, and without usage of disks that are gone
Put(info, next) ==
    IF ValidInfo(next) THEN [ok |-> TRUE, info |-> Normalized(next)] ELSE Failure(info)

\* With no volumes and no storage the node gets 80% of what its engine reports
AddNode(req, storageTotal) ==
    LET parsed == Parsed(req)
        storage == IF parsed.storage = 0 THEN (storageTotal * 8) \div 10 ELSE parsed.storage
    IN  Put(EmptyInfo, [EmptyInfo EXCEPT !.capacity = [parsed EXCEPT !.storage = storage]])

SetNodeResourceCapacity(info, resource, req, delta, incr) ==
    IF req # Nil /\ req.rm # {} /\ delta THEN Failure(info)
    ELSE Put(info, [info EXCEPT !.capacity = NextCapacity(@, resource, req, delta, incr)])

SetNodeResourceInfo(info, capacity, usage) ==
    Put(info, [capacity |-> [capacity EXCEPT !.storage = @ + TotalOf(capacity.volumes)],
               usage |-> usage])

\* The workload resources core passes, each by what it takes of the node
TakeAll(usage, taken, plus) ==
    LET Take(u, u1) == IF plus THEN AddUsage(u, u1) ELSE SubUsage(u, u1)
    IN  FoldLeft(Take, usage, taken)

\* What a request asks for, as usage: its mount points do not count
AskedUsage(parsed) ==
    [volumes |-> [device \in Devices |-> SizeOf(parsed.volumes, device)],
     disks   |-> [name \in DOMAIN parsed.disks |-> parsed.disks[name].io],
     storage |-> parsed.storage]

\* The request wins over the resource, as core's roll-back passes it, and that
\* over the workloads
Charged(resource, req, taken) ==
    IF req # Nil THEN <<AskedUsage(Parsed(req))>>
    ELSE IF resource # Nil THEN <<resource>> ELSE taken

\* Faulty variant: a roll-back adds to what is stored
UsageOnTop(usage, resource, req, taken, delta, incr) ==
    TakeAll(usage, Charged(resource, req, taken), incr \/ ~delta)

NextUsage(usage, resource, req, taken, delta, incr) ==
    TakeAll(IF delta THEN usage ELSE NoUsage, Charged(resource, req, taken), incr \/ ~delta)

SetNodeResourceUsage(info, resource, req, taken, delta, incr) ==
    Put(info, [info EXCEPT !.usage = NextUsage(@, resource, req, taken, delta, incr)])

(***************************************************************************)
(* What core makes of the two sets: it books by delta what workloads take  *)
(* or give back, and puts a "before" snapshot back by an absolute set, a   *)
(* usage as resource, a capacity as resource_request (docs/protocol.md).   *)
(***************************************************************************)
Book(info, taken, incr) == SetNodeResourceUsage(info, Nil, Nil, taken, TRUE, incr)

RestoreUsage(info, usage) == SetNodeResourceUsage(info, usage, Nil, <<>>, FALSE, FALSE)

RestoreCapacity(info, capacity) ==
    SetNodeResourceCapacity(info, Nil, Stored(capacity), FALSE, FALSE)

-----------------------------------------------------------------------------
(* get-node-resource-info and fix-node-resource *)

\* Volumes of either side are compared, but only the disks of the stored usage
Diffs(usage, sum) ==
    [storage |-> usage.storage # sum.storage,
     volumes |-> {device \in Devices : usage.volumes[device] # sum.volumes[device]},
     disks   |-> {name \in DOMAIN usage.disks :
                    usage.disks[name] # UsedOf(sum.disks, name)}]

NoDiffs == [storage |-> FALSE, volumes |-> {}, disks |-> {}]

\* Faulty variant: a repair with nothing to repair fails
FixFailsWhenClean(info, taken) ==
    LET sum == TakeAll(NoUsage, taken, TRUE)
    IN  IF Diffs(info.usage, sum) = NoDiffs THEN Failure(info)
        ELSE Put(info, [info EXCEPT !.usage = sum])

FixNodeResource(info, taken) ==
    LET sum == TakeAll(NoUsage, taken, TRUE)
    IN  IF Diffs(info.usage, sum) = NoDiffs THEN [ok |-> TRUE, info |-> info]
        ELSE Put(info, [info EXCEPT !.usage = sum])
=============================================================================
