---------------------------- MODULE StorageBooks ----------------------------
(***************************************************************************)
(* One node and its workloads, each operation of core in one step: what    *)
(* calculate-deploy and calculate-realloc answer is booked under the       *)
(* node's lock.                                                            *)
(***************************************************************************)
EXTENDS StorageRecord

CONSTANTS
    NewCapacities,      \* what nodes are added with
    DeployRequests,     \* what users ask a workload to hold
    ReallocRequests,    \* what users ask to change about one
    MaxWorkloads,       \* bound: workloads at once
    MaxOps              \* bound: deploys and reallocs

ASSUME BooksBoundsAssumption == MaxWorkloads \in Nat /\ MaxOps \in Nat
\* A node is added with a capacity Put accepts.  A request names a volume once;
\* a deploy asks for no negative sizes and for one volume at a destination.
ASSUME BooksInputsAssumption ==
    /\ \A capacity \in NewCapacities :
          IsCapacity(capacity) /\ ValidInfo([capacity |-> capacity, usage |-> NoUsage])
    /\ \A req \in DeployRequests \cup ReallocRequests :
          /\ req \in Requests /\ IsFiniteSet(req.vbs)
          /\ \A vb \in req.vbs, vb1 \in req.vbs : GetMapKey(vb) = GetMapKey(vb1) => vb = vb1
    /\ \A req \in DeployRequests :
          /\ \A vb \in req.vbs : vb.size >= 0
          /\ \A vb \in req.vbs, vb1 \in req.vbs : vb.dest = vb1.dest => vb = vb1

\* Two conditions some theorems put on what is asked for.  A destination is asked
\* for with one flag, by whatever requests: VolumePlan.Merge goes by destination
\* alone, and a workload with both a monopoly and another binding at one would
\* get one entry for the two.
KindsAgree ==
    \A req \in DeployRequests \cup ReallocRequests, req1 \in DeployRequests \cup ReallocRequests :
        \A vb \in req.vbs, vb1 \in req1.vbs :
            RequireSchedule(vb) /\ RequireSchedule(vb1) /\ vb.dest = vb1.dest => vb.mono = vb1.mono

\* And a realloc that is not planned, as it places nothing and brings no rates,
\* does not ask mounts for less: the workload's disks are carried over.
MountsOnlyGrow ==
    \A req \in ReallocRequests :
        ~NeedSchedule(req.vbs) => \A vb \in req.vbs : vb.io = NoIO /\ vb.size >= 0

VARIABLES
    info,           \* the node's record
    workload,       \* workload id -> its resource, or Nil
    ops             \* deploys and reallocs so far

vars == <<info, workload, ops>>

Ids == 1..MaxWorkloads

Live == {id \in Ids : workload[id] # Nil}

\* Types.  Among them: no workload holds less than nothing of anything, which
\* no later realloc or return could repair.
BooksTypeOK ==
    /\ ops \in 0..MaxOps
    /\ info.usage.volumes \in [Devices -> Nat]
    /\ info.usage.storage \in Nat
    /\ DOMAIN info.usage.disks \subseteq DOMAIN info.capacity.disks
    /\ \A id \in Live :
          LET work == workload[id]
          IN  /\ work.storage \in Nat
              /\ \A vb \in work.vbs : vb.size \in Nat /\ Covers(vb.io, NoIO)
              /\ \A vb \in DOMAIN work.plan :
                    /\ work.plan[vb].device \in DOMAIN info.capacity.volumes
                    /\ work.plan[vb].size \in Nat

Init ==
    /\ \E capacity \in NewCapacities : info = [capacity |-> capacity, usage |-> NoUsage]
    /\ workload = [id \in Ids |-> Nil]
    /\ ops = 0

\* Each operation ends in a set of the usage that is not refused
Store(set) == set.ok /\ info' = set.info

\* Core gives a new workload an id that is free
NewIds == Ranked(Ids \ Live, LAMBDA a, b : a < b)

Enrolled(works, count) ==
    [id \in Ids |-> IF \E i \in 1..count : NewIds[i] = id
                    THEN works[CHOOSE i \in 1..count : NewIds[i] = id]
                    ELSE workload[id]]

Deploy ==
    \E req \in DeployRequests, count \in 1..MaxWorkloads :
        LET Try(deployed) ==
                /\ deployed.ok
                /\ Store(Book(info, HeldBy(deployed.works), TRUE))
                /\ workload' = Enrolled(deployed.works, count)
        IN  /\ ops < MaxOps /\ ops' = ops + 1
            /\ count <= Cardinality(Ids \ Live)
            /\ Try(Deployed(info, count, req))

Realloc ==
    \E id \in Live, req \in ReallocRequests :
        LET Try(target) ==
                /\ target.ok
                /\ Store(Book(info, <<ReallocDelta(workload[id], target.work)>>, TRUE))
                /\ workload' = [workload EXCEPT ![id] = target.work]
        IN  /\ ops < MaxOps /\ ops' = ops + 1
            /\ Try(Reallocated(info, workload[id], req))

Discard ==
    \E id \in Live :
        /\ Store(Book(info, <<Held(workload[id])>>, FALSE))
        /\ workload' = [workload EXCEPT ![id] = Nil]
        /\ UNCHANGED ops

Next == Deploy \/ Realloc \/ Discard

Spec == Init /\ [][Next]_vars

-----------------------------------------------------------------------------
(* Two computations of one thing.                                            *)

\* The count the capacity query makes without materializing plans is the
\* number of plans the planner returns for the same bound, on every record
\* (GetVolumeCapacity's comment).  Neither is called before Validate.
CountIsPlans ==
    \A req \in DeployRequests, count \in 1..MaxDeployCount : ValidBindings(req.vbs) =>
        GetVolumeCapacity(info, req.vbs, count) = Len(GetVolumePlans(info, req.vbs, count))

\* How often what is asked for goes into what there is
Times(space, asked) == IF asked = 0 THEN MaxInt ELSE space \div asked

\* How many bindings with rates io find place, if their devices have room for
\* Fit(device) of them each: each disk lets its devices have so many in all.
Room(h, devices, io, Fit(_)) ==
    LET On(name) == {device \in devices : GetDiskByPath(h.disks, device) = name}
        Quota(name) == IF name = NoDisk THEN IF io = NoIO THEN MaxInt ELSE 0
                       ELSE Min({Times(h.disks[name].io[rate], io[rate]) : rate \in Rates})
    IN  MapThenSumSet(LAMBDA name : Smaller(Quota(name), MapThenSumSet(Fit, On(name))),
                      DOMAIN h.disks \cup {NoDisk})

\* One binding, or one monopoly group, can be deployed as often as there is room
\* for it, counted device by device and disk by disk: opening devices in the
\* order of their sizes and filling the smallest first wastes nothing.
CapacityIsRoom ==
    \A req \in DeployRequests, count \in 1..MaxDeployCount :
        LET h       == NewHost(info)
            classes == ClassifyVolumeBindings(req.vbs)
            single  == Cardinality(req.vbs) = 1
            One(vb) == Room(h, DOMAIN h.free, vb.io,
                            LAMBDA device : Times(h.free[device], vb.size))
            Alone(total) == Room(h, ToSet(h.unused), total.io,
                                 LAMBDA device : IF h.free[device] >= total.size THEN 1 ELSE 0)
            Is(room) == GetVolumeCapacity(info, req.vbs, count) = Smaller(count, room)
        IN  /\ single /\ classes.normal # <<>> => Is(One(classes.normal[1]))
            /\ classes.mono # <<>> /\ Len(classes.mono) = Cardinality(req.vbs)
                 => Is(Alone(Group(classes.mono)))

\* The closed form for mounts leaves the host the loop of passes leaves, the
\* quota taken by the failing pass included, and finds as many passes
\* (applyMountPasses' comment).  It, too, is not called before Validate.
MountPassesAreTheLoop ==
    \A req \in DeployRequests, bound \in 1..MaxDeployCount \cup {MaxInt} :
        LET h      == NewHost(info)
            mount  == ClassifyVolumeBindings(req.vbs).mount
            closed == ApplyMountPasses(h, mount, bound)
            loop   == GetNormalPasses(h, <<>>, mount, bound)
        IN  ValidBindings(req.vbs) /\ AnyRequireIOPS(mount) =>
              /\ closed.host = loop.host
              /\ Repeat(closed.capacity, closed.disks) = [i \in DOMAIN loop.plans |->
                                                             loop.plans[i].disks]

-----------------------------------------------------------------------------
(* Plans and the record.                                                     *)

\* Whatever calculate-deploy answers can be booked: all its plans together
\* leave a record Put accepts, no volume, disk rate or storage overdrawn.
PlansFit ==
    \A req \in DeployRequests, count \in 1..MaxDeployCount :
        LET deployed == Deployed(info, count, req)
            booked   == Book(info, HeldBy(deployed.works), TRUE)
        IN  deployed.ok => /\ Len(deployed.works) = count
                           /\ booked.ok
                           /\ FreeStorage(booked.info) >= Smaller(0, FreeStorage(info))

\* What a workload has of a device, for some of its bindings
SpaceOf(work, vbs, device) ==
    SumFunction([vb \in {vb1 \in vbs \cap DOMAIN work.plan : work.plan[vb1].device = device} |->
                    work.plan[vb].size])

\* The monopoly bindings of a new workload are given all of one device that
\* nobody has any space on, whoever else is deployed with it.
MonopolyTakesAll ==
    \A req \in DeployRequests :
        LET works == Deployed(info, MaxWorkloads, req).works
            mono  == {vb \in req.vbs : RequireScheduleMonopoly(vb)}
            others == req.vbs \ mono
        IN  \A i \in DOMAIN works : \A vb \in mono :
              LET device == works[i].plan[vb].device
              IN  /\ SpaceOf(works[i], mono, device) = info.capacity.volumes[device]
                  /\ info.usage.volumes[device] = 0
                  /\ \A j \in DOMAIN works :
                        SpaceOf(works[j], IF j = i THEN others ELSE req.vbs, device) = 0

\* What get-nodes-deploy-capacity promises calculate-deploy delivers, though
\* the one plans for as many as there can be and the other for a few.  A request
\* Validate refuses is promised nothing.
PromiseKept ==
    \A req \in DeployRequests, count \in 1..MaxDeployCount :
        ValidRequest(req) /\ count <= DeployCapacity(info, req)
        => Deployed(info, count, req).ok

\* The converse: what can be deployed is reported as capacity.
CapacityIsMet ==
    \A req \in DeployRequests, count \in 1..MaxDeployCount :
        Deployed(info, count, req).ok => count <= DeployCapacity(info, req)

\* The delta of an accepted realloc can be booked.
ReallocsFit ==
    \A id \in Live, req \in ReallocRequests :
        LET target == Reallocated(info, workload[id], req)
        IN  target.ok => Book(info, <<ReallocDelta(workload[id], target.work)>>, TRUE).ok

-----------------------------------------------------------------------------
(* Realloc.                                                                  *)

\* A binding that matches one already placed in source, destination and flags
\* stays on its device (docs/storage.md, Realloc).
KeepsDevice ==
    \A id \in Live, req \in ReallocRequests :
        LET work   == workload[id]
            target == Reallocated(info, work, req)
        IN  target.ok =>
              \A vb \in target.work.vbs, old \in DOMAIN work.plan :
                  GetMapKey(vb) = GetMapKey(old) =>
                      /\ vb \in DOMAIN target.work.plan
                      /\ target.work.plan[vb].device = work.plan[old].device

\* Asking for nothing more of a binding, which plans the workload again, is
\* accepted even on a full node and changes nothing: what is given back is
\* what was taken.
NothingAskedNothingMoved ==
    \A id \in Live : \A vb \in workload[id].vbs :
        LET work   == workload[id]
            asked  == [vbs |-> {[vb EXCEPT !.size = 0, !.io = NoIO]}, storage |-> 0]
            target == Reallocated(info, work, asked)
        IN  target.ok /\ target.work = work

-----------------------------------------------------------------------------
(* What the workloads hold, after any sequence of operations.                *)

\* What a binding must be given.  The floats may lose a byte of a monopoly
\* binding's share of the device, even of a share that is no more than it asks.
Due(vb) == IF RequireScheduleMonopoly(vb) THEN vb.size - 1 ELSE vb.size

\* Every binding to be placed is, and is given what it must be; the monopoly
\* bindings of a workload have no less together than they ask for together.
AllPlaced ==
    \A id \in Live :
        LET work == workload[id]
            mono == {vb \in DOMAIN work.plan : RequireScheduleMonopoly(vb)}
        IN  /\ DOMAIN work.plan = {vb \in work.vbs : RequireSchedule(vb)}
            /\ \A vb \in DOMAIN work.plan : work.plan[vb].size >= Due(vb)
            /\ SumFunction([vb \in mono |-> work.plan[vb].size]) >= TotalSize(mono)

\* A monopoly binding has a device to itself for as long as it lives
\* (docs/storage.md, the table of kinds).
MonopolyIsAlone ==
    \A id \in Live :
        LET plan == workload[id].plan
        IN  \A vb \in DOMAIN plan : RequireScheduleMonopoly(vb) =>
              \A id1 \in Live : \A vb1 \in DOMAIN workload[id1].plan :
                  /\ workload[id1].plan[vb1].device = plan[vb].device
                  /\ workload[id1].plan[vb1].size > 0
                  => id1 = id /\ RequireScheduleMonopoly(vb1)

\* The disks a workload is charged for are those its bindings are on, with
\* the rates the bindings ask for.
DisksMatchPlan ==
    \A id \in Live :
        LET work == workload[id]
            PathOf(vb) == IF RequireSchedule(vb) THEN work.plan[vb].device ELSE vb.source
            On(name) == {vb \in work.vbs : GetDiskByPath(info.capacity.disks, PathOf(vb)) = name}
        IN  \A name \in DOMAIN info.capacity.disks, rate \in Rates :
              UsedOf(work.disks, name)[rate] = MapThenSumSet(LAMBDA vb : vb.io[rate], On(name))

\* A workload's storage covers the sizes of its volumes (docs/storage.md: a
\* flat byte budget, covering both scheduled volumes and plain disk usage).
StorageCoversVolumes ==
    \A id \in Live : workload[id].storage >= TotalSize(workload[id].vbs)
=============================================================================
