--------------------------- MODULE StorageLimits ---------------------------
(***************************************************************************)
(* What a workload may use beside what it is promised: requests and limits *)
(* are two lists of the same bindings, planned on the requests alone       *)
(* (storage/calculate.go, storage/utils.go, storage/types/workload.go).    *)
(* From the limits and the plan come the volumes its container is created  *)
(* with and whether a realloc has to create it again.                      *)
(*                                                                         *)
(* One node; core's operations one after the other, as in StorageBooks.    *)
(***************************************************************************)
EXTENDS StorageNode

CONSTANTS
    Nil,
    NewCapacities,      \* what nodes are added with
    DeployRequests,     \* what users ask a workload to hold
    ReallocRequests,    \* what users ask to change about one
    MaxWorkloads,       \* bound: workloads at once
    MaxOps              \* bound: deploys and reallocs

VARIABLES
    info,           \* the node's record
    workload,       \* workload id -> its resource, or Nil
    container,      \* workload id -> what its container was created with, or Nil
    ops             \* deploys and reallocs so far

vars == <<info, workload, container, ops>>

Ids == 1..MaxWorkloads

Live == {id \in Ids : workload[id] # Nil}

-----------------------------------------------------------------------------
(* Requests and limits: [vbs, limits, storage, storageLimit] *)

\* Parse: volumes alone are requests as well as limits
Parsed(req) == IF req.vbs = {} THEN [req EXCEPT !.vbs = req.limits] ELSE req

Keys(vbs) == {GetMapKey(vb) : vb \in vbs}

Of(vbs, vb) == CHOOSE vb1 \in vbs : GetMapKey(vb1) = GetMapKey(vb)

\* A size of a limit is raised to the request's, but for a size of 0
Raised(limit, vb) ==
    [limit EXCEPT !.size = IF vb.size > 0 /\ @ > 0 THEN Larger(@, vb.size) ELSE @,
                  !.io = [rate \in Rates |-> Larger(@[rate], vb.io[rate])]]

\* Validate accepts
Valid(req) ==
    /\ Keys(req.vbs) = Keys(req.limits)
    /\ ValidBindings(req.vbs) /\ ValidBindings(req.limits)
    /\ req.storage >= 0 /\ req.storageLimit >= 0

\* What Validate makes of them; a request of 0 is none, and the limit is taken
Validated(req) ==
    LET storage == IF req.storage = 0 THEN req.storageLimit ELSE req.storage
    IN  [vbs |-> req.vbs,
         limits |-> {Raised(limit, Of(req.vbs, limit)) : limit \in req.limits},
         storage |-> storage,
         storageLimit |-> IF req.storageLimit > 0 THEN Larger(req.storageLimit, storage) ELSE 0]

\* getVolumePlanLimit
PlanLimit(vbs, limits, plan) ==
    LET Planned(limit) == RequireSchedule(limit) /\ GetMapKey(limit) \in Keys(DOMAIN plan)
        Place(limit)   == plan[Of(DOMAIN plan, limit)]
    IN  [limit \in {vb \in limits : Planned(vb)} |->
            [Place(limit) EXCEPT !.size = @ + limit.size - Of(vbs, limit).size]]

\* Faulty variant: the disks of mounts are not looked for
DisksLimitOfPlan(limits, planLimit, disks) ==
    LET on == {<<limit, GetDiskByPath(disks, planLimit[limit].device)>> :
                  limit \in {vb \in DOMAIN planLimit : RequireIOPS(vb)}}
    IN  [name \in {use[2] : use \in on} \ {NoDisk} |->
            [rate \in Rates |->
                MapThenSumSet(LAMBDA use : use[1].io[rate], {use \in on : use[2] = name})]]

\* getDisksLimit
DisksLimit(limits, planLimit, disks) ==
    LET mounts == {vb \in limits : RequireIOPS(vb) /\ ~RequireSchedule(vb)}
        placed == {vb \in DOMAIN planLimit : RequireIOPS(vb)}
        on == {<<vb, GetDiskByPath(disks, vb.source)>> : vb \in mounts}
              \cup {<<vb, GetDiskByPath(disks, planLimit[vb].device)>> : vb \in placed}
    IN  [name \in {use[2] : use \in on} \ {NoDisk} |->
            [rate \in Rates |->
                MapThenSumSet(LAMBDA use : use[1].io[rate], {use \in on : use[2] = name})]]

\* VolumeBindings.ApplyPlan: where a destination is planned, whatever its flags
ApplyPlan(limits, plan) ==
    LET Planned(limit) == {vb \in DOMAIN plan : vb.dest = limit.dest}
        At(limit, place) ==
            [limit EXCEPT !.source = place.device, !.size = Larger(@, place.size)]
    IN  {IF Planned(limit) = {} THEN limit
         ELSE At(limit, plan[CHOOSE vb \in Planned(limit) : TRUE]) : limit \in limits}

-----------------------------------------------------------------------------
(* calculate-deploy and calculate-realloc *)

\* A workload as core keeps it
Limited(work, req, disks) ==
    LET Rest(planLimit) ==
            [work |-> work, limits |-> req.limits, planLimit |-> planLimit,
             disksLimit |-> DisksLimit(req.limits, planLimit, disks),
             storageLimit |-> req.storageLimit]
    IN  Rest(PlanLimit(work.vbs, req.limits, work.plan))

Refusal == [ok |-> FALSE, works |-> <<>>]

DeployedLimited(info0, count, req) ==
    LET Fold(valid) == [valid EXCEPT !.storageLimit = @ + TotalSize(valid.limits)]
        Answer(deployed, valid) ==
            [ok |-> deployed.ok,
             works |-> [i \in DOMAIN deployed.works |->
                           Limited(deployed.works[i], valid, info0.capacity.disks)]]
        Plan(valid) ==
            Answer(Deployed(info0, count, [vbs |-> valid.vbs, storage |-> valid.storage]),
                   Fold(valid))
    IN  IF Valid(req) THEN Plan(Validated(req)) ELSE Refusal

\* The engine creates what its workload's limits say
Binds(work) == ApplyPlan(work.limits, work.work.plan)

\* Faulty variant: only what is gone counts
VolumeGone(old, binds) == ~(Keys(old) \subseteq Keys(binds))

\* By source, destination and flags
VolumeChanged(old, binds) ==
    Cardinality(binds) # Cardinality(Keys(old)) \/ ~(Keys(binds) \subseteq Keys(old))

\* Faulty variant: Validate counts the volumes as storage once more
MergedAndFolded(work, req) ==
    LET vbs == MergeVolumeBindings(req.vbs, work.work.vbs)
        limits == MergeVolumeBindings(req.limits, work.limits)
    IN  [vbs |-> vbs, limits |-> limits,
         storage |-> work.work.storage + req.storage + TotalSize(vbs),
         storageLimit |-> work.storageLimit + req.storageLimit + TotalSize(limits)]

\* Requests and limits are added to the workload's, those it was asked for
\* counting as storage
MergedLimits(work, req) ==
    [vbs |-> MergeVolumeBindings(req.vbs, work.work.vbs),
     limits |-> MergeVolumeBindings(req.limits, work.limits),
     storage |-> work.work.storage + req.storage + TotalSize(req.vbs),
     storageLimit |-> work.storageLimit + req.storageLimit + TotalSize(req.limits)]

ReallocatedLimited(info0, work, req) ==
    LET Answer(replanned, valid) ==
            [ok |-> replanned.ok,
             works |-> IF replanned.ok
                       THEN <<Limited(replanned.work, valid, info0.capacity.disks)>> ELSE <<>>]
        Plan(valid) ==
            Answer(Replanned(info0, work.work,
                             [vbs |-> valid.vbs, storage |-> valid.storage], req.vbs),
                   valid)
        Target(merged) == IF Valid(merged) THEN Plan(Validated(merged)) ELSE Refusal
    IN  Target(MergedLimits(work, req))

\* The old binds are those of the limits on their plan
ChangesVolumes(work, target) ==
    VolumeChanged(ApplyPlan(work.limits, work.planLimit), Binds(target))

-----------------------------------------------------------------------------
\* Types.  Among them: no limit is below nothing.
LimitsTypeOK ==
    /\ ops \in 0..MaxOps
    /\ \A id \in Ids : (workload[id] = Nil) = (container[id] = Nil)
    /\ \A id \in Live :
          LET work == workload[id]
          IN  /\ work.storageLimit \in Nat
              /\ \A vb \in work.limits : vb.size \in Nat /\ Covers(vb.io, NoIO)
              /\ \A vb \in DOMAIN work.planLimit : work.planLimit[vb].size \in Nat
              /\ DOMAIN work.disksLimit \subseteq DOMAIN info.capacity.disks

Init ==
    /\ \E capacity \in NewCapacities : info = [capacity |-> capacity, usage |-> NoUsage]
    /\ workload = [id \in Ids |-> Nil]
    /\ container = [id \in Ids |-> Nil]
    /\ ops = 0

Put(next) == ValidInfo(next) /\ info' = Normalized(next)

\* The container is created
Deploy ==
    \E id \in Ids \ Live, req \in DeployRequests :
        LET Do(deployed) ==
                /\ deployed.ok
                /\ Put([info EXCEPT !.usage = AddUsage(@, Held(deployed.works[1].work))])
                /\ workload' = [workload EXCEPT ![id] = deployed.works[1]]
                /\ container' = [container EXCEPT ![id] = Binds(deployed.works[1])]
        IN  /\ ops < MaxOps
            /\ Do(DeployedLimited(info, 1, Parsed(req)))
            /\ ops' = ops + 1

\* The container is created again only if its volumes changed
Realloc ==
    \E id \in Live, req \in ReallocRequests :
        LET work == workload[id]
            Do(target) ==
                /\ Put([info EXCEPT !.usage = AddUsage(@, ReallocDelta(work.work, target.work))])
                /\ workload' = [workload EXCEPT ![id] = target]
                /\ container' = IF ChangesVolumes(work, target)
                                THEN [container EXCEPT ![id] = Binds(target)] ELSE container
            Try(answer) == answer.ok /\ Do(answer.works[1])
        IN  /\ ops < MaxOps
            /\ Try(ReallocatedLimited(info, work, Parsed(req)))
            /\ ops' = ops + 1

Discard ==
    \E id \in Live :
        /\ Put([info EXCEPT !.usage = SubUsage(@, Held(workload[id].work))])
        /\ workload' = [workload EXCEPT ![id] = Nil]
        /\ container' = [container EXCEPT ![id] = Nil]
        /\ UNCHANGED ops

Next == Deploy \/ Realloc \/ Discard

Spec == Init /\ [][Next]_vars

-----------------------------------------------------------------------------
(* Properties *)

\* The rates the engine is told to enforce on a disk are no less than those the
\* planner charged the disk for: the same disks are found from the limits as
\* the planner found from the requests (getDisksLimit).
DiskLimitsCover(work) ==
    \A name \in DiskNames :
        Covers(UsedOf(work.disksLimit, name), UsedOf(work.work.disks, name))

\* After any reallocs the limits are no less than what is promised: binding by
\* binding, device by device, disk by disk, and in storage.  A limit of 0 is none
\* (validateVolumes, validateStorage: "soft limit storage size").
LimitsCover ==
    \A id \in Live :
        LET work == workload[id]
            plan == work.work.plan
        IN  /\ Keys(work.limits) = Keys(work.work.vbs)
            /\ work.storageLimit > 0 => work.storageLimit >= work.work.storage
            /\ \A vb \in work.limits :
                  LET request == Of(work.work.vbs, vb)
                  IN  Covers(vb.io, request.io) /\ (vb.size > 0 => vb.size >= request.size)
            /\ \A vb \in DOMAIN work.planLimit :
                  LET place == plan[Of(DOMAIN plan, vb)]
                  IN  /\ work.planLimit[vb].device = place.device
                      /\ vb.size > 0 => work.planLimit[vb].size >= place.size
            /\ DiskLimitsCover(work)

\* A limit smaller than its request is raised (docs/storage.md, in these words).
LimitsAreRaised ==
    \A id \in Live : \A vb \in workload[id].limits :
        vb.size >= Of(workload[id].work.vbs, vb).size

\* A container has its volumes where the record says they are, though it is
\* created again only when a realloc reports changed volumes
\* (docs/storage.md, volume_changed).
RunsOnItsPlan ==
    \A id \in Live : Keys(container[id]) = Keys(Binds(workload[id]))

\* Asking for nothing more of a binding, in request and limit, is accepted and
\* changes neither the limits nor what is derived from them: limits are not
\* raised twice, the room beyond the request is kept.
NothingAskedLimitsKept ==
    \A id \in Live : \A vb \in workload[id].work.vbs :
        LET work   == workload[id]
            none   == {[vb EXCEPT !.size = 0, !.io = NoIO]}
            answer == ReallocatedLimited(info, work, [vbs |-> none, limits |-> none,
                                                      storage |-> 0, storageLimit |-> 0])
        IN  /\ answer.ok
            /\ answer.works[1] = work
            /\ ~ChangesVolumes(work, answer.works[1])

\* Volumes are reported changed whenever the bind list differs from the old one
\* (docs/storage.md, in these words).
ChangesAreReported ==
    \A id \in Live, req \in ReallocRequests :
        LET work == workload[id]
            answer == ReallocatedLimited(info, work, Parsed(req))
        IN  answer.ok /\ Binds(answer.works[1]) # Binds(work)
              => ChangesVolumes(work, answer.works[1])

\* A realloc adds to the storage of a workload what was asked for, or takes it
\* (docs/storage.md: "sizes and quotas add").
StorageAdds ==
    \A id \in Live, req \in ReallocRequests :
        LET work == workload[id].work
            asked == Parsed(req)
            answer == ReallocatedLimited(info, workload[id], asked)
        IN  answer.ok => answer.works[1].work.storage
                           = work.storage + asked.storage + TotalSize(asked.vbs)
=============================================================================
