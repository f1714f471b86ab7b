---------------------------- MODULE StorageNode ----------------------------
(***************************************************************************)
(* What the verbs of the storage plugin compute from a node's record       *)
(* (storage/calculate.go, storage/node.go).  A request's limits are taken  *)
(* to be its requests, as they are when the user gives one of them.        *)
(***************************************************************************)
EXTENDS Schedule

CONSTANT MaxDeployCount     \* scheduler.max_deploy_count

ASSUME MaxDeployCountAssumption == MaxDeployCount \in 0..MaxInt

Requests == [vbs : SUBSET VolumeBinding, storage : Int]

\* What core keeps of a workload and passes back
Workloads == [vbs : SUBSET VolumeBinding, plan : VolumePlans, storage : Int,
              disks : DiskUses]

\* What a workload takes of its node
Held(work) == [volumes |-> PlannedVolumes(work.plan), disks |-> work.disks,
               storage |-> work.storage]

HeldBy(works) == [i \in DOMAIN works |-> Held(works[i])]

\* Faulty variant: only the bindings are validated
ValidAnyStorage(req) == ValidBindings(req.vbs)

ValidRequest(req) == ValidBindings(req.vbs) /\ req.storage >= 0

\* Validate: the volumes count as storage, too
Folded(req) == [req EXCEPT !.storage = @ + TotalSize(req.vbs)]

FreeStorage(info) == info.capacity.storage - info.usage.storage

StorageCapacity(info, storage) ==
    IF storage > 0 THEN Truncated(FreeStorage(info), storage) ELSE MaxInt

-----------------------------------------------------------------------------
(* get-nodes-deploy-capacity, of one node *)

\* Faulty variant: the volumes do not count as storage
CapacityUnfolded(info, req) ==
    Smaller(IF NeedSchedule(req.vbs) THEN GetVolumeCapacity(info, req.vbs, MaxDeployCount)
            ELSE MaxDeployCount,
            StorageCapacity(info, req.storage))

DeployCapacity(info, req) ==
    Smaller(IF NeedSchedule(req.vbs) THEN GetVolumeCapacity(info, req.vbs, MaxDeployCount)
            ELSE MaxDeployCount,
            StorageCapacity(info, Folded(req).storage))

(* calculate-deploy *)
Deployed(info, count, req) ==
    LET Work(p) == [vbs |-> req.vbs, plan |-> p.plan, disks |-> p.disks,
                    storage |-> Folded(req).storage]
        Answer(plans) == [ok |-> Len(plans) >= count,
                          works |-> [i \in DOMAIN plans |-> Work(plans[i])]]
    IN  IF ValidRequest(req) /\ StorageCapacity(info, Folded(req).storage) >= count
        THEN Answer(IF NeedSchedule(req.vbs) THEN GetVolumePlans(info, req.vbs, count)
                    ELSE Repeat(count, NoPlan))
        ELSE [ok |-> FALSE, works |-> <<>>]

(***************************************************************************)
(* calculate-realloc: the request is added to the workload's bindings; the *)
(* volumes are planned again only if the request itself needs a schedule.  *)
(***************************************************************************)
Merged(work, req) ==
    [vbs |-> MergeVolumeBindings(req.vbs, work.vbs),
     storage |-> work.storage + Folded(req).storage]

Replanned(info, work, target, asked) ==
    LET Answer(to) ==
            [ok |-> to.ok, work |-> [vbs |-> target.vbs, storage |-> target.storage,
                                     plan |-> to.plan, disks |-> to.disks]]
    IN  IF target.storage - work.storage > FreeStorage(info)
        THEN [ok |-> FALSE, work |-> work]
        ELSE Answer(IF NeedSchedule(asked)
                    THEN GetAffinityPlan(info, target.vbs, work.plan, work.vbs)
                    ELSE [ok |-> TRUE, plan |-> work.plan, disks |-> work.disks])

Reallocated(info, work, req) ==
    LET Plan(target) ==
            IF ValidRequest(target) THEN Replanned(info, work, target, req.vbs)
            ELSE [ok |-> FALSE, work |-> work]
    IN  Plan(Merged(work, req))

\* What core is told to add to the usage
ReallocDelta(work, target) == SubUsage(Held(target), Held(work))
=============================================================================
