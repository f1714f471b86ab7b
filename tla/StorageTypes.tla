---------------------------- MODULE StorageTypes ----------------------------
(***************************************************************************)
(* The values of the storage plugin (storage/types): volume bindings, what *)
(* they are planned on, disks and a node's record.                         *)
(*                                                                         *)
(* A path is a number, in the order of the strings; Parts gives its        *)
(* components.  The four rates of a disk (read and write, IOPS and BPS)    *)
(* are treated alike everywhere and are the members of Rates.              *)
(***************************************************************************)
EXTENDS Integers, SequencesExt

CONSTANTS
    Paths,          \* devices, mount points and sources of mounts
    Parts,          \* path -> its components, <<>> for "/"
    Devices,        \* the paths that are volumes of some node
    DiskNames,      \* numbered in the order of their names
    Rates,          \* what a disk has quotas of
    Dests,          \* destinations of bindings, numbered in their order
    AUTO,           \* the source of a binding that is to be placed
    NoDisk          \* no disk covers the path

ASSUME PathsAssumption ==
    /\ Paths \subseteq Nat /\ IsFiniteSet(Paths) /\ Devices \subseteq Paths
    /\ AUTO \notin Paths
ASSUME DisksAssumption ==
    /\ DiskNames \subseteq Nat /\ IsFiniteSet(DiskNames) /\ NoDisk \notin DiskNames
    /\ IsFiniteSet(Rates)
ASSUME PartsAssumption == \A path \in Paths : Len(Parts[path]) \in Nat
ASSUME DestsAssumption == Dests \subseteq Nat

-----------------------------------------------------------------------------
(* Rates of a disk, and what is used of some disks *)

IO == [Rates -> Int]
NoIO == [rate \in Rates |-> 0]

AddIO(io, io1) == [rate \in Rates |-> io[rate] + io1[rate]]
SubIO(io, io1) == [rate \in Rates |-> io[rate] - io1[rate]]
Covers(io, io1) == \A rate \in Rates : io[rate] >= io1[rate]

\* Disks as usage: their mounts are overwritten with the capacity's by Validate
DiskUses == UNION {[names -> IO] : names \in SUBSET DiskNames}
NoDisks == [name \in {} |-> NoIO]

UsedOf(disks, name) == IF name \in DOMAIN disks THEN disks[name] ELSE NoIO

\* Faulty variant: the later of two entries for a disk replaces the other
AddDisksReplaces(disks, disks1) == disks1 @@ disks

AddDisks(disks, disks1) ==
    [name \in DOMAIN disks \cup DOMAIN disks1 |->
        AddIO(UsedOf(disks, name), UsedOf(disks1, name))]

SubDisks(disks, disks1) ==
    [name \in DOMAIN disks \cup DOMAIN disks1 |->
        SubIO(UsedOf(disks, name), UsedOf(disks1, name))]

\* A disk as capacity
DiskCapacity == [mounts : SUBSET Paths, io : IO]

\* Of the disks with a mount point above the path the deepest, of equals the last
Deepest(covering) ==
    LET Above(a, b) == a[1] > b[1] \/ (a[1] = b[1] /\ a[2] >= b[2])
    IN  IF covering = {} THEN NoDisk
        ELSE (CHOOSE a \in covering : \A b \in covering : Above(a, b))[2]

GetDiskByPath(disks, path) ==
    LET Covering(mounts) == {m \in mounts : IsPrefix(Parts[m], Parts[path])}
    IN  Deepest(UNION {{<<Len(Parts[mount]), name>> : mount \in Covering(disks[name].mounts)} :
                       name \in DOMAIN disks})

-----------------------------------------------------------------------------
(* Volume bindings.  The bindings of a request are a set: Validate sorts    *)
(* them, and nothing depends on the order but what Schedule says about it.  *)
VolumeBinding == [source : Paths \cup {AUTO}, dest : Dests, mono : BOOLEAN,
                  size : Int, io : IO]

GetMapKey(vb) == <<vb.source, vb.dest, vb.mono>>

RequireSchedule(vb) == vb.source = AUTO
RequireScheduleUnlimitedQuota(vb) == RequireSchedule(vb) /\ vb.size = 0 /\ vb.io = NoIO
RequireScheduleMonopoly(vb) == RequireSchedule(vb) /\ vb.mono
RequireIOPS(vb) == \E rate \in Rates : vb.io[rate] > 0

NeedSchedule(vbs) == \E vb \in vbs : RequireSchedule(vb) \/ RequireIOPS(vb)

ValidBindings(vbs) ==
    \A vb \in vbs : /\ RequireScheduleMonopoly(vb) => vb.size > 0
                    /\ Covers(vb.io, NoIO)

TotalSize(vbs) == SumFunction([vb \in vbs |-> vb.size])

AddQuota(vb, vb1) == [vb EXCEPT !.size = @ + vb1.size, !.io = AddIO(@, vb1.io)]

\* Bindings alike in source, destination and flags become one
AddedBindings(vbs1, vbs2) ==
    LET Alike(vb, vbs) == {vb1 \in vbs : GetMapKey(vb1) = GetMapKey(vb)}
    IN  {vb \in vbs1 : Alike(vb, vbs2) = {}}
        \cup UNION {IF Alike(vb, vbs1) = {} THEN {vb}
                    ELSE {AddQuota(vb, vb1) : vb1 \in Alike(vb, vbs1)} : vb \in vbs2}

\* Faulty variant: what was shrunk below nothing stays
MergeKeepsNegative(vbs1, vbs2) == AddedBindings(vbs1, vbs2)

MergeVolumeBindings(vbs1, vbs2) == {vb \in AddedBindings(vbs1, vbs2) : vb.size >= 0}

(***************************************************************************)
(* A plan gives bindings a device and a size on it.                        *)
(***************************************************************************)
Placement == [device : Devices, size : Int]
VolumePlans == UNION {[vbs -> Placement] : vbs \in SUBSET VolumeBinding}
EmptyPlan == [vb \in {} |-> [device |-> 0, size |-> 0]]

\* VolumePlan.Merge: entries of one destination become one, on plan1's device
MergePlans(plan, plan1) ==
    LET Same(vb) == {vb1 \in DOMAIN plan : vb1.dest = vb.dest}
        kept == {vb1 \in DOMAIN plan : \A vb \in DOMAIN plan1 : vb.dest # vb1.dest}
        fresh == {vb \in DOMAIN plan1 : Same(vb) = {}}
        joined == {p \in (DOMAIN plan1) \X (DOMAIN plan) : p[1].dest = p[2].dest}
        both == {[vb |-> AddQuota(p[1], p[2]),
                  to |-> [plan1[p[1]] EXCEPT !.size = @ + plan[p[2]].size]] : p \in joined}
        To(vb) == IF vb \in kept THEN plan[vb] ELSE IF vb \in fresh THEN plan1[vb]
                  ELSE (CHOOSE b \in both : b.vb = vb).to
    IN  [vb \in kept \cup fresh \cup {b.vb : b \in both} |-> To(vb)]

\* The volumes of a plan, added up by device
PlannedVolumes(plan) ==
    [device \in Devices |->
        SumFunction([vb \in {vb1 \in DOMAIN plan : plan[vb1].device = device} |->
                        plan[vb].size])]

-----------------------------------------------------------------------------
(***************************************************************************)
(* A node's record.  A capacity knows its volumes and disks by name; the   *)
(* usage of a volume without an entry is zero, which no code tells from an *)
(* entry of zero.  For the disks of the usage the difference is kept.      *)
(***************************************************************************)
CapacitiesOn(devices, names) ==
    [volumes : [devices -> Int], disks : [names -> DiskCapacity], storage : Int]
UsagesOn(names) == [volumes : [Devices -> Int], disks : [names -> IO], storage : Int]

IsCapacity(capacity) ==
    \E devices \in SUBSET Devices, names \in SUBSET DiskNames :
        capacity \in CapacitiesOn(devices, names)
IsUsage(usage) == \E names \in SUBSET DiskNames : usage \in UsagesOn(names)
IsInfo(info) ==
    /\ info = [capacity |-> info.capacity, usage |-> info.usage]
    /\ IsCapacity(info.capacity) /\ IsUsage(info.usage)

NoUsage == [volumes |-> [device \in Devices |-> 0], disks |-> NoDisks, storage |-> 0]

AddUsage(usage, usage1) ==
    [volumes |-> [device \in Devices |-> usage.volumes[device] + usage1.volumes[device]],
     disks |-> AddDisks(usage.disks, usage1.disks),
     storage |-> usage.storage + usage1.storage]

SubUsage(usage, usage1) ==
    [volumes |-> [device \in Devices |-> usage.volumes[device] - usage1.volumes[device]],
     disks |-> SubDisks(usage.disks, usage1.disks),
     storage |-> usage.storage - usage1.storage]

\* Only the volumes the capacity has are looked at
ValidVolumes(info) ==
    \A device \in DOMAIN info.capacity.volumes :
        info.usage.volumes[device] \in 0..info.capacity.volumes[device]

\* A storage usage beyond the capacity passes
ValidStorage(info) == info.capacity.storage >= 0 /\ info.usage.storage >= 0

\* Faulty variant: usage of disks the capacity does not have passes
ValidDisksListed(info) ==
    \A name \in DOMAIN info.capacity.disks :
        /\ Covers(info.capacity.disks[name].io, NoIO)
        /\ Covers(UsedOf(info.usage.disks, name), NoIO)
        /\ Covers(info.capacity.disks[name].io, UsedOf(info.usage.disks, name))

ValidDisks(info) ==
    LET disks == info.capacity.disks
        used  == info.usage.disks
    IN  /\ \A name \in DOMAIN disks :
              /\ Covers(disks[name].io, NoIO)
              /\ name \in DOMAIN used => /\ Covers(used[name], NoIO)
                                         /\ Covers(disks[name].io, used[name])
        /\ \A name \in DOMAIN used \ DOMAIN disks : used[name] = NoIO

ValidInfo(info) == ValidVolumes(info) /\ ValidStorage(info) /\ ValidDisks(info)

\* What Validate leaves: no usage of a disk the capacity does not have
Normalized(info) ==
    [info EXCEPT !.usage.disks = Restrict(@, DOMAIN @ \cap DOMAIN info.capacity.disks)]
=============================================================================
