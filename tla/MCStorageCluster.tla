-------------------------- MODULE MCStorageCluster --------------------------
(***************************************************************************)
(* A node with two volumes on one disk, and edits that take away, shrink,  *)
(* grow and move what workloads are on.                                    *)
(***************************************************************************)
EXTENDS StorageCluster

\* "/", "/a", "/b", "/c"
MCParts == [p \in 1..4 |-> <<<<>>, <<"a">>, <<"b">>, <<"c">>>>[p]]
MCDevices == {2, 3}

RW(r, w) == [r |-> r, w |-> w]
Disk(mounts, r, w) == [mounts |-> mounts, io |-> RW(r, w)]

VB(source, dest, mono, size, io) ==
    [source |-> source, dest |-> dest, mono |-> mono, size |-> size, io |-> io]
N(dest, size, io) == VB(AUTO, dest, FALSE, size, io)
M(dest, size, io) == VB(AUTO, dest, TRUE, size, io)
Mt(source, dest, io) == VB(source, dest, FALSE, 0, io)
Req(vbs, storage) == [vbs |-> vbs, storage |-> storage]

\* What operators type
Typed == [form |-> "typed", volumes |-> Unset, storage |-> Unset, disks |-> Unset, rm |-> {}]
Volumes(volumes) == [Typed EXCEPT !.volumes = volumes]
DisksOf(disks) == [Typed EXCEPT !.disks = disks]

Absolute(req) == [req |-> req, delta |-> FALSE, incr |-> FALSE]
More(req) == [req |-> req, delta |-> TRUE, incr |-> TRUE]
Less(req) == [req |-> req, delta |-> TRUE, incr |-> FALSE]

MCNewNodes == {[Volumes((2 :> 2) @@ (3 :> 3)) EXCEPT !.storage = 4,
                                                     !.disks = 1 :> Disk({1, 2}, 2, 3)]}

MCCapacityEdits ==
    {Absolute(Volumes(2 :> 2)),
     Absolute(DisksOf((1 :> Disk({2}, 2, 2)) @@ (2 :> Disk({1}, 2, 2)))),
     Absolute([Typed EXCEPT !.rm = {1}]),
     More([Volumes(3 :> 1) EXCEPT !.disks = 1 :> Disk({1}, 1, 1)]),
     Less([Volumes(2 :> 2) EXCEPT !.storage = 1])}

MCDeployRequests == {Req({N(1, 1, RW(1, 0))}, 0), Req({M(2, 2, RW(0, 1)), Mt(4, 3, RW(1, 0))}, 1)}
MCReallocRequests == {Req({N(1, 1, RW(0, 1))}, 0)}

\* A workload that has rates of a disk and no size, and the disk replaced
MCRatesOnly == {Req({Mt(4, 3, RW(1, 0))}, 0)}
MCReplaceDisk ==
    {Absolute([Typed EXCEPT !.rm = {1}]), Absolute(DisksOf(1 :> Disk({1, 2}, 2, 3)))}

\* The flat budget set anew
MCSetBudget == {Absolute([Typed EXCEPT !.storage = 3])}

\* What the theorem about the ledger asks of requests holds of these
ASSUME RequestsAskForSpace == DeploysAskForSpace
=============================================================================
