-------------------------- MODULE MCStorageLimits --------------------------
(***************************************************************************)
(* Two devices on disks of their own and a mount; bindings whose limits    *)
(* are below, at and above their requests.                                 *)
(***************************************************************************)
EXTENDS StorageLimits

\* "/", "/a", "/b", "/c"
MCParts == [p \in 1..4 |-> <<<<>>, <<"a">>, <<"b">>, <<"c">>>>[p]]
MCDevices == {2, 3}

RW(r, w) == [r |-> r, w |-> w]

MCNewCapacities ==
    {[volumes |-> (2 :> 3) @@ (3 :> 4), storage |-> 9,
      disks |-> (1 :> [mounts |-> {1, 2}, io |-> RW(3, 3)]) @@ (2 :> [mounts |-> {3}, io |-> RW(2, 2)])]}

VB(source, dest, mono, size, r, w) ==
    [source |-> source, dest |-> dest, mono |-> mono, size |-> size, io |-> RW(r, w)]
N(dest, size, r, w) == VB(AUTO, dest, FALSE, size, r, w)
M(dest, size, r, w) == VB(AUTO, dest, TRUE, size, r, w)
Mt(dest, r, w) == VB(4, dest, FALSE, 0, r, w)

Req(vbs, limits, storage, storageLimit) ==
    [vbs |-> vbs, limits |-> limits, storage |-> storage, storageLimit |-> storageLimit]
Both(vbs) == Req({}, vbs, 0, 0)

MCDeployRequests ==
    {Req({N(1, 1, 1, 0)}, {N(1, 2, 0, 1)}, 0, 0),
     Req({N(1, 2, 0, 0), Mt(4, 1, 1)}, {N(1, 1, 0, 1), Mt(4, 2, 0)}, 1, 1),
     Req({M(2, 1, 1, 0), M(3, 2, 0, 0)}, {M(2, 3, 0, 0), M(3, 2, 0, 1)}, 0, 1),
     Both({N(1, 0, 0, 0), M(2, 1, 0, 0)})}

MCReallocRequests ==
    {Req({N(1, 1, 0, 0)}, {N(1, 0, 0, 0)}, 0, 0), Req({N(1, -1, 0, 0)}, {N(1, -1, 0, 0)}, 0, 0),
     Req({N(1, 1, 0, 1)}, {N(1, 2, 1, 0)}, 0, 1), Req({M(2, 1, 0, 0)}, {M(2, -1, 0, 0)}, 0, 0),
     Both({Mt(4, 0, 1)}), Both({N(5, 2, 0, 0)}), Req({}, {}, -1, 1)}

\* Of the shares the floats round, the whole ones lose a byte and the others, if
\* they are near enough to the next byte, gain it
Products == (1..4) \X (1..4) \X (1..4)
MCRoundedDown == {p \in Products : p[1] # p[2] /\ (p[1] * p[3]) % p[2] = 0}
MCRoundedUp == {p \in Products : (p[1] * p[3]) % p[2] # 0}

\* A limit without a size
MCSizelessDeploys == {Req({N(1, 1, 0, 0)}, {N(1, 0, 0, 0)}, 0, 1)}
\* A storage request beside a volume, without a storage limit
MCSoftDeploys == {Req({N(1, 1, 0, 0)}, {N(1, 1, 0, 0)}, 1, 0)}
\* One volume, grown
MCPlainDeploys == {Both({N(1, 1, 0, 0)})}
MCGrow == {Both({N(1, 1, 0, 0)})}
\* All that was requested given back, with a limit left
MCRoomyDeploys == {Req({N(1, 1, 0, 0)}, {N(1, 3, 0, 0)}, 0, 0)}
MCGiveBack == {Req({N(1, -1, 0, 0)}, {N(1, -1, 0, 0)}, 0, 0)}
=============================================================================
