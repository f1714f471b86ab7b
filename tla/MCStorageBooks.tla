--------------------------- MODULE MCStorageBooks ---------------------------
EXTENDS StorageBooks

\* "/", "/a", "/a/x", "/b", "/c"
MCParts == [p \in 1..5 |-> <<<<>>, <<"a">>, <<"a", "x">>, <<"b">>, <<"c">>>>[p]]
MCDevices == {2, 4, 5}

RW(r, w) == [r |-> r, w |-> w]
IOs(n) == RW(n, n)

VB(source, dest, mono, size, io) ==
    [source |-> source, dest |-> dest, mono |-> mono, size |-> size, io |-> IOs(io)]

Vol(a, b, c) == (2 :> a) @@ (4 :> b) @@ (5 :> c)

MCNewCapacities ==
    {[volumes |-> Vol(2, 3, 4), storage |-> 20,
      disks |-> (1 :> [mounts |-> {1, 2}, io |-> IOs(3)])
             @@ (2 :> [mounts |-> {4}, io |-> IOs(2)])],
     [volumes |-> Vol(4, 4, 2), storage |-> 9,
      disks |-> (1 :> [mounts |-> {2}, io |-> IOs(4)])]}

N(dest, size, io) == VB(AUTO, dest, FALSE, size, io)
M(dest, size, io) == VB(AUTO, dest, TRUE, size, io)
U(dest) == VB(AUTO, dest, FALSE, 0, 0)
Mt(source, dest, io) == VB(source, dest, FALSE, 0, io)

Reads(vb, n) == [vb EXCEPT !.io = RW(n, 0)]

Req(vbs, storage) == [vbs |-> vbs, storage |-> storage]

MCDeployRequests ==
    {Req({N(1, 1, 0)}, 0), Req({N(1, 2, 1)}, 1), Req({N(1, 0, 1)}, 0),
     Req({M(3, 1, 1), M(4, 2, 0)}, 0),
     Req({N(1, 1, 0), M(3, 2, 1), U(2)}, 0),
     Req({N(1, 2, 0), N(2, 1, 1), Mt(3, 5, 1)}, 0),
     Req({U(1), Reads(Mt(3, 5, 0), 2)}, 0),
     Req({N(1, 1, 1), M(3, 1, 1), Mt(4, 5, 1)}, 0),
     Req({Reads(Mt(3, 5, 1), 1), Mt(3, 6, 1), Mt(4, 3, 1)}, 2),
     Req({}, 3)}

MCReallocRequests ==
    {Req({N(1, 1, 0)}, 0), Req({N(1, -1, 0)}, 0), Req({M(3, 1, 0)}, 1), Req({M(3, -1, 0)}, 0),
     Req({U(2)}, 0), Req({Mt(3, 5, 1)}, -1), Req({N(1, 3, 0), N(2, 1, 1)}, 0),
     Req({Mt(3, 5, 0)}, 1)}

\* Of the shares the floats round, the whole ones lose a byte and the others, if
\* they are near enough to the next byte, gain it
Products == (1..4) \X (1..4) \X (1..4)
MCRoundedDown == {p \in Products : p[1] # p[2] /\ (p[1] * p[3]) % p[2] = 0}
MCRoundedUp == {p \in Products : (p[1] * p[3]) % p[2] # 0}

\* What the theorems about plans and disks ask of requests holds of these
ASSUME RequestsAgree ==
    DeployRequests = MCDeployRequests /\ ReallocRequests = MCReallocRequests
    => KindsAgree /\ MountsOnlyGrow
=============================================================================
