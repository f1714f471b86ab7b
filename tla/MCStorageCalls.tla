--------------------------- MODULE MCStorageCalls ---------------------------
EXTENDS StorageCalls

\* "/", "/a", "/b"
MCParts == [p \in 1..3 |-> <<<<>>, <<"a">>, <<"b">>>>[p]]
MCDevices == {2, 3}

RW(r, w) == [r |-> r, w |-> w]
Disk(mounts, r, w) == [mounts |-> mounts, io |-> RW(r, w)]

Typed == [form |-> "typed", volumes |-> Unset, storage |-> Unset, disks |-> Unset, rm |-> {}]
Absolute(req, incr) == [resource |-> Nil, req |-> req, delta |-> FALSE, incr |-> incr]
Delta(req, incr) == [resource |-> Nil, req |-> req, delta |-> TRUE, incr |-> incr]
As(capacity, delta, incr) == [resource |-> capacity, req |-> Nil, delta |-> delta, incr |-> incr]

A == [volumes |-> (2 :> 2) @@ (3 :> 3), disks |-> 1 :> Disk({1, 2}, 2, 2), storage |-> 6]
B == [volumes |-> 3 :> 1, disks |-> 2 :> Disk({3}, 1, 1), storage |-> 1]

Both == [Typed EXCEPT !.volumes = A.volumes, !.disks = A.disks]

MCNewNodes == {Both, [Typed EXCEPT !.disks = B.disks], [Typed EXCEPT !.storage = 4]}

MCEdits ==
    {Absolute([Typed EXCEPT !.volumes = 2 :> 1], TRUE),
     Absolute([Typed EXCEPT !.volumes = 3 :> 3, !.storage = 2], FALSE),
     Absolute([Typed EXCEPT !.storage = 5], TRUE),
     Absolute([Typed EXCEPT !.disks = B.disks, !.rm = {1}], FALSE),
     Absolute([Typed EXCEPT !.rm = {1}], TRUE),
     Absolute(Both, FALSE),
     As(B, FALSE, FALSE), As(B, TRUE, TRUE), As(B, TRUE, FALSE)}
    \cup {Delta(req, incr) : incr \in BOOLEAN,
              req \in {Both, [Typed EXCEPT !.volumes = 2 :> 2, !.disks = 1 :> Disk({2}, 1, 0)]}}

Usage(a, b, storage, disks) ==
    [volumes |-> (2 :> a) @@ (3 :> b), disks |-> disks, storage |-> storage]
On1 == Usage(1, 0, 1, 1 :> RW(1, 0))
On2 == Usage(0, 1, 2, 2 :> RW(0, 1))
OnBoth == Usage(0, 0, 0, (1 :> RW(1, 1)) @@ (2 :> RW(1, 0)))

Flat == Usage(0, 0, 1, NoDisks)
Placed == Usage(1, 0, 1, NoDisks)

MCBookings == {<<>>, <<On1, On2>>, <<OnBoth>>, <<Flat>>, <<Placed>>}

MCUsageRequests == {[Typed EXCEPT !.volumes = 3 :> 1, !.disks = 1 :> Disk({3}, 0, 1)]}

MCNewInfos == {[capacity |-> A, usage |-> On1], [capacity |-> B, usage |-> NoUsage],
               [capacity |-> [A EXCEPT !.disks = @ @@ B.disks], usage |-> On2]}
=============================================================================
