------------------------- MODULE MCStorageFindings -------------------------
(***************************************************************************)
(* Small nodes and requests on which the plugin differs from what is       *)
(* written about it; one cfg for each.                                     *)
(***************************************************************************)
EXTENDS MCStorageBooks

OneDisk(mount, n) == 1 :> [mounts |-> {mount}, io |-> IOs(n)]

Node(a, b, c, disks) == {[volumes |-> Vol(a, b, c), storage |-> 20, disks |-> disks]}

NoRequest == {Req({}, 0)}

\* All of a node's disk quota goes to the normal bindings of the last pass
ShortNodes == Node(2, 2, 1, OneDisk(1, 4))
ShortRequests == {Req({N(1, 2, 1), M(2, 1, 1), Mt(3, 3, 1)}, 0)}

\* A monopoly volume asked for again without the flag
RetypedNodes == Node(2, 2, 1, OneDisk(1, 4))
RetypedDeploys == {Req({M(1, 1, 0)}, 0), Req({N(1, 1, 0), N(2, 1, 0)}, 0)}
RetypedReallocs == {Req({N(1, 1, 0)}, 0), Req({M(1, 1, 0)}, 0)}

\* A binding with rates and no size, and a monopoly one
SharedNodes == Node(2, 3, 4, OneDisk(1, 4))
SharedDeploys == {Req({N(1, 0, 1)}, 0), Req({M(3, 1, 0)}, 0)}
SharedReallocs == {Req({N(1, 1, 0)}, 0), Req({M(3, 1, 0)}, 0)}

\* A mount that gives its rates back
ShrunkNodes == Node(2, 2, 1, OneDisk(1, 4))
ShrunkDeploys == {Req({Mt(3, 5, 1)}, 0)}
ShrunkReallocs == {Req({Mt(3, 5, -1)}, 0)}

\* A volume that gives back more than it has
OverNodes == Node(2, 2, 1, OneDisk(1, 4))
OverDeploys == {Req({N(1, 1, 0), N(2, 2, 0)}, 0)}
OverReallocs == {Req({N(1, -2, 0)}, 0)}
=============================================================================
