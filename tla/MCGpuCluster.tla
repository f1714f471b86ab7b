---------------------------- MODULE MCGpuCluster ----------------------------
(***************************************************************************)
(* GpuCluster on two products.  The requests cover one and two products,   *)
(* a request for no cards, reallocs that grow, shrink, exchange a product  *)
(* and give back more than there is, and edits that shrink a node below    *)
(* its usage.                                                              *)
(***************************************************************************)
EXTENDS GpuCluster, TLC

CONSTANTS a, b

MCProducts == {a, b}

Map(counts) == counts @@ NoCards
A1 == Map(a :> 1)
AB == Map(a :> 1 @@ b :> 1)
A2B1 == Map(a :> 2 @@ b :> 1)

MCNewCapacities == {A2B1}

MCCapacityEdits ==
    {[request |-> A1, delta |-> TRUE, incr |-> TRUE],
     [request |-> A1, delta |-> TRUE, incr |-> FALSE],
     [request |-> A2B1, delta |-> FALSE, incr |-> FALSE]}

MCDeployRequests == {A1, AB, NoCards}
MCReallocRequests == {A1, Map(a :> -2 @@ b :> 1)}

\* For two nodes: every operation, with one request each
MCOneRequest == {AB}
MCOneEdit == {[request |-> A2B1, delta |-> FALSE, incr |-> FALSE]}

CallerSymmetry == Permutations(Callers) \cup Permutations(Nodes)
=============================================================================
