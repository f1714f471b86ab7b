----------------------------- MODULE MCGpuCalls -----------------------------
(***************************************************************************)
(* GpuCalls on two products and a blank one.  The inputs drive the records *)
(* through add, absolute and relative sets, usage beyond capacity, counts  *)
(* that cancel to zero, and products only one half of a record holds.      *)
(***************************************************************************)
EXTENDS GpuCalls, TLC

CONSTANTS a, b, blank, n1, n2

MCProducts == {a, b, blank}
MCBlank == {blank}
MCNodes == {n1, n2}

Map(counts) == counts @@ NoCards
Blank1 == Map(blank :> 1)
A1 == Map(a :> 1)
A2 == Map(a :> 2)
B1 == Map(b :> 1)
AB == Map(a :> 3 @@ b :> 2)

MCInputs ==
    [verb : {"add-node"}, node : {n1}, resource : {AB, Keyless, Blank1}]
    \cup [verb : {"remove-node"}, node : {n1}]
    \cup [verb : {"set-capacity"}, node : {n1, n2}, resource : {Nil}, request : {A2, Keyless},
          delta : BOOLEAN, incr : BOOLEAN]
    \cup [verb : {"set-capacity"}, node : {n1}, resource : {Nil, B1}, request : {Nil},
          delta : {FALSE}, incr : {TRUE}]
    \cup [verb : {"set-usage"}, node : {n1}, resource : {Nil}, request : {Nil},
          works : {<<A1>>, <<A1, AB>>}, delta : {TRUE}, incr : BOOLEAN]
    \cup [verb : {"set-usage"}, node : {n1, n2}, resource : {A2, Nil}, request : {Nil, Keyless},
          works : {<<>>}, delta : {FALSE}, incr : {FALSE}]
    \cup [verb : {"set-info"}, node : {n1}, capacity : {AB}, usage : {AB, A1}]
    \cup [verb : {"fix-node", "get-node"}, node : {n1}, works : {<<>>, <<A1>>, <<B1, A1>>}]
    \cup [verb : {"deploy-capacity"}, nodes : {MCNodes, {}}, req : {A1, A2, AB, NoCards}]
    \cup [verb : {"get-nodes"}, nodes : {MCNodes, {}}]
    \cup [verb : {"calculate-deploy"}, node : {n1}, count : {2}, req : {A1, Blank1}]
    \cup [verb : {"calculate-realloc"}, node : {n1}, workload : {A1, A2},
          req : {NoCards, A1, Map(a :> -2), Map(a :> -1 @@ b :> 1)}]

CallerSymmetry == Permutations(Callers)
=============================================================================
