------------------------------ MODULE GpuNode ------------------------------
(***************************************************************************)
(* What the verbs of the GPU plugin compute from a node's record, between  *)
(* reading it and writing it back (gpu/node.go, gpu/calculate.go,          *)
(* gpu/types/node.go).  A record holds two ProdCountMaps; nothing in the   *)
(* code keeps the usage within the capacity.                               *)
(***************************************************************************)
EXTENDS ProdCountMap, Sequences

CONSTANTS
    Nil,            \* an argument core left out of the call
    Keyless,        \* a resource_request object without prod_count_map
    MaxCapacity     \* the constant maxCapacity, 1000000

ASSUME NilAssumption == Nil \notin CountMaps /\ Nil # Keyless
ASSUME KeylessAssumption == Keyless \notin CountMaps
ASSUME MaxCapacityAssumption == MaxCapacity \in Nat

Infos == [capacity : CountMaps, usage : CountMaps]

EmptyInfo == [capacity |-> NoCards, usage |-> NoCards]

\* NodeResourceInfo.Validate: each half on its own, never one against the other
ValidInfo(info) == Validate(info.capacity) /\ Validate(info.usage)

\* GetAvailableResource: negative where usage exceeds capacity
AvailableResource(info) == Sub(info.capacity, info.usage)

\* NodeResourceRequest.Parse and LoadFromOrigin
ParsedRequest(request) == IF request = Keyless THEN NoCards ELSE request

\* Faulty variant: the stored map wins even when the request has one
LoadAlways(request, origin) == origin

LoadFromOrigin(request, origin) ==
    IF request = Keyless THEN origin ELSE request

(***************************************************************************)
(* The loops over core's list of workloads, in its order: Totals(...)[i]   *)
(* is what the accumulator holds after the first i workloads.              *)
(***************************************************************************)
Apply(pcm, change, plus) == IF plus THEN Add(pcm, change) ELSE Sub(pcm, change)

Totals(start, works, plus) ==
    LET total[i \in 0..Len(works)] ==
            IF i = 0 THEN start ELSE Apply(total[i - 1], works[i], plus)
    IN  total

ApplyAll(start, works, plus) == Totals(start, works, plus)[Len(works)]

\* Faulty variant: an absolute set does not force addition
CalculateWithoutForcing(request, resource, origin, works, delta, incr) ==
    LET start == IF delta THEN origin ELSE NoCards
    IN  IF request # Nil THEN Apply(start, request, incr)
        ELSE IF resource # Nil THEN Apply(start, resource, incr)
        ELSE ApplyAll(start, works, incr)

(***************************************************************************)
(* calculateNodeResource.  The request wins over the resource, either wins *)
(* over the workloads, and an absolute set always adds, to nothing.        *)
(***************************************************************************)
CalculateNodeResource(request, resource, origin, works, delta, incr) ==
    LET start == IF delta THEN origin ELSE NoCards
        plus  == incr \/ ~delta
    IN  IF request # Nil THEN Apply(start, request, plus)
        ELSE IF resource # Nil THEN Apply(start, resource, plus)
        ELSE ApplyAll(start, works, plus)

\* The capacity SetNodeResourceCapacity writes
NextCapacity(info, resource, request, delta, incr) ==
    LET req == IF request = Nil THEN Nil
               ELSE IF delta THEN ParsedRequest(request)
               ELSE LoadFromOrigin(request, info.capacity)
    IN  CalculateNodeResource(req, resource, info.capacity, <<>>, delta, incr)

\* The usage SetNodeResourceUsage writes
NextUsage(info, resource, request, works, delta, incr) ==
    LET req == IF request = Nil THEN Nil ELSE ParsedRequest(request)
    IN  CalculateNodeResource(req, resource, info.usage, works, delta, incr)

(***************************************************************************)
(* getNodeResourceInfo: the sum of the workloads core passes in, and the   *)
(* disagreements with the stored usage.  Only the products of the          *)
(* workloads are compared one by one; a product the workloads no longer    *)
(* hold shows up in the total alone.                                       *)
(***************************************************************************)
WorkloadsUsage(works) == ApplyAll(NoCards, works, TRUE)

\* Faulty variant: the totals are not compared
DiffsWithoutTotal(info, actual) ==
    [total    |-> FALSE,
     missing  |-> Keys(actual) \ Keys(info.usage),
     mismatch |-> {prod \in Keys(actual) \cap Keys(info.usage) :
                      actual[prod] # info.usage[prod]}]

Diffs(info, actual) ==
    [total    |-> Count(actual) # Count(info.usage),
     missing  |-> Keys(actual) \ Keys(info.usage),
     mismatch |-> {prod \in Keys(actual) \cap Keys(info.usage) :
                      actual[prod] # info.usage[prod]}]

NoDiffs(diffs) == ~diffs.total /\ diffs.missing = {} /\ diffs.mismatch = {}

\* Faulty variant: the sum is added to the usage, not put in its place
FixedOnTop(info, actual) == [info EXCEPT !.usage = Add(@, actual)]

FixedInfo(info, actual) == [info EXCEPT !.usage = actual]

\* Faulty variant: what earlier deploys took stays available
DoAllocForgets(info, deployCount, req) ==
    LET available == AvailableResource(info)
    IN  \A i \in 1..deployCount : \A prod \in Keys(req) :
            prod \in Keys(available) /\ available[prod] >= req[prod]

(***************************************************************************)
(* doAlloc: deploy by deploy, product by product, from a copy of what is   *)
(* available.  Success depends on no order of the products.                *)
(***************************************************************************)
DoAllocFits(info, deployCount, req) ==
    LET available == AvailableResource(info)
    IN  \A i \in 1..deployCount : \A prod \in Keys(req) :
            /\ prod \in Keys(available)
            /\ available[prod] - (i - 1) * req[prod] >= req[prod]

\* Faulty variant: rounds up
QuotientUp(a, b) == (a + b - 1) \div b

\* Integer division of Go: towards zero
Quotient(a, b) == IF a >= 0 THEN a \div b ELSE -((-a) \div b)

(***************************************************************************)
(* doGetNodeDeployCapacity.  The loop stops at a quotient of zero or less, *)
(* so which of those it answers depends on the order of the map; every one *)
(* of them keeps the node off the list (ListedCapacity).                   *)
(***************************************************************************)
DeployCapacity(info, req) ==
    IF Count(req) > 0
    THEN LET available == AvailableResource(info)
         IN  Min({MaxCapacity} \cup
                 {Quotient(CountOf(available, prod), req[prod]) : prod \in Keys(req)})
    ELSE MaxCapacity

\* Faulty variant: nodes with a capacity of zero or less stay on the list
ListedAnyway(info, req) == DeployCapacity(info, req)

\* GetNodesDeployCapacity lists the nodes with some capacity: zero, not listed
ListedCapacity(info, req) ==
    LET capacity == DeployCapacity(info, req)
    IN  IF capacity > 0 THEN capacity ELSE 0

(***************************************************************************)
(* CalculateRealloc: the workload's own cards are given back before the    *)
(* merged request is placed; core adds the delta to the node's usage.      *)
(***************************************************************************)
WithoutWorkload(info, origin) == [info EXCEPT !.usage = Sub(@, origin)]

ReallocFits(info, origin, req) ==
    DoAllocFits(WithoutWorkload(info, origin), 1, Merge(req, origin))

\* Faulty variant: the request itself, as if nothing were clamped
DeltaIsRequest(origin, req) == req

ReallocDelta(origin, req) == Sub(Merge(req, origin), origin)

=============================================================================
