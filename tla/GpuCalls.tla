------------------------------ MODULE GpuCalls ------------------------------
(***************************************************************************)
(* The GPU plugin in anybody's hands: every caller may make any of the     *)
(* calls in Inputs at any time, and nobody takes a lock.  What holds here  *)
(* holds of the plugin alone; what needs core's lock is in GpuCluster.     *)
(***************************************************************************)
EXTENDS GpuPlugin

CONSTANTS
    Inputs,         \* the requests the callers make
    MaxCalls        \* bound: calls started in a behaviour

ASSUME InputsAssumption == Inputs \subseteq Requests
ASSUME MaxCallsAssumption == MaxCalls \in Nat

VARIABLE calls      \* calls started so far

vars == <<pluginVars, calls>>

Init == PluginInit /\ calls = 0

Call(c) ==
    /\ calls < MaxCalls
    /\ calls' = calls + 1
    /\ \E r \in Inputs : Start(c, r)

Next ==
    \E c \in Callers :
        \/ Call(c)
        \/ (Serve(c) \/ Break(c) \/ Collect(c)) /\ UNCHANGED calls

Spec == Init /\ [][Next]_vars

TypeOK == PluginTypeOK /\ calls \in 0..MaxCalls

-----------------------------------------------------------------------------
(* Properties.  Each one confronts what two verbs make of the same record,  *)
(* for every record the calls can bring about and every request in Inputs.  *)

InputsOf(verb) == {r \in Inputs : r.verb = verb}

(***************************************************************************)
(* What get-nodes-deploy-capacity promises, calculate-deploy keeps: core   *)
(* may deploy any number of workloads up to the capacity and no more, also *)
(* where an operator left a node with less capacity than it uses           *)
(* (doGetNodeDeployCapacity against doAlloc).                              *)
(***************************************************************************)
CapacityIsExact ==
    \A r \in InputsOf("deploy-capacity"), n \in Nodes :
        Validate(r.req) =>
            LET info     == GetOrEmpty(n)
                capacity == DeployCapacity(info, r.req)
            IN  \A k \in 1..MaxCapacity + 1 :
                    /\ k <= capacity => DoAllocFits(info, k, r.req)
                    /\ DoAllocFits(info, k, r.req) /\ k <= MaxCapacity => k <= capacity

(***************************************************************************)
(* The delta of an accepted realloc, added to the usage of a node that     *)
(* counts the workload, replaces the workload's old cards by its new ones, *)
(* product by product and with no product left at zero, is accepted by     *)
(* Validate, and overdraws no product the workload ends up holding         *)
(* (CalculateRealloc against SetNodeResourceUsage).                        *)
(***************************************************************************)
ReallocKeepsBooks ==
    \A r \in InputsOf("calculate-realloc") :
        LET info   == GetOrEmpty(r.node)
            old    == r.workload
            new    == Merge(r.req, old)
            booked == NextUsage(info, Nil, Nil, <<ReallocDelta(old, r.req)>>, TRUE, TRUE)
        IN  (/\ Validate(old) /\ ValidateProd(r.req)
             /\ ReallocFits(info, old, r.req)
             /\ \A prod \in Keys(old) : CountOf(info.usage, prod) >= old[prod])
            => /\ booked = Add(Sub(info.usage, old), new)
               /\ Validate(booked)
               /\ \A prod \in Keys(new) : booked[prod] <= CountOf(info.capacity, prod)

(***************************************************************************)
(* The snapshot a set verb answers as "before" is restored verbatim when   *)
(* core replays it, a capacity through resource_request and a usage        *)
(* through resource, with delta false and whatever incr, over any record   *)
(* the node may hold by then (calculateNodeResource, LoadFromOrigin).      *)
(***************************************************************************)
RestoreIsVerbatim ==
    \A c \in Callers, n \in Nodes, incr \in BOOLEAN :
        (answer[c] # Nil /\ "before" \in DOMAIN answer[c]) =>
            LET before == answer[c].before
            IN  /\ NextCapacity(GetOrEmpty(n), Nil, before, FALSE, incr) = before
                /\ NextUsage(GetOrEmpty(n), before, Nil, <<>>, FALSE, incr) = before

(***************************************************************************)
(* The diffs are empty exactly when the stored usage is the sum of the     *)
(* workloads, so a fix that writes nothing had nothing to repair.  They    *)
(* compare one by one the products of the workloads only, and the total.   *)
(***************************************************************************)
DiffsAreComplete ==
    \A r \in InputsOf("fix-node") :
        LET actual == WorkloadsUsage(r.works)
        IN  etcd[r.node] # Absent /\ Validate(actual) =>
                (NoDiffs(Diffs(etcd[r.node], actual)) <=> etcd[r.node].usage = actual)
=============================================================================
