----------------------------- MODULE GpuPlugin -----------------------------
(***************************************************************************)
(* The GPU plugin as core runs it: one process per verb call, no state but *)
(* the nodes' records in etcd (plugincmd, gpu, nodestore).                 *)
(*                                                                         *)
(* A call is started with a request, reads etcd and computes (the Serve    *)
(* actions, one per verb), writes (Put, Remove) and has its answer         *)
(* collected.  Reading and writing are separate steps, with no             *)
(* compare-and-swap between them, so calls on one node may interleave.     *)
(* A call fails when etcd refuses it and when core's call_timeout kills    *)
(* it; a write may then have reached etcd or not.                          *)
(***************************************************************************)
EXTENDS GpuNode

CONSTANTS
    Nodes,          \* node names
    Callers,        \* who may have a call of the plugin running, one each
    Absent,         \* no record under the node's key
    MaxFaults       \* bound: failed or killed calls in a behaviour

ASSUME AbsentAssumption == Absent \notin Infos
ASSUME MaxFaultsAssumption == MaxFaults \in Nat

VARIABLES
    etcd,           \* node -> its record, or Absent
    phase,          \* caller -> where its call is
    request,        \* caller -> the decoded stdin of its call
    pending,        \* caller -> the record its call is about to Put
    answer,         \* caller -> what its call prints, or will after the Put
    faults          \* failed or killed calls so far

pluginVars == <<etcd, phase, request, pending, answer, faults>>

Phases == {"idle", "running", "storing", "answered"}

(***************************************************************************)
(* The requests, one shape per verb (docs/protocol.md, decoded in          *)
(* plugincmd/node.go and plugincmd/calculate.go).                          *)
(***************************************************************************)
Works == Seq(CountMaps)

Requests ==
    [verb : {"add-node"}, node : Nodes, resource : CountMaps \cup {Keyless}]
    \cup [verb : {"remove-node"}, node : Nodes]
    \cup [verb : {"set-capacity"}, node : Nodes, resource : CountMaps \cup {Nil},
          request : CountMaps \cup {Nil, Keyless}, delta : BOOLEAN, incr : BOOLEAN]
    \cup [verb : {"set-usage"}, node : Nodes, resource : CountMaps \cup {Nil},
          request : CountMaps \cup {Nil, Keyless}, works : Works,
          delta : BOOLEAN, incr : BOOLEAN]
    \cup [verb : {"set-info"}, node : Nodes, capacity : CountMaps, usage : CountMaps]
    \cup [verb : {"fix-node", "get-node"}, node : Nodes, works : Works]
    \cup [verb : {"deploy-capacity"}, nodes : SUBSET Nodes, req : CountMaps]
    \cup [verb : {"get-nodes"}, nodes : SUBSET Nodes]
    \cup [verb : {"calculate-deploy"}, node : Nodes, count : Nat, req : CountMaps]
    \cup [verb : {"calculate-realloc"}, node : Nodes, workload : CountMaps, req : CountMaps]

Done    == [ok |-> TRUE]
Failed  == [ok |-> FALSE]

Diff == [total : BOOLEAN, missing : SUBSET Products, mismatch : SUBSET Products]

Answers ==
    [ok : BOOLEAN]
    \cup [ok : {TRUE}, before : CountMaps, after : CountMaps]
    \cup [ok : {TRUE}, info : Infos]
    \cup [ok : {TRUE}, info : Infos, diffs : Diff]
    \cup [ok : {TRUE}, works : Works]
    \cup [ok : {TRUE}, workload : CountMaps, delta : CountMaps]
    \cup [ok : {TRUE}, infos : [Nodes -> Infos \cup {Nil}]]
    \cup [ok : {TRUE}, capacities : [Nodes -> Nat]]

ASSUME NilIsNoValueAssumption ==
    Nil \notin Requests /\ Nil \notin Infos /\ Nil \notin Answers

PluginTypeOK ==
    /\ etcd \in [Nodes -> Infos \cup {Absent}]
    /\ phase \in [Callers -> Phases]
    /\ request \in [Callers -> Requests \cup {Nil}]
    /\ pending \in [Callers -> Infos \cup {Nil}]
    /\ answer \in [Callers -> Answers \cup {Nil}]
    /\ faults \in 0..MaxFaults
    /\ \A c \in Callers :
          /\ phase[c] # "idle" => request[c] # Nil
          /\ phase[c] = "storing" => pending[c] # Nil /\ answer[c] # Nil
          /\ phase[c] = "answered" => answer[c] # Nil

PluginInit ==
    /\ etcd = [n \in Nodes |-> Absent]
    /\ phase = [c \in Callers |-> "idle"]
    /\ request = [c \in Callers |-> Nil]
    /\ pending = [c \in Callers |-> Nil]
    /\ answer = [c \in Callers |-> Nil]
    /\ faults = 0

-----------------------------------------------------------------------------
(* nodestore: reading a record *)

GetOrEmpty(n) == IF etcd[n] = Absent THEN EmptyInfo ELSE etcd[n]

\* One range read; a node the plugin never saw comes back empty
GetMulti(names) == [n \in Nodes |-> IF n \in names THEN GetOrEmpty(n) ELSE Nil]

(* The life of a call *)

Start(c, r) ==
    /\ phase[c] = "idle"
    /\ phase' = [phase EXCEPT ![c] = "running"]
    /\ request' = [request EXCEPT ![c] = r]
    /\ UNCHANGED <<etcd, pending, answer, faults>>

\* Core has read an answer and runs the next verb of the same operation
StartNext(c, r) ==
    /\ phase[c] = "answered"
    /\ phase' = [phase EXCEPT ![c] = "running"]
    /\ request' = [request EXCEPT ![c] = r]
    /\ pending' = [pending EXCEPT ![c] = Nil]
    /\ answer' = [answer EXCEPT ![c] = Nil]
    /\ UNCHANGED <<etcd, faults>>

Running(c, verb) == phase[c] = "running" /\ request[c].verb = verb

Reply(c, a) ==
    /\ phase' = [phase EXCEPT ![c] = "answered"]
    /\ answer' = [answer EXCEPT ![c] = a]
    /\ UNCHANGED <<etcd, request, pending, faults>>

\* Faulty variant: nothing to answer with once the Put succeeds
StoreMute(c, info, a) ==
    /\ phase' = [phase EXCEPT ![c] = "storing"]
    /\ pending' = [pending EXCEPT ![c] = info]
    /\ UNCHANGED <<etcd, answer, request, faults>>

\* The handler goes on to Put info and answers a if the Put succeeds
Store(c, info, a) ==
    /\ phase' = [phase EXCEPT ![c] = "storing"]
    /\ pending' = [pending EXCEPT ![c] = info]
    /\ answer' = [answer EXCEPT ![c] = a]
    /\ UNCHANGED <<etcd, request, faults>>

\* Core has read the answer and the process is gone
Collect(c) ==
    /\ phase[c] = "answered"
    /\ phase' = [phase EXCEPT ![c] = "idle"]
    /\ request' = [request EXCEPT ![c] = Nil]
    /\ pending' = [pending EXCEPT ![c] = Nil]
    /\ answer' = [answer EXCEPT ![c] = Nil]
    /\ UNCHANGED <<etcd, faults>>

-----------------------------------------------------------------------------
(* The verbs that write *)

\* Faulty variant: without CheckAbsent
AddNodeAgain(c) ==
    /\ Running(c, "add-node")
    /\ LET r   == request[c]
           req == ParsedRequest(r.resource)
           info == [capacity |-> req, usage |-> NoCards]
       IN  IF Validate(req) THEN Store(c, info, [ok |-> TRUE, info |-> info])
           ELSE Reply(c, Failed)

AddNode(c) ==
    /\ Running(c, "add-node")
    /\ LET r   == request[c]
           req == ParsedRequest(r.resource)
           info == [capacity |-> req, usage |-> NoCards]
       IN  IF etcd[r.node] = Absent /\ Validate(req)
           THEN Store(c, info, [ok |-> TRUE, info |-> info])
           ELSE Reply(c, Failed)

SetNodeResourceCapacity(c) ==
    /\ Running(c, "set-capacity")
    /\ LET r    == request[c]
           info == GetOrEmpty(r.node)
           next == NextCapacity(info, r.resource, r.request, r.delta, r.incr)
       IN  Store(c, [info EXCEPT !.capacity = next],
                 [ok |-> TRUE, before |-> info.capacity, after |-> next])

SetNodeResourceUsage(c) ==
    /\ Running(c, "set-usage")
    /\ LET r    == request[c]
           info == GetOrEmpty(r.node)
           next == NextUsage(info, r.resource, r.request, r.works, r.delta, r.incr)
       IN  Store(c, [info EXCEPT !.usage = next],
                 [ok |-> TRUE, before |-> info.usage, after |-> next])

\* Blind: whatever is stored is replaced without being read
SetNodeResourceInfo(c) ==
    /\ Running(c, "set-info")
    /\ Store(c, [capacity |-> request[c].capacity, usage |-> request[c].usage],
             Done)

\* Faulty variant: having nothing to repair counts as a failure
FixFailsWhenClean(c) ==
    /\ Running(c, "fix-node")
    /\ LET r      == request[c]
           actual == WorkloadsUsage(r.works)
           diffs  == Diffs(etcd[r.node], actual)
           fixed  == FixedInfo(etcd[r.node], actual)
       IN  IF etcd[r.node] = Absent \/ NoDiffs(diffs) THEN Reply(c, Failed)
           ELSE Store(c, fixed, [ok |-> TRUE, info |-> fixed, diffs |-> diffs])

FixNodeResource(c) ==
    /\ Running(c, "fix-node")
    /\ LET r      == request[c]
           actual == WorkloadsUsage(r.works)
           diffs  == Diffs(etcd[r.node], actual)
           fixed  == FixedInfo(etcd[r.node], actual)
       IN  IF etcd[r.node] = Absent THEN Reply(c, Failed)
           ELSE IF NoDiffs(diffs)
           THEN Reply(c, [ok |-> TRUE, info |-> etcd[r.node], diffs |-> diffs])
           ELSE Store(c, fixed, [ok |-> TRUE, info |-> fixed, diffs |-> diffs])

\* Faulty variant: Put writes without validating
PutUnchecked(c) ==
    /\ phase[c] = "storing"
    /\ phase' = [phase EXCEPT ![c] = "answered"]
    /\ etcd' = [etcd EXCEPT ![request[c].node] = pending[c]]
    /\ UNCHANGED <<request, pending, answer, faults>>

\* Faulty variant: starts over when the record is refused
PutRetries(c) ==
    /\ phase[c] = "storing"
    /\ IF ValidInfo(pending[c])
       THEN /\ phase' = [phase EXCEPT ![c] = "answered"]
            /\ etcd' = [etcd EXCEPT ![request[c].node] = pending[c]]
       ELSE /\ phase' = [phase EXCEPT ![c] = "running"]
            /\ UNCHANGED etcd
    /\ UNCHANGED <<request, pending, answer, faults>>

\* Faulty variant: a key that does not name the node
PutEverywhere(c) ==
    /\ phase[c] = "storing"
    /\ phase' = [phase EXCEPT ![c] = "answered"]
    /\ IF ValidInfo(pending[c])
       THEN etcd' = [n \in Nodes |-> pending[c]] /\ UNCHANGED answer
       ELSE answer' = [answer EXCEPT ![c] = Failed] /\ UNCHANGED etcd
    /\ UNCHANGED <<request, pending, faults>>

\* Put validates before it writes
Put(c) ==
    /\ phase[c] = "storing"
    /\ phase' = [phase EXCEPT ![c] = "answered"]
    /\ IF ValidInfo(pending[c])
       THEN /\ etcd' = [etcd EXCEPT ![request[c].node] = pending[c]]
            /\ UNCHANGED answer
       ELSE /\ answer' = [answer EXCEPT ![c] = Failed]
            /\ UNCHANGED etcd
    /\ UNCHANGED <<request, pending, faults>>

\* Delete asks for no record to be there
RemoveNode(c) ==
    /\ Running(c, "remove-node")
    /\ etcd' = [etcd EXCEPT ![request[c].node] = Absent]
    /\ phase' = [phase EXCEPT ![c] = "answered"]
    /\ answer' = [answer EXCEPT ![c] = Done]
    /\ UNCHANGED <<request, pending, faults>>

-----------------------------------------------------------------------------
(* The verbs that only read *)

\* plugincmd turns a node without a record into null, an empty resource
GetNodeResourceInfo(c) ==
    /\ Running(c, "get-node")
    /\ LET r == request[c]
           known == Diffs(GetOrEmpty(r.node), WorkloadsUsage(r.works))
           none  == [total |-> FALSE, missing |-> {}, mismatch |-> {}]
       IN  Reply(c, [ok |-> TRUE, info |-> GetOrEmpty(r.node),
                     diffs |-> IF etcd[r.node] = Absent THEN none ELSE known])

GetNodesResourceInfo(c) ==
    /\ Running(c, "get-nodes")
    /\ LET names == request[c].nodes
       IN  Reply(c, IF names = {} THEN Failed
                    ELSE [ok |-> TRUE, infos |-> GetMulti(names)])

GetNodesDeployCapacity(c) ==
    /\ Running(c, "deploy-capacity")
    /\ LET r == request[c]
           infos == GetMulti(r.nodes)
           capacities == [n \in Nodes |-> IF n \in r.nodes
                                          THEN ListedCapacity(infos[n], r.req) ELSE 0]
       IN  Reply(c, IF r.nodes = {} \/ ~Validate(r.req) THEN Failed
                    ELSE [ok |-> TRUE, capacities |-> capacities])

CalculateDeploy(c) ==
    /\ Running(c, "calculate-deploy")
    /\ LET r == request[c]
       IN  Reply(c, IF Validate(r.req) /\ DoAllocFits(GetOrEmpty(r.node), r.count, r.req)
                    THEN [ok |-> TRUE, works |-> [i \in 1..r.count |-> r.req]]
                    ELSE Failed)

CalculateRealloc(c) ==
    /\ Running(c, "calculate-realloc")
    /\ LET r == request[c]
       IN  Reply(c, IF /\ ValidateProd(r.req)
                       /\ Validate(r.workload)
                       /\ ReallocFits(GetOrEmpty(r.node), r.workload, r.req)
                    THEN [ok |-> TRUE, workload |-> Merge(r.req, r.workload),
                          delta |-> ReallocDelta(r.workload, r.req)]
                    ELSE Failed)

-----------------------------------------------------------------------------
(* What goes wrong around a call *)

Fault(c) ==
    /\ faults < MaxFaults
    /\ faults' = faults + 1
    /\ phase' = [phase EXCEPT ![c] = "answered"]
    /\ answer' = [answer EXCEPT ![c] = Failed]
    /\ UNCHANGED <<request, pending>>

\* etcd refuses, or the process is killed, before the write reaches etcd
FailBeforeWrite(c) ==
    /\ phase[c] \in {"running", "storing"}
    /\ Fault(c)
    /\ UNCHANGED etcd

\* The write reaches etcd and core never hears of it
FailAfterWrite(c) ==
    /\ \/ /\ phase[c] = "storing"
          /\ ValidInfo(pending[c])
          /\ etcd' = [etcd EXCEPT ![request[c].node] = pending[c]]
       \/ /\ Running(c, "remove-node")
          /\ etcd' = [etcd EXCEPT ![request[c].node] = Absent]
    /\ Fault(c)

Serve(c) ==
    \/ AddNode(c)
    \/ SetNodeResourceCapacity(c)
    \/ SetNodeResourceUsage(c)
    \/ SetNodeResourceInfo(c)
    \/ FixNodeResource(c)
    \/ Put(c)
    \/ RemoveNode(c)
    \/ GetNodeResourceInfo(c)
    \/ GetNodesResourceInfo(c)
    \/ GetNodesDeployCapacity(c)
    \/ CalculateDeploy(c)
    \/ CalculateRealloc(c)

Break(c) == FailBeforeWrite(c) \/ FailAfterWrite(c)

-----------------------------------------------------------------------------
(* Every record in etcd has passed Validate: the counts are positive and no *)
(* product is blank.  The comparison in FixNodeResource relies on it.       *)
StoredValid ==
    \A n \in Nodes : etcd[n] = Absent \/ ValidInfo(etcd[n])
=============================================================================
