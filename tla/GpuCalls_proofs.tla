--------------------------- MODULE GpuCalls_proofs ---------------------------
(***************************************************************************)
(* What the GPU plugin guarantees with nobody taking a lock, for all       *)
(* nodes, callers, products, requests and numbers of calls.                *)
(*                                                                         *)
(* The inductive invariant is IInv: the types, the validity of every       *)
(* stored record, and that of every snapshot a call has answered.  The     *)
(* other properties are facts about what the verbs compute from a valid    *)
(* record (GpuPlugin_proofs), and follow from it state by state.           *)
(***************************************************************************)
EXTENDS GpuCalls, GpuPlugin_proofs

SnapshotsValid ==
    \A c \in Callers :
        (answer[c] # Nil /\ "before" \in DOMAIN answer[c]) => answer[c].before \in ValidMaps

IInv == TypeOK /\ StoredValid /\ SnapshotsValid

-----------------------------------------------------------------------------
\* A set verb answers the half of the record it read
LEMMA SnapshotsStayValid ==
    ASSUME PluginTypeOK, StoredValid, SnapshotsValid,
           NEW c \in Callers, Serve(c) \/ Break(c)
    PROVE  SnapshotsValid'
<1> DEFINE Known == \/ "before" \notin DOMAIN answer'[c]
                    \/ answer'[c].before \in ValidMaps
<1>1. \A d \in Callers : d # c => answer'[d] = answer[d]
  <2>1. CASE Break(c)
    BY <2>1 DEF Break, FailBeforeWrite, FailAfterWrite, Fault, PluginTypeOK
  <2>2. CASE Put(c) \/ RemoveNode(c)
    BY <2>2 DEF Put, RemoveNode, PluginTypeOK
  <2>3. CASE AddNode(c) \/ FixNodeResource(c)
    BY <2>3 DEF AddNode, FixNodeResource, Store, Reply, PluginTypeOK
  <2>4. CASE SetNodeResourceCapacity(c) \/ SetNodeResourceUsage(c) \/ SetNodeResourceInfo(c)
    BY <2>4 DEF SetNodeResourceCapacity, SetNodeResourceUsage, SetNodeResourceInfo,
                Store, PluginTypeOK
  <2>5. CASE \/ GetNodeResourceInfo(c) \/ GetNodesResourceInfo(c)
             \/ GetNodesDeployCapacity(c) \/ CalculateDeploy(c) \/ CalculateRealloc(c)
    BY <2>5 DEF GetNodeResourceInfo, GetNodesResourceInfo, GetNodesDeployCapacity,
                CalculateDeploy, CalculateRealloc, Reply, PluginTypeOK
  <2> QED
    BY <2>1, <2>2, <2>3, <2>4, <2>5 DEF Serve
<1>2. \A n \in Nodes : GetOrEmpty(n).capacity \in ValidMaps /\ GetOrEmpty(n).usage \in ValidMaps
  <2> TAKE n \in Nodes
  <2>1. GetOrEmpty(n) \in Infos
    BY ReadIsInfo
  <2>2. ValidInfo(GetOrEmpty(n))
    BY EmptyInfoIsInfo DEF StoredValid, GetOrEmpty
  <2> QED
    BY <2>1, <2>2 DEF ValidInfo, ValidMaps, Infos
<1>3. Known \/ answer'[c] = answer[c]
  <2>1. CASE Break(c)
    BY <2>1 DEF Break, FailBeforeWrite, FailAfterWrite, Fault, PluginTypeOK, Failed
  <2>2. CASE Put(c) \/ RemoveNode(c)
    BY <2>2 DEF Put, RemoveNode, PluginTypeOK, Failed, Done
  <2>3. CASE AddNode(c) \/ FixNodeResource(c)
    BY <2>3 DEF AddNode, FixNodeResource, Store, Reply, PluginTypeOK, Failed
  <2>4. CASE SetNodeResourceCapacity(c)
    <3>1. request[c] \in Requests /\ request[c].verb = "set-capacity"
      BY <2>4, RunningRequest DEF SetNodeResourceCapacity
    <3>2. request[c].node \in Nodes
      BY <3>1 DEF Requests
    <3>3. answer'[c].before = GetOrEmpty(request[c].node).capacity
      BY <2>4 DEF SetNodeResourceCapacity, Store, PluginTypeOK
    <3> QED
      BY <3>2, <3>3, <1>2
  <2>5. CASE SetNodeResourceUsage(c)
    <3>1. request[c] \in Requests /\ request[c].verb = "set-usage"
      BY <2>5, RunningRequest DEF SetNodeResourceUsage
    <3>2. request[c].node \in Nodes
      BY <3>1 DEF Requests
    <3>3. answer'[c].before = GetOrEmpty(request[c].node).usage
      BY <2>5 DEF SetNodeResourceUsage, Store, PluginTypeOK
    <3> QED
      BY <3>2, <3>3, <1>2
  <2>6. CASE SetNodeResourceInfo(c)
    BY <2>6 DEF SetNodeResourceInfo, Store, PluginTypeOK, Done
  <2>7. CASE \/ GetNodeResourceInfo(c) \/ GetNodesResourceInfo(c)
             \/ GetNodesDeployCapacity(c) \/ CalculateDeploy(c) \/ CalculateRealloc(c)
    BY <2>7 DEF GetNodeResourceInfo, GetNodesResourceInfo, GetNodesDeployCapacity,
                CalculateDeploy, CalculateRealloc, Reply, PluginTypeOK, Failed
  <2> QED
    BY <2>1, <2>2, <2>3, <2>4, <2>5, <2>6, <2>7 DEF Serve
<1> QED
  BY <1>1, <1>3 DEF SnapshotsValid

LEMMA InitIInv == Init => IInv
BY InitType, MaxCallsAssumption DEF Init, IInv, TypeOK, SnapshotsValid, PluginInit

LEMMA NextIInv == IInv /\ [Next]_vars => IInv'
<1> SUFFICES ASSUME IInv, [Next]_vars PROVE IInv'
  OBVIOUS
<1>1. PluginTypeOK /\ StoredValid /\ SnapshotsValid /\ calls \in 0..MaxCalls
  BY DEF IInv, TypeOK
<1>2. ASSUME NEW c \in Callers, Call(c)
      PROVE  IInv'
  <2>1. PICK r \in Inputs : Start(c, r)
    BY <1>2 DEF Call
  <2>2. PluginTypeOK'
    BY <1>1, <2>1, StartType, InputsAssumption
  <2>3. calls' \in 0..MaxCalls
    BY <1>1, <1>2, MaxCallsAssumption DEF Call
  <2> QED
    BY <1>1, <2>1, <2>2, <2>3 DEF IInv, TypeOK, Start, StoredValid, SnapshotsValid
<1>3. ASSUME NEW c \in Callers, Serve(c) \/ Break(c), UNCHANGED calls
      PROVE  IInv'
  BY <1>1, <1>3, ServeType, BreakType, StoredStaysValid, SnapshotsStayValid
     DEF IInv, TypeOK
<1>4. ASSUME NEW c \in Callers, Collect(c), UNCHANGED calls
      PROVE  IInv'
  <2>1. PluginTypeOK'
    BY <1>1, <1>4, CollectType
  <2>2. SnapshotsValid'
    BY <1>1, <1>4 DEF Collect, SnapshotsValid, PluginTypeOK
  <2> QED
    BY <1>1, <1>4, <2>1, <2>2 DEF IInv, TypeOK, Collect, StoredValid
<1>5. CASE UNCHANGED vars
  BY <1>1, <1>5 DEF vars, pluginVars, IInv, TypeOK, PluginTypeOK, StoredValid, SnapshotsValid
<1> QED
  BY <1>2, <1>3, <1>4, <1>5 DEF Next

\* Every reachable state satisfies the inductive invariant
THEOREM Invariance == Spec => []IInv
BY InitIInv, NextIInv, PTL DEF Spec

\* The variables keep their types (nodestore.Get decodes what Put encoded)
THEOREM TypeCorrect == Spec => []TypeOK
<1>1. IInv => TypeOK
  BY DEF IInv
<1> QED
  BY <1>1, Invariance, PTL

\* No interleaving of calls, failed or killed, stores a record that Validate
\* refuses (nodestore.Put)
THEOREM StoredRecordsAreValid == Spec => []StoredValid
<1>1. IInv => StoredValid
  BY DEF IInv
<1> QED
  BY <1>1, Invariance, PTL

-----------------------------------------------------------------------------
\* get-nodes-deploy-capacity and calculate-deploy agree on every record
THEOREM CapacityAndDeployAgree == Spec => []CapacityIsExact
<1>1. ASSUME IInv, NEW r \in InputsOf("deploy-capacity"), NEW n \in Nodes, Validate(r.req),
             NEW k \in 1..MaxCapacity + 1
      PROVE  /\ k <= DeployCapacity(GetOrEmpty(n), r.req) => DoAllocFits(GetOrEmpty(n), k, r.req)
             /\ DoAllocFits(GetOrEmpty(n), k, r.req) /\ k <= MaxCapacity
                  => k <= DeployCapacity(GetOrEmpty(n), r.req)
  <2>1. r.req \in CountMaps
    BY InputsAssumption DEF InputsOf, Requests
  <2>2. GetOrEmpty(n) \in Infos
    BY <1>1, ReadIsInfo DEF IInv, TypeOK
  <2>3. k \in Nat \ {0}
    BY MaxCapacityAssumption
  <2>4. CASE Count(r.req) > 0
    BY <1>1, <2>1, <2>2, <2>3, <2>4, DeployCapacityIsExact
  <2>5. CASE ~(Count(r.req) > 0)
    <3>1. Keys(r.req) = {}
      BY <1>1, <2>1, <2>5, CountOfValid
    <3> QED
      BY <2>5, <3>1 DEF DeployCapacity, DoAllocFits
  <2> QED
    BY <2>4, <2>5
<1>2. IInv => CapacityIsExact
  BY <1>1 DEF CapacityIsExact
<1> QED
  BY <1>2, Invariance, PTL

\* An accepted realloc can always be booked, and keeps the node's books
THEOREM ReallocsAreBookable == Spec => []ReallocKeepsBooks
<1>1. ASSUME IInv, NEW r \in InputsOf("calculate-realloc"),
             Validate(r.workload), ValidateProd(r.req),
             ReallocFits(GetOrEmpty(r.node), r.workload, r.req),
             \A prod \in Keys(r.workload) :
                 CountOf(GetOrEmpty(r.node).usage, prod) >= r.workload[prod]
      PROVE  LET info   == GetOrEmpty(r.node)
                 new    == Merge(r.req, r.workload)
                 booked == NextUsage(info, Nil, Nil, <<ReallocDelta(r.workload, r.req)>>,
                                     TRUE, TRUE)
             IN  /\ booked = Add(Sub(info.usage, r.workload), new)
                 /\ Validate(booked)
                 /\ \A prod \in Keys(new) : booked[prod] <= CountOf(info.capacity, prod)
  <2> DEFINE info  == GetOrEmpty(r.node)
             delta == ReallocDelta(r.workload, r.req)
  <2>1. r.req \in CountMaps /\ r.workload \in CountMaps /\ r.node \in Nodes
    BY InputsAssumption DEF InputsOf, Requests
  <2>2. info \in Infos
    BY <1>1, <2>1, ReadIsInfo DEF IInv, TypeOK
  <2>3. Validate(info.usage)
    BY <1>1, <2>1, EmptyInfoIsInfo DEF IInv, StoredValid, GetOrEmpty, ValidInfo
  <2>4. delta \in CountMaps
    BY <2>1, MergeIsMap, SubIsMap DEF ReallocDelta
  <2> HIDE DEF info
  <2>5. NextUsage(info, Nil, Nil, <<delta>>, TRUE, TRUE) = Add(info.usage, delta)
    <3> HIDE DEF delta
    <3> QED
      BY <2>2, <2>4, OneChangeIsAdded
  <2>6. \A prod \in Keys(r.workload) : CountOf(info.usage, prod) >= r.workload[prod]
    BY <1>1 DEF info
  <2>7. ReallocFits(info, r.workload, r.req)
    BY <1>1 DEF info
  <2>8. LET new    == Merge(r.req, r.workload)
            booked == Add(info.usage, delta)
        IN  /\ booked = Add(Sub(info.usage, r.workload), new)
            /\ Validate(booked)
            /\ \A prod \in Keys(new) : booked[prod] <= CountOf(info.capacity, prod)
    BY <1>1, <2>1, <2>2, <2>3, <2>6, <2>7, ReallocKeepsBooksFor
  <2> QED
    BY <2>5, <2>8 DEF info
<1>2. IInv => ReallocKeepsBooks
  BY <1>1 DEF ReallocKeepsBooks
<1> QED
  BY <1>2, Invariance, PTL

\* A snapshot any call has answered can be put back verbatim, over any record
THEOREM SnapshotsRestore == Spec => []RestoreIsVerbatim
<1>1. ASSUME IInv, NEW c \in Callers, NEW n \in Nodes, NEW incr \in BOOLEAN,
             answer[c] # Nil, "before" \in DOMAIN answer[c]
      PROVE  LET before == answer[c].before
             IN  /\ NextCapacity(GetOrEmpty(n), Nil, before, FALSE, incr) = before
                 /\ NextUsage(GetOrEmpty(n), before, Nil, <<>>, FALSE, incr) = before
  <2>1. answer[c].before \in CountMaps /\ Validate(answer[c].before)
    BY <1>1 DEF IInv, SnapshotsValid, ValidMaps
  <2> QED
    BY <2>1, SnapshotIsRestored
<1>2. IInv => RestoreIsVerbatim
  BY <1>1 DEF RestoreIsVerbatim
<1> QED
  BY <1>2, Invariance, PTL

\* fix-node-resource writes nothing only where there is nothing to repair
THEOREM FixMissesNothing == Spec => []DiffsAreComplete
<1>1. ASSUME IInv, NEW r \in InputsOf("fix-node"), etcd[r.node] # Absent,
             Validate(WorkloadsUsage(r.works))
      PROVE  NoDiffs(Diffs(etcd[r.node], WorkloadsUsage(r.works)))
                <=> etcd[r.node].usage = WorkloadsUsage(r.works)
  <2>1. r.works \in Seq(CountMaps) /\ r.node \in Nodes
    BY InputsAssumption DEF InputsOf, Requests, Works
  <2>2. WorkloadsUsage(r.works) \in CountMaps
    BY <2>1, NoCardsIsMap, ApplyAllIsMap DEF WorkloadsUsage
  <2>3. etcd[r.node] \in Infos /\ Validate(etcd[r.node].usage)
    BY <1>1, <2>1 DEF IInv, TypeOK, PluginTypeOK, StoredValid, ValidInfo
  <2> QED
    BY <1>1, <2>2, <2>3, DiffsAreCompleteFor
<1>2. IInv => DiffsAreComplete
  BY <1>1 DEF DiffsAreComplete
<1> QED
  BY <1>2, Invariance, PTL
=============================================================================
