----------------------------- MODULE GpuCluster -----------------------------
(***************************************************************************)
(* The GPU plugin under core.  Core is not in this repository: what is     *)
(* here is the protocol docs/protocol.md and docs/gpu.md give it.          *)
(*                                                                         *)
(*  - It holds the lock of a node around every operation that writes the   *)
(*    plugin's usage or capacity, and runs the operation's verbs one after *)
(*    the other.                                                           *)
(*  - It works on several plugins at once.  When another one fails where   *)
(*    this one succeeded, it replays this one's "before" snapshot with     *)
(*    delta false, a capacity through resource_request and a usage through *)
(*    resource.                                                            *)
(*  - When an operation leaves the usage in doubt it keeps a repair entry  *)
(*    for the node, and replays fix-node-resource until one succeeds.      *)
(*                                                                         *)
(* Each worker carries out one operation at a time.                        *)
(***************************************************************************)
EXTENDS GpuPlugin

CONSTANTS
    MaxWorkloads,   \* bound: workloads that exist at once
    CapacityEdits,  \* what operators ask for: [request, delta, incr] of a set
    NewCapacities,  \* the capacities nodes are added with
    DeployRequests, \* what users ask a workload to hold
    ReallocRequests,\* what users ask to change about one
    MaxDeploy,      \* bound: workloads of one deploy
    MaxCount        \* bound: cards of a product an edit may bring a node to

ASSUME MaxWorkloadsAssumption == MaxWorkloads \in Nat
ASSUME ClusterInputsAssumption ==
    /\ CapacityEdits \subseteq
         [request : CountMaps \cup {Keyless}, delta : BOOLEAN, incr : BOOLEAN]
    /\ NewCapacities \subseteq CountMaps
    /\ DeployRequests \subseteq CountMaps
    /\ ReallocRequests \subseteq CountMaps
    /\ MaxDeploy \in Nat

VARIABLES
    lock,           \* node -> the worker that holds its lock, or Nil
    task,           \* worker -> the operation it carries out, or Nil
    workload,       \* workload id -> its node and its cards, or Nil
    members,        \* the nodes core knows of
    repair          \* the nodes with a repair entry

coreVars == <<lock, task, workload, members, repair>>
vars == <<pluginVars, coreVars>>

Ids == 1..MaxWorkloads

Workload == [node : Nodes, cards : CountMaps]

(***************************************************************************)
(* An operation: "plan" asks calculate-deploy or calculate-realloc, "write" *)
(* is the verb that changes the record, "undo" replays a snapshot.  id is  *)
(* the workload concerned, cards what it is to hold, before the node's     *)
(* record when the lock was taken (no code reads it: it is there for the   *)
(* properties).                                                            *)
(***************************************************************************)
Task == [op : {"add", "remove", "edit", "deploy", "realloc", "discard", "fix"},
         step : {"plan", "write", "undo"},
         node : Nodes, id : Ids \cup {0}, cards : CountMaps, before : Infos]

ASSUME NilIsNobodyAssumption ==
    Nil \notin Callers /\ Nil \notin Task /\ Nil \notin Workload

ClusterTypeOK ==
    /\ PluginTypeOK
    /\ lock \in [Nodes -> Callers \cup {Nil}]
    /\ task \in [Callers -> Task \cup {Nil}]
    /\ workload \in [Ids -> Workload \cup {Nil}]
    /\ members \in SUBSET Nodes
    /\ repair \in SUBSET Nodes

\* Nodes may predate the plugin: core knows them and the plugin does not
Init ==
    /\ PluginInit
    /\ lock = [n \in Nodes |-> Nil]
    /\ task = [c \in Callers |-> Nil]
    /\ workload = [id \in Ids |-> Nil]
    /\ members \in SUBSET Nodes
    /\ repair = {}

On(n, id) == workload[id] # Nil /\ workload[id].node = n

\* The workload resources core passes for a node, an empty one in the place
\* of each workload that is not there
WorksOn(n) == [id \in Ids |-> IF On(n, id) THEN workload[id].cards ELSE NoCards]

Held(n) == WorkloadsUsage(WorksOn(n))

-----------------------------------------------------------------------------
(* Beginning and ending an operation *)

Begin(c, op, step, n, id, r) ==
    /\ task[c] = Nil
    /\ lock[n] = Nil
    /\ lock' = [lock EXCEPT ![n] = c]
    /\ task' = [task EXCEPT ![c] =
                  [op |-> op, step |-> step, node |-> n, id |-> id,
                   cards |-> NoCards, before |-> GetOrEmpty(n)]]
    /\ Start(c, r)
    /\ UNCHANGED <<workload, members, repair>>

Answered(c, op, step) ==
    /\ phase[c] = "answered"
    /\ task[c] # Nil
    /\ task[c].op = op
    /\ task[c].step = step

GoOn(c, step, cards, r) ==
    /\ task' = [task EXCEPT ![c].step = step, ![c].cards = cards]
    /\ StartNext(c, r)
    /\ UNCHANGED <<lock, workload, members, repair>>

\* The other plugins did their part, or this one failed: release the lock
End(c) ==
    /\ Collect(c)
    /\ lock' = [lock EXCEPT ![task[c].node] = Nil]
    /\ task' = [task EXCEPT ![c] = Nil]

UsageRequest(n, resource, works, delta, incr) ==
    [verb |-> "set-usage", node |-> n, resource |-> resource, request |-> Nil,
     works |-> works, delta |-> delta, incr |-> incr]

CapacityRequest(n, asked, delta, incr) ==
    [verb |-> "set-capacity", node |-> n, resource |-> Nil, request |-> asked,
     delta |-> delta, incr |-> incr]

\* Another plugin failed: put this one's snapshot back
UndoUsage(c) ==
    GoOn(c, "undo", task[c].cards,
         UsageRequest(task[c].node, answer[c].before, <<>>, FALSE, FALSE))

UndoCapacity(c) ==
    GoOn(c, "undo", task[c].cards,
         CapacityRequest(task[c].node, answer[c].before, FALSE, FALSE))

-----------------------------------------------------------------------------
(* Nodes *)

BeginAdd(c) ==
    \E n \in Nodes \ members, capacity \in NewCapacities :
        Begin(c, "add", "write", n, 0,
              [verb |-> "add-node", node |-> n, resource |-> capacity])

Added(c) ==
    /\ Answered(c, "add", "write")
    /\ \/ /\ answer[c].ok
          /\ End(c)
          /\ members' = members \cup {task[c].node}
          /\ UNCHANGED <<workload, repair>>
       \/ /\ answer[c].ok
          /\ GoOn(c, "undo", NoCards, [verb |-> "remove-node", node |-> task[c].node])
       \/ /\ ~answer[c].ok
          /\ End(c)
          /\ UNCHANGED <<workload, members, repair>>

AddUndone(c) ==
    /\ Answered(c, "add", "undo")
    /\ End(c)
    /\ UNCHANGED <<workload, members, repair>>

\* Core removes a node once no workload is left on it
BeginRemove(c) ==
    \E n \in members :
        /\ \A id \in Ids : ~On(n, id)
        /\ Begin(c, "remove", "write", n, 0, [verb |-> "remove-node", node |-> n])

Removed(c) ==
    /\ Answered(c, "remove", "write")
    /\ End(c)
    /\ IF answer[c].ok
       THEN members' = members \ {task[c].node} /\ repair' = repair \ {task[c].node}
       ELSE UNCHANGED <<members, repair>>
    /\ UNCHANGED workload

BeginEdit(c) ==
    \E n \in members, edit \in CapacityEdits :
        LET next == NextCapacity(GetOrEmpty(n), Nil, edit.request, edit.delta, edit.incr)
        IN  /\ \A prod \in Products : CountOf(next, prod) <= MaxCount
            /\ Begin(c, "edit", "write", n, 0,
                     CapacityRequest(n, edit.request, edit.delta, edit.incr))

Edited(c) ==
    /\ Answered(c, "edit", "write")
    /\ \/ /\ End(c)
          /\ UNCHANGED <<workload, members, repair>>
       \/ /\ answer[c].ok
          /\ UndoCapacity(c)

EditUndone(c) ==
    /\ Answered(c, "edit", "undo")
    /\ End(c)
    /\ UNCHANGED <<workload, members, repair>>

-----------------------------------------------------------------------------
(* Workloads *)

FreeIds == {id \in Ids : workload[id] = Nil}

BeginDeploy(c) ==
    \E n \in members, req \in DeployRequests, count \in 1..MaxDeploy :
        /\ count <= Cardinality(FreeIds)
        /\ Begin(c, "deploy", "plan", n, 0,
                 [verb |-> "calculate-deploy", node |-> n, count |-> count, req |-> req])

BeginRealloc(c) ==
    \E id \in Ids \ FreeIds, req \in ReallocRequests :
        Begin(c, "realloc", "plan", workload[id].node, id,
              [verb |-> "calculate-realloc", node |-> workload[id].node,
               workload |-> workload[id].cards, req |-> req])

BeginDiscard(c) ==
    \E id \in Ids \ FreeIds :
        Begin(c, "discard", "write", workload[id].node, id,
              UsageRequest(workload[id].node, Nil, <<workload[id].cards>>, TRUE, FALSE))

PlanFailed(c) ==
    /\ Answered(c, "deploy", "plan") \/ Answered(c, "realloc", "plan")
    /\ ~answer[c].ok
    /\ End(c)
    /\ UNCHANGED <<workload, members, repair>>

DeployPlanned(c) ==
    /\ Answered(c, "deploy", "plan")
    /\ answer[c].ok
    /\ GoOn(c, "write", request[c].req,
            UsageRequest(task[c].node, Nil, answer[c].works, TRUE, TRUE))

ReallocPlanned(c) ==
    /\ Answered(c, "realloc", "plan")
    /\ answer[c].ok
    /\ GoOn(c, "write", answer[c].workload,
            UsageRequest(task[c].node, Nil, <<answer[c].delta>>, TRUE, TRUE))

\* The usage is booked and every plugin agrees: the workloads change
Booked(c) ==
    /\ \/ /\ Answered(c, "deploy", "write")
          /\ \E ids \in kSubset(Len(request[c].works), FreeIds) :
                workload' = [id \in Ids |->
                    IF id \in ids THEN [node |-> task[c].node, cards |-> task[c].cards]
                    ELSE workload[id]]
       \/ /\ Answered(c, "realloc", "write")
          /\ workload' = [workload EXCEPT ![task[c].id].cards = task[c].cards]
       \/ /\ Answered(c, "discard", "write")
          /\ workload' = [workload EXCEPT ![task[c].id] = Nil]
    /\ answer[c].ok
    /\ End(c)
    /\ UNCHANGED <<members, repair>>

Booking(c) == \E op \in {"deploy", "realloc", "discard"} : Answered(c, op, "write")

BookingUndo(c) ==
    /\ Booking(c)
    /\ answer[c].ok
    /\ UndoUsage(c)

\* Whether the usage was written is not known
BookingFailed(c) ==
    /\ Booking(c)
    /\ ~answer[c].ok
    /\ End(c)
    /\ repair' = repair \cup {task[c].node}
    /\ UNCHANGED <<workload, members>>

BookingUndone(c) ==
    /\ \E op \in {"deploy", "realloc", "discard"} : Answered(c, op, "undo")
    /\ End(c)
    /\ repair' = IF answer[c].ok THEN repair ELSE repair \cup {task[c].node}
    /\ UNCHANGED <<workload, members>>

-----------------------------------------------------------------------------
(* Repair *)

BeginFix(c, n) ==
    /\ n \in repair
    /\ Begin(c, "fix", "write", n, 0,
             [verb |-> "fix-node", node |-> n, works |-> WorksOn(n)])

Fixed(c) ==
    /\ Answered(c, "fix", "write")
    /\ End(c)
    /\ repair' = IF answer[c].ok THEN repair \ {task[c].node} ELSE repair
    /\ UNCHANGED <<workload, members>>

-----------------------------------------------------------------------------
Core(c) ==
    \/ BeginAdd(c)     \/ Added(c)        \/ AddUndone(c)
    \/ BeginRemove(c)  \/ Removed(c)
    \/ BeginEdit(c)    \/ Edited(c)       \/ EditUndone(c)
    \/ BeginDeploy(c)  \/ DeployPlanned(c)
    \/ BeginRealloc(c) \/ ReallocPlanned(c)
    \/ BeginDiscard(c)
    \/ PlanFailed(c)   \/ Booked(c)       \/ BookingUndo(c)
    \/ BookingFailed(c) \/ BookingUndone(c)
    \/ \E n \in Nodes : BeginFix(c, n)
    \/ Fixed(c)

Plugin(c) == (Serve(c) \/ Break(c)) /\ UNCHANGED coreVars

Next == \E c \in Callers : Core(c) \/ Plugin(c)

Spec == Init /\ [][Next]_vars

(***************************************************************************)
(* A process that core started ends, if only because call_timeout kills    *)
(* it; core goes on once a call is answered; and it replays the repair     *)
(* entries, whatever else wants the node's lock.                           *)
(***************************************************************************)
Proceed(c) == phase[c] = "answered" /\ Core(c)

Fairness ==
    /\ \A c \in Callers : WF_vars(Plugin(c)) /\ WF_vars(Proceed(c))
    /\ \A n \in Nodes : SF_vars(\E c \in Callers : BeginFix(c, n))

FairSpec == Spec /\ Fairness

-----------------------------------------------------------------------------
(* Properties *)

Used(n, prod) == CountOf(GetOrEmpty(n).usage, prod)
Capacity(n, prod) == CountOf(GetOrEmpty(n).capacity, prod)

(***************************************************************************)
(* Between operations the stored usage of a node is exactly what its       *)
(* workloads hold, product by product and with no entry left over, unless  *)
(* the node waits for a repair: no booking is lost, booked twice or left   *)
(* behind by a roll-back (SetNodeResourceUsage, FixNodeResource).          *)
(***************************************************************************)
UsageIsHeld ==
    \A n \in Nodes :
        lock[n] = Nil /\ n \notin repair => GetOrEmpty(n).usage = Held(n)

(***************************************************************************)
(* What a call is about to write was computed from the record that is      *)
(* still there: a booking never takes back a capacity edit, nor an edit a  *)
(* booking, and the "before" it answers is the truth.  No verb compares    *)
(* anything when it writes; only the lock stands behind this.              *)
(***************************************************************************)
WriteIsFresh ==
    \A c \in Callers : phase[c] = "storing" =>
        LET info == GetOrEmpty(request[c].node)
            verb == request[c].verb
        IN  /\ verb \in {"set-usage", "fix-node"} => pending[c].capacity = info.capacity
            /\ verb = "set-capacity" => pending[c].usage = info.usage
            /\ verb = "set-usage" => answer[c].before = info.usage
            /\ verb = "set-capacity" => answer[c].before = info.capacity
            /\ verb = "add-node" => etcd[request[c].node] = Absent

(***************************************************************************)
(* An operation that was rolled back with success left the record it       *)
(* found: the replayed snapshot undoes an edit or a booking exactly.       *)
(***************************************************************************)
RollbackIsExact ==
    \A c \in Callers :
        /\ task[c] # Nil
        /\ task[c].step = "undo"
        /\ phase[c] = "answered"
        /\ answer[c].ok
        => GetOrEmpty(task[c].node) = task[c].before

(***************************************************************************)
(* To everybody outside a node's lock core's operations are atomic: what   *)
(* the lock's holder does to the record happens when it lets go, and then  *)
(* it is a step of the ledger.                                             *)
(***************************************************************************)
Settled(n) == IF lock[n] = Nil THEN GetOrEmpty(n) ELSE task[lock[n]].before

Counts(pcm) == [prod \in Products |-> CountOf(pcm, prod)]

Ledger == INSTANCE NodeLedger WITH
    Kinds    <- Products,
    capacity <- [n \in Nodes |-> Counts(Settled(n).capacity)],
    usage    <- [n \in Nodes |-> Counts(Settled(n).usage)],
    held     <- [n \in Nodes |-> Counts(Held(n))],
    doubt    <- repair

\* The plugin under core's lock, roll-backs and repairs implements the
\* ledger: each operation books workloads and usage together and within the
\* capacity, or changes nothing, or leaves the node in repair
\* (docs/protocol.md, Locking and "before").
ImplementsLedger == Ledger!Spec

(***************************************************************************)
(* Only a repair, or the roll-back of an operation, makes usage grow       *)
(* beyond the capacity of the moment: a deploy or a realloc that was       *)
(* planned against one capacity is never booked against a smaller one.     *)
(***************************************************************************)
NeverOverbooked ==
    [][\A n \in Nodes, prod \in Products :
          (/\ Used(n, prod)' > Used(n, prod)
           /\ Used(n, prod)' > Capacity(n, prod)')
          => /\ lock[n] # Nil
             /\ task[lock[n]].op = "fix" \/ task[lock[n]].step = "undo"]_vars

(***************************************************************************)
(* The record of a node comes into being only while core adds the node,    *)
(* edits it or books a workload on it, and goes only while core removes it *)
(* or rolls back its addition: no call on another node, and none that was  *)
(* killed before or after its Put, brings a removed node back.             *)
(***************************************************************************)
NoResurrection ==
    [][\A n \in Nodes :
          (etcd[n] = Absent) # (etcd'[n] = Absent)
          => /\ lock[n] # Nil
             /\ IF etcd[n] = Absent
                THEN n \in members \/ task[lock[n]].op = "add"
                ELSE task[lock[n]].op \in {"remove", "add"}]_vars

(***************************************************************************)
(* A node the plugin has a record of does not wait for its repair for      *)
(* ever.  Without a record fix-node-resource fails, and goes on failing.   *)
(***************************************************************************)
RepairEnds ==
    \A n \in Nodes :
        (n \in repair /\ etcd[n] # Absent) ~> (n \notin repair \/ etcd[n] = Absent)

\* Every operation ends and lets go of the node, whatever its calls answer
LocksAreReleased ==
    \A n \in Nodes : lock[n] # Nil ~> lock[n] = Nil
=============================================================================
