------------------------- MODULE GpuCluster_proofs -------------------------
(***************************************************************************)
(* The GPU plugin under core's lock, for any nodes, workers, products,     *)
(* requests and bounds: what one operation has done to the record of its   *)
(* node at each of its steps, and that nobody else has done anything to it *)
(* meanwhile; and that each step of GpuCluster is a step of NodeLedger, so *)
(* that between operations the stored usage of a node is what its          *)
(* workloads hold.                                                         *)
(***************************************************************************)
EXTENDS GpuCluster, GpuPlugin_proofs

\* The operations that write usage
BookingOps == {"deploy", "realloc", "discard"}

\* The lock of a node is held by the worker whose operation is on it, and a
\* worker has a call running as long as it has an operation
LocksAreHeld ==
    /\ \A c \in Callers : task[c] = Nil <=> phase[c] = "idle"
    /\ \A c \in Callers : task[c] # Nil => lock[task[c].node] = c
    /\ \A n \in Nodes : lock[n] # Nil => task[lock[n]] # Nil /\ task[lock[n]].node = n

\* Workloads and repair entries are on nodes core knows
WorkloadsAreSound ==
    /\ \A id \in Ids : workload[id] # Nil =>
          workload[id].node \in members /\ Validate(workload[id].cards)
    /\ repair \subseteq members

\* Usage has grown within the capacity only
GrownWithin(before, info) ==
    \A prod \in Products :
        CountOf(info.usage, prod) > CountOf(before.usage, prod)
        => CountOf(info.usage, prod) <= CountOf(before.capacity, prod)

\* What the writes of an operation may have changed when it is rolled back
Touched(t, info) ==
    /\ t.op \in {"add", "edit"} => info.usage = t.before.usage
    /\ t.op \in BookingOps => /\ info.capacity = t.before.capacity
                              /\ GrownWithin(t.before, info)

\* The call an operation has running at each of its steps
Adds(t, r) ==
    /\ t.op = "add"
    /\ \/ t.step = "write" /\ r.verb = "add-node"
       \/ t.step = "undo" /\ r.verb = "remove-node" /\ t.before = EmptyInfo

Removes(t, r) ==
    /\ t.op = "remove" /\ t.step = "write" /\ r.verb = "remove-node"
    /\ \A id \in Ids : ~On(t.node, id)

Edits(t, r) ==
    /\ t.op = "edit"
    /\ \/ t.step = "write" /\ r.verb = "set-capacity"
       \/ /\ t.step = "undo"
          /\ r = CapacityRequest(t.node, t.before.capacity, FALSE, FALSE)

PlansDeploy(t, r) == t.op = "deploy" /\ t.step = "plan" /\ r.verb = "calculate-deploy"

\* The request works is a list of what each of the new workloads is to hold
BooksDeploy(t, r) ==
    /\ t.op = "deploy" /\ t.step = "write" /\ Validate(t.cards)
    /\ r = UsageRequest(t.node, Nil, [i \in 1..Len(r.works) |-> t.cards], TRUE, TRUE)
    /\ DoAllocFits(t.before, Len(r.works), t.cards)

\* Of the old cards of the workload
PlansRealloc(t, r, old) ==
    /\ t.op = "realloc" /\ t.step = "plan" /\ r.verb = "calculate-realloc"
    /\ r.workload = old /\ r.req \in ReallocRequests

BooksRealloc(t, r, old) ==
    /\ t.op = "realloc" /\ t.step = "write"
    /\ \E req \in ReallocRequests :
          /\ ValidateProd(req)
          /\ ReallocFits(t.before, old, req)
          /\ t.cards = Merge(req, old)
          /\ r = UsageRequest(t.node, Nil, <<ReallocDelta(old, req)>>, TRUE, TRUE)

BooksDiscard(t, r, old) ==
    /\ t.op = "discard" /\ t.step = "write"
    /\ r = UsageRequest(t.node, Nil, <<old>>, TRUE, FALSE)

UndoesBooking(t, r) ==
    /\ t.op \in BookingOps /\ t.step = "undo"
    /\ r = UsageRequest(t.node, t.before.usage, <<>>, FALSE, FALSE)

Fixes(t, r) ==
    /\ t.op = "fix" /\ t.step = "write" /\ r.verb = "fix-node"
    /\ r.works = WorksOn(t.node)
    /\ t.node \in repair

\* The call that goes with the operation, at the step it is at
Asks(t, r) ==
    \/ Adds(t, r) \/ Removes(t, r) \/ Edits(t, r)
    \/ PlansDeploy(t, r) \/ BooksDeploy(t, r)
    \/ PlansRealloc(t, r, workload[t.id].cards)
    \/ BooksRealloc(t, r, workload[t.id].cards)
    \/ BooksDiscard(t, r, workload[t.id].cards)
    \/ UndoesBooking(t, r) \/ Fixes(t, r)

\* The node and the workload the operation is about are still there
Stands(t, r) ==
    /\ r.node = t.node
    /\ t.op # "add" => t.node \in members
    /\ t.op \in {"realloc", "discard"} => t.id \in Ids /\ On(t.node, t.id)

\* The record is the one found under the lock until the verb answers; then it
\* is as the verb leaves it, if that answered well, or one of the two
Progress(t, r, ph, a, info) ==
    IF t.step = "undo"
    THEN /\ Touched(t, info)
         /\ ph = "answered" /\ a.ok => info = t.before
    ELSE IF ph = "answered"
    THEN /\ info \in {t.before, Result(r, t.before)}
         /\ a.ok => info = Result(r, t.before) /\ Success(r, t.before, a)
    ELSE info = t.before

\* What an operation under way has done so far to the record of its node
OperationOK(c) ==
    LET t == task[c]
    IN  /\ ValidInfo(t.before)
        /\ Asks(t, request[c])
        /\ Stands(t, request[c])
        /\ Fresh(c)
        /\ Progress(t, request[c], phase[c], answer[c], GetOrEmpty(t.node))

\* The inductive invariant
IInv ==
    /\ ClusterTypeOK
    /\ StoredValid
    /\ LocksAreHeld
    /\ WorkloadsAreSound
    /\ \A c \in Callers : task[c] # Nil => OperationOK(c)

-----------------------------------------------------------------------------
(* The lock *)

\* Operations under way are on different nodes
LEMMA OperationsAreApart ==
    ASSUME LocksAreHeld, NEW c \in Callers, NEW d \in Callers, c # d,
           task[c] # Nil, task[d] # Nil
    PROVE  task[c].node # task[d].node
BY DEF LocksAreHeld

\* The parts of an operation have their types
LEMMA TaskType ==
    ASSUME ClusterTypeOK, NEW c \in Callers, task[c] # Nil
    PROVE  /\ task[c] \in Task
           /\ task[c].node \in Nodes
           /\ task[c].before \in Infos
           /\ task[c].cards \in CountMaps
BY DEF ClusterTypeOK, Task

\* A worker with an operation has a request in the plugin's hands or its answer
LEMMA HasRequest ==
    ASSUME ClusterTypeOK, LocksAreHeld, NEW c \in Callers, task[c] # Nil
    PROVE  request[c] \in Requests /\ phase[c] # "idle"
BY DEF ClusterTypeOK, PluginTypeOK, LocksAreHeld

\* What an operation asks stays what it asks, while the workloads on its node do
LEMMA AsksIsKept ==
    ASSUME NEW d \in Callers, NEW m \in Nodes, task[d].node = m,
           Asks(task[d], request[d]), Stands(task[d], request[d]),
           task'[d] = task[d], request'[d] = request[d],
           \A id \in Ids : On(m, id) \/ On(m, id)' => workload'[id] = workload[id],
           m \in members => m \in members', m \in repair => m \in repair'
    PROVE  Asks(task[d], request[d])' /\ Stands(task[d], request[d])'
<1> DEFINE t   == task[d]
           r   == request[d]
           old == workload[t.id].cards
<1>1. \A id \in Ids : On(m, id)' <=> On(m, id)
  BY DEF On
<1>2. WorksOn(m)' = WorksOn(m)
  BY <1>1 DEF WorksOn
<1>3. t.op \in {"realloc", "discard"} => workload'[t.id] = workload[t.id] /\ On(m, t.id)'
  BY <1>1 DEF Stands
<1>4. Stands(t, r)'
  BY <1>3 DEF Stands
<1>5. Removes(t, r) => Removes(t, r)'
  BY <1>1 DEF Removes
<1>6. Fixes(t, r) => Fixes(t, r)'
  BY <1>2 DEF Fixes
<1>7. t.op \in {"realloc", "discard"} => old' = old
  BY <1>3
<1> HIDE DEF old
<1>8. /\ PlansRealloc(t, r, old) => PlansRealloc(t, r, old)'
      /\ BooksRealloc(t, r, old) => BooksRealloc(t, r, old)'
      /\ BooksDiscard(t, r, old) => BooksDiscard(t, r, old)'
  BY <1>7 DEF PlansRealloc, BooksRealloc, BooksDiscard, UsageRequest
<1>9. /\ Adds(t, r) => Adds(t, r)'
      /\ Edits(t, r) => Edits(t, r)'
      /\ PlansDeploy(t, r) => PlansDeploy(t, r)'
      /\ BooksDeploy(t, r) => BooksDeploy(t, r)'
      /\ UndoesBooking(t, r) => UndoesBooking(t, r)'
  BY DEF Adds, Edits, PlansDeploy, BooksDeploy, UndoesBooking, UsageRequest, CapacityRequest
<1> QED
  BY <1>4, <1>5, <1>6, <1>8, <1>9 DEF Asks, old

\* An operation goes on undisturbed while its call, its node's record and the
\* workloads on its node stay as they are
LEMMA OperationIsKept ==
    ASSUME NEW d \in Callers, OperationOK(d), NEW m \in Nodes, task[d].node = m,
           task'[d] = task[d], phase'[d] = phase[d], request'[d] = request[d],
           pending'[d] = pending[d], answer'[d] = answer[d], etcd'[m] = etcd[m],
           \A id \in Ids : On(m, id) \/ On(m, id)' => workload'[id] = workload[id],
           m \in members => m \in members', m \in repair => m \in repair'
    PROVE  OperationOK(d)'
<1> DEFINE t == task[d]
           r == request[d]
<1>1. GetOrEmpty(m)' = GetOrEmpty(m)
  BY DEF GetOrEmpty
<1>2. Asks(t, r)' /\ Stands(t, r)'
  BY AsksIsKept DEF OperationOK
<1>3. Fresh(d)'
  BY <1>1 DEF OperationOK, Stands, Fresh
<1>4. Progress(t, r, phase[d], answer[d], GetOrEmpty(m))'
  BY <1>1 DEF OperationOK, Progress
<1> QED
  BY <1>2, <1>3, <1>4 DEF OperationOK

-----------------------------------------------------------------------------
(* The plugin's steps *)

\* An operation that has written nothing has touched nothing
LEMMA NothingTouched ==
    ASSUME NEW t \in Task
    PROVE  Touched(t, t.before)
<1>1. \A prod \in Products : CountOf(t.before.usage, prod) \in Int
  BY CountOfIsInt DEF Task, Infos
<1> QED
  BY <1>1 DEF Touched, GrownWithin

\* A repair hands the plugin what the workloads of its node hold
LEMMA FixesWhatIsHeld ==
    ASSUME NEW t, NEW r, Asks(t, r), r.verb = "fix-node"
    PROVE  r.works = WorksOn(t.node)
BY DEF Asks, Adds, Removes, Edits, PlansDeploy, BooksDeploy, PlansRealloc, BooksRealloc,
       BooksDiscard, UndoesBooking, Fixes, UsageRequest, CapacityRequest

\* A replayed snapshot, or the removal of a node that was not there, puts back
\* what the operation found
LEMMA UndoRestores ==
    ASSUME NEW t \in Task, NEW r, Asks(t, r), t.step = "undo", ValidInfo(t.before),
           NEW info \in Infos, Touched(t, info)
    PROVE  Result(r, info) = t.before
<1>1. t.before \in Infos /\ Validate(t.before.capacity) /\ Validate(t.before.usage)
  BY DEF Task, ValidInfo
<1>2. t.before.capacity \in CountMaps /\ t.before.usage \in CountMaps
  BY <1>1 DEF Infos
<1>3. CASE Adds(t, r)
  BY <1>3 DEF Adds, Result
<1>4. CASE Edits(t, r)
  <2>1. r = CapacityRequest(t.node, t.before.capacity, FALSE, FALSE) /\ t.op = "edit"
    BY <1>4 DEF Edits
  <2> DEFINE next == NextCapacity(info, Nil, t.before.capacity, FALSE, FALSE)
  <2>2. Result(r, info) = [info EXCEPT !.capacity = next]
    BY <2>1 DEF Result, CapacityRequest
  <2>3. next = t.before.capacity
    BY <1>1, <1>2, SnapshotIsRestored, ZenonT(60)
  <2> HIDE DEF next
  <2>4. info.usage = t.before.usage
    BY <2>1 DEF Touched
  <2> QED
    BY <2>2, <2>3, <2>4, <1>1 DEF Infos
<1>5. CASE UndoesBooking(t, r)
  <2>1. r = UsageRequest(t.node, t.before.usage, <<>>, FALSE, FALSE) /\ t.op \in BookingOps
    BY <1>5 DEF UndoesBooking
  <2> DEFINE next == NextUsage(info, t.before.usage, Nil, <<>>, FALSE, FALSE)
  <2>2. Result(r, info) = [info EXCEPT !.usage = next]
    BY <2>1 DEF Result, UsageRequest
  <2>3. next = t.before.usage
    BY <1>1, <1>2, SnapshotIsRestored, ZenonT(60)
  <2> HIDE DEF next
  <2>4. info.capacity = t.before.capacity
    BY <2>1 DEF Touched
  <2> QED
    BY <2>2, <2>3, <2>4, <1>1 DEF Infos
<1> QED
  BY <1>3, <1>4, <1>5 DEF Asks, Removes, PlansDeploy, BooksDeploy, PlansRealloc,
                          BooksRealloc, BooksDiscard, Fixes

\* Core calls only verbs that are about one node
LEMMA AskedVerbs ==
    ASSUME NEW t, NEW r, Asks(t, r)
    PROVE  r.verb \in NodeVerbs
BY DEF Asks, Adds, Removes, Edits, PlansDeploy, BooksDeploy, PlansRealloc, BooksRealloc,
       BooksDiscard, UndoesBooking, Fixes, NodeVerbs, UsageRequest, CapacityRequest

\* What the workloads of a node hold is a valid map
LEMMA HeldIsValid ==
    ASSUME ClusterTypeOK, WorkloadsAreSound, NEW n \in Nodes
    PROVE  /\ WorksOn(n) \in Seq(CountMaps)
           /\ Len(WorksOn(n)) = MaxWorkloads
           /\ Held(n) \in CountMaps
           /\ Validate(Held(n))
<1>1. \A id \in Ids : /\ WorksOn(n)[id] \in CountMaps
                      /\ Validate(WorksOn(n)[id])
  <2> TAKE id \in Ids
  <2>1. CASE On(n, id)
    BY <2>1 DEF On, WorksOn, ClusterTypeOK, Workload, WorkloadsAreSound
  <2>2. CASE ~On(n, id)
    BY <2>2, NoCardsIsMap DEF WorksOn, Validate, ValidateProd, NoCards, Keys
  <2> QED
    BY <2>1, <2>2
<1>2. WorksOn(n) = [id \in 1..MaxWorkloads |-> WorksOn(n)[id]]
  BY DEF WorksOn, Ids
<1>3. WorksOn(n) \in Seq(CountMaps) /\ Len(WorksOn(n)) = MaxWorkloads
  <2> DEFINE works == WorksOn(n)
  <2>1. works = [id \in 1..MaxWorkloads |-> works[id]]
    BY <1>2
  <2>2. \A id \in 1..MaxWorkloads : works[id] \in CountMaps
    BY <1>1 DEF Ids
  <2> HIDE DEF works
  <2>3. works \in Seq(CountMaps) /\ Len(works) = MaxWorkloads
    BY <2>1, <2>2, MaxWorkloadsAssumption
  <2> QED
    BY <2>3 DEF works
<1> QED
  BY <1>1, <1>3, SumOfValidIsValid DEF Held, Ids

\* A step of a plugin process: the record of the locked node goes from what the
\* operation found to what its verb makes of it, and no other record changes
LEMMA PluginKeepsIInv ==
    ASSUME IInv, NEW c \in Callers, Plugin(c)
    PROVE  IInv'
<1> DEFINE t == task[c]
           r == request[c]
<1>1. /\ PluginTypeOK /\ ClusterTypeOK /\ StoredValid /\ LocksAreHeld /\ WorkloadsAreSound
      /\ \A d \in Callers : task[d] # Nil => OperationOK(d)
  BY DEF IInv, ClusterTypeOK
<1>2. (Serve(c) \/ Break(c)) /\ UNCHANGED coreVars
  BY DEF Plugin
<1>3. /\ lock' = lock /\ task' = task /\ workload' = workload
      /\ members' = members /\ repair' = repair
  BY <1>2 DEF coreVars
<1>4. /\ phase[c] \in {"running", "storing"}
      /\ request' = request
      /\ \A d \in Callers \ {c} : /\ phase'[d] = phase[d]
                                  /\ pending'[d] = pending[d]
                                  /\ answer'[d] = answer[d]
      /\ \A m \in Nodes : m # r.node => etcd'[m] = etcd[m]
  BY <1>1, <1>2, CallsAreApart
<1>5. t # Nil /\ t \in Task /\ t.node \in Nodes
  BY <1>1, <1>4, TaskType DEF LocksAreHeld
<1> PICK n \in Nodes : n = t.node
  BY <1>5
<1> DEFINE info == GetOrEmpty(n)
<1>6. OperationOK(c) /\ r.node = n /\ Fresh(c) /\ r.verb \in NodeVerbs
  BY <1>1, <1>5, AskedVerbs DEF OperationOK, Stands
<1>7. r.verb = "fix-node" => /\ WorkloadsUsage(r.works) \in CountMaps
                             /\ Validate(WorkloadsUsage(r.works))
  <2>1. r.verb = "fix-node" => r.works = WorksOn(n)
    BY <1>6, FixesWhatIsHeld DEF OperationOK
  <2> QED
    BY <2>1, <1>1, <1>5, HeldIsValid DEF Held
<1>8. Called(c, n, info)
  BY <1>1, <1>2, <1>5, <1>6, <1>7, CallStep
<1>9. PluginTypeOK' /\ StoredValid'
  BY <1>1, <1>2, ServeType, BreakType, StoredStaysValid
<1>10. ClusterTypeOK'
  BY <1>1, <1>3, <1>9 DEF ClusterTypeOK
<1>11. LocksAreHeld'
  <2>1. phase'[c] # "idle"
    BY <1>8 DEF Called
  <2>2. \A d \in Callers : phase'[d] = "idle" <=> phase[d] = "idle"
    BY <1>4, <2>1
  <2> QED
    BY <1>1, <1>3, <2>2 DEF LocksAreHeld
<1>12. WorkloadsAreSound'
  BY <1>1, <1>3 DEF WorkloadsAreSound
<1>13. ASSUME NEW d \in Callers, d # c, task[d] # Nil
       PROVE  OperationOK(d)'
  <2>1. task[d].node # n /\ task[d].node \in Nodes
    BY <1>1, <1>5, <1>13, OperationsAreApart, TaskType
  <2>2. etcd'[task[d].node] = etcd[task[d].node]
    BY <1>4, <1>6, <2>1
  <2> QED
    BY <1>1, <1>3, <1>4, <1>13, <2>1, <2>2, OperationIsKept
<1>14. OperationOK(c)'
  <2>1. Asks(t, r)' /\ Stands(t, r)'
    BY <1>3, <1>4, <1>6, AsksIsKept DEF OperationOK
  <2>2. ValidInfo(t.before)
    BY <1>6 DEF OperationOK
  <2>3. Fresh(c)'
    BY <1>8 DEF Called, Fresh
  <2>4. info \in Infos
    BY <1>1, <1>5, ReadIsInfo
  <2>5. Progress(t, r, phase[c], answer[c], info)
    BY <1>6 DEF OperationOK
  <2> HIDE DEF info
  <2>6. CASE t.step = "undo"
    <3>1. Touched(t, info)
      BY <2>5, <2>6 DEF Progress
    <3>2. Result(r, info) = t.before
      BY <1>5, <1>6, <2>4, <2>6, <3>1, UndoRestores DEF OperationOK
    <3>3. GetOrEmpty(n)' \in {info, t.before}
      BY <1>8, <3>2 DEF Called, GetOrEmpty, info
    <3>4. phase'[c] = "answered" /\ answer'[c].ok => GetOrEmpty(n)' = t.before
      BY <1>8, <3>2 DEF Called
    <3>5. Touched(t, GetOrEmpty(n)')
      BY <1>5, <3>1, <3>3, NothingTouched
    <3>6. Progress(t, r, phase'[c], answer'[c], GetOrEmpty(n)')
      BY <2>6, <3>4, <3>5 DEF Progress
    <3> QED
      BY <1>3, <1>4, <2>1, <2>2, <2>3, <3>6 DEF OperationOK
  <2>7. CASE t.step # "undo"
    <3>1. info = t.before
      BY <1>4, <2>5, <2>7 DEF Progress
    <3>2. phase'[c] # "answered" => GetOrEmpty(n)' = info
      BY <1>8 DEF Called, GetOrEmpty, info
    <3>3. Progress(t, r, phase'[c], answer'[c], GetOrEmpty(n)')
      BY <2>7, <3>1, <3>2, <1>8 DEF Called, Progress
    <3> QED
      BY <1>3, <1>4, <2>1, <2>2, <2>3, <3>3 DEF OperationOK
  <2> QED
    BY <2>6, <2>7
<1>15. \A d \in Callers : task'[d] # Nil => OperationOK(d)'
  BY <1>3, <1>13, <1>14
<1> QED
  BY <1>9, <1>10, <1>11, <1>12, <1>15 DEF IInv

-----------------------------------------------------------------------------
(* Core begins an operation, goes on with it, and ends it *)

\* Calls are judged by the workloads, and stay what they are while those do
LEMMA SameWorkloadsSameAsk ==
    ASSUME NEW t, NEW r, Asks(t, r), Stands(t, r),
           workload' = workload, members' = members, repair' = repair
    PROVE  Asks(t, r)' /\ Stands(t, r)'
BY DEF Asks, Stands, Adds, Removes, Edits, PlansDeploy, BooksDeploy, PlansRealloc,
       BooksRealloc, BooksDiscard, UndoesBooking, Fixes, WorksOn, On, UsageRequest,
       CapacityRequest

\* Core takes a free lock and starts the first call of an operation
LEMMA BeginKeepsIInv ==
    ASSUME IInv, NEW c \in Callers, NEW op, NEW step, NEW n \in Nodes, NEW id,
           NEW r \in Requests, Begin(c, op, step, n, id, r),
           NEW t \in Task, step # "undo", Asks(t, r), Stands(t, r),
           t = [op |-> op, step |-> step, node |-> n, id |-> id,
                cards |-> NoCards, before |-> GetOrEmpty(n)]
    PROVE  IInv'
<1>1. /\ PluginTypeOK /\ ClusterTypeOK /\ StoredValid /\ LocksAreHeld /\ WorkloadsAreSound
      /\ \A d \in Callers : task[d] # Nil => OperationOK(d)
  BY DEF IInv, ClusterTypeOK
<1>2. /\ task[c] = Nil /\ lock[n] = Nil /\ Start(c, r)
      /\ lock' = [lock EXCEPT ![n] = c]
      /\ task' = [task EXCEPT ![c] = t]
      /\ workload' = workload /\ members' = members /\ repair' = repair
  BY DEF Begin
<1>3. /\ phase' = [phase EXCEPT ![c] = "running"]
      /\ request' = [request EXCEPT ![c] = r]
      /\ etcd' = etcd /\ pending' = pending /\ answer' = answer
  BY <1>2 DEF Start
<1>4. PluginTypeOK'
  BY <1>1, <1>2, StartType
<1>5. ClusterTypeOK'
  BY <1>1, <1>2, <1>4 DEF ClusterTypeOK
<1>6. StoredValid' /\ WorkloadsAreSound'
  BY <1>1, <1>2, <1>3 DEF StoredValid, WorkloadsAreSound
<1>7. /\ task'[c] = t /\ phase'[c] = "running" /\ request'[c] = r
      /\ \A d \in Callers \ {c} : /\ task'[d] = task[d]
                                  /\ phase'[d] = phase[d]
                                  /\ request'[d] = request[d]
  BY <1>1, <1>2, <1>3 DEF ClusterTypeOK, PluginTypeOK
<1>8. t # Nil /\ t.node = n /\ c # Nil
  BY NilIsNobodyAssumption
<1>9. \A d \in Callers : task[d] # Nil => d # c /\ task[d].node # n /\ task[d].node \in Nodes
  BY <1>1, <1>2, TaskType, NilIsNobodyAssumption DEF LocksAreHeld
<1>10. LocksAreHeld'
  <2>1. lock'[n] = c /\ \A m \in Nodes : m # n => lock'[m] = lock[m]
    BY <1>1, <1>2 DEF ClusterTypeOK
  <2>2. \A d \in Callers : task'[d] = Nil <=> phase'[d] = "idle"
    BY <1>1, <1>7, <1>8 DEF LocksAreHeld
  <2>3. \A d \in Callers : task'[d] # Nil => lock'[task'[d].node] = d
    BY <1>1, <1>7, <1>8, <1>9, <2>1 DEF LocksAreHeld
  <2>4. ASSUME NEW m \in Nodes, lock'[m] # Nil
        PROVE  task'[lock'[m]] # Nil /\ task'[lock'[m]].node = m
    <3>1. CASE m = n
      BY <3>1, <2>1, <1>7, <1>8
    <3>2. CASE m # n
      <4>1. lock'[m] = lock[m] /\ lock[m] \in Callers /\ task[lock[m]] # Nil
            /\ task[lock[m]].node = m
        BY <3>2, <2>1, <2>4, <1>1 DEF LocksAreHeld, ClusterTypeOK
      <4> QED
        BY <4>1, <1>7, <1>9
    <3> QED
      BY <3>1, <3>2
  <2> QED
    BY <2>2, <2>3, <2>4 DEF LocksAreHeld
<1>11. ASSUME NEW d \in Callers, d # c, task[d] # Nil
       PROVE  OperationOK(d)'
  BY <1>1, <1>2, <1>3, <1>7, <1>9, <1>11, OperationIsKept
<1>12. OperationOK(c)'
  <2>1. Asks(t, r)' /\ Stands(t, r)'
    BY <1>2, SameWorkloadsSameAsk
  <2>2. ValidInfo(t.before)
    BY <1>1, ReadIsValid
  <2>3. Fresh(c)'
    BY <1>7 DEF Fresh
  <2>4. GetOrEmpty(n)' = t.before
    BY <1>3 DEF GetOrEmpty
  <2>5. Progress(t, r, "running", answer'[c], GetOrEmpty(n)')
    BY <2>4 DEF Progress
  <2> QED
    BY <1>7, <1>8, <2>1, <2>2, <2>3, <2>5 DEF OperationOK
<1>13. \A d \in Callers : task'[d] # Nil => OperationOK(d)'
  BY <1>7, <1>11, <1>12
<1> QED
  BY <1>5, <1>6, <1>10, <1>13 DEF IInv

\* Core goes on with the next call of an operation, or with undoing it
LEMMA GoOnKeepsIInv ==
    ASSUME IInv, NEW c \in Callers, task[c] # Nil, NEW step \in {"write", "undo"},
           NEW cards \in CountMaps, NEW r \in Requests, GoOn(c, step, cards, r),
           NEW t, t = [task[c] EXCEPT !.step = step, !.cards = cards],
           Asks(t, r), Stands(t, r),
           IF step = "undo" THEN Touched(t, GetOrEmpty(t.node))
                            ELSE GetOrEmpty(t.node) = t.before
    PROVE  IInv'
<1>1. /\ PluginTypeOK /\ ClusterTypeOK /\ StoredValid /\ LocksAreHeld /\ WorkloadsAreSound
      /\ \A d \in Callers : task[d] # Nil => OperationOK(d)
  BY DEF IInv, ClusterTypeOK
<1>2. /\ StartNext(c, r) /\ lock' = lock
      /\ task' = [task EXCEPT ![c] = t]
      /\ workload' = workload /\ members' = members /\ repair' = repair
  BY DEF GoOn
<1>3. /\ phase' = [phase EXCEPT ![c] = "running"]
      /\ request' = [request EXCEPT ![c] = r]
      /\ pending' = [pending EXCEPT ![c] = Nil]
      /\ answer' = [answer EXCEPT ![c] = Nil]
      /\ etcd' = etcd
  BY <1>2 DEF StartNext
<1>4. task[c] \in Task /\ task[c].node \in Nodes
  BY <1>1, TaskType
<1>5. /\ t \in Task /\ t # Nil
      /\ t.node = task[c].node /\ t.before = task[c].before /\ t.step = step
      /\ t.op = task[c].op
  BY <1>4, NilIsNobodyAssumption DEF Task
<1>6. PluginTypeOK'
  BY <1>1, <1>2, StartNextType
<1>7. ClusterTypeOK'
  BY <1>1, <1>2, <1>5, <1>6 DEF ClusterTypeOK
<1>8. StoredValid' /\ WorkloadsAreSound'
  BY <1>1, <1>2, <1>3 DEF StoredValid, WorkloadsAreSound
<1>9. /\ task'[c] = t /\ phase'[c] = "running" /\ request'[c] = r
      /\ \A d \in Callers \ {c} : /\ task'[d] = task[d]
                                  /\ phase'[d] = phase[d]
                                  /\ request'[d] = request[d]
                                  /\ pending'[d] = pending[d]
                                  /\ answer'[d] = answer[d]
  BY <1>1, <1>2, <1>3 DEF ClusterTypeOK, PluginTypeOK
<1>10. LocksAreHeld'
  BY <1>1, <1>2, <1>5, <1>9 DEF LocksAreHeld, ClusterTypeOK
<1>11. ASSUME NEW d \in Callers, d # c, task[d] # Nil
       PROVE  OperationOK(d)'
  BY <1>1, <1>2, <1>3, <1>9, <1>11, TaskType, OperationIsKept
<1>12. OperationOK(c)'
  <2>1. Asks(t, r)' /\ Stands(t, r)'
    BY <1>2, SameWorkloadsSameAsk
  <2>2. ValidInfo(t.before)
    BY <1>1, <1>5 DEF OperationOK
  <2>3. Fresh(c)'
    BY <1>9 DEF Fresh
  <2>4. GetOrEmpty(t.node)' = GetOrEmpty(t.node)
    BY <1>3 DEF GetOrEmpty
  <2>5. Progress(t, r, "running", answer'[c], GetOrEmpty(t.node)')
    BY <1>5, <2>4 DEF Progress
  <2> QED
    BY <1>9, <2>1, <2>2, <2>3, <2>5 DEF OperationOK
<1>13. \A d \in Callers : task'[d] # Nil => OperationOK(d)'
  BY <1>9, <1>11, <1>12
<1> QED
  BY <1>7, <1>8, <1>10, <1>13 DEF IInv

\* Core ends an operation: it may change what it keeps of the operation's node, and
\* nothing of the others
LEMMA EndKeepsIInv ==
    ASSUME IInv, NEW c \in Callers, task[c] # Nil, End(c),
           NEW n \in Nodes, n = task[c].node,
           workload' \in [Ids -> Workload \cup {Nil}],
           members' \in SUBSET Nodes, repair' \in SUBSET Nodes, WorkloadsAreSound',
           \A m \in Nodes \ {n} :
              /\ m \in members => m \in members'
              /\ m \in repair => m \in repair'
              /\ \A id \in Ids : On(m, id) \/ On(m, id)' => workload'[id] = workload[id]
    PROVE  IInv'
<1>1. /\ PluginTypeOK /\ ClusterTypeOK /\ StoredValid /\ LocksAreHeld /\ WorkloadsAreSound
      /\ \A d \in Callers : task[d] # Nil => OperationOK(d)
  BY DEF IInv, ClusterTypeOK
<1>2. /\ Collect(c)
      /\ lock' = [lock EXCEPT ![n] = Nil]
      /\ task' = [task EXCEPT ![c] = Nil]
  BY DEF End
<1>3. /\ phase' = [phase EXCEPT ![c] = "idle"]
      /\ request' = [request EXCEPT ![c] = Nil]
      /\ pending' = [pending EXCEPT ![c] = Nil]
      /\ answer' = [answer EXCEPT ![c] = Nil]
      /\ etcd' = etcd
  BY <1>2 DEF Collect
<1>4. PluginTypeOK'
  BY <1>1, <1>2, CollectType
<1>5. ClusterTypeOK'
  BY <1>1, <1>2, <1>4 DEF ClusterTypeOK
<1>6. StoredValid'
  BY <1>1, <1>3 DEF StoredValid
<1>7. /\ task'[c] = Nil /\ phase'[c] = "idle"
      /\ \A d \in Callers \ {c} : /\ task'[d] = task[d]
                                  /\ phase'[d] = phase[d]
                                  /\ request'[d] = request[d]
                                  /\ pending'[d] = pending[d]
                                  /\ answer'[d] = answer[d]
  BY <1>1, <1>2, <1>3 DEF ClusterTypeOK, PluginTypeOK
<1>8. \A d \in Callers \ {c} : task[d] # Nil => task[d].node # n /\ task[d].node \in Nodes
  BY <1>1, TaskType, OperationsAreApart
<1>9. LocksAreHeld'
  <2>1. lock'[n] = Nil /\ \A m \in Nodes : m # n => lock'[m] = lock[m]
    BY <1>1, <1>2 DEF ClusterTypeOK
  <2>2. \A d \in Callers : task'[d] = Nil <=> phase'[d] = "idle"
    BY <1>1, <1>7 DEF LocksAreHeld
  <2>3. \A d \in Callers : task'[d] # Nil => lock'[task'[d].node] = d
    BY <1>1, <1>7, <1>8, <2>1 DEF LocksAreHeld
  <2>4. ASSUME NEW m \in Nodes, lock'[m] # Nil
        PROVE  task'[lock'[m]] # Nil /\ task'[lock'[m]].node = m
    <3>1. m # n /\ lock'[m] = lock[m] /\ lock[m] \in Callers
          /\ task[lock[m]] # Nil /\ task[lock[m]].node = m
      BY <2>1, <2>4, <1>1 DEF LocksAreHeld, ClusterTypeOK
    <3>2. lock[m] # c
      BY <3>1
    <3> QED
      BY <3>1, <3>2, <1>7
  <2> QED
    BY <2>2, <2>3, <2>4 DEF LocksAreHeld
<1>10. ASSUME NEW d \in Callers, d # c, task[d] # Nil
       PROVE  OperationOK(d)'
  BY <1>1, <1>3, <1>7, <1>8, <1>10, OperationIsKept
<1>11. \A d \in Callers : task'[d] # Nil => OperationOK(d)'
  BY <1>7, <1>10
<1> QED
  BY <1>5, <1>6, <1>9, <1>11 DEF IInv

-----------------------------------------------------------------------------
(* What a booking does to the usage *)

\* The bookings in a request are a sequence of maps
LEMMA UsageRequestType ==
    ASSUME NEW r \in Requests, r.verb = "set-usage"
    PROVE  r.works \in Seq(CountMaps) /\ Len(r.works) \in Nat
BY DEF Requests, Works

\* A booking changes the usage of the record and nothing else
LEMMA BookingResult ==
    ASSUME NEW r, r.verb = "set-usage", NEW info \in Infos, NEW next,
           next = NextUsage(info, r.resource, r.request, r.works, r.delta, r.incr)
    PROVE  /\ Result(r, info) = [info EXCEPT !.usage = next]
           /\ Result(r, info).usage = next
           /\ Result(r, info).capacity = info.capacity
BY DEF Result, Infos

\* A deploy of n equal workloads adds n times their cards, and what it adds
\* was free: the last of doAlloc's loops found room for its own
LEMMA DeployCounts ==
    ASSUME NEW t \in Task, NEW r \in Requests, BooksDeploy(t, r), NEW prod \in Products
    PROVE  LET n    == Len(r.works)
               info == Result(r, t.before)
           IN  /\ info.capacity = t.before.capacity
               /\ n \in Nat
               /\ CountOf(t.cards, prod) \in Nat
               /\ CountOf(info.usage, prod)
                    = CountOf(t.before.usage, prod) + n * CountOf(t.cards, prod)
               /\ CountOf(info.usage, prod) > CountOf(t.before.usage, prod)
                    => CountOf(info.usage, prod) <= CountOf(t.before.capacity, prod)
<1> DEFINE n    == Len(r.works)
           cap  == t.before.capacity
           used == t.before.usage
           copies == [i \in 1..n |-> t.cards]
<1>1. /\ t.before \in Infos /\ cap \in CountMaps /\ used \in CountMaps
      /\ t.cards \in CountMaps /\ Validate(t.cards)
  BY DEF Task, Infos, BooksDeploy
<1>2. /\ r.verb = "set-usage" /\ r.resource = Nil /\ r.request = Nil /\ r.works = copies
      /\ r.delta = TRUE /\ r.incr = TRUE
  BY DEF BooksDeploy, UsageRequest
<1>3. n \in Nat
  BY <1>2, UsageRequestType
<1> DEFINE next == ApplyAll(used, copies, TRUE)
<1>4. next = NextUsage(t.before, r.resource, r.request, r.works, r.delta, r.incr)
  BY <1>2 DEF NextUsage, CalculateNodeResource
<1>5. CountOf(next, prod) = CountOf(used, prod) + n * CountOf(t.cards, prod)
  BY <1>1, <1>3, CopiesAreCounted
<1>6. CountOf(t.cards, prod) \in Nat
  BY <1>1, ValidIsTight, CountOfIsInt
<1>7. CountOf(cap, prod) \in Int /\ CountOf(used, prod) \in Int
  BY <1>1, CountOfIsInt
<1>8. ASSUME n > 0, CountOf(t.cards, prod) > 0
      PROVE  n * CountOf(t.cards, prod) <= CountOf(cap, prod) - CountOf(used, prod)
  <2> DEFINE available == AvailableResource(t.before)
             k         == CountOf(t.cards, prod)
  <2>1. prod \in Keys(t.cards) /\ t.cards[prod] = k
    BY <1>8 DEF CountOf
  <2>2. n \in 1..n /\ DoAllocFits(t.before, n, t.cards)
    <3>1. DoAllocFits(t.before, n, t.cards)
      BY DEF BooksDeploy
    <3> HIDE DEF n
    <3> QED
      BY <1>3, <1>8, <3>1
  <2>3. prod \in Keys(available) /\ available[prod] - (n - 1) * t.cards[prod] >= t.cards[prod]
    BY <2>1, <2>2 DEF DoAllocFits
  <2>4. available[prod] = CountOf(cap, prod) - CountOf(used, prod)
    BY <1>1, <2>3, SubCounts DEF AvailableResource, CountOf
  <2>5. CountOf(cap, prod) - CountOf(used, prod) - (n - 1) * k >= k
    BY <2>1, <2>3, <2>4
  <2> HIDE DEF k
  <2>6. k \in Nat
    BY <1>6 DEF k
  <2>7. (n - 1) * k = n * k - k
    BY <1>3, <2>6
  <2>8. n * k \in Int
    BY <1>3, <2>6
  <2>9. n * k <= CountOf(cap, prod) - CountOf(used, prod)
    <3> DEFINE p == n * k
               q == (n - 1) * k
    <3> HIDE DEF p, q
    <3>1. q = p - k /\ p \in Int /\ CountOf(cap, prod) - CountOf(used, prod) - q >= k
      BY <2>5, <2>7, <2>8 DEF p, q
    <3>2. p <= CountOf(cap, prod) - CountOf(used, prod)
      BY <3>1, <2>6, <1>7
    <3> QED
      BY <3>2 DEF p
  <2> QED
    BY <2>9 DEF k
<1> HIDE DEF next, copies, n
<1>9. Result(r, t.before).usage = next /\ Result(r, t.before).capacity = cap
  BY <1>1, <1>2, <1>4, BookingResult
<1>10. n = 0 \/ CountOf(t.cards, prod) = 0 => n * CountOf(t.cards, prod) = 0
  BY <1>3, <1>6
<1>11. n * CountOf(t.cards, prod) \in Int
  BY <1>3, <1>6
<1>12. CountOf(next, prod) > CountOf(used, prod) => CountOf(next, prod) <= CountOf(cap, prod)
  <2> DEFINE p == n * CountOf(t.cards, prod)
  <2>1. p \in Int /\ (n = 0 \/ CountOf(t.cards, prod) = 0 => p = 0)
        /\ (n > 0 /\ CountOf(t.cards, prod) > 0 => p <= CountOf(cap, prod) - CountOf(used, prod))
        /\ CountOf(next, prod) = CountOf(used, prod) + p
    BY <1>5, <1>8, <1>10, <1>11
  <2> HIDE DEF p
  <2> QED
    BY <2>1, <1>3, <1>6, <1>7
<1> QED
  BY <1>3, <1>5, <1>6, <1>9, <1>12 DEF n

\* A realloc gives the workload's old cards back and takes the new ones, for
\* which there was room without the old ones
LEMMA ReallocCounts ==
    ASSUME NEW t \in Task, NEW r \in Requests, NEW old \in CountMaps, Validate(old),
           BooksRealloc(t, r, old), NEW prod \in Products
    PROVE  LET info == Result(r, t.before)
           IN  /\ info.capacity = t.before.capacity
               /\ CountOf(info.usage, prod)
                    = CountOf(t.before.usage, prod)
                        + (CountOf(t.cards, prod) - CountOf(old, prod))
               /\ CountOf(info.usage, prod) > CountOf(t.before.usage, prod)
                    => CountOf(info.usage, prod) <= CountOf(t.before.capacity, prod)
<1> DEFINE cap  == t.before.capacity
           used == t.before.usage
<1>0. PICK req \in ReallocRequests :
        /\ ReallocFits(t.before, old, req)
        /\ t.cards = Merge(req, old)
        /\ r = UsageRequest(t.node, Nil, <<ReallocDelta(old, req)>>, TRUE, TRUE)
  BY DEF BooksRealloc
<1>1. /\ t.before \in Infos /\ cap \in CountMaps /\ used \in CountMaps
      /\ t.cards \in CountMaps /\ req \in CountMaps
  BY ClusterInputsAssumption DEF Task, Infos
<1> DEFINE change == ReallocDelta(old, req)
<1>2. change \in CountMaps /\ change = Sub(t.cards, old)
  BY <1>0, <1>1, SubIsMap DEF ReallocDelta
<1> HIDE DEF change
<1>3. /\ r.verb = "set-usage" /\ r.resource = Nil /\ r.request = Nil /\ r.works = <<change>>
      /\ r.delta = TRUE /\ r.incr = TRUE
  BY <1>0 DEF UsageRequest, change
<1> DEFINE next == Add(used, change)
<1>4. next = NextUsage(t.before, r.resource, r.request, r.works, r.delta, r.incr)
  BY <1>1, <1>2, <1>3, OneChangeIsAdded
<1>5. CountOf(next, prod)
        = CountOf(used, prod) + (CountOf(t.cards, prod) - CountOf(old, prod))
  BY <1>1, <1>2, AddCounts, SubCounts
<1> HIDE DEF next
<1>6. Result(r, t.before).usage = next /\ Result(r, t.before).capacity = cap
  BY <1>1, <1>3, <1>4, BookingResult
<1>7. /\ CountOf(cap, prod) \in Int /\ CountOf(used, prod) \in Int
      /\ CountOf(t.cards, prod) \in Int /\ CountOf(old, prod) \in Int
      /\ CountOf(old, prod) >= 0
  BY <1>1, CountOfIsInt, ValidIsTight
<1>8. ASSUME prod \in Keys(t.cards)
      PROVE  CountOf(t.cards, prod)
               <= CountOf(cap, prod) - (CountOf(used, prod) - CountOf(old, prod))
  <2> DEFINE without == WithoutWorkload(t.before, old)
  <2>1. without \in Infos /\ without.usage = Sub(used, old) /\ without.capacity = cap
    BY <1>1, SubIsMap DEF WithoutWorkload, Infos
  <2>2. DoAllocFits(without, 1, t.cards)
    BY <1>0 DEF ReallocFits
  <2> HIDE DEF without
  <2>3. t.cards[prod] <= CountOf(AvailableResource(without), prod)
    BY <1>1, <1>8, <2>1, <2>2, OneDeployFits
  <2>4. CountOf(AvailableResource(without), prod)
          = CountOf(cap, prod) - CountOf(Sub(used, old), prod)
    <3>1. Sub(used, old) \in CountMaps
      BY <1>1, SubIsMap
    <3>2. AvailableResource(without) = Sub(cap, Sub(used, old))
      BY <2>1 DEF AvailableResource
    <3> QED
      BY <1>1, <3>1, <3>2, SubCounts
  <2>5. CountOf(Sub(used, old), prod) = CountOf(used, prod) - CountOf(old, prod)
    BY <1>1, SubCounts
  <2>6. CountOf(t.cards, prod) = t.cards[prod]
    BY <1>8 DEF CountOf
  <2> QED
    BY <2>3, <2>4, <2>5, <2>6
<1>9. prod \notin Keys(t.cards) => CountOf(t.cards, prod) = 0
  BY DEF CountOf
<1>10. CountOf(next, prod) > CountOf(used, prod) => CountOf(next, prod) <= CountOf(cap, prod)
  BY <1>5, <1>7, <1>8, <1>9
<1> QED
  BY <1>5, <1>6, <1>10

\* The end of a workload gives its cards back
LEMMA DiscardCounts ==
    ASSUME NEW t \in Task, NEW r \in Requests, NEW old \in CountMaps,
           BooksDiscard(t, r, old), NEW prod \in Products
    PROVE  LET info == Result(r, t.before)
           IN  /\ info.capacity = t.before.capacity
               /\ CountOf(info.usage, prod)
                    = CountOf(t.before.usage, prod) - CountOf(old, prod)
<1> DEFINE used == t.before.usage
           next == Sub(used, old)
<1>1. t.before \in Infos /\ used \in CountMaps
  BY DEF Task, Infos
<1>2. /\ r.verb = "set-usage" /\ r.resource = Nil /\ r.request = Nil /\ r.works = <<old>>
      /\ r.delta = TRUE /\ r.incr = FALSE
  BY DEF BooksDiscard, UsageRequest
<1>3. next = NextUsage(t.before, r.resource, r.request, r.works, r.delta, r.incr)
  BY <1>1, <1>2, OneChangeIsSubtracted
<1>4. Result(r, t.before).usage = next /\ Result(r, t.before).capacity = t.before.capacity
  BY <1>1, <1>2, <1>3, BookingResult
<1>5. CountOf(next, prod) = CountOf(used, prod) - CountOf(old, prod)
  BY <1>1, SubCounts
<1> QED
  BY <1>4, <1>5

\* The workload a realloc or a discard is about
LEMMA OldCards ==
    ASSUME ClusterTypeOK, WorkloadsAreSound, NEW t, NEW r, Stands(t, r),
           t.op \in {"realloc", "discard"}
    PROVE  /\ t.id \in Ids /\ workload[t.id] # Nil /\ workload[t.id].node = t.node
           /\ workload[t.id] \in Workload
           /\ workload[t.id].cards \in CountMaps
           /\ Validate(workload[t.id].cards)
BY DEF Stands, On, WorkloadsAreSound, ClusterTypeOK, Workload

\* A booking may be rolled back: it left the capacity alone and went beyond it
\* nowhere
LEMMA BookingTouches ==
    ASSUME ClusterTypeOK, WorkloadsAreSound, NEW t \in Task, NEW r \in Requests,
           Asks(t, r), Stands(t, r), t.op \in BookingOps, t.step = "write"
    PROVE  Touched(t, Result(r, t.before))
<1> DEFINE info == Result(r, t.before)
           old  == workload[t.id].cards
<1> SUFFICES info.capacity = t.before.capacity /\ GrownWithin(t.before, info)
  BY DEF Touched, BookingOps
<1>1. t.op \in {"realloc", "discard"} => old \in CountMaps /\ Validate(old)
  BY OldCards
<1>2. Products = {} => GrownWithin(t.before, info)
  BY DEF GrownWithin
<1> HIDE DEF old
<1>3. CASE BooksDeploy(t, r)
  <2>1. \A prod \in Products :
           /\ info.capacity = t.before.capacity
           /\ CountOf(info.usage, prod) > CountOf(t.before.usage, prod)
                => CountOf(info.usage, prod) <= CountOf(t.before.capacity, prod)
    BY <1>3, DeployCounts
  <2>2. info.capacity = t.before.capacity
    BY <1>3, BookingResult DEF BooksDeploy, UsageRequest, Task
  <2> HIDE DEF info
  <2> QED
    BY <2>1, <2>2 DEF GrownWithin
<1>4. CASE BooksRealloc(t, r, old)
  <2>1. \A prod \in Products :
           CountOf(info.usage, prod) > CountOf(t.before.usage, prod)
             => CountOf(info.usage, prod) <= CountOf(t.before.capacity, prod)
    BY <1>1, <1>4, ReallocCounts DEF BooksRealloc
  <2>2. info.capacity = t.before.capacity
    BY <1>4, BookingResult DEF BooksRealloc, UsageRequest, Task
  <2> HIDE DEF info
  <2> QED
    BY <2>1, <2>2 DEF GrownWithin
<1>5. CASE BooksDiscard(t, r, old)
  <2>1. old \in CountMaps /\ Validate(old)
    BY <1>1, <1>5 DEF BooksDiscard
  <2>2. ASSUME NEW prod \in Products
        PROVE  /\ CountOf(info.usage, prod) = CountOf(t.before.usage, prod) - CountOf(old, prod)
               /\ CountOf(t.before.usage, prod) \in Int
               /\ CountOf(old, prod) \in Int /\ CountOf(old, prod) >= 0
    BY <1>5, <2>1, DiscardCounts, CountOfIsInt, ValidIsTight DEF Task, Infos
  <2>3. info.capacity = t.before.capacity
    BY <1>5, BookingResult DEF BooksDiscard, UsageRequest, Task
  <2> HIDE DEF info
  <2>4. \A prod \in Products : ~(CountOf(info.usage, prod) > CountOf(t.before.usage, prod))
    BY <2>2
  <2> QED
    BY <2>3, <2>4 DEF GrownWithin
<1> QED
  BY <1>3, <1>4, <1>5 DEF Asks, Adds, Removes, Edits, PlansDeploy, PlansRealloc,
                          UndoesBooking, Fixes, BookingOps, old

-----------------------------------------------------------------------------
(* The operations, action by action *)

\* Before the first operation
LEMMA InitIInv == Init => IInv
<1> SUFFICES ASSUME Init PROVE IInv
  OBVIOUS
<1>1. PluginTypeOK /\ StoredValid
  BY InitType DEF Init
<1>2. ClusterTypeOK
  BY <1>1 DEF Init, ClusterTypeOK
<1>3. LocksAreHeld
  BY DEF Init, PluginInit, LocksAreHeld
<1>4. WorkloadsAreSound
  BY DEF Init, WorkloadsAreSound
<1>5. \A c \in Callers : task[c] = Nil
  BY DEF Init
<1> QED
  BY <1>1, <1>2, <1>3, <1>4, <1>5 DEF IInv

\* What core knows when it has an answer in its hands
LEMMA AnsweredOperation ==
    ASSUME IInv, NEW c \in Callers, NEW op, NEW step, Answered(c, op, step)
    PROVE  /\ ClusterTypeOK /\ WorkloadsAreSound
           /\ task[c] # Nil /\ task[c] \in Task /\ task[c].op = op /\ task[c].step = step
           /\ task[c].node \in Nodes /\ lock[task[c].node] = c
           /\ request[c] \in Requests /\ request[c].node = task[c].node
           /\ ValidInfo(task[c].before) /\ task[c].before \in Infos
           /\ Asks(task[c], request[c]) /\ Stands(task[c], request[c])
           /\ Progress(task[c], request[c], "answered", answer[c], GetOrEmpty(task[c].node))
BY TaskType, HasRequest DEF Answered, IInv, OperationOK, Stands, LocksAreHeld

\* An operation that ends without a change to the workloads
LEMMA EndOnly ==
    ASSUME IInv, NEW c \in Callers, NEW op, NEW step, Answered(c, op, step), End(c),
           workload' = workload, members' \in SUBSET Nodes, repair' \in SUBSET Nodes,
           \A m \in Nodes \ {task[c].node} : (m \in members' <=> m \in members)
                                             /\ (m \in repair' <=> m \in repair),
           repair' \subseteq members',
           members \subseteq members' \/ \A id \in Ids : ~On(task[c].node, id)
    PROVE  IInv'
<1> PICK n \in Nodes : n = task[c].node
  BY AnsweredOperation
<1>1. task[c] # Nil /\ ClusterTypeOK /\ WorkloadsAreSound
  BY AnsweredOperation
<1>2. WorkloadsAreSound'
  <2> SUFFICES ASSUME NEW id \in Ids, workload[id] # Nil
               PROVE  workload[id].node \in members'
    BY <1>1 DEF WorkloadsAreSound
  <2>1. workload[id].node \in members /\ workload[id].node \in Nodes
    BY <1>1 DEF WorkloadsAreSound, ClusterTypeOK, Workload
  <2> QED
    BY <2>1 DEF On
<1>3. \A m \in Nodes \ {n} :
         /\ m \in members => m \in members'
         /\ m \in repair => m \in repair'
         /\ \A id \in Ids : On(m, id) \/ On(m, id)' => workload'[id] = workload[id]
  OBVIOUS
<1>4. workload' \in [Ids -> Workload \cup {Nil}]
  BY <1>1 DEF ClusterTypeOK
<1> QED
  BY <1>1, <1>2, <1>3, <1>4, EndKeepsIInv

\* What an operation starts with is an operation
LEMMA NewTask ==
    ASSUME IInv, NEW n \in Nodes, NEW id \in Ids \cup {0},
           NEW op \in {"add", "remove", "edit", "deploy", "realloc", "discard", "fix"},
           NEW step \in {"plan", "write", "undo"}
    PROVE  [op |-> op, step |-> step, node |-> n, id |-> id,
            cards |-> NoCards, before |-> GetOrEmpty(n)] \in Task
<1>1. GetOrEmpty(n) \in Infos
  BY ReadIsInfo DEF IInv, ClusterTypeOK
<1> QED
  BY <1>1, NoCardsIsMap DEF Task

\* A node is being added
LEMMA AddStarts ==
    ASSUME IInv, NEW c \in Callers, BeginAdd(c)
    PROVE  IInv'
<1> PICK n \in Nodes, capacity \in NewCapacities :
      Begin(c, "add", "write", n, 0,
            [verb |-> "add-node", node |-> n, resource |-> capacity])
  BY DEF BeginAdd
<1> DEFINE t == [op |-> "add", step |-> "write", node |-> n, id |-> 0,
                 cards |-> NoCards, before |-> GetOrEmpty(n)]
           r == [verb |-> "add-node", node |-> n, resource |-> capacity]
<1>1. t \in Task
  BY NewTask
<1>2. r \in Requests
  BY ClusterInputsAssumption DEF Requests
<1>3. Asks(t, r) /\ Stands(t, r)
  BY DEF Asks, Adds, Stands
<1> HIDE DEF r
<1> QED
  BY <1>1, <1>2, <1>3, BeginKeepsIInv DEF r

\* A node was added, or the addition is undone
LEMMA AddEnds ==
    ASSUME IInv, NEW c \in Callers, Added(c)
    PROVE  IInv'
<1>0. Answered(c, "add", "write")
  BY DEF Added
<1> DEFINE t == task[c]
           info == GetOrEmpty(t.node)
<1>1. /\ ClusterTypeOK /\ WorkloadsAreSound /\ t # Nil /\ t \in Task /\ t.op = "add"
      /\ t.step = "write" /\ t.node \in Nodes /\ t.before \in Infos
      /\ request[c] \in Requests /\ Asks(t, request[c])
      /\ Progress(t, request[c], "answered", answer[c], info)
  BY <1>0, AnsweredOperation
<1>2. CASE End(c) /\ workload' = workload /\ repair' = repair
           /\ members' \in {members, members \cup {t.node}}
  <2>1. members \in SUBSET Nodes /\ repair \in SUBSET Nodes /\ repair \subseteq members
    BY <1>1 DEF ClusterTypeOK, WorkloadsAreSound
  <2> QED
    BY <1>0, <1>1, <1>2, <2>1, EndOnly
<1>3. CASE answer[c].ok /\ GoOn(c, "undo", NoCards, [verb |-> "remove-node", node |-> t.node])
  <2> DEFINE r  == [verb |-> "remove-node", node |-> t.node]
             t1 == [t EXCEPT !.step = "undo", !.cards = NoCards]
  <2>1. r \in Requests
    BY <1>1 DEF Requests
  <2>2. /\ t1.op = "add" /\ t1.step = "undo" /\ t1.node = t.node /\ t1.before = t.before
    BY <1>1 DEF Task
  <2>3. /\ request[c].verb = "add-node"
    BY <1>1 DEF Asks, Adds, Removes, Edits, PlansDeploy, BooksDeploy, PlansRealloc,
                BooksRealloc, BooksDiscard, UndoesBooking, Fixes
  <2>4. info = Result(request[c], t.before) /\ t.before = EmptyInfo
    BY <1>1, <1>3, <2>3 DEF Progress, Success
  <2>5. info.usage = NoCards /\ t.before.usage = NoCards
    BY <2>3, <2>4 DEF Result, EmptyInfo
  <2> HIDE DEF info, t1
  <2>6. Touched(t1, info)
    BY <2>2, <2>5 DEF Touched, BookingOps
  <2>7. Asks(t1, r) /\ Stands(t1, r)
    BY <2>2, <2>4 DEF Asks, Adds, Stands
  <2> HIDE DEF r
  <2> QED
    BY <1>1, <1>3, <2>1, <2>2, <2>6, <2>7, NoCardsIsMap, GoOnKeepsIInv DEF r, t1, info
<1> QED
  BY <1>2, <1>3 DEF Added

\* The addition was undone
LEMMA AddUndoEnds ==
    ASSUME IInv, NEW c \in Callers, AddUndone(c)
    PROVE  IInv'
<1>1. Answered(c, "add", "undo") /\ End(c) /\ UNCHANGED <<workload, members, repair>>
  BY DEF AddUndone
<1>2. ClusterTypeOK /\ WorkloadsAreSound
  BY <1>1, AnsweredOperation
<1> QED
  BY <1>1, <1>2, EndOnly DEF ClusterTypeOK, WorkloadsAreSound

\* A node without workloads is being removed
LEMMA RemoveStarts ==
    ASSUME IInv, NEW c \in Callers, BeginRemove(c)
    PROVE  IInv'
<1>0. members \in SUBSET Nodes
  BY DEF IInv, ClusterTypeOK
<1>1. PICK n \in members :
        /\ \A id \in Ids : ~On(n, id)
        /\ Begin(c, "remove", "write", n, 0, [verb |-> "remove-node", node |-> n])
  BY DEF BeginRemove
<1> DEFINE t == [op |-> "remove", step |-> "write", node |-> n, id |-> 0,
                 cards |-> NoCards, before |-> GetOrEmpty(n)]
           r == [verb |-> "remove-node", node |-> n]
<1>2. t \in Task /\ n \in Nodes
  BY <1>0, NewTask
<1>3. r \in Requests
  BY <1>2 DEF Requests
<1>4. Asks(t, r) /\ Stands(t, r)
  BY <1>1 DEF Asks, Removes, Stands
<1> HIDE DEF r
<1> QED
  BY <1>1, <1>2, <1>3, <1>4, BeginKeepsIInv DEF r

\* A node was removed, or not
LEMMA RemoveEnds ==
    ASSUME IInv, NEW c \in Callers, Removed(c)
    PROVE  IInv'
<1>1. /\ Answered(c, "remove", "write") /\ End(c) /\ workload' = workload
      /\ \/ members' = members \ {task[c].node} /\ repair' = repair \ {task[c].node}
         \/ members' = members /\ repair' = repair
  BY DEF Removed
<1>2. /\ ClusterTypeOK /\ WorkloadsAreSound /\ task[c].op = "remove"
      /\ Asks(task[c], request[c])
  BY <1>1, AnsweredOperation
<1>3. \A id \in Ids : ~On(task[c].node, id)
  BY <1>2 DEF Asks, Adds, Removes, Edits, PlansDeploy, BooksDeploy, PlansRealloc,
              BooksRealloc, BooksDiscard, UndoesBooking, BookingOps, Fixes
<1> QED
  BY <1>1, <1>2, <1>3, EndOnly DEF ClusterTypeOK, WorkloadsAreSound

\* The capacity of a node is being set
LEMMA EditStarts ==
    ASSUME IInv, NEW c \in Callers, BeginEdit(c)
    PROVE  IInv'
<1>0. members \in SUBSET Nodes
  BY DEF IInv, ClusterTypeOK
<1>1. PICK n \in members, edit \in CapacityEdits :
        Begin(c, "edit", "write", n, 0,
              CapacityRequest(n, edit.request, edit.delta, edit.incr))
  BY DEF BeginEdit
<1> DEFINE t == [op |-> "edit", step |-> "write", node |-> n, id |-> 0,
                 cards |-> NoCards, before |-> GetOrEmpty(n)]
           r == CapacityRequest(n, edit.request, edit.delta, edit.incr)
<1>2. t \in Task /\ n \in Nodes
  BY <1>0, NewTask
<1>3. r \in Requests
  BY <1>2, ClusterInputsAssumption DEF Requests, CapacityRequest
<1>4. Asks(t, r) /\ Stands(t, r)
  BY DEF Asks, Edits, Stands, CapacityRequest
<1> HIDE DEF r
<1> QED
  BY <1>1, <1>2, <1>3, <1>4, BeginKeepsIInv DEF r

\* The capacity was set, or is put back
LEMMA EditEnds ==
    ASSUME IInv, NEW c \in Callers, Edited(c)
    PROVE  IInv'
<1>0. Answered(c, "edit", "write")
  BY DEF Edited
<1> DEFINE t == task[c]
           info == GetOrEmpty(t.node)
<1>1. /\ ClusterTypeOK /\ WorkloadsAreSound /\ t # Nil /\ t \in Task /\ t.op = "edit"
      /\ t.step = "write" /\ t.node \in Nodes /\ t.before \in Infos
      /\ request[c] \in Requests /\ Asks(t, request[c]) /\ Stands(t, request[c])
      /\ Progress(t, request[c], "answered", answer[c], info)
  BY <1>0, AnsweredOperation
<1>2. CASE End(c) /\ UNCHANGED <<workload, members, repair>>
  BY <1>0, <1>1, <1>2, EndOnly DEF ClusterTypeOK, WorkloadsAreSound
<1>3. CASE answer[c].ok /\ UndoCapacity(c)
  <2>1. request[c].verb = "set-capacity"
    BY <1>1 DEF Asks, Adds, Removes, Edits, PlansDeploy, BooksDeploy, PlansRealloc,
                BooksRealloc, BooksDiscard, UndoesBooking, Fixes
  <2>2. info = Result(request[c], t.before) /\ answer[c].before = t.before.capacity
    BY <1>1, <1>3, <2>1 DEF Progress, Success
  <2> DEFINE r  == CapacityRequest(t.node, answer[c].before, FALSE, FALSE)
             t1 == [t EXCEPT !.step = "undo", !.cards = t.cards]
  <2>3. r \in Requests
    BY <1>1, <2>2 DEF Requests, CapacityRequest, Infos
  <2>4. /\ t1.op = "edit" /\ t1.step = "undo" /\ t1.node = t.node /\ t1.before = t.before
        /\ t.cards \in CountMaps
    BY <1>1 DEF Task
  <2>5. info.usage = t.before.usage
    BY <1>1, <2>1, <2>2 DEF Result, Infos
  <2>6. GoOn(c, "undo", t.cards, r)
    BY <1>3 DEF UndoCapacity
  <2> HIDE DEF info, t1
  <2>7. Touched(t1, info)
    BY <2>4, <2>5 DEF Touched, BookingOps
  <2>8. Asks(t1, r) /\ Stands(t1, r)
    BY <1>1, <2>2, <2>4 DEF Asks, Edits, Stands, CapacityRequest
  <2> HIDE DEF r
  <2> QED
    BY <1>1, <2>3, <2>4, <2>6, <2>7, <2>8, GoOnKeepsIInv DEF t1, info
<1> QED
  BY <1>2, <1>3 DEF Edited

\* The capacity was put back, or that failed
LEMMA EditUndoEnds ==
    ASSUME IInv, NEW c \in Callers, EditUndone(c)
    PROVE  IInv'
<1>1. Answered(c, "edit", "undo") /\ End(c) /\ UNCHANGED <<workload, members, repair>>
  BY DEF EditUndone
<1>2. ClusterTypeOK /\ WorkloadsAreSound
  BY <1>1, AnsweredOperation
<1> QED
  BY <1>1, <1>2, EndOnly DEF ClusterTypeOK, WorkloadsAreSound

\* Workloads are being planned
LEMMA DeployStarts ==
    ASSUME IInv, NEW c \in Callers, BeginDeploy(c)
    PROVE  IInv'
<1>0. members \in SUBSET Nodes
  BY DEF IInv, ClusterTypeOK
<1>1. PICK n \in members, req \in DeployRequests, count \in 1..MaxDeploy :
        Begin(c, "deploy", "plan", n, 0,
              [verb |-> "calculate-deploy", node |-> n, count |-> count, req |-> req])
  BY DEF BeginDeploy
<1> DEFINE t == [op |-> "deploy", step |-> "plan", node |-> n, id |-> 0,
                 cards |-> NoCards, before |-> GetOrEmpty(n)]
           r == [verb |-> "calculate-deploy", node |-> n, count |-> count, req |-> req]
<1>2. t \in Task /\ n \in Nodes
  BY <1>0, NewTask
<1>3. r \in Requests
  BY <1>2, ClusterInputsAssumption DEF Requests
<1>4. Asks(t, r) /\ Stands(t, r)
  BY DEF Asks, PlansDeploy, Stands
<1> HIDE DEF r
<1> QED
  BY <1>1, <1>2, <1>3, <1>4, BeginKeepsIInv DEF r

\* The workload core picks to realloc or to remove
LEMMA PickedWorkload ==
    ASSUME IInv, NEW id \in Ids \ FreeIds
    PROVE  /\ workload[id] # Nil /\ workload[id].node \in Nodes
           /\ workload[id].node \in members /\ On(workload[id].node, id)
           /\ workload[id].cards \in CountMaps /\ Validate(workload[id].cards)
BY DEF IInv, ClusterTypeOK, WorkloadsAreSound, Workload, FreeIds, On

\* A realloc is being planned
LEMMA ReallocStarts ==
    ASSUME IInv, NEW c \in Callers, BeginRealloc(c)
    PROVE  IInv'
<1>1. PICK id \in Ids \ FreeIds, req \in ReallocRequests :
        Begin(c, "realloc", "plan", workload[id].node, id,
              [verb |-> "calculate-realloc", node |-> workload[id].node,
               workload |-> workload[id].cards, req |-> req])
  BY DEF BeginRealloc
<1>0. /\ workload[id].node \in Nodes /\ workload[id].node \in members
      /\ On(workload[id].node, id) /\ workload[id].cards \in CountMaps
  BY PickedWorkload
<1> PICK n \in Nodes : n = workload[id].node
  BY <1>0
<1> DEFINE t == [op |-> "realloc", step |-> "plan", node |-> n, id |-> id,
                 cards |-> NoCards, before |-> GetOrEmpty(n)]
           r == [verb |-> "calculate-realloc", node |-> n,
                 workload |-> workload[id].cards, req |-> req]
<1>2. t \in Task
  BY NewTask
<1>3. r \in Requests
  BY <1>0, ClusterInputsAssumption DEF Requests
<1>4. Asks(t, r) /\ Stands(t, r)
  BY <1>0 DEF Asks, PlansRealloc, Stands
<1> HIDE DEF r
<1> QED
  BY <1>1, <1>2, <1>3, <1>4, BeginKeepsIInv DEF r

\* A workload is being taken off its node
LEMMA DiscardStarts ==
    ASSUME IInv, NEW c \in Callers, BeginDiscard(c)
    PROVE  IInv'
<1>1. PICK id \in Ids \ FreeIds :
        Begin(c, "discard", "write", workload[id].node, id,
              UsageRequest(workload[id].node, Nil, <<workload[id].cards>>, TRUE, FALSE))
  BY DEF BeginDiscard
<1>0. /\ workload[id].node \in Nodes /\ workload[id].node \in members
      /\ On(workload[id].node, id) /\ workload[id].cards \in CountMaps
  BY PickedWorkload
<1> PICK n \in Nodes : n = workload[id].node
  BY <1>0
<1> DEFINE t == [op |-> "discard", step |-> "write", node |-> n, id |-> id,
                 cards |-> NoCards, before |-> GetOrEmpty(n)]
           r == UsageRequest(n, Nil, <<workload[id].cards>>, TRUE, FALSE)
<1>2. t \in Task
  BY NewTask
<1>3. r \in Requests
  <2>1. <<workload[id].cards>> \in Seq(CountMaps)
    BY <1>0
  <2> QED
    BY <2>1 DEF Requests, Works, UsageRequest
<1>4. Asks(t, r) /\ Stands(t, r)
  BY <1>0 DEF Asks, BooksDiscard, Stands, UsageRequest
<1>5. Begin(c, "discard", "write", n, id, r)
  BY <1>1
<1> HIDE DEF r
<1> QED
  BY <1>2, <1>3, <1>4, <1>5, BeginKeepsIInv

\* The plugin refused to plan
LEMMA PlanFailureEnds ==
    ASSUME IInv, NEW c \in Callers, PlanFailed(c)
    PROVE  IInv'
<1>1. PICK op \in {"deploy", "realloc"} :
        Answered(c, op, "plan") /\ End(c) /\ UNCHANGED <<workload, members, repair>>
  BY DEF PlanFailed
<1>2. ClusterTypeOK /\ WorkloadsAreSound
  BY <1>1, AnsweredOperation
<1> QED
  BY <1>1, <1>2, EndOnly DEF ClusterTypeOK, WorkloadsAreSound

\* Planned workloads are booked
LEMMA DeployGoesOn ==
    ASSUME IInv, NEW c \in Callers, DeployPlanned(c)
    PROVE  IInv'
<1>0. Answered(c, "deploy", "plan") /\ answer[c].ok
  BY DEF DeployPlanned
<1> DEFINE t == task[c]
           q == request[c]
           works == [i \in 1..q.count |-> q.req]
           r == UsageRequest(t.node, Nil, works, TRUE, TRUE)
           t1 == [t EXCEPT !.step = "write", !.cards = q.req]
<1>1. /\ ClusterTypeOK /\ WorkloadsAreSound /\ t # Nil /\ t \in Task /\ t.op = "deploy"
      /\ t.step = "plan" /\ t.node \in Nodes
      /\ q \in Requests /\ Asks(t, q) /\ Stands(t, q)
      /\ Progress(t, q, "answered", answer[c], GetOrEmpty(t.node))
  BY <1>0, AnsweredOperation
<1>2. q.verb = "calculate-deploy"
  BY <1>1 DEF Asks, Adds, Removes, Edits, PlansDeploy, BooksDeploy, PlansRealloc,
              BooksRealloc, BooksDiscard, UndoesBooking, Fixes
<1>3. q.count \in Nat /\ q.req \in CountMaps
  BY <1>1, <1>2 DEF Requests
<1>4. /\ GetOrEmpty(t.node) = t.before
      /\ Validate(q.req) /\ DoAllocFits(t.before, q.count, q.req)
      /\ answer[c].works = works
  BY <1>0, <1>1, <1>2 DEF Progress, Success, Result
<1>5. GoOn(c, "write", q.req, r)
  BY <1>4 DEF DeployPlanned
<1>6. works \in Seq(CountMaps) /\ Len(works) = q.count
  BY <1>3
<1>7. r \in Requests
  BY <1>1, <1>6 DEF Requests, Works, UsageRequest
<1>8. /\ t1.op = "deploy" /\ t1.step = "write" /\ t1.node = t.node /\ t1.before = t.before
      /\ t1.cards = q.req
  BY <1>1 DEF Task
<1> HIDE DEF t1
<1>9. Asks(t1, r) /\ Stands(t1, r)
  <2>1. r = UsageRequest(t1.node, Nil, [i \in 1..Len(r.works) |-> t1.cards], TRUE, TRUE)
    <3>1. r.works = works
      BY DEF UsageRequest
    <3> QED
      BY <3>1, <1>6, <1>8
  <2>2. BooksDeploy(t1, r)
    BY <2>1, <1>4, <1>6, <1>8 DEF BooksDeploy, UsageRequest
  <2> QED
    BY <2>2, <1>1, <1>8 DEF Asks, Stands, UsageRequest
<1> HIDE DEF r
<1> QED
  BY <1>1, <1>3, <1>4, <1>5, <1>7, <1>8, <1>9, GoOnKeepsIInv DEF t1

\* A planned realloc is booked
LEMMA ReallocGoesOn ==
    ASSUME IInv, NEW c \in Callers, ReallocPlanned(c)
    PROVE  IInv'
<1>0. Answered(c, "realloc", "plan") /\ answer[c].ok
  BY DEF ReallocPlanned
<1> DEFINE t == task[c]
           q == request[c]
           old == workload[t.id].cards
           new == Merge(q.req, old)
           r == UsageRequest(t.node, Nil, <<ReallocDelta(old, q.req)>>, TRUE, TRUE)
           t1 == [t EXCEPT !.step = "write", !.cards = new]
<1>1. /\ ClusterTypeOK /\ WorkloadsAreSound /\ t # Nil /\ t \in Task /\ t.op = "realloc"
      /\ t.step = "plan" /\ t.node \in Nodes
      /\ q \in Requests /\ Asks(t, q) /\ Stands(t, q)
      /\ Progress(t, q, "answered", answer[c], GetOrEmpty(t.node))
  BY <1>0, AnsweredOperation
<1>2. q.verb = "calculate-realloc" /\ q.workload = old /\ q.req \in ReallocRequests
  BY <1>1 DEF Asks, Adds, Removes, Edits, PlansDeploy, BooksDeploy, PlansRealloc,
              BooksRealloc, BooksDiscard, UndoesBooking, Fixes
<1>3. q.req \in CountMaps /\ old \in CountMaps
  BY <1>1, <1>2 DEF Requests
<1>4. /\ GetOrEmpty(t.node) = t.before
      /\ ValidateProd(q.req) /\ ReallocFits(t.before, old, q.req)
      /\ answer[c].workload = new /\ answer[c].delta = ReallocDelta(old, q.req)
  BY <1>0, <1>1, <1>2 DEF Progress, Success, Result
<1>5. GoOn(c, "write", new, r)
  BY <1>4 DEF ReallocPlanned
<1>6. new \in CountMaps /\ ReallocDelta(old, q.req) \in CountMaps
  BY <1>3, MergeIsMap, SubIsMap DEF ReallocDelta
<1>7. r \in Requests
  <2> DEFINE change == ReallocDelta(old, q.req)
  <2>1. change \in CountMaps
    BY <1>6
  <2> HIDE DEF change
  <2>2. <<change>> \in Seq(CountMaps)
    BY <2>1
  <2> QED
    BY <1>1, <2>2 DEF Requests, Works, UsageRequest, change
<1>8. /\ t1.op = "realloc" /\ t1.step = "write" /\ t1.node = t.node /\ t1.before = t.before
      /\ t1.cards = new /\ t1.id = t.id
  BY <1>1 DEF Task
<1> HIDE DEF t1, old
<1>9. Asks(t1, r) /\ Stands(t1, r)
  <2>1. BooksRealloc(t1, r, old)
    BY <1>2, <1>4, <1>8 DEF BooksRealloc
  <2> QED
    BY <2>1, <1>1, <1>8 DEF Asks, Stands, UsageRequest, old
<1> HIDE DEF r, new
<1> QED
  BY <1>1, <1>4, <1>5, <1>6, <1>7, <1>8, <1>9, GoOnKeepsIInv DEF t1

\* The booking that was asked for
LEMMA AskedBooking ==
    ASSUME NEW t, NEW r, Asks(t, r), t.step = "write", t.op \in BookingOps
    PROVE  /\ r.verb = "set-usage"
           /\ t.op = "deploy" => BooksDeploy(t, r)
           /\ t.op = "realloc" => BooksRealloc(t, r, workload[t.id].cards)
           /\ t.op = "discard" => BooksDiscard(t, r, workload[t.id].cards)
<1> HIDE DEF Asks
<1>1. \/ BooksDeploy(t, r)
      \/ BooksRealloc(t, r, workload[t.id].cards)
      \/ BooksDiscard(t, r, workload[t.id].cards)
  BY DEF Asks, Adds, Removes, Edits, PlansDeploy, PlansRealloc, UndoesBooking, Fixes, BookingOps
<1> QED
  BY <1>1 DEF BooksDeploy, BooksRealloc, BooksDiscard, UsageRequest

\* A booking succeeded and core records the workloads
LEMMA BookedEnds ==
    ASSUME IInv, NEW c \in Callers, Booked(c)
    PROVE  IInv'
<1> DEFINE t == task[c]
           r == request[c]
<1>1. PICK op \in BookingOps : Answered(c, op, "write")
  BY DEF Booked, BookingOps
<1>2. End(c) /\ members' = members /\ repair' = repair
  BY DEF Booked
<1>3. /\ ClusterTypeOK /\ WorkloadsAreSound /\ t # Nil /\ t \in Task /\ t.op = op
      /\ t.step = "write" /\ t.node \in Nodes /\ t.cards \in CountMaps
      /\ r \in Requests /\ Asks(t, r) /\ Stands(t, r)
  BY <1>1, AnsweredOperation DEF Task
<1>4. op \in BookingOps /\ t.node \in members /\ workload \in [Ids -> Workload \cup {Nil}]
  BY <1>3 DEF Stands, BookingOps, ClusterTypeOK
<1> DEFINE new == [node |-> t.node, cards |-> t.cards]
<1>5. new \in Workload /\ new # Nil
  BY <1>3, NilIsNobodyAssumption DEF Workload
<1>6. ASSUME NEW ids \in SUBSET Ids, Validate(t.cards),
             \A id \in ids : workload[id] = Nil \/ On(t.node, id),
             workload' = [id \in Ids |-> IF id \in ids THEN new ELSE workload[id]]
      PROVE  IInv'
  <2>1. workload' \in [Ids -> Workload \cup {Nil}]
    BY <1>4, <1>5, <1>6
  <2>2. WorkloadsAreSound'
    BY <1>2, <1>3, <1>4, <1>6 DEF WorkloadsAreSound
  <2>3. \A m \in Nodes \ {t.node} : \A id \in Ids :
           On(m, id) \/ On(m, id)' => workload'[id] = workload[id]
    BY <1>5, <1>6 DEF On
  <2> QED
    BY <1>2, <1>3, <2>1, <2>2, <2>3, EndKeepsIInv DEF ClusterTypeOK
<1>7. CASE op = "deploy"
  <2>1. PICK ids \in kSubset(Len(r.works), FreeIds) :
          workload' = [id \in Ids |-> IF id \in ids THEN new ELSE workload[id]]
    BY <1>3, <1>7 DEF Booked, Answered
  <2>2. ids \in SUBSET Ids /\ \A id \in ids : workload[id] = Nil
    BY DEF kSubset, FreeIds
  <2>3. Validate(t.cards)
    BY <1>3, <1>4, <1>7, AskedBooking DEF BooksDeploy
  <2> QED
    BY <1>6, <2>1, <2>2, <2>3
<1>8. CASE op = "realloc"
  <2>1. /\ t.id \in Ids /\ workload[t.id] # Nil /\ workload[t.id].node = t.node
        /\ workload[t.id] \in Workload
        /\ workload[t.id].cards \in CountMaps
        /\ Validate(workload[t.id].cards)
    BY <1>3, <1>8, OldCards
  <2>2. workload' = [workload EXCEPT ![t.id].cards = t.cards]
    BY <1>3, <1>8 DEF Booked, Answered
  <2>3. [workload[t.id] EXCEPT !.cards = t.cards] = new
    BY <2>1 DEF Workload
  <2>4. workload' = [id \in Ids |-> IF id \in {t.id} THEN new ELSE workload[id]]
    BY <1>4, <2>1, <2>2, <2>3
  <2>5. Validate(t.cards)
    <3>1. PICK req \in ReallocRequests : /\ ValidateProd(req)
                                         /\ t.cards = Merge(req, workload[t.id].cards)
      BY <1>3, <1>4, <1>8, AskedBooking DEF BooksRealloc
    <3> QED
      BY <2>1, <3>1, MergeIsValid, ClusterInputsAssumption DEF Validate
  <2>6. {t.id} \in SUBSET Ids /\ \A id \in {t.id} : On(t.node, id)
    BY <2>1 DEF On
  <2> HIDE DEF new
  <2> QED
    BY <1>6, <2>4, <2>5, <2>6
<1>9. CASE op = "discard"
  <2>1. t.id \in Ids /\ workload[t.id] # Nil /\ workload[t.id].node = t.node
    BY <1>3, <1>9, OldCards
  <2>2. workload' = [workload EXCEPT ![t.id] = Nil]
    BY <1>3, <1>9 DEF Booked, Answered
  <2>3. workload' \in [Ids -> Workload \cup {Nil}]
    BY <1>4, <2>2
  <2>4. WorkloadsAreSound'
    BY <1>2, <1>3, <1>4, <2>2 DEF WorkloadsAreSound
  <2>5. \A m \in Nodes \ {t.node} : \A id \in Ids :
           On(m, id) \/ On(m, id)' => workload'[id] = workload[id]
    BY <1>4, <2>1, <2>2 DEF On
  <2> QED
    BY <1>2, <1>3, <2>3, <2>4, <2>5, EndKeepsIInv DEF ClusterTypeOK
<1> QED
  BY <1>7, <1>8, <1>9 DEF BookingOps

\* A booking succeeded, another plugin's did not: the usage is put back
LEMMA BookingUndoGoesOn ==
    ASSUME IInv, NEW c \in Callers, BookingUndo(c)
    PROVE  IInv'
<1> DEFINE t == task[c]
           info == GetOrEmpty(t.node)
<1>0. answer[c].ok /\ UndoUsage(c)
  BY DEF BookingUndo
<1>1. PICK op \in BookingOps : Answered(c, op, "write")
  BY DEF BookingUndo, Booking, BookingOps
<1>2. /\ ClusterTypeOK /\ WorkloadsAreSound /\ t # Nil /\ t \in Task /\ t.op \in BookingOps
      /\ t.step = "write" /\ t.node \in Nodes /\ t.before \in Infos
      /\ request[c] \in Requests /\ Asks(t, request[c]) /\ Stands(t, request[c])
      /\ Progress(t, request[c], "answered", answer[c], info)
  BY <1>1, AnsweredOperation
<1>3. request[c].verb = "set-usage"
  BY <1>2, AskedBooking
<1>4. info = Result(request[c], t.before) /\ answer[c].before = t.before.usage
  BY <1>0, <1>2, <1>3 DEF Progress, Success
<1> DEFINE r  == UsageRequest(t.node, answer[c].before, <<>>, FALSE, FALSE)
           t1 == [t EXCEPT !.step = "undo", !.cards = t.cards]
<1>5. r \in Requests
  <2>1. <<>> \in Seq(CountMaps)
    OBVIOUS
  <2> QED
    BY <1>2, <1>4, <2>1 DEF Requests, Works, UsageRequest, Infos
<1>6. /\ t1.op = t.op /\ t1.step = "undo" /\ t1.node = t.node /\ t1.before = t.before
      /\ t1.id = t.id /\ t.cards \in CountMaps
  BY <1>2 DEF Task
<1>7. GoOn(c, "undo", t.cards, r)
  BY <1>0 DEF UndoUsage
<1>8. Touched(t, info)
  BY <1>2, <1>4, BookingTouches
<1> HIDE DEF info, t1
<1>9. Touched(t1, info)
  BY <1>6, <1>8 DEF Touched
<1>10. Asks(t1, r) /\ Stands(t1, r)
  BY <1>2, <1>4, <1>6 DEF Asks, UndoesBooking, Stands, UsageRequest
<1> HIDE DEF r
<1> QED
  BY <1>2, <1>5, <1>6, <1>7, <1>9, <1>10, GoOnKeepsIInv DEF t1, info

\* A booking, or putting the usage back, failed: the node is to be repaired
LEMMA BookingFailureEnds ==
    ASSUME IInv, NEW c \in Callers, BookingFailed(c) \/ BookingUndone(c)
    PROVE  IInv'
<1>1. PICK op \in BookingOps, step \in {"write", "undo"} : Answered(c, op, step)
  BY DEF BookingFailed, BookingUndone, Booking, BookingOps
<1>2. /\ End(c) /\ workload' = workload /\ members' = members
      /\ repair' \in {repair, repair \cup {task[c].node}}
  BY DEF BookingFailed, BookingUndone
<1>3. /\ ClusterTypeOK /\ WorkloadsAreSound /\ task[c].node \in Nodes
      /\ task[c].node \in members
  BY <1>1, AnsweredOperation DEF Stands, BookingOps
<1> QED
  BY <1>1, <1>2, <1>3, EndOnly DEF ClusterTypeOK, WorkloadsAreSound

\* A node in repair is being counted
LEMMA FixStarts ==
    ASSUME IInv, NEW c \in Callers, NEW n \in Nodes, BeginFix(c, n)
    PROVE  IInv'
<1> DEFINE t == [op |-> "fix", step |-> "write", node |-> n, id |-> 0,
                 cards |-> NoCards, before |-> GetOrEmpty(n)]
           r == [verb |-> "fix-node", node |-> n, works |-> WorksOn(n)]
<1>1. t \in Task
  BY NewTask
<1>2. WorksOn(n) \in Seq(CountMaps) /\ n \in repair /\ n \in members
  BY HeldIsValid DEF IInv, BeginFix, WorkloadsAreSound
<1>3. r \in Requests
  BY <1>2 DEF Requests, Works
<1>4. Asks(t, r) /\ Stands(t, r)
  BY <1>2 DEF Asks, Fixes, Stands
<1>5. Begin(c, "fix", "write", n, 0, r)
  BY DEF BeginFix
<1> HIDE DEF r
<1> QED
  BY <1>1, <1>3, <1>4, <1>5, BeginKeepsIInv

\* The repair is done, or remains due
LEMMA FixEnds ==
    ASSUME IInv, NEW c \in Callers, Fixed(c)
    PROVE  IInv'
<1>1. /\ Answered(c, "fix", "write") /\ End(c) /\ workload' = workload /\ members' = members
      /\ repair' \in {repair, repair \ {task[c].node}}
  BY DEF Fixed
<1>2. ClusterTypeOK /\ WorkloadsAreSound /\ task[c].node \in Nodes
  BY <1>1, AnsweredOperation
<1> QED
  BY <1>1, <1>2, EndOnly DEF ClusterTypeOK, WorkloadsAreSound

\* A step of core
LEMMA CoreKeepsIInv ==
    ASSUME IInv, NEW c \in Callers, Core(c)
    PROVE  IInv'
BY AddStarts, AddEnds, AddUndoEnds, RemoveStarts, RemoveEnds, EditStarts, EditEnds,
   EditUndoEnds, DeployStarts, DeployGoesOn, ReallocStarts, ReallocGoesOn, DiscardStarts,
   PlanFailureEnds, BookedEnds, BookingUndoGoesOn, BookingFailureEnds, FixStarts, FixEnds
   DEF Core

\* Nothing happens
LEMMA StutterKeepsIInv == IInv /\ UNCHANGED vars => IInv'
<1> SUFFICES ASSUME IInv, UNCHANGED vars PROVE IInv'
  OBVIOUS
<1>1. UNCHANGED <<etcd, phase, request, pending, answer, faults,
                  lock, task, workload, members, repair>>
  BY DEF vars, pluginVars, coreVars
<1>2. ClusterTypeOK' /\ StoredValid' /\ LocksAreHeld' /\ WorkloadsAreSound'
  BY <1>1 DEF IInv, ClusterTypeOK, PluginTypeOK, StoredValid, LocksAreHeld, WorkloadsAreSound
<1>3. ASSUME NEW c \in Callers, task'[c] # Nil
      PROVE  OperationOK(c)'
  <2>1. OperationOK(c) /\ task[c].node \in Nodes
    BY <1>1, <1>3, TaskType DEF IInv
  <2> QED
    BY <1>1, <2>1, OperationIsKept DEF On
<1> QED
  BY <1>2, <1>3 DEF IInv

\* The state of every node is accounted for: by the operation that has it locked,
\* step by step, or, with the lock free, by nobody who could still change it
THEOREM Inductive == Spec => []IInv
<1>1. IInv /\ [Next]_vars => IInv'
  BY CoreKeepsIInv, PluginKeepsIInv, StutterKeepsIInv DEF Next
<1> QED
  BY <1>1, InitIInv, PTL DEF Spec

-----------------------------------------------------------------------------
(* What follows *)

\* The state always has its type, the records passed between core and the
\* plugin included
THEOREM TypeCorrect == Spec => []ClusterTypeOK
<1>1. IInv => ClusterTypeOK
  BY DEF IInv
<1> QED
  BY <1>1, Inductive, PTL

\* Under the lock no call writes what it computed from a record that is gone
THEOREM WritesAreFresh == Spec => []WriteIsFresh
<1>1. IInv => WriteIsFresh
  <2> SUFFICES ASSUME IInv, NEW c \in Callers, phase[c] = "storing"
               PROVE  LET info == GetOrEmpty(request[c].node)
                          verb == request[c].verb
                      IN  /\ verb \in {"set-usage", "fix-node"} =>
                                pending[c].capacity = info.capacity
                          /\ verb = "set-capacity" => pending[c].usage = info.usage
                          /\ verb = "set-usage" => answer[c].before = info.usage
                          /\ verb = "set-capacity" => answer[c].before = info.capacity
                          /\ verb = "add-node" => etcd[request[c].node] = Absent
    BY DEF WriteIsFresh
  <2>1. task[c] # Nil /\ ClusterTypeOK
    BY DEF IInv, LocksAreHeld
  <2>2. OperationOK(c) /\ task[c].node \in Nodes
    BY <2>1, TaskType DEF IInv
  <2> PICK n \in Nodes : n = request[c].node
    BY <2>2 DEF OperationOK, Stands
  <2> DEFINE info == GetOrEmpty(n)
  <2>3. info \in Infos
    BY <2>1, ReadIsInfo DEF ClusterTypeOK
  <2>4. /\ pending[c] = Result(request[c], info)
        /\ Success(request[c], info, answer[c])
        /\ request[c].verb = "add-node" => etcd[n] = Absent
    BY <2>2 DEF OperationOK, Fresh
  <2> HIDE DEF info
  <2>5. /\ request[c].verb \in {"set-usage", "fix-node"} => pending[c].capacity = info.capacity
        /\ request[c].verb = "set-capacity" => pending[c].usage = info.usage
    BY <2>3, <2>4 DEF Result, FixedInfo, Infos
  <2>6. /\ request[c].verb = "set-usage" => answer[c].before = info.usage
        /\ request[c].verb = "set-capacity" => answer[c].before = info.capacity
    BY <2>4 DEF Success
  <2> QED
    BY <2>4, <2>5, <2>6 DEF info
<1> QED
  BY <1>1, Inductive, PTL

\* An operation that core rolled back with success left no trace
THEOREM RollbacksAreExact == Spec => []RollbackIsExact
<1>1. IInv => RollbackIsExact
  BY DEF IInv, OperationOK, Progress, RollbackIsExact
<1> QED
  BY <1>1, Inductive, PTL

\* What a call writes, it writes to the node its operation has locked; the
\* first of the operation's writes is what its verb makes of the record found
LEMMA WritesAreTheHolders ==
    ASSUME IInv, NEW c \in Callers, Plugin(c), NEW n \in Nodes, etcd'[n] # etcd[n]
    PROVE  /\ lock[n] = c /\ c # Nil
           /\ task[c] \in Task /\ task[c].node = n /\ request[c] \in Requests
           /\ Asks(task[c], request[c]) /\ Stands(task[c], request[c])
           /\ ValidInfo(task[c].before) /\ task[c].before \in Infos
           /\ task[c].step # "undo" => /\ GetOrEmpty(n) = task[c].before
                                       /\ GetOrEmpty(n)' \in {task[c].before,
                                            Result(request[c], task[c].before)}
<1> DEFINE t == task[c]
           r == request[c]
<1>1. /\ PluginTypeOK /\ ClusterTypeOK /\ StoredValid /\ LocksAreHeld /\ WorkloadsAreSound
      /\ \A d \in Callers : task[d] # Nil => OperationOK(d)
  BY DEF IInv, ClusterTypeOK
<1>2. Serve(c) \/ Break(c)
  BY DEF Plugin
<1>3. phase[c] \in {"running", "storing"} /\ n = r.node
  BY <1>1, <1>2, CallsAreApart
<1>4. t # Nil /\ t \in Task /\ t.before \in Infos /\ r \in Requests
  BY <1>1, <1>3, TaskType, HasRequest DEF LocksAreHeld
<1>5. OperationOK(c) /\ t.node = n /\ Fresh(c) /\ r.verb \in NodeVerbs
  BY <1>1, <1>3, <1>4, AskedVerbs DEF OperationOK, Stands
<1>6. lock[n] = c /\ c # Nil
  BY <1>1, <1>4, <1>5, NilIsNobodyAssumption DEF LocksAreHeld
<1>7. r.verb = "fix-node" => /\ WorkloadsUsage(r.works) \in CountMaps
                             /\ Validate(WorkloadsUsage(r.works))
  <2>1. r.verb = "fix-node" => r.works = WorksOn(n)
    BY <1>5, FixesWhatIsHeld DEF OperationOK
  <2> QED
    BY <2>1, <1>1, HeldIsValid DEF Held
<1>8. Called(c, n, GetOrEmpty(n))
  BY <1>1, <1>2, <1>3, <1>5, <1>7, CallStep
<1>9. GetOrEmpty(n)' \in {GetOrEmpty(n), Result(r, GetOrEmpty(n))}
  BY <1>8 DEF Called, GetOrEmpty
<1>10. t.step # "undo" => GetOrEmpty(n) = t.before
  BY <1>3, <1>5 DEF OperationOK, Progress
<1> QED
  BY <1>4, <1>5, <1>6, <1>9, <1>10 DEF OperationOK

\* Core itself writes nothing
LEMMA CoreWritesNothing ==
    ASSUME NEW c \in Callers, Core(c)
    PROVE  etcd' = etcd
BY DEF Core, BeginAdd, Added, AddUndone, BeginRemove, Removed, BeginEdit, Edited, EditUndone,
       BeginDeploy, DeployPlanned, BeginRealloc, ReallocPlanned, BeginDiscard, PlanFailed,
       Booked, BookingUndo, BookingFailed, BookingUndone, BeginFix, Fixed, Begin, End, GoOn,
       UndoUsage, UndoCapacity, Start, StartNext, Collect

\* Who asks for a removal adds the node or removes it
LEMMA AskedRemoval ==
    ASSUME NEW t, NEW r, Asks(t, r), r.verb = "remove-node"
    PROVE  t.op \in {"remove", "add"}
BY DEF Asks, Adds, Removes, Edits, PlansDeploy, BooksDeploy, PlansRealloc, BooksRealloc,
       BooksDiscard, UndoesBooking, Fixes, UsageRequest, CapacityRequest

\* Only its removal takes a node's record away, and what writes one where there
\* was none is an operation on a node core knows, or adds
THEOREM NothingIsResurrected == Spec => NoResurrection
<1> DEFINE Kept == \A n \in Nodes :
              (etcd[n] = Absent) # (etcd'[n] = Absent)
              => /\ lock[n] # Nil
                 /\ IF etcd[n] = Absent
                    THEN n \in members \/ task[lock[n]].op = "add"
                    ELSE task[lock[n]].op \in {"remove", "add"}
<1>1. IInv /\ [Next]_vars => [Kept]_vars
  <2> SUFFICES ASSUME IInv, NEW c \in Callers, Plugin(c), NEW n \in Nodes,
                      (etcd[n] = Absent) # (etcd'[n] = Absent)
               PROVE  /\ lock[n] # Nil
                      /\ IF etcd[n] = Absent
                         THEN n \in members \/ task[lock[n]].op = "add"
                         ELSE task[lock[n]].op \in {"remove", "add"}
    BY CoreWritesNothing DEF Next
  <2> DEFINE t == task[c]
  <2>1. /\ lock[n] = c /\ c # Nil /\ t.node = n
        /\ Asks(t, request[c]) /\ Stands(t, request[c])
    BY WritesAreTheHolders
  <2>2. n \in members \/ t.op = "add"
    BY <2>1 DEF Stands
  <2>3. ASSUME etcd[n] # Absent
        PROVE  t.op \in {"remove", "add"}
    <3>1. PluginTypeOK /\ (Serve(c) \/ Break(c))
      BY DEF IInv, ClusterTypeOK, Plugin
    <3>2. phase[c] = "storing" => pending[c] # Absent
      BY <3>1, AbsentAssumption DEF PluginTypeOK
    <3>3. request[c].verb = "remove-node"
      BY <2>3, <3>1, <3>2, OnlyWritesWrite DEF Running, PluginTypeOK
    <3> QED
      BY <2>1, <3>3, AskedRemoval
  <2> QED
    BY <2>1, <2>2, <2>3
<1> QED
  BY <1>1, Inductive, PTL DEF Spec, NoResurrection

\* A verb that books nothing makes no usage grow
LEMMA OnlyBookingsGrow ==
    ASSUME NEW t \in Task, NEW r \in Requests, Asks(t, r), ValidInfo(t.before),
           t.op \in {"add", "remove", "edit"} \/ t.step = "plan", t.step # "undo",
           NEW prod \in Products
    PROVE  ~(CountOf(Result(r, t.before).usage, prod) > CountOf(t.before.usage, prod))
<1> DEFINE info == t.before
<1>1. info \in Infos /\ info.usage \in CountMaps /\ Validate(info.usage)
  BY DEF Task, Infos, ValidInfo
<1>2. CountOf(info.usage, prod) \in Int /\ CountOf(info.usage, prod) >= 0
  BY <1>1, CountOfIsInt, ValidIsTight
<1>3. r.verb \in {"add-node", "remove-node", "set-capacity", "calculate-deploy",
                  "calculate-realloc"}
  BY DEF Asks, Adds, Removes, Edits, PlansDeploy, BooksDeploy, PlansRealloc,
         BooksRealloc, BooksDiscard, UndoesBooking, Fixes, BookingOps
<1>4. Result(r, info).usage \in {info.usage, NoCards}
  BY <1>1, <1>3 DEF Result, EmptyInfo, Infos
<1>5. CountOf(NoCards, prod) = 0
  BY DEF CountOf, NoCards, Keys
<1> HIDE DEF info
<1> QED
  BY <1>2, <1>4, <1>5 DEF info

\* No deploy and no realloc is booked beyond the capacity of the moment
THEOREM NothingIsOverbooked == Spec => NeverOverbooked
<1> DEFINE Kept == \A n \in Nodes, prod \in Products :
              (/\ Used(n, prod)' > Used(n, prod)
               /\ Used(n, prod)' > Capacity(n, prod)')
              => /\ lock[n] # Nil
                 /\ task[lock[n]].op = "fix" \/ task[lock[n]].step = "undo"
<1>1. IInv /\ [Next]_vars => [Kept]_vars
  <2>1. ASSUME NEW c \in Callers, Core(c), NEW n \in Nodes, NEW prod \in Products
        PROVE  Used(n, prod)' = Used(n, prod)
    BY <2>1, CoreWritesNothing DEF Used, GetOrEmpty
  <2>2. ASSUME IInv, NEW n \in Nodes, NEW prod \in Products
        PROVE  Used(n, prod) \in Int
    BY <2>2, ReadIsInfo, CountOfIsInt DEF IInv, ClusterTypeOK, Used, Infos
  <2>3. ASSUME IInv, NEW c \in Callers, Plugin(c), NEW n \in Nodes, NEW prod \in Products,
               Used(n, prod)' > Used(n, prod), Used(n, prod)' > Capacity(n, prod)'
        PROVE  /\ lock[n] # Nil
               /\ task[lock[n]].op = "fix" \/ task[lock[n]].step = "undo"
    <3> DEFINE t == task[c]
               r == request[c]
    <3>1. etcd'[n] # etcd[n]
      BY <2>2, <2>3 DEF Used, GetOrEmpty
    <3>2. /\ lock[n] = c /\ c # Nil /\ t \in Task /\ r \in Requests
          /\ Asks(t, r) /\ Stands(t, r) /\ ValidInfo(t.before) /\ t.before \in Infos
          /\ t.step # "undo" => /\ GetOrEmpty(n) = t.before
                                /\ GetOrEmpty(n)' \in {t.before, Result(r, t.before)}
      BY <2>3, <3>1, WritesAreTheHolders
    <3>3. ASSUME t.op # "fix", t.step # "undo"
          PROVE  FALSE
      <4> DEFINE next == Result(r, t.before)
      <4>1. CountOf(t.before.usage, prod) = Used(n, prod) /\ Used(n, prod) \in Int
        BY <2>2, <2>3, <3>2, <3>3 DEF Used
      <4>2. GetOrEmpty(n)' = next
        BY <2>3, <3>2, <3>3, <4>1 DEF Used
      <4>3. /\ CountOf(next.usage, prod) > CountOf(t.before.usage, prod)
            /\ CountOf(next.usage, prod) > CountOf(next.capacity, prod)
        BY <2>3, <4>1, <4>2 DEF Used, Capacity
      <4>4. t.op \in BookingOps /\ t.step = "write"
        BY <3>2, <3>3, <4>3, OnlyBookingsGrow DEF Task, BookingOps
      <4>5. Touched(t, next)
        BY <2>3, <3>2, <4>4, BookingTouches DEF IInv
      <4>6. next.capacity = t.before.capacity
            /\ CountOf(next.usage, prod) <= CountOf(t.before.capacity, prod)
        BY <4>3, <4>4, <4>5 DEF Touched, GrownWithin
      <4>7. GetOrEmpty(n)' \in Infos
        <5>1. IInv'
          BY <2>3, PluginKeepsIInv
        <5> QED
          BY <5>1, EmptyInfoIsInfo DEF IInv, ClusterTypeOK, PluginTypeOK, GetOrEmpty
      <4>8. CountOf(next.usage, prod) \in Int /\ CountOf(t.before.capacity, prod) \in Int
        BY <3>2, <4>2, <4>7, CountOfIsInt DEF Infos
      <4> HIDE DEF next
      <4> QED
        BY <4>3, <4>6, <4>8
    <3> QED
      BY <3>2, <3>3
  <2> QED
    BY <2>1, <2>2, <2>3 DEF Next
<1> QED
  BY <1>1, Inductive, PTL DEF Spec, NeverOverbooked

-----------------------------------------------------------------------------
(* The ledger *)

\* The books of the ledger, as GpuCluster keeps them
Offered == [n \in Nodes |-> Counts(Settled(n).capacity)]
Taken   == [n \in Nodes |-> Counts(Settled(n).usage)]
Given   == [n \in Nodes |-> Counts(Held(n))]

-----------------------------------------------------------------------------
(* The steps of the ledger in terms of the books *)

\* A record is counted product by product, and every count is an integer
LEMMA CountsAreInts ==
    ASSUME NEW pcm \in CountMaps
    PROVE  Counts(pcm) \in [Products -> Int]
BY CountOfIsInt DEF Counts

\* What an outsider sees of a node is a record
LEMMA SettledIsInfo ==
    ASSUME ClusterTypeOK, LocksAreHeld, NEW n \in Nodes
    PROVE  Settled(n) \in Infos
BY ReadIsInfo, TaskType DEF Settled, ClusterTypeOK, LocksAreHeld

\* The books and what they are made from have their types
BooksOK ==
    /\ \A n \in Nodes : /\ Settled(n) \in Infos
                         /\ WorksOn(n) \in Seq(CountMaps) /\ Len(WorksOn(n)) = MaxWorkloads
                         /\ Held(n) \in CountMaps /\ Validate(Held(n))
    /\ Offered \in [Nodes -> [Products -> Int]]
    /\ Taken \in [Nodes -> [Products -> Int]]
    /\ Given \in [Nodes -> [Products -> Int]]

\* Every book has integers for every node and product
LEMMA BooksType == IInv => BooksOK
<1> SUFFICES ASSUME IInv PROVE BooksOK
  OBVIOUS
<1>1. ASSUME NEW n \in Nodes
      PROVE  /\ Settled(n) \in Infos
             /\ WorksOn(n) \in Seq(CountMaps) /\ Len(WorksOn(n)) = MaxWorkloads
             /\ Held(n) \in CountMaps /\ Validate(Held(n))
             /\ Counts(Settled(n).capacity) \in [Products -> Int]
             /\ Counts(Settled(n).usage) \in [Products -> Int]
             /\ Counts(Held(n)) \in [Products -> Int]
  BY SettledIsInfo, HeldIsValid, CountsAreInts DEF IInv, Infos
<1> QED
  BY <1>1 DEF BooksOK, Offered, Taken, Given

\* The same of the next state
LEMMA BooksTypeThen == IInv' => BooksOK'
BY BooksType, PTL

\* Nothing happens to the books
LEMMA StutterStep ==
    ASSUME \A n \in Nodes : Settled(n)' = Settled(n),
           workload' = workload, repair' = repair
    PROVE  UNCHANGED Ledger!ledger
<1>1. \A n \in Nodes : Held(n)' = Held(n)
  BY DEF Held, WorksOn, On
<1>2. Offered' = Offered /\ Taken' = Taken /\ Given' = Given
  BY <1>1 DEF Offered, Taken, Given
<1> QED
  BY <1>2 DEF Ledger!ledger, Offered, Taken, Given

\* Setting one node's capacity, and nothing else, is a Declare
LEMMA DeclareStep ==
    ASSUME IInv, IInv', NEW n \in Nodes,
           \A m \in Nodes \ {n} : Settled(m)' = Settled(m),
           Settled(n)'.usage = Settled(n).usage,
           workload' = workload, repair' = repair
    PROVE  Ledger!Declare(n)
<1>1. \A m \in Nodes : Held(m)' = Held(m)
  BY DEF Held, WorksOn, On
<1>2. Taken' = Taken /\ Given' = Given
  BY <1>1 DEF Taken, Given
<1>3. BooksOK /\ BooksOK'
  BY BooksType, BooksTypeThen
<1>4. \A m \in Nodes \ {n} : Offered'[m] = Offered[m]
  BY DEF Offered
<1>5. /\ Offered' = [Offered EXCEPT ![n] = Offered'[n]]
      /\ Offered'[n] \in [Products -> Int]
  BY <1>3, <1>4 DEF BooksOK
<1> QED
  BY <1>2, <1>5 DEF Ledger!Declare, Ledger!Only, Offered, Taken, Given

\* Books that differ on one node only
LEMMA OneNodeBooks ==
    ASSUME IInv, IInv', NEW n \in Nodes,
           \A m \in Nodes \ {n} : Settled(m)' = Settled(m),
           \A m \in Nodes \ {n} : \A id \in Ids :
              On(m, id) \/ On(m, id)' => workload'[id] = workload[id],
           Settled(n)'.capacity = Settled(n).capacity
    PROVE  /\ Offered' = Offered
           /\ Taken' = [Taken EXCEPT ![n] = Taken'[n]]
           /\ Given' = [Given EXCEPT ![n] = Given'[n]]
           /\ Taken'[n] \in [Products -> Int] /\ Given'[n] \in [Products -> Int]
<1>1. \A m \in Nodes \ {n} : Held(m)' = Held(m)
  BY DEF Held, WorksOn, On
<1>2. Offered' = Offered
  BY DEF Offered
<1>3. \A m \in Nodes \ {n} : Taken'[m] = Taken[m] /\ Given'[m] = Given[m]
  BY <1>1 DEF Taken, Given
<1>4. BooksOK /\ BooksOK'
  BY BooksType, BooksTypeThen
<1> QED
  BY <1>2, <1>3, <1>4 DEF BooksOK

\* Usage of a node grows within the capacity
LEMMA GrowthFits ==
    ASSUME NEW n \in Nodes, GrownWithin(Settled(n), Settled(n)')
    PROVE  Ledger!Fits(n)
<1>1. \A prod \in Products :
         Taken'[n][prod] > Taken[n][prod] => Taken'[n][prod] <= Offered[n][prod]
  BY DEF GrownWithin, Taken, Offered, Counts
<1> QED
  BY <1>1 DEF Ledger!Fits, Taken, Offered

\* When the workloads and the usage of one node change by the same cards, and what
\* grows fits, that is a Book
LEMMA BookStep ==
    ASSUME IInv, IInv', NEW n \in Nodes,
           \A m \in Nodes \ {n} : Settled(m)' = Settled(m),
           \A m \in Nodes \ {n} : \A id \in Ids :
              On(m, id) \/ On(m, id)' => workload'[id] = workload[id],
           Settled(n)'.capacity = Settled(n).capacity,
           GrownWithin(Settled(n), Settled(n)'),
           \A prod \in Products :
              CountOf(Settled(n)'.usage, prod) - CountOf(Settled(n).usage, prod)
                = CountOf(Held(n)', prod) - CountOf(Held(n), prod),
           repair' = repair
    PROVE  Ledger!Book(n)
<1>1. /\ Offered' = Offered
      /\ Taken' = [Taken EXCEPT ![n] = Taken'[n]]
      /\ Given' = [Given EXCEPT ![n] = Given'[n]]
      /\ Taken'[n] \in [Products -> Int] /\ Given'[n] \in [Products -> Int]
  BY OneNodeBooks
<1>2. \A prod \in Products :
         Taken'[n][prod] - Taken[n][prod] = Given'[n][prod] - Given[n][prod]
  BY DEF Taken, Given, Counts
<1>3. Ledger!Fits(n)
  BY GrowthFits
<1> QED
  BY <1>1, <1>2, <1>3 DEF Ledger!Book, Ledger!Only, Offered, Taken, Given

\* When an operation fails and its node is put on the list of repairs, that is a
\* Doubt, whatever its writes have left
LEMMA DoubtStep ==
    ASSUME IInv, IInv', NEW n \in Nodes,
           \A m \in Nodes \ {n} : Settled(m)' = Settled(m),
           workload' = workload,
           Settled(n)'.capacity = Settled(n).capacity,
           GrownWithin(Settled(n), Settled(n)'),
           repair' = repair \cup {n}
    PROVE  Ledger!Doubt(n)
<1>1. \A m \in Nodes : Held(m)' = Held(m)
  BY DEF Held, WorksOn, On
<1>2. Given' = Given
  BY <1>1 DEF Given
<1>3. /\ Offered' = Offered
      /\ Taken' = [Taken EXCEPT ![n] = Taken'[n]]
      /\ Taken'[n] \in [Products -> Int]
  BY OneNodeBooks
<1>4. Ledger!Fits(n)
  BY GrowthFits
<1> QED
  BY <1>2, <1>3, <1>4 DEF Ledger!Doubt, Ledger!Only, Offered, Taken, Given

\* When the usage of a node in repair becomes what is held, that is a Recount
LEMMA RecountStep ==
    ASSUME IInv, IInv', NEW n \in Nodes, n \in repair,
           \A m \in Nodes \ {n} : Settled(m)' = Settled(m),
           workload' = workload,
           Settled(n)'.capacity = Settled(n).capacity,
           Settled(n)'.usage = Held(n),
           repair' \in {repair, repair \ {n}}
    PROVE  Ledger!Recount(n)
<1>1. \A m \in Nodes : Held(m)' = Held(m)
  BY DEF Held, WorksOn, On
<1>2. Given' = Given
  BY <1>1 DEF Given
<1>3. /\ Offered' = Offered
      /\ Taken' = [Taken EXCEPT ![n] = Taken'[n]]
  BY OneNodeBooks
<1>4. Taken'[n] = Given[n]
  BY DEF Taken, Given
<1>5. Taken' = [Taken EXCEPT ![n] = Given[n]]
  BY <1>3, <1>4
<1> QED
  BY <1>2, <1>3, <1>5 DEF Ledger!Recount, Offered, Taken, Given

\* A node without workloads holds nothing
LEMMA NothingIsHeld ==
    ASSUME NEW n \in Nodes, \A id \in Ids : ~On(n, id), NEW prod \in Products
    PROVE  CountOf(Held(n), prod) = 0
<1>1. WorksOn(n) = [id \in 1..MaxWorkloads |-> NoCards]
  BY DEF WorksOn, Ids
<1> DEFINE none == CountOf(NoCards, prod)
           all  == CountOf(ApplyAll(NoCards, [id \in 1..MaxWorkloads |-> NoCards], TRUE), prod)
<1>2. none = 0
  BY DEF CountOf, NoCards, Keys
<1>3. all = none + MaxWorkloads * none
  BY MaxWorkloadsAssumption, NoCardsIsMap, CopiesAreCounted
<1> HIDE DEF none, all
<1>4. all = 0
  BY <1>2, <1>3, MaxWorkloadsAssumption
<1> QED
  BY <1>1, <1>4 DEF Held, WorkloadsUsage, all

\* An empty map counts nothing
LEMMA EmptyCounts == Counts(NoCards) = [prod \in Products |-> 0]
BY DEF Counts, CountOf, NoCards, Keys

\* When a node without workloads loses its record, that is a Remove
LEMMA RemoveStep ==
    ASSUME IInv, IInv', NEW n \in Nodes, \A id \in Ids : ~On(n, id),
           \A m \in Nodes \ {n} : Settled(m)' = Settled(m),
           workload' = workload,
           Settled(n)' = EmptyInfo,
           repair' \in {repair, repair \ {n}}
    PROVE  Ledger!Remove(n)
<1> DEFINE Nothing == [prod \in Products |-> 0]
<1>1. \A m \in Nodes : Held(m)' = Held(m)
  BY DEF Held, WorksOn, On
<1>2. Given' = Given
  BY <1>1 DEF Given
<1>3. Given[n] = Nothing
  BY NothingIsHeld DEF Given, Counts
<1>4. Offered'[n] = Nothing /\ Taken'[n] = Nothing
  BY EmptyCounts DEF Offered, Taken, EmptyInfo
<1>5. \A m \in Nodes \ {n} : Offered'[m] = Offered[m] /\ Taken'[m] = Taken[m]
  BY DEF Offered, Taken
<1> HIDE DEF Nothing
<1>6. /\ Offered' = [Offered EXCEPT ![n] = Nothing]
      /\ Taken' = [Taken EXCEPT ![n] = Nothing]
  <2>1. BooksOK /\ BooksOK'
    BY BooksType, BooksTypeThen
  <2> QED
    BY <1>4, <1>5, <2>1 DEF BooksOK
<1> QED
  BY <1>2, <1>3, <1>6 DEF Ledger!Remove, Ledger!Nothing, Nothing, Offered, Taken, Given

-----------------------------------------------------------------------------
(* What an outsider sees of an operation's steps *)

\* Taking the lock hides nothing and shows nothing
LEMMA BeginIsHidden ==
    ASSUME IInv, NEW c \in Callers, NEW op, NEW step, NEW n \in Nodes, NEW id, NEW r,
           Begin(c, op, step, n, id, r)
    PROVE  UNCHANGED Ledger!ledger
<1>1. /\ lock[n] = Nil /\ task[c] = Nil
      /\ lock' = [lock EXCEPT ![n] = c]
      /\ task' = [task EXCEPT ![c] =
                    [op |-> op, step |-> step, node |-> n, id |-> id,
                     cards |-> NoCards, before |-> GetOrEmpty(n)]]
      /\ etcd' = etcd /\ workload' = workload /\ repair' = repair
  BY DEF Begin, Start
<1>2. /\ lock \in [Nodes -> Callers \cup {Nil}] /\ task \in [Callers -> Task \cup {Nil}]
      /\ LocksAreHeld
  BY DEF IInv, ClusterTypeOK
<1>3. ASSUME NEW m \in Nodes
      PROVE  Settled(m)' = Settled(m)
  <2>1. GetOrEmpty(m)' = GetOrEmpty(m)
    BY <1>1 DEF GetOrEmpty
  <2>2. CASE m = n
    <3>1. lock'[n] = c /\ task'[c].before = GetOrEmpty(n) /\ c # Nil
      BY <1>1, <1>2, NilIsNobodyAssumption
    <3> QED
      BY <1>1, <2>2, <3>1 DEF Settled
  <2>3. CASE m # n
    <3>1. lock'[m] = lock[m]
      BY <1>1, <1>2, <2>3
    <3>2. lock[m] # Nil => lock[m] # c /\ task'[lock[m]] = task[lock[m]]
      BY <1>1, <1>2 DEF LocksAreHeld
    <3> QED
      BY <2>1, <3>1, <3>2 DEF Settled
  <2> QED
    BY <2>2, <2>3
<1> QED
  BY <1>1, <1>3, StutterStep

\* Going from one call of an operation to the next is not to be seen
LEMMA GoOnIsHidden ==
    ASSUME IInv, NEW c \in Callers, NEW step, NEW cards, NEW r, GoOn(c, step, cards, r)
    PROVE  UNCHANGED Ledger!ledger
<1>1. /\ lock' = lock /\ etcd' = etcd /\ workload' = workload /\ repair' = repair
      /\ task' = [task EXCEPT ![c].step = step, ![c].cards = cards]
  BY DEF GoOn, StartNext
<1>2. /\ lock \in [Nodes -> Callers \cup {Nil}] /\ task \in [Callers -> Task \cup {Nil}]
      /\ LocksAreHeld
  BY DEF IInv, ClusterTypeOK
<1>3. \A d \in Callers : task[d] # Nil => task'[d].before = task[d].before
  BY <1>1, <1>2 DEF Task
<1>4. \A m \in Nodes : Settled(m)' = Settled(m)
  BY <1>1, <1>2, <1>3 DEF Settled, GetOrEmpty, LocksAreHeld
<1> QED
  BY <1>1, <1>4, StutterStep

\* What a plugin process does is not to be seen: the node it writes is locked
LEMMA PluginIsHidden ==
    ASSUME IInv, NEW c \in Callers, Plugin(c)
    PROVE  UNCHANGED Ledger!ledger
<1>1. lock' = lock /\ task' = task /\ workload' = workload /\ repair' = repair
  BY DEF Plugin, coreVars
<1>2. \A n \in Nodes : lock[n] = Nil => etcd'[n] = etcd[n]
  BY WritesAreTheHolders
<1>3. \A n \in Nodes : Settled(n)' = Settled(n)
  BY <1>1, <1>2 DEF Settled, GetOrEmpty
<1> QED
  BY <1>1, <1>3, StutterStep

\* When the operation ends its node shows the record it leaves
LEMMA EndShows ==
    ASSUME IInv, NEW c \in Callers, NEW op, NEW step, Answered(c, op, step), End(c),
           NEW n \in Nodes, n = task[c].node
    PROVE  /\ Settled(n) = task[c].before
           /\ Settled(n)' = GetOrEmpty(n)
           /\ \A m \in Nodes \ {n} : Settled(m)' = Settled(m)
<1>1. /\ task[c] # Nil /\ lock[n] = c /\ c # Nil
  BY AnsweredOperation, NilIsNobodyAssumption
<1>2. /\ lock' = [lock EXCEPT ![n] = Nil]
      /\ task' = [task EXCEPT ![c] = Nil]
      /\ etcd' = etcd
  BY DEF End, Collect
<1>3. /\ lock \in [Nodes -> Callers \cup {Nil}] /\ task \in [Callers -> Task \cup {Nil}]
      /\ LocksAreHeld
  BY DEF IInv, ClusterTypeOK
<1>4. lock'[n] = Nil /\ GetOrEmpty(n)' = GetOrEmpty(n)
  BY <1>2, <1>3 DEF GetOrEmpty
<1>5. ASSUME NEW m \in Nodes \ {n}
      PROVE  Settled(m)' = Settled(m)
  <2>1. lock'[m] = lock[m] /\ GetOrEmpty(m)' = GetOrEmpty(m)
    BY <1>2, <1>3 DEF GetOrEmpty
  <2>2. lock[m] # Nil => task'[lock[m]] = task[lock[m]]
    BY <1>2, <1>3 DEF LocksAreHeld
  <2> QED
    BY <2>1, <2>2 DEF Settled
<1> QED
  BY <1>1, <1>4, <1>5 DEF Settled

\* What is known of an operation that ends
LEMMA Ending ==
    ASSUME IInv, NEW c \in Callers, NEW op, NEW step, Answered(c, op, step), End(c)
    PROVE  \E n \in Nodes :
             /\ n = task[c].node
             /\ Settled(n) = task[c].before
             /\ Progress(task[c], request[c], "answered", answer[c], Settled(n)')
             /\ \A m \in Nodes \ {n} : Settled(m)' = Settled(m)
BY EndShows, AnsweredOperation

\* An end that shows the record found, and changes nothing of core's
LEMMA EndIsHidden ==
    ASSUME NEW n \in Nodes, Settled(n)' = Settled(n),
           \A m \in Nodes \ {n} : Settled(m)' = Settled(m),
           workload' = workload, repair' = repair
    PROVE  UNCHANGED Ledger!ledger
BY StutterStep

-----------------------------------------------------------------------------
(* Every action is a step of the ledger *)

LEMMA AddIsDeclared ==
    ASSUME IInv, IInv', NEW c \in Callers, Added(c) \/ AddUndone(c)
    PROVE  [Ledger!Next]_Ledger!ledger
<1>1. CASE GoOn(c, "undo", NoCards, [verb |-> "remove-node", node |-> task[c].node])
  BY <1>1, GoOnIsHidden
<1>2. CASE End(c)
  <2>1. PICK step \in {"write", "undo"} : Answered(c, "add", step)
    BY DEF Added, AddUndone
  <2>2. PICK n \in Nodes :
          /\ n = task[c].node
          /\ Settled(n) = task[c].before
          /\ Progress(task[c], request[c], "answered", answer[c], Settled(n)')
          /\ \A m \in Nodes \ {n} : Settled(m)' = Settled(m)
    BY <1>2, <2>1, Ending
  <2>3. /\ task[c].op = "add" /\ task[c].before \in Infos /\ Asks(task[c], request[c])
    BY <2>1, AnsweredOperation
  <2>4. Settled(n)'.usage = Settled(n).usage
    <3>1. CASE task[c].step = "undo"
      BY <2>2, <2>3, <3>1 DEF Progress, Touched
    <3>2. CASE task[c].step # "undo"
      <4>1. request[c].verb = "add-node"
        BY <2>3, <3>2 DEF Asks, Adds, Removes, Edits, PlansDeploy, BooksDeploy, PlansRealloc,
                    BooksRealloc, BooksDiscard, UndoesBooking, BookingOps, Fixes
      <4>2. Result(request[c], task[c].before).usage = task[c].before.usage
        BY <4>1 DEF Result, EmptyInfo
      <4> QED
        BY <2>2, <3>2, <4>2 DEF Progress
    <3> QED
      BY <3>1, <3>2
  <2>5. workload' = workload /\ repair' = repair
    BY <1>2, <2>1, <2>3 DEF Added, AddUndone, GoOn, End, Collect, StartNext, Answered
  <2> QED
    BY <2>2, <2>4, <2>5, DeclareStep DEF Ledger!Next
<1> QED
  BY <1>1, <1>2 DEF Added, AddUndone

\* An edit shows when it ends, as a Declare; undone, it does not show
LEMMA EditIsDeclared ==
    ASSUME IInv, IInv', NEW c \in Callers, Edited(c) \/ EditUndone(c)
    PROVE  [Ledger!Next]_Ledger!ledger
<1>1. CASE UndoCapacity(c)
  BY <1>1, GoOnIsHidden DEF UndoCapacity
<1>2. CASE End(c) /\ UNCHANGED <<workload, members, repair>>
  <2>1. PICK step \in {"write", "undo"} : Answered(c, "edit", step)
    BY DEF Edited, EditUndone
  <2>2. PICK n \in Nodes :
          /\ n = task[c].node
          /\ Settled(n) = task[c].before
          /\ Progress(task[c], request[c], "answered", answer[c], Settled(n)')
          /\ \A m \in Nodes \ {n} : Settled(m)' = Settled(m)
    BY <1>2, <2>1, Ending
  <2>3. /\ task[c].op = "edit" /\ task[c].before \in Infos /\ Asks(task[c], request[c])
    BY <2>1, AnsweredOperation
  <2>4. Settled(n)'.usage = Settled(n).usage
    <3>1. CASE task[c].step = "undo"
      BY <2>2, <2>3, <3>1 DEF Progress, Touched
    <3>2. CASE task[c].step # "undo"
      <4>1. request[c].verb = "set-capacity"
        BY <2>3, <3>2 DEF Asks, Adds, Removes, Edits, PlansDeploy, BooksDeploy, PlansRealloc,
                    BooksRealloc, BooksDiscard, UndoesBooking, BookingOps, Fixes
      <4>2. Result(request[c], task[c].before).usage = task[c].before.usage
        BY <2>3, <4>1 DEF Result, Infos
      <4> QED
        BY <2>2, <3>2, <4>2 DEF Progress
    <3> QED
      BY <3>1, <3>2
  <2> QED
    BY <1>2, <2>2, <2>4, DeclareStep DEF Ledger!Next
<1> QED
  BY <1>1, <1>2 DEF Edited, EditUndone

\* A removal shows when it ends
LEMMA RemovalIsRemoval ==
    ASSUME IInv, IInv', NEW c \in Callers, Removed(c)
    PROVE  [Ledger!Next]_Ledger!ledger
<1>1. /\ Answered(c, "remove", "write") /\ End(c) /\ workload' = workload
      /\ answer[c].ok => repair' = repair \ {task[c].node}
      /\ ~answer[c].ok => repair' = repair
  BY DEF Removed
<1>2. PICK n \in Nodes :
        /\ n = task[c].node
        /\ Settled(n) = task[c].before
        /\ Progress(task[c], request[c], "answered", answer[c], Settled(n)')
        /\ \A m \in Nodes \ {n} : Settled(m)' = Settled(m)
  BY <1>1, Ending
<1>3. /\ task[c].op = "remove" /\ task[c].step = "write" /\ Asks(task[c], request[c])
  BY <1>1, AnsweredOperation
<1>4. Removes(task[c], request[c])
  BY <1>3 DEF Asks, Adds, Edits, PlansDeploy, BooksDeploy, PlansRealloc,
              BooksRealloc, BooksDiscard, UndoesBooking, BookingOps, Fixes
<1>5. request[c].verb = "remove-node" /\ \A id \in Ids : ~On(n, id)
  BY <1>2, <1>4 DEF Removes
<1>6. Result(request[c], task[c].before) = EmptyInfo
  BY <1>5 DEF Result
<1>7. CASE Settled(n)' = EmptyInfo
  BY <1>1, <1>2, <1>5, <1>7, RemoveStep DEF Ledger!Next
<1>8. CASE Settled(n)' # EmptyInfo
  BY <1>1, <1>2, <1>3, <1>6, <1>8, EndIsHidden DEF Progress
<1> QED
  BY <1>7, <1>8

\* A plan that was refused does not show
LEMMA PlanFailureIsHidden ==
    ASSUME IInv, NEW c \in Callers, PlanFailed(c)
    PROVE  UNCHANGED Ledger!ledger
<1>1. PICK op \in {"deploy", "realloc"} :
        Answered(c, op, "plan") /\ End(c) /\ UNCHANGED <<workload, members, repair>>
  BY DEF PlanFailed
<1>2. PICK n \in Nodes :
        /\ n = task[c].node
        /\ Settled(n) = task[c].before
        /\ Progress(task[c], request[c], "answered", answer[c], Settled(n)')
        /\ \A m \in Nodes \ {n} : Settled(m)' = Settled(m)
  BY <1>1, Ending
<1>3. task[c].step = "plan" /\ Asks(task[c], request[c])
  BY <1>1, AnsweredOperation
<1>4. request[c].verb \in {"calculate-deploy", "calculate-realloc"}
  BY <1>3 DEF Asks, Adds, Removes, Edits, PlansDeploy, BooksDeploy, PlansRealloc,
              BooksRealloc, BooksDiscard, UndoesBooking, Fixes
<1>5. Result(request[c], task[c].before) = task[c].before
  BY <1>4 DEF Result
<1>6. Settled(n)' = Settled(n)
  BY <1>2, <1>3, <1>5 DEF Progress
<1> QED
  BY <1>1, <1>2, <1>6, EndIsHidden

\* A booking of which nobody knows whether it was written, or whether it was
\* taken back
LEMMA FailureIsDoubt ==
    ASSUME IInv, IInv', NEW c \in Callers, BookingFailed(c) \/ BookingUndone(c)
    PROVE  [Ledger!Next]_Ledger!ledger
<1>1. PICK op \in BookingOps, step \in {"write", "undo"} : Answered(c, op, step)
  BY DEF BookingFailed, BookingUndone, Booking, BookingOps
<1>2. /\ End(c) /\ workload' = workload
      /\ \/ repair' = repair \cup {task[c].node}
         \/ repair' = repair /\ answer[c].ok /\ task[c].step = "undo"
  BY DEF BookingFailed, BookingUndone, Answered
<1>3. PICK n \in Nodes :
        /\ n = task[c].node
        /\ Settled(n) = task[c].before
        /\ Progress(task[c], request[c], "answered", answer[c], Settled(n)')
        /\ \A m \in Nodes \ {n} : Settled(m)' = Settled(m)
  BY <1>1, <1>2, Ending
<1>4. /\ ClusterTypeOK /\ WorkloadsAreSound /\ task[c] \in Task /\ task[c].op \in BookingOps
      /\ task[c].step \in {"write", "undo"} /\ request[c] \in Requests
      /\ Asks(task[c], request[c]) /\ Stands(task[c], request[c])
  BY <1>1, AnsweredOperation
<1>5. Touched(task[c], Settled(n)')
  <2>1. CASE task[c].step = "undo"
    BY <1>3, <2>1 DEF Progress
  <2>2. CASE task[c].step = "write"
    BY <1>3, <1>4, <2>2, BookingTouches, NothingTouched DEF Progress
  <2> QED
    BY <1>4, <2>1, <2>2
<1>6. CASE repair' = repair \cup {n}
  BY <1>2, <1>3, <1>4, <1>5, <1>6, DoubtStep DEF Touched, Ledger!Next
<1>7. CASE repair' = repair /\ answer[c].ok /\ task[c].step = "undo"
  <2>1. Settled(n)' = Settled(n)
    BY <1>3, <1>7 DEF Progress
  <2> QED
    BY <1>2, <1>3, <1>7, <2>1, EndIsHidden
<1> QED
  BY <1>2, <1>3, <1>6, <1>7

\* A repair shows when it ends, as a Recount, also if its answer was lost
LEMMA FixIsRecount ==
    ASSUME IInv, IInv', NEW c \in Callers, Fixed(c)
    PROVE  [Ledger!Next]_Ledger!ledger
<1>1. /\ Answered(c, "fix", "write") /\ End(c) /\ workload' = workload
      /\ answer[c].ok => repair' = repair \ {task[c].node}
      /\ ~answer[c].ok => repair' = repair
  BY DEF Fixed
<1>2. PICK n \in Nodes :
        /\ n = task[c].node
        /\ Settled(n) = task[c].before
        /\ Progress(task[c], request[c], "answered", answer[c], Settled(n)')
        /\ \A m \in Nodes \ {n} : Settled(m)' = Settled(m)
  BY <1>1, Ending
<1>3. /\ task[c].op = "fix" /\ task[c].step = "write" /\ Asks(task[c], request[c])
      /\ task[c].before \in Infos
  BY <1>1, AnsweredOperation
<1>4. Fixes(task[c], request[c])
  BY <1>3 DEF Asks, Adds, Removes, Edits, PlansDeploy, BooksDeploy, PlansRealloc,
              BooksRealloc, BooksDiscard, UndoesBooking, BookingOps
<1>5. Result(request[c], task[c].before) = [task[c].before EXCEPT !.usage = Held(n)]
  BY <1>2, <1>4 DEF Fixes, Result, FixedInfo, Held
<1>6. CASE Settled(n)' = Settled(n) /\ ~answer[c].ok
  BY <1>1, <1>2, <1>6, EndIsHidden
<1>7. CASE Settled(n)' = Result(request[c], task[c].before)
  <2>1. Settled(n)'.capacity = Settled(n).capacity /\ Settled(n)'.usage = Held(n)
    BY <1>2, <1>3, <1>5, <1>7 DEF Infos
  <2>2. n \in repair /\ repair' \in {repair, repair \ {n}}
    BY <1>1, <1>2, <1>4 DEF Fixes
  <2> QED
    BY <1>1, <1>2, <2>1, <2>2, RecountStep DEF Ledger!Next
<1> QED
  BY <1>2, <1>3, <1>6, <1>7 DEF Progress

\* When the workloads of some places each come to hold k cards more, so does
\* the node for each of them
LEMMA HeldFollows ==
    ASSUME IInv, IInv', NEW n \in Nodes, NEW prod \in Products, NEW k \in Int,
           NEW places \in SUBSET Ids,
           \A id \in Ids : CountOf(WorksOn(n)'[id], prod)
                             = CountOf(WorksOn(n)[id], prod) + (IF id \in places THEN k ELSE 0)
    PROVE  CountOf(Held(n)', prod) = CountOf(Held(n), prod) + Cardinality(places) * k
<1> DEFINE works  == WorksOn(n)
           works1 == WorksOn(n)'
<1>1. /\ works \in Seq(CountMaps) /\ Len(works) = MaxWorkloads
      /\ works1 \in Seq(CountMaps) /\ Len(works1) = MaxWorkloads
  BY BooksType, BooksTypeThen DEF BooksOK
<1>2. Held(n) = WorkloadsUsage(works) /\ Held(n)' = WorkloadsUsage(works1)
  BY DEF Held
<1>3. \A id \in 1..Len(works) : CountOf(works1[id], prod)
         = CountOf(works[id], prod) + (IF id \in places THEN k ELSE 0)
  BY <1>1 DEF Ids
<1>4. places \in SUBSET (1..Len(works))
  BY <1>1 DEF Ids
<1> HIDE DEF works, works1
<1>5. CountOf(WorkloadsUsage(works1), prod)
        = CountOf(WorkloadsUsage(works), prod) + Cardinality(places) * k
  BY <1>1, <1>3, <1>4, SumFollowsItsParts
<1> QED
  BY <1>2, <1>5

\* A booking is in the books and on the node by the same amounts
LEMMA BookingIsBooked ==
    ASSUME IInv, IInv', NEW c \in Callers, Booked(c)
    PROVE  [Ledger!Next]_Ledger!ledger
<1> DEFINE t   == task[c]
           r   == request[c]
           old == workload[t.id].cards
           new == [node |-> t.node, cards |-> t.cards]
<1>1. PICK op \in BookingOps : Answered(c, op, "write")
  BY DEF Booked, BookingOps
<1>2. End(c) /\ members' = members /\ repair' = repair /\ answer[c].ok
  BY DEF Booked
<1>3. PICK n \in Nodes :
        /\ n = t.node
        /\ Settled(n) = t.before
        /\ Progress(t, r, "answered", answer[c], Settled(n)')
        /\ \A m \in Nodes \ {n} : Settled(m)' = Settled(m)
  BY <1>1, <1>2, Ending
<1>4. /\ ClusterTypeOK /\ WorkloadsAreSound /\ t # Nil /\ t \in Task /\ t.op = op
      /\ op \in BookingOps /\ t.step = "write" /\ t.cards \in CountMaps
      /\ r \in Requests /\ Asks(t, r) /\ Stands(t, r)
      /\ workload \in [Ids -> Workload \cup {Nil}]
  BY <1>1, AnsweredOperation DEF Task, ClusterTypeOK
<1>5. Settled(n)' = Result(r, t.before)
  BY <1>2, <1>3, <1>4 DEF Progress
<1>6. Touched(t, Settled(n)')
  BY <1>4, <1>5, BookingTouches
<1>7. Settled(n)'.capacity = Settled(n).capacity /\ GrownWithin(Settled(n), Settled(n)')
  BY <1>3, <1>4, <1>6 DEF Touched
<1>8. \A prod \in Products : /\ CountOf(Settled(n).usage, prod) \in Int
                             /\ CountOf(Held(n), prod) \in Int
                             /\ CountOf(t.cards, prod) \in Int
                             /\ CountOf(NoCards, prod) = 0
  <2>1. /\ Settled(n).usage \in CountMaps /\ Held(n) \in CountMaps
        /\ \A prod \in Products : CountOf(NoCards, prod) = 0
    BY BooksType DEF BooksOK, Infos, CountOf, NoCards, Keys
  <2> QED
    BY <1>4, <2>1, CountOfIsInt
<1>9. new # Nil /\ new \in Workload
  BY <1>3, <1>4, NilIsNobodyAssumption DEF Workload
<1>10. ASSUME \A m \in Nodes \ {n} : \A id \in Ids :
                 On(m, id) \/ On(m, id)' => workload'[id] = workload[id],
              \A prod \in Products :
                 CountOf(Settled(n)'.usage, prod) - CountOf(Settled(n).usage, prod)
                   = CountOf(Held(n)', prod) - CountOf(Held(n), prod)
       PROVE  [Ledger!Next]_Ledger!ledger
  BY <1>2, <1>3, <1>7, <1>10, BookStep DEF Ledger!Next
<1>11. CASE op = "deploy"
  <2>1. PICK ids \in kSubset(Len(r.works), FreeIds) :
          workload' = [id \in Ids |-> IF id \in ids THEN new ELSE workload[id]]
    BY <1>4, <1>11 DEF Booked, Answered
  <2>2. /\ ids \in SUBSET Ids /\ \A id \in ids : workload[id] = Nil
        /\ Cardinality(ids) = Len(r.works)
    BY DEF kSubset, FreeIds
  <2>3. BooksDeploy(t, r)
    BY <1>4, <1>11, AskedBooking
  <2>4. \A m \in Nodes \ {n} : \A id \in Ids :
           On(m, id) \/ On(m, id)' => workload'[id] = workload[id]
    BY <1>3, <1>9, <2>1, <2>2 DEF On
  <2>5. ASSUME NEW id \in Ids
        PROVE  /\ id \in ids => WorksOn(n)'[id] = t.cards /\ WorksOn(n)[id] = NoCards
               /\ id \notin ids => WorksOn(n)'[id] = WorksOn(n)[id]
    BY <1>3, <1>9, <2>1, <2>2 DEF On, WorksOn
  <2>6. ASSUME NEW prod \in Products
        PROVE  CountOf(Settled(n)'.usage, prod) - CountOf(Settled(n).usage, prod)
                 = CountOf(Held(n)', prod) - CountOf(Held(n), prod)
    <3> DEFINE k == CountOf(t.cards, prod)
               N == Len(r.works)
    <3>1. /\ N \in Nat /\ k \in Nat
          /\ CountOf(Settled(n)'.usage, prod) = CountOf(Settled(n).usage, prod) + N * k
      BY <1>3, <1>4, <1>5, <2>3, DeployCounts
    <3>2. \A id \in Ids : CountOf(WorksOn(n)[id], prod) \in Int
      BY BooksType, CountOfIsInt DEF BooksOK, Ids
    <3>3. \A id \in Ids : CountOf(WorksOn(n)'[id], prod)
             = CountOf(WorksOn(n)[id], prod) + (IF id \in ids THEN k ELSE 0)
      BY <1>8, <2>5, <3>1, <3>2
    <3>4. CountOf(Held(n)', prod) = CountOf(Held(n), prod) + N * k
      BY <2>2, <3>1, <3>3, HeldFollows
    <3> DEFINE p == N * k
    <3>5. p \in Int
      BY <3>1
    <3> HIDE DEF p
    <3>6. /\ CountOf(Settled(n)'.usage, prod) = CountOf(Settled(n).usage, prod) + p
          /\ CountOf(Held(n)', prod) = CountOf(Held(n), prod) + p
      BY <3>1, <3>4 DEF p
    <3> QED
      BY <1>8, <3>5, <3>6
  <2> QED
    BY <1>10, <2>4, <2>6
<1>12. t.op \in {"realloc", "discard"} =>
         /\ t.id \in Ids /\ workload[t.id] # Nil /\ workload[t.id].node = n
         /\ workload[t.id] \in Workload /\ old \in CountMaps /\ Validate(old)
         /\ Cardinality({t.id}) = 1 /\ {t.id} \in SUBSET Ids
  <2> SUFFICES ASSUME t.op \in {"realloc", "discard"}
               PROVE  /\ t.id \in Ids /\ workload[t.id] # Nil /\ workload[t.id].node = n
                      /\ workload[t.id] \in Workload /\ old \in CountMaps /\ Validate(old)
                      /\ Cardinality({t.id}) = 1 /\ {t.id} \in SUBSET Ids
    OBVIOUS
  <2>1. /\ t.id \in Ids /\ workload[t.id] # Nil /\ workload[t.id].node = t.node
        /\ workload[t.id] \in Workload /\ old \in CountMaps /\ Validate(old)
    BY <1>4, OldCards
  <2>2. Cardinality({t.id}) = 1
    BY FS_Singleton
  <2> QED
    BY <1>3, <2>1, <2>2
<1>13. CASE op = "realloc"
  <2>1. workload' = [workload EXCEPT ![t.id].cards = t.cards]
    BY <1>4, <1>13 DEF Booked, Answered
  <2>2. BooksRealloc(t, r, old)
    BY <1>4, <1>13, AskedBooking
  <2>3. /\ workload'[t.id].node = n /\ workload'[t.id].cards = t.cards
        /\ workload'[t.id] # Nil
        /\ \A id \in Ids \ {t.id} : workload'[id] = workload[id]
    <3>1. [workload[t.id] EXCEPT !.cards = t.cards] = new
      BY <1>3, <1>4, <1>12, <1>13 DEF Workload
    <3>2. workload'[t.id] = new /\ \A id \in Ids \ {t.id} : workload'[id] = workload[id]
      BY <1>4, <1>12, <1>13, <2>1, <3>1
    <3> QED
      BY <1>3, <1>9, <3>2
  <2>4. \A m \in Nodes \ {n} : \A id \in Ids :
           On(m, id) \/ On(m, id)' => workload'[id] = workload[id]
    BY <1>4, <1>12, <1>13, <2>3 DEF On
  <2>5. /\ WorksOn(n)'[t.id] = t.cards /\ WorksOn(n)[t.id] = old
        /\ \A id \in Ids \ {t.id} : WorksOn(n)'[id] = WorksOn(n)[id]
    BY <1>4, <1>12, <1>13, <2>3 DEF On, WorksOn
  <2>6. ASSUME NEW prod \in Products
        PROVE  CountOf(Settled(n)'.usage, prod) - CountOf(Settled(n).usage, prod)
                 = CountOf(Held(n)', prod) - CountOf(Held(n), prod)
    <3> DEFINE k == CountOf(t.cards, prod) - CountOf(old, prod)
    <3>1. CountOf(old, prod) \in Int
      BY <1>4, <1>12, <1>13, CountOfIsInt
    <3>2. CountOf(Settled(n)'.usage, prod) = CountOf(Settled(n).usage, prod) + k
      BY <1>3, <1>4, <1>5, <1>12, <1>13, <2>2, ReallocCounts
    <3>3. \A id \in Ids : CountOf(WorksOn(n)[id], prod) \in Int
      BY BooksType, CountOfIsInt DEF BooksOK, Ids
    <3>4. k \in Int
      BY <1>8, <3>1
    <3>5. \A id \in Ids : CountOf(WorksOn(n)'[id], prod)
             = CountOf(WorksOn(n)[id], prod) + (IF id \in {t.id} THEN k ELSE 0)
      BY <1>8, <2>5, <3>1, <3>3
    <3> HIDE DEF k
    <3>6. CountOf(Held(n)', prod) = CountOf(Held(n), prod) + 1 * k
      BY <1>4, <1>12, <1>13, <3>4, <3>5, HeldFollows
    <3> QED
      BY <1>8, <3>2, <3>4, <3>6
  <2> QED
    BY <1>10, <2>4, <2>6
<1>14. CASE op = "discard"
  <2>1. workload' = [workload EXCEPT ![t.id] = Nil]
    BY <1>4, <1>14 DEF Booked, Answered
  <2>2. BooksDiscard(t, r, old)
    BY <1>4, <1>14, AskedBooking
  <2>3. workload'[t.id] = Nil /\ \A id \in Ids \ {t.id} : workload'[id] = workload[id]
    BY <1>4, <1>12, <1>14, <2>1
  <2>4. \A m \in Nodes \ {n} : \A id \in Ids :
           On(m, id) \/ On(m, id)' => workload'[id] = workload[id]
    BY <1>4, <1>12, <1>14, <2>3 DEF On
  <2>5. /\ WorksOn(n)'[t.id] = NoCards /\ WorksOn(n)[t.id] = old
        /\ \A id \in Ids \ {t.id} : WorksOn(n)'[id] = WorksOn(n)[id]
    BY <1>4, <1>12, <1>14, <2>3 DEF On, WorksOn
  <2>6. ASSUME NEW prod \in Products
        PROVE  CountOf(Settled(n)'.usage, prod) - CountOf(Settled(n).usage, prod)
                 = CountOf(Held(n)', prod) - CountOf(Held(n), prod)
    <3> DEFINE k == 0 - CountOf(old, prod)
    <3>1. CountOf(old, prod) \in Int
      BY <1>4, <1>12, <1>14, CountOfIsInt
    <3>2. CountOf(Settled(n)'.usage, prod) = CountOf(Settled(n).usage, prod) - CountOf(old, prod)
      BY <1>3, <1>4, <1>5, <1>12, <1>14, <2>2, DiscardCounts
    <3>3. \A id \in Ids : CountOf(WorksOn(n)[id], prod) \in Int
      BY BooksType, CountOfIsInt DEF BooksOK, Ids
    <3>4. k \in Int /\ CountOf(Settled(n)'.usage, prod) = CountOf(Settled(n).usage, prod) + k
      BY <1>8, <3>1, <3>2
    <3>5. \A id \in Ids : CountOf(WorksOn(n)'[id], prod)
             = CountOf(WorksOn(n)[id], prod) + (IF id \in {t.id} THEN k ELSE 0)
      BY <1>8, <2>5, <3>1, <3>3
    <3> HIDE DEF k
    <3>6. CountOf(Held(n)', prod) = CountOf(Held(n), prod) + 1 * k
      BY <1>4, <1>12, <1>14, <3>4, <3>5, HeldFollows
    <3> QED
      BY <1>8, <3>4, <3>6
  <2> QED
    BY <1>10, <2>4, <2>6
<1> QED
  BY <1>4, <1>11, <1>13, <1>14 DEF BookingOps

-----------------------------------------------------------------------------
(* The refinement *)

\* Where nothing is recorded and nothing runs, the ledger is empty
LEMMA InitIsLedger == Init => Ledger!Init
<1> SUFFICES ASSUME Init PROVE Ledger!Init
  OBVIOUS
<1>1. \A n \in Nodes : Settled(n) = EmptyInfo
  BY DEF Init, PluginInit, Settled, GetOrEmpty
<1>2. \A n \in Nodes : \A prod \in Products : CountOf(Held(n), prod) = 0
  BY NothingIsHeld DEF Init, On
<1>3. \A n \in Nodes : /\ Counts(Settled(n).capacity) = [prod \in Products |-> 0]
                       /\ Counts(Settled(n).usage) = [prod \in Products |-> 0]
                       /\ Counts(Held(n)) = [prod \in Products |-> 0]
  BY <1>1, <1>2, EmptyCounts DEF EmptyInfo, Counts
<1>4. repair = {}
  BY DEF Init
<1> QED
  BY <1>3, <1>4 DEF Ledger!Init, Ledger!Nothing

\* A step of core is one of the ledger or is not to be seen
LEMMA CoreImplementsLedger ==
    ASSUME IInv, IInv', NEW c \in Callers, Core(c)
    PROVE  [Ledger!Next]_Ledger!ledger
<1>1. ASSUME BeginAdd(c) \/ BeginRemove(c) \/ BeginEdit(c) \/ BeginDeploy(c)
             \/ BeginRealloc(c) \/ BeginDiscard(c) \/ \E n \in Nodes : BeginFix(c, n)
      PROVE  UNCHANGED Ledger!ledger
  <2>1. members \in SUBSET Nodes /\ \A id \in Ids \ FreeIds : workload[id].node \in Nodes
    BY PickedWorkload DEF IInv, ClusterTypeOK
  <2>2. BeginAdd(c) => UNCHANGED Ledger!ledger
    BY BeginIsHidden DEF BeginAdd
  <2>3. BeginRemove(c) => UNCHANGED Ledger!ledger
    BY <2>1, BeginIsHidden DEF BeginRemove
  <2>4. BeginEdit(c) => UNCHANGED Ledger!ledger
    BY <2>1, BeginIsHidden DEF BeginEdit
  <2>5. BeginDeploy(c) => UNCHANGED Ledger!ledger
    BY <2>1, BeginIsHidden DEF BeginDeploy
  <2>6. BeginRealloc(c) => UNCHANGED Ledger!ledger
    BY <2>1, BeginIsHidden DEF BeginRealloc
  <2>7. BeginDiscard(c) => UNCHANGED Ledger!ledger
    BY <2>1, BeginIsHidden DEF BeginDiscard
  <2>8. (\E n \in Nodes : BeginFix(c, n)) => UNCHANGED Ledger!ledger
    BY BeginIsHidden DEF BeginFix
  <2> QED
    BY <1>1, <2>2, <2>3, <2>4, <2>5, <2>6, <2>7, <2>8
<1>2. ASSUME DeployPlanned(c) \/ ReallocPlanned(c) \/ BookingUndo(c)
      PROVE  UNCHANGED Ledger!ledger
  BY <1>2, GoOnIsHidden DEF DeployPlanned, ReallocPlanned, BookingUndo, UndoUsage
<1> QED
  BY <1>1, <1>2, AddIsDeclared, EditIsDeclared, RemovalIsRemoval, PlanFailureIsHidden,
     FailureIsDoubt, FixIsRecount, BookingIsBooked DEF Core

\* Under core's lock, with roll-backs and repairs, the plugin keeps a ledger:
\* an operation books workloads and usage together and within the capacity,
\* or changes nothing, or leaves the node in repair
THEOREM LedgerIsImplemented == Spec => ImplementsLedger
<1>1. IInv /\ IInv' /\ [Next]_vars => [Ledger!Next]_Ledger!ledger
  <2> SUFFICES ASSUME IInv, IInv', [Next]_vars
               PROVE  [Ledger!Next]_Ledger!ledger
    OBVIOUS
  <2>1. CASE UNCHANGED vars
    <3>1. /\ workload' = workload /\ repair' = repair
          /\ etcd' = etcd /\ lock' = lock /\ task' = task
      BY <2>1 DEF vars, pluginVars, coreVars
    <3>2. \A n \in Nodes : Settled(n)' = Settled(n)
      BY <3>1 DEF Settled, GetOrEmpty
    <3> QED
      BY <3>1, <3>2, StutterStep
  <2>2. ASSUME NEW c \in Callers, Core(c)
        PROVE  [Ledger!Next]_Ledger!ledger
    BY <2>2, CoreImplementsLedger
  <2>3. ASSUME NEW c \in Callers, Plugin(c)
        PROVE  [Ledger!Next]_Ledger!ledger
    BY <2>3, PluginIsHidden
  <2> QED
    BY <2>1, <2>2, <2>3 DEF Next
<1> QED
  BY <1>1, Inductive, InitIsLedger, PTL DEF Spec, ImplementsLedger, Ledger!Spec

-----------------------------------------------------------------------------
(* The books balance *)

\* The ledger again, with what is proved about it
Balance == INSTANCE NodeLedger_proofs WITH
    Kinds    <- Products,
    capacity <- [n \in Nodes |-> Counts(Settled(n).capacity)],
    usage    <- [n \in Nodes |-> Counts(Settled(n).usage)],
    held     <- [n \in Nodes |-> Counts(Held(n))],
    doubt    <- repair

\* Between operations the stored usage of a node that waits for no repair is,
\* entry by entry, what its workloads hold
THEOREM UsageIsWhatIsHeld == Spec => []UsageIsHeld
<1>1. IInv /\ Balance!Balanced => UsageIsHeld
  <2> SUFFICES ASSUME IInv, Balance!Balanced, NEW n \in Nodes, lock[n] = Nil, n \notin repair
               PROVE  GetOrEmpty(n).usage = Held(n)
    BY DEF UsageIsHeld
  <2>1. Counts(GetOrEmpty(n).usage) = Counts(Held(n))
    BY DEF Balance!Balanced, Settled
  <2>2. \A prod \in Products : CountOf(GetOrEmpty(n).usage, prod) = CountOf(Held(n), prod)
    BY <2>1 DEF Counts
  <2>3. /\ GetOrEmpty(n).usage \in CountMaps /\ Validate(GetOrEmpty(n).usage)
        /\ Held(n) \in CountMaps /\ Validate(Held(n))
    BY ReadIsValid, HeldIsValid DEF IInv, ClusterTypeOK, Infos, ValidInfo
  <2>4. Tight(GetOrEmpty(n).usage) /\ Tight(Held(n))
    BY <2>3, ValidIsTight
  <2> QED
    BY <2>2, <2>3, <2>4, TightMapsAreCounts
<1>2. Balance!Spec => []Balance!Balanced
  BY Balance!BooksBalance
<1>3. Ledger!Init => Balance!Init
  BY DEF Ledger!Init, Balance!Init, Ledger!Nothing, Balance!Nothing
<1>4. [Ledger!Next]_Ledger!ledger => [Balance!Next]_Balance!ledger
  BY DEF Ledger!Next, Balance!Next, Ledger!ledger, Balance!ledger,
         Ledger!Declare, Balance!Declare, Ledger!Book, Balance!Book,
         Ledger!Doubt, Balance!Doubt, Ledger!Recount, Balance!Recount,
         Ledger!Remove, Balance!Remove, Ledger!Only, Balance!Only,
         Ledger!Fits, Balance!Fits, Ledger!Nothing, Balance!Nothing
<1> QED
  BY <1>1, <1>2, <1>3, <1>4, Inductive, LedgerIsImplemented, PTL
     DEF ImplementsLedger, Ledger!Spec, Balance!Spec
=============================================================================
