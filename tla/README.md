# Verification of resource-extend

TLA+ modules, TLC runs and machine-checked proofs about the resource plugins
of this repository: `resource-gpu`, which counts cards per product, and
`resource-storage`, which places volumes on devices and disks.

    tlc -config MCGpuCalls.cfg MCGpuCalls        # model-check
    tlapm GpuCalls_proofs.tla                    # check the proofs

## 1. The system

There is no daemon. Core, another program, executes a plugin's binary once
per verb, with a JSON request on stdin and a JSON answer on stdout
(`docs/protocol.md`). All state is in etcd: one record per node and plugin,
`{capacity, usage}`. Every verb that changes a record reads it, computes, and
writes it back without any compare-and-swap; core's lock on the node is the
whole guarantee. A call that lasts longer than `call_timeout` is killed.

| Component | State | Operations | Talks to |
|---|---|---|---|
| `gpu/types` | none (values) | `Add`, `Sub`, `Validate`, `Count`, merge of a realloc | |
| `gpu` | none of its own | 13 verbs: add, remove, three sets, fix, two gets, deploy capacity, most idle, two calculates, metrics | `nodestore` |
| `nodestore` | the records in etcd | `Get`, `GetOrEmpty`, `GetMulti`, `Put`, `Delete`, `CheckAbsent` | etcd |
| `plugincmd` | one process per call | decode, dispatch, print or exit 128 | core, the plugin |
| `storage/types` | none (values) | volumes, disks, plans, their arithmetic and validation | |
| `storage/schedule` | a copy of the node's volumes and disks | plan volumes of four kinds, count plans, re-plan with affinity | |
| `storage` | none of its own | the same verbs as `gpu` | `nodestore`, `schedule` |
| core (external) | lock, workloads, repair entries | node add/remove/set, deploy, realloc, remove workload, roll-back, repair | the plugins |

What is hard about it:

- *Read-modify-write without comparison.* Calls on one node interleave
  between the read and the Put. Core's lock has to cover the whole operation.
- *Partial failure.* Core works on several plugins; when another one fails it
  replays this one's `before` snapshot through the ordinary set verbs, whose
  arguments shadow each other (`calculateNodeResource`).
- *Lost answers.* A killed call may have written or not. Core then keeps a
  repair entry and replays `fix-node-resource`, which compares the stored usage
  with the workloads.
- *Two definitions of one thing.* Deploy capacity and deploy, deploy and
  realloc, diff and fix are computed by different code over the same record.
- *Nodes without a record.* Nodes may predate a plugin; most verbs read an
  empty record, some fail.
- *Numbers.* Counts may cancel to zero, which must delete the entry;
  availability may be negative.
- *Placement (storage).* The scheduler's plans for monopoly, normal, unlimited
  and mount-only volumes share devices, disks and their IOPS/BPS quotas.

What makes each component correct:

- `gpu/types`: adding and subtracting are inverse, never leave a zero.
- `gpu`: the verbs agree with each other on every record; a snapshot is
  restored verbatim; the diffs miss nothing.
- `nodestore`: nothing invalid is ever stored.
- the protocol as a whole: between operations the stored usage is what the
  workloads hold; no roll-back or repair changes that; nothing is booked
  beyond capacity by a deploy or a realloc; a removed node stays removed;
  repairs end and locks are released.
- `storage/schedule`: a plan fits the node it was made for; the capacity
  reported is the number of plans that can be carried out; monopoly devices are
  not shared; a realloc keeps what need not move and gives back what was taken.
- `storage`: a workload holds what its bindings ask for, on the record and on
  the disks; the verbs promise the same as those of `gpu`.

## 2. The modules

| Module | Models | Extends |
|---|---|---|
| `ProdCountMap` | `gpu/types/gpu.go`: the counts and their arithmetic | |
| `GpuNode` | what the verbs compute from a record (`gpu/node.go`, `gpu/calculate.go`) | `ProdCountMap` |
| `GpuPlugin` | the verbs as processes over etcd (`gpu`, `nodestore`, `plugincmd`) | `GpuNode` |
| `GpuCalls` | the plugin under arbitrary calls, without a lock | `GpuPlugin` |
| `GpuCluster` | the plugin under core's lock, roll-backs and repairs | `GpuPlugin` |
| `GpuLate` | the same, where the write of a killed call arrives late | `GpuCluster` |
| `NodeLedger` | the abstract specification: what any of the plugins and core promise together | |
| `MCGpuCalls`, `MCGpuCluster`, `MCGpuLate` | instances for TLC | |
| `StorageTypes` | `storage/types`: bindings, plans, disks, records and their arithmetic | |
| `Schedule` | `storage/schedule`: the planners, the counter, re-planning | `StorageTypes` |
| `StorageNode` | what the verbs compute from a record (`storage/calculate.go`, `storage/node.go`) | `Schedule` |
| `StorageBooks` | one node and its workloads: deploy, realloc, remove | `StorageRecord` |
| `StorageLimits` | limits beside requests, what containers are created with (`storage/calculate.go`, `storage/utils.go`, `types/workload.go`) | `StorageNode` |
| `StorageRecord` | what the verbs make of a record: add, the three sets, diffs, fix (`storage/node.go`, `types/node.go`) | `StorageNode` |
| `StorageCalls` | these verbs called by anybody | `StorageRecord` |
| `StorageCluster` | these verbs and the planners under core, with its roll-backs and repairs | `StorageRecord` |
| `MCStorageBooks`, `MCStorageFindings`, `MCStorageLimits`, `MCStorageCalls`, `MCStorageCluster` | instances for TLC | |
| `NodeLedger_proofs`, `GpuPlugin_proofs`, `GpuCalls_proofs`, `GpuCluster_proofs`, `StorageRecord_proofs`, `StorageCalls_proofs`, `StorageCluster_proofs`, `StorageBooks_proofs` | the theorems; `GpuPlugin_proofs` has the facts about counts and single verbs that those about `GpuCalls` and `GpuCluster` rest on, `StorageRecord_proofs` those about sums, folds, the scheduler and the storage verbs that the other storage proofs rest on | the module named, and the proofs it rests on |

**State.** `etcd[n]` is the record of node `n`, or `Absent`. A caller has at
most one call: `phase[c]` is where it is, `request[c]` the decoded stdin,
`pending[c]` the record it is about to write, `answer[c]` what it prints.

**Actions.** A handler is one action from the read of the record to the point
where it answers (`Reply`) or goes on to write (`Store`); `Put` is the write,
with the validation in front of it. That is where another process can come in
between, and the only place: a call reads etcd once and writes it once.
`RemoveNode` writes without reading and is one step. `FailBeforeWrite` and
`FailAfterWrite` are what an etcd error or the kill of the process does: the
call is answered with a failure, and the write happened or did not.

**Data.** A `ProdCountMap` is a function from products to an integer or
`NoEntry`, since the code tells a product with a zero from one without an
entry. Products, nodes and blank names are model values. `resource_request`
is a map, absent (`Nil`), or an object without `prod_count_map` (`Keyless`),
the three cases the code tells apart. Integers are unbounded: Go's are 64 bit
and nobody counts that many cards. Map iteration order does not matter to any
result the model keeps; `DeployCapacity` says where the code's answer does
depend on it. `maxCapacity` is the constant `MaxCapacity`.

Operators named in a comment as a *faulty variant* stand beside some
definitions. No behaviour uses them. Each is the definition as a plausible
slip would have left it, and replacing the one by the other makes TLC find
the property violated that `PROJECT.json` names under "mutants".

**Core.** `GpuCluster` models core from `docs/protocol.md` (locking, roll-back,
repair) and `docs/gpu.md`. It runs one operation per worker: add a node,
remove one without workloads, edit a capacity, deploy, realloc, remove a
workload, repair. Before each call another plugin may make the operation fail
after this one succeeded, which takes the undo branch. Workloads are recorded
while the node's lock is held, and a booking that failed leaves a repair
entry: this is an assumption about core, whose code is not here.

**Storage.** The scheduler is sequential code over a *host*, a copy of the
node's free space, that its functions change in place and leave changed where
they fail. Here a function takes a host and returns the one it leaves: `host`,
`ok`, `plan`, `disks`. Its loops are folds over sequences, or `Iterate` where
their number of rounds is only bounded. `Promote`, which evaluates a copy of
the host after each device it opens, takes the evaluation as a parameter, as
the code does, and the planner and the counter give it theirs.

- A path is a number in string order; `Parts` gives its components, from which
  the disk that covers it is found.
- IOPS and BPS, read and write, are treated alike by the code and are the
  members of `Rates`.
- A request's bindings are a set with distinct keys, in the order the code
  sorts them into. Where the code ranges over a map the result is the same in
  every order as long as a destination has one binding; `MCStorageRetyped.cfg` is
  about the case where it has two.
- `StorageBooks` and `StorageCluster` leave a request's limits out: nothing is
  planned or booked by them. `StorageLimits` has both lists.
- The share of a monopoly binding is a product of `float64` that is truncated
  (`schedule.go:145`): 57 of 100 on a device of 100 is 56. `Portion` is the
  product with its rounding: off by less than if the device were half a byte
  larger or smaller, which is what two roundings come to on a device below 2^50
  bytes. Which products are off, and which way, are the constants `RoundedDown` and
  `RoundedUp`, so the theorems hold for every way the floats may round, and more
  ways than they do. In `storage_books` and `storage_limits` every share of part
  of a device that is whole loses a byte, and one that is not gains one where it
  is near enough; in the other passing runs none is off. What is left over goes to
  the first binding, so that the group has all of the device.
- Devices are searched as `slices.BinarySearchFunc` does, with its probes: in a
  realloc the order it relies on may not hold (see the hazards in `PROJECT.json`), and then the
  probes decide what is found.
- `math.MaxInt` is the constant `MaxInt`, beyond the number of passes and the
  sizes of any instance.
- The usage of a volume without an entry is 0, and usage of disks has no mount
  points: `Validate` overwrites them with the capacity's.
- A capacity request is a record in which each key is set or `Unset`, in the
  form an operator types or the one it is stored in. The two forms are told
  apart by whether they parse (`IsRollback`), and a stored one is never read as
  a typed one: its volumes are an object, not a list of strings.

The storage verbs are functions from a record to `[ok, info]`, as each reads
the record once and writes it once. `StorageBooks` and `StorageLimits` run
core's operations one after the other, each in one step with its booking: the
questions there are about planning. In `StorageCluster` an operation is the
call, with a fault or without, and its end: it is recorded, rolled back, or
given up, and other operations wait for the lock meanwhile. `calculate-deploy`
and the booking of its answer are one step, for nothing happens to the record
in between. `StorageCalls` has any call follow any other. Calls that overlap
are the matter of `GpuCalls` and `GpuCluster`: the code around the verbs is
shared by both plugins. Properties that speak of requests are evaluated in each
reachable record, whether the request is then made or not.

**The abstract specification.** `NodeLedger` knows a node's capacity, its
usage and what its workloads hold, as amounts of kinds, and whether the usage
is in doubt. An operation of core is one step: `Declare` (the capacity is
set), `Book` (workloads and usage change by the same amounts, and what grows
fits), `Doubt` (the operation did not happen, its writes may have), `Recount`
(a repair), `Remove`. `GpuCluster` implements it with the number of cards of
each product as amounts, `StorageCluster` with the storage, the size of each
volume and the four rates of each disk. The mapping shows the record an
operation found under the lock until the operation ends, then the record it
left; so calls, snapshots, roll-backs and the order of several plugins'
answers are not to be seen, and a roll-back that succeeded is a step that
changes nothing.

## 3. The runs

| Run | Question | States |
|---|---|---|
| `gpu_calls` (`MCGpuCalls`) | Do the verbs agree with each other on whatever records unlocked calls bring about? | 41 thousand |
| `gpu_cluster` (`MCGpuCluster`) | Do lock, roll-back and repair keep the books of a contended node? | 342 thousand |
| `gpu_two_nodes` (`MCGpuTwoNodes`) | Do operations on two nodes at once disturb each other? Do operations and repairs end? | 125 thousand |
| `storage_books` (`MCStorageBooks`) | Do planner, counter, re-planner and record agree? | 6 thousand |
| `storage_cluster` (`MCStorageCluster`) | Do roll-back and repair keep the books while volumes and disks are moved, resized and removed? Do repairs end? | 98 thousand |
| `storage_calls` (`MCStorageCalls`) | What do the verbs owe each other on whatever record calls leave? | 72 thousand |
| `storage_limits` (`MCStorageLimits`) | Are limits above requests, on the same devices, and containers as they are recorded? | 5.5 thousand |
| `gpu_late` (`MCGpuLate`) | Is core's lock enough if the write of a killed call is late? | up to the counterexample |
| `storage_short`, `_shared`, `_shrunk` (`MCStorageFindings`), `storage_unseen` (`MCStorageCluster`) | Where does the code differ from what is written about it? | up to the counterexample |

- `TypeOK`, `ClusterTypeOK`: types.
- `StoredValid`: every stored record passes `Validate`; of `StorageCalls`, it
  is also of the form of a record and lists usage only of disks it has.
- `CapacityIsExact`: `calculate-deploy` accepts k workloads exactly for k up
  to the capacity `get-nodes-deploy-capacity` computes.
- `ReallocKeepsBooks`: an accepted realloc can be booked and swaps the
  workload's cards, also when the request gives back more than there is.
- `RestoreIsVerbatim`: a `before` snapshot put back by an absolute set is
  stored as it was, whatever `incr` and whatever is stored.
- `DiffsAreComplete`: no differences exactly when the usage is the sum.
- `UsageIsHeld` (of `GpuCluster`): an unlocked node not waiting for repair has exactly its
  workloads' cards in its usage.
- `WriteIsFresh`: what a call is about to write was computed from what is
  still stored.
- `RollbackIsExact`: a roll-back that succeeded restored the record found
  under the lock.
- `NeverOverbooked`: deploys and reallocs never bring a node's usage beyond
  its capacity (repairs and roll-backs may, when an operator shrank it).
- `NoResurrection`: a record appears and disappears only with the operation
  meant to do so.
- `RepairEnds`: a node with a record does not stay in repair for ever.
- `LocksAreReleased`: every operation ends.

- `CountIsPlans`: for the same bound the counter counts the planner's plans.
- `MountPassesAreTheLoop`: the closed form for mounts equals the loop of
  passes, in its plans and in the host it leaves.
- `CapacityIsRoom`: for one binding, and for monopoly bindings alone, the
  capacity is the room there is, summed over devices and disks without any
  scheduling. (For several normal bindings it is less: filling the smallest
  device first is a heuristic.)
- `PlansFit`, `ReallocsFit`: what is planned can be booked.
- `MonopolyTakesAll`: monopoly bindings are given all of a free device.
- `PromiseKept`: what the capacity query promises can be deployed.
- `KeepsDevice`: bindings stay on their device in a realloc.
- `NothingAskedNothingMoved`: a realloc that asks for nothing changes nothing,
  even on a full node.
- `AllPlaced`: after any operations each binding has its place, of the size it
  asks for. A monopoly binding may lack a byte of it, for the rounding of its
  share: one of 57 beside one of 43 on a device of 100 is given 56. Together those
  of a workload have no less than they ask for. (`docs/storage.md` says only that
  the device is split proportionally.)
- `DisksMatchPlan`, `BooksTypeOK`: after any operations the disks are charged
  for exactly the bindings on them, and nothing is held that is not there.

- `ImplementsLedger` (`gpu_cluster`, `gpu_two_nodes`, `storage_cluster`): every
  behaviour is one of `NodeLedger`.
- `ReturnsFit`: whatever was done to volumes and disks, a workload can be given
  back.
- `SnapshotsRestore`: a snapshot any call has answered is refused or restored
  verbatim over any later record. `RollbackIsExact` of `StorageCluster` says
  that core's own is never refused.
- `RetryIsHarmless`, `DeltaIsUndone`: an absolute set repeated changes nothing;
  what was added is subtracted again exactly.
- `LimitsCover`: limits stay above requests and on the
  devices and disks the planner charged.
- `RunsOnItsPlan`: containers that are not created again have their volumes
  where the record has them.
- `NothingAskedLimitsKept`: a realloc that asks for nothing leaves the limits.

The violation runs check what a document says and the code does not do.
`PROJECT.json` has the finding each one shows. In short:

1. `storage_short` (`CapacityIsMet`, the converse of `PromiseKept`): the
   capacity query may answer 0 for what can be deployed: it opens devices as
   long as monopoly plans outnumber the normal ones, and takes the last pass, in
   which the normal bindings may have used up the disk quota.
2. `storage_shared`: a device that holds bindings without a size counts as
   unused, is given to a monopoly binding, and is shared with it once they grow.
3. `storage_shrunk`: lowering the rates of a mount does not lower what its disk
   is charged.
4. `storage_unseen`: usage on a disk the stored usage does not list is no
   difference, and a repair leaves it out. Bookings charge each disk they use,
   so that it takes a lost answer on a workload without sizes, and its disk
   removed meanwhile. In `storage_cluster` each deploy has a size, which then
   shows as a difference and has everything counted again.
5. `gpu_late`: an edit of a capacity is killed while its Put is under way, the
   lock is released, a deploy is booked, and then the Put arrives and puts back
   the usage from before the deploy: the workload's cards are not in use, and no
   repair is due (an edit leaves none). That takes a request which outlives its
   process; the code has no comparison that would refuse it. The opposite, a
   late booking of a failed deploy that stays without a workload, happens sooner,
   but overwrites nobody; `NoUpdateIsLost` does not ask about it.

Smaller or rarer differences have a configuration of their own beside the
regular runs (`tlc -config <file> <module>`):

| Configuration, module | Property | What the code does |
|---|---|---|
| `MCStorageRetyped.cfg`, `MCStorageFindings` | `KeepsDevice` | A plan is merged by destination only: a request for the same destination with other flags moves the old binding (`volume.go:306`). |
| `MCStorageOver.cfg`, `MCStorageFindings` | `StorageCoversVolumes` | Shrinking a volume below zero gives back more storage than it had (`calculate.go:64`). |
| `MCStorageGivenBack.cfg`, `MCStorageLimits` | `StorageAdds` | A workload that gives all of its storage back is booked with its limit (`workload.go:127`). |
| `MCStorageSoft.cfg`, `MCStorageLimits` | `LimitsCover` | The storage limit is raised before the volumes are added to both sides and may end below the request (`workload.go:128`). `storage_limits` has only requests that give a storage limit along with a storage. |
| `MCStorageSizeless.cfg`, `MCStorageLimits` | `LimitsAreRaised` | A limit of size 0 is not raised to its request (`workload.go:112`; `docs/storage.md:35`). |
| `MCStorageGrown.cfg`, `MCStorageLimits` | `ChangesAreReported` | `volume_changed` compares source, destination and flags, not sizes or rates (`calculate.go:116`; `docs/storage.md:99`). |
| `MCStorageUnfolded.cfg`, `MCStorageCluster` | `CapacityCoversVolumes` | An absolute set of `storage` alone does not add the sizes of the volumes the node keeps (`types/node.go:189`; `docs/storage.md:52`). |

**Bounds.** `MCStorageBooks`: three devices on two nodes (one with a disk that
covers two of them, one where two devices have no disk), two rates, two
workloads, three deploys or reallocs in any order and any number of removals,
nine deploys of up to three bindings, and one of none (every kind, and the pairs that compete
for a device or a disk), eight reallocs that grow, shrink, add and drop, one
of which is not planned.
Sizes are so small that every device fills up. `MaxOps` = 3 is what it takes
to deploy, grow something in place and plan something new beside it.

`MCStorageCluster`: a node with two volumes on one disk; edits that take a
volume away, move both mounts to other disks, remove the disk, and add and
subtract volumes, rates and storage; two kinds of deploys, a realloc that grows
a size and a rate; two workloads, one fault. Five operations beside removals
and repairs, the node's addition among them, let a node be filled, edited under
its workloads, edited again and planned on. The node may be unknown to the
plugin. `MCStorageCalls`: four calls that succeed, of any kind and in any
order, on a node without a record; after them the properties try every snapshot
and every request once or twice more. `MCStorageLimits`: limits below, at and
above their requests, on each of the kinds of bindings; reallocs that grow or
shrink both lists alike or differently, add a volume, or exchange storage;
two workloads, four operations.

`MCGpuCalls`: two products and a blank one, two nodes, two callers,
two calls and one fault: every pair of calls in every interleaving. The
properties are about every record so reached, and two sets reach records with
usage beyond capacity, usage without capacity, and products in one half only.
`MaxCapacity` is 3 so that both sides of it occur. Deadlock is not checked, as
the budget of calls ends. `MCGpuCluster`: one node, two workers, two workloads,
two faults (one in an operation, one in its roll-back or repair), capacities up
to two cards of a product, requests for one product, two, and none, reallocs
that grow and that exchange and clamp, edits that raise, lower and reset the
capacity. `MCGpuTwoNodes` keeps one request of each kind and lets the two
workers work side by side, which the single lock of `MCGpuCluster` prevents.
Callers, and nodes where their inputs are alike, are symmetric in the runs
without liveness. `MaxFaults`, `MaxCalls`, `MaxWorkloads`, `MaxDeploy` and
`MaxCount` are the bounds; no other variable can grow.

**Fairness** (`FairSpec`). A process that core started ends, by its own or by
`call_timeout` (weak fairness of `Plugin`, which includes being killed); core
goes on once it has an answer (weak fairness of `Proceed`); core replays
repair entries, and gets the lock for it if it is free again and again (strong
fairness of `BeginFix`, as other operations compete for it). Starting
operations is never fair. Faults are finite in number: a repair that is
killed every time never ends. `StorageCluster` takes the same: operations end
(weak fairness of `End`), repairs get the lock in the end (strong fairness of
`Fix`). `RepairEnds` there excludes nodes whose capacity was set, while the
usage was too low, to less than the workloads hold: their repair is refused by
`Validate` for ever.

## 4. The proofs

Everything in this section holds for every value of the constants that
satisfies the assumptions named in the modules:

- finitely many products (`ProductsAssumption`), any of them blank
  (`BlankAssumption`), finitely many paths and disks, which are numbers, and
  rates (`PathsAssumption`, `DisksAssumption`); a path has finitely many parts
  (`PartsAssumption`), destinations are numbers (`DestsAssumption`); nodes and
  workers are any sets;
- `NoEntry`, `Nil`, `Keyless`, `Absent`, `AUTO` and `NoDisk` are none of the
  values they stand beside (`NoEntryAssumption`, `NilAssumption`,
  `KeylessAssumption`, `AbsentAssumption`, `NilIsNoValueAssumption`,
  `NilIsNobodyAssumption`, `LeftOutAssumption`), as `nil` is none in Go;
- `MaxCapacity`, `EngineStorage` and the bounds `MaxFaults`, `MaxCalls`,
  `MaxWorkloads`, `MaxOps` are natural numbers; `MaxInt` is one above 0, and
  `MaxDeployCount` (`maxCapacity`) is one that is no more than it;
- `RoundedDown` and `RoundedUp` may be anything;
- inputs have their types and nothing else: any requests
  (`InputsAssumption`, `ClusterInputsAssumption`). Those of the storage plugin
  have no negative sizes (`CallInputsAssumption`), which its parser refuses;
  what core passes as resource may have;
- what users ask of the storage plugin names a volume once, and a deploy does
  not give anything back (`ClusterInputsAssumption`, `BooksInputsAssumption`);
  in `StorageBooks` it also has one volume at a destination. The code leaves
  this to its users: plans are merged by destination (`volume.go:306`), so that
  of two volumes at one the first would be moved to where the second is.

### The GPU plugin called by anybody

`GpuCalls_proofs` proves `Spec => []P` for each of the six properties of
`gpu_calls`. The inductive invariant is

    IInv == TypeOK /\ StoredValid /\ SnapshotsValid

`StoredValid` alone is not inductive without types, and `RestoreIsVerbatim`
needs `SnapshotsValid`: that what a call answered as `before` was itself a
stored, hence valid, half of a record. The step `IInv /\ [Next]_vars => IInv'`
goes handler by handler (`GpuPlugin_proofs`: one lemma for each handler's
types, `OnlyWritesWrite` for what steps do to etcd, `StoredStaysValid`). The
properties then follow from `IInv` state by state:

- `DeployCapacityIsExact` (`GpuPlugin_proofs`): the minimum of truncated
  quotients equals the largest number of deploys that fit. It rests on
  `QuotientCounts` for Go's division and `MinOfFinite`.
- `DiffsAreCompleteFor`: if the totals agree and the usage has the workloads'
  count for each of their products, there is no other product in it. It needs
  that `Count` grows strictly with a map (`CountIsMonotone`).
- `ReallocKeepsBooksFor`: maps without a zero entry are known by their counts
  (`TightMapsAreCounts`), and `Add` and `Sub` add and subtract those.
- `SnapshotIsRestored`: adding a valid map to nothing gives that map.

Facts about recursive functions (`Count`, `Totals`) are obtained without an
induction over an operator, by taking the least counterexample
(`LeastNatural`, from the well-foundedness of the naturals).

### The GPU plugin under core's lock

`GpuCluster_proofs` proves the properties of `gpu_cluster` that are about one
operation. Neither of them is inductive: what a write depends on was read two
steps earlier, and what a roll-back restores was read before other calls of
the same operation. The inductive invariant says what an operation has done
so far to the record of its node:

    IInv == /\ ClusterTypeOK /\ StoredValid /\ LocksAreHeld /\ WorkloadsAreSound
            /\ \A c \in Callers : task[c] # Nil => OperationOK(c)

- `LocksAreHeld`: the lock of a node is held by the one worker whose operation
  is on it, and a worker has a call exactly while it has an operation.
- `WorkloadsAreSound`: workloads and repair entries are on nodes core knows, and
  workloads hold valid maps. Without it a repair could store what `Validate`
  refuses.
- `OperationOK(c)` has four parts. `Asks`: the running call is the one that goes
  with the operation at its step, with the arguments it takes from what the
  operation found (the planned cards fit, an undo replays `before`). `Stands`:
  the node and the workload it is about are still there. `Fresh`: what is to be
  written was computed from what is stored. `Progress`: until the verb answers the
  record is the one found under the lock; then it is what the verb makes of
  that, if it answered well, or one of the two; while it is undone it differs from
  what was found only in the half its write may have changed (`Touched`), and in
  usage only within the capacity (`GrownWithin`).

Both instances of `GpuCluster` satisfy `IInv` in every reachable state; that was
checked with TLC before the proof. That others do not disturb an operation is
`OperationsAreApart` (two operations are on different nodes) with
`OperationIsKept` (its invariant speaks of its own node and workloads only). The
step goes by kinds of actions: `PluginKeepsIInv`, `BeginKeepsIInv`,
`GoOnKeepsIInv`, `EndKeepsIInv`, and below them one lemma for each action of core.
`UndoRestores` is what a roll-back rests on, and uses `SnapshotIsRestored` of
`GpuPlugin_proofs`. `DeployCounts`, `ReallocCounts` and `DiscardCounts` say what a
booking does to the counts of a record. From `IInv`:

- `WriteIsFresh` and `RollbackIsExact` follow state by state;
- `NoResurrection`: only Put and `RemoveNode` write, they write the node of the
  operation that holds the lock (`WritesAreTheHolders`), and `Asks` says that a
  removal is asked for by a removal, or by the roll-back of an addition;
- `NeverOverbooked`: only `BooksDeploy` and `BooksRealloc` add usage, and what
  they add fitted what was found, which is what is stored still
  (`OnlyBookingsGrow`).

`GpuCluster_proofs` also proves that every behaviour is one of `NodeLedger`, step by
step under `IInv` and `IInv'`: the ledger of a node moves when an operation ends
(`EndShows`), as `Declare` (add and edit), `Book` (deploy, realloc, discard),
`Doubt` (a failed undo), `Recount` (repair) or `Remove`, or not at all
(`EndIsHidden`); beginnings, calls that go on and everything the plugin does are
hidden (`BeginIsHidden`, `GoOnIsHidden`, `PluginIsHidden`). What is hard is
`BookingIsBooked`: that the usage changes by what the workloads listed in the
request hold (`HeldFollows`: the sum of a sequence of maps in which some entries
change), and that what grows fits.

`NodeLedger_proofs` proves `Spec => []Balanced` of the abstract specification,
for any nodes and kinds of amounts: the usage of a node without doubt is what
its workloads hold. With the types it is inductive; only a booking
(`BookBalances`) needs arithmetic. `UsageIsHeld` of `GpuCluster` is that theorem
read through the refinement mapping: counts that agree are maps that agree, as
stored maps have no zero entries (`TightMapsAreCounts`).

### The storage plugin called by anybody

`StorageCalls_proofs` proves the four properties of `storage_calls`.

- `StoredValid`, which includes the types of records, is inductive. The work is
  that each verb maps a record to a record (`AddStores`, `SetCapacityStores`,
  `SetUsageStores`, `SetInfoStores`, `FixStores`), through the arithmetic of
  capacities and usages; Put then refuses or normalizes (`PutStores`).
- `SnapshotsRestore`: a snapshot is a valid record by `StoredValid`, and added to
  nothing it is itself (`AddedToNothing`, `TakenFromNothing`), whatever is stored.
- `RetryIsHarmless`: in an absolute set the keys that are left out stand for what
  is stored, which after the first call is what they stood for then
  (`SkipEmptyOnce`); disks to be removed are gone already (`DisksGoOnce`).
- `DeltaIsUndone`: what `Add` did `Sub` undoes, size by size and quota by quota
  (`UpAndDown`), although `RemoveEmpty` has taken empty volumes out in between;
  and the usage still fits what is left, as it did before (`DeltaLeavesRoom`), so
  that the request is not refused.

### The scheduler

The planners are loops over a host that they change. In the modules a loop is a
fold or an iteration of the community modules, which is a recursive function
chosen by `CHOOSE`. `StorageRecord_proofs` opens them without an induction over
an operator: `StepsExist` and `FoldExists` give the sequence of states a
loop runs through, as a function, and a least counterexample shows what all of
them have in common (`Climbs`). Each loop has a lemma of its own (`NormalPlanRuns`,
`MonoPlansRun`, `PromotionsRun` ...), and one that its states stay in a set
(`NormalPassStays`, `OpenedStays` ...). Rankings (`RanksExist`) are lists of
the set they rank. Sums over a set have their laws (`SumSplits`, `SumGrows`,
`SumJoins`, `SumAdds`), of which `GroupHasSize` and all of the bookkeeping below
are made.

`PlansAreOnTheNode`: the plans for any record and any request, a
mount-only one, one with monopoly groups or without, are lists of plans on the
node's volumes and disks. `ReplansAreOnTheNode` says it of a realloc, which gives
back, keeps some of the places, grows a group in place or plans it anew.

### One node and its workloads

`StorageBooks_proofs` is about what the scheduler's results are worth.

- `PlansAreCounted` (in `StorageRecord_proofs`): the counter is a second
  program, which repeats the planner's loops without the plans. Both are run
  side by side: their states agree after every pass, every volume of a group and
  every opening (`PassesAreCounted`, `VolumesKeepAgreeing`,
  `OpeningsKeepAgreeing`). For mounts alone the planner has a closed form, and
  what it repeats is what is counted (`RepeatedOften`).
- `RecordsStaySound`: `IInv == Sound(info) /\ WorksOk(workload)`, the record is
  one `Put` accepts, its usage is on disks it has, and each workload has a
  plan on devices, and what it holds is a usage. It is inductive, by
  `PlansAreOnTheNode`, `ReplansAreOnTheNode` and `BookingStores`.
- `CountsArePlans` reads the first in every state of the second.
- `DeploysFit` (`PlansFit`): what `calculate-deploy` answers, all its workloads
  together, is as many as were asked for and is booked without a refusal. The
  argument is one invariant of every loop of the planner: it *pays*. What
  leaves the host, of each volume and each rate of each disk, is no less than
  what the plans made so far take, and the host stays solvent, that is, nothing
  there becomes negative (`PlaceNormalIsPaid`, `PassIsPaid`, `NormalPassIsPaid`).
  A pass that fails has charged the host but lists no plan, which is why it is
  not an equation (`LostPays`). For the closed form over mounts n passes cost n
  times one (`RepeatPays`, `SumScales`), and `ChargedPassesArePaid` shows that a
  rate is never divided too often. A monopoly group takes what its device has,
  and the shares add up to it (`SharesAddUp`, `GroupIsPaid`). Normal and monopoly
  plans are paid from the host one after the other, unlimited ones take nothing
  of volumes or disks, and as their bindings have different destinations the
  joined plans take what the plans take (`ApartAddUp`, `JoinedAreAfforded`).
  Then `NewHostIsSolvent`: the host of a sound record is what `Put`'s
  validation says is left of each volume and disk; `BookedAddsUp`: a booking
  adds up what the workloads hold; and `TruncatedFits`: storage goes into what
  there is as often as the division says. So nothing the validation looks at is
  overdrawn (`AffordedIsBooked`).
- `MonopoliesTakeAll` (`MonopolyTakesAll`): whatever `calculate-deploy` answers,
  the monopoly bindings of a workload have all of the device they are on, and no
  other binding of any workload of the answer has any of it. The open host of a
  planner has its volumes on two sides, those somebody uses and those nobody
  does, and each loop keeps the sides (`OpenKeepsSides`): normal bindings and
  mounts, which go to the used side only, leave the other as it was
  (`NormalPlansSpare`), and a group takes a volume of it whole, which is its
  whole capacity as nobody uses it (`MonoPlansFill`, `SharesAddUp`). The joined
  plans keep the shares (`ClassesPlansShare`). That nobody else has anything
  there is not seen from the planner: it follows from `DeploysFit`, since all
  plans together are paid by the host, and the group took all there was
  (`GroupsAreAlone`).
- `TypesHold` (`BooksTypeOK`): nothing of a workload is ever less than nothing,
  whatever reallocs take back, and every workload is planned on volumes of its
  node. `IInv` does not say it, so it is strengthened to `TInv`: plans are on the
  node's volumes with sizes in `Nat`, and volumes the node does not have are not
  used (`Confined`). `Put` looks at the volumes of the capacity only, so that
  is not in its validation: it follows from what is booked. The argument for the
  sizes goes through every loop of the planner once more, also that of a realloc
  (`PassIsSized`, `ClassesPlansAreSized`, `KeptAllIsSized`, `ReplansAreSized`); what
  is asked again starts from `MergeVolumeBindings`, which drops what was shrunk
  below nothing.

- `PromisesAreKept` (`PromiseKept`): the capacity query counts for as many
  workloads as there can be, a deploy plans for a few, and the bounds decide when
  a pass, a group or an opening is given up. Both are counts by `PlansAreCounted`,
  so two runs of the counter are compared. A loop that stops at a bound finds no
  more than with a larger bound, and as many if it has not come to its bound
  (`CutAt`; `CountPassesCut`, `MountCountIsCut`). The passes may leave different
  charges on the disks, but only where the group takes no rates or they take
  none (`NormalBoundsGrow`), and then the hosts are `HostsAlike` for the group, which
  finds the same volumes (`MonoCountIsCut`). So the two runs open the same volumes
  until there are enough for the few, and then the smaller opens no more
  (`OpeningsStayCut`). The converse is the finding `storage_short`.
- `VolumesArePlaced` (`AllPlaced`), `DevicesAreKept` (`KeepsDevice`) and
  `DisksAreMatched` (`DisksMatchPlan`): what a workload is given is what it asked
  for, for as long as it lives. Each planner's answer *meets* its bindings
  (`Meets`): those to be placed are, with their sizes (`Due`); those of one monopoly group
  are on one device and have their sizes together (`Together`); and each rate of each disk is charged what the bindings on
  it add up to. A mount or a normal binding does (`MountMeets`, `OneMeets`), a
  pass does (`PassMeets`), a group does, as its rates are the sum of its bindings' and its
  shares suffice, singly but for a byte and together entirely (`GroupTakesRates`,
  `GroupMeets`, `PortionIsEnough`, `SharesAddUp`); two answers
  for different destinations meet the two sets of bindings together
  (`PlansJoin`, `MergedMeet`), and so `ClassesPlansMeet` and `VolumePlansMeet`. A
  realloc goes binding by binding: one like an old one is put where that is
  (`KeepPlaceMeets`, `KeepGroupMeets`, `KeepAllMeets`), the rest is planned as if
  new, at other destinations (`RestMeets`), which gives `AffinityPlanMeets`: the
  answer meets what is merged, and what was placed before stays (`Stays`). From
  there `PInv` and `MInv` are inductive; they add to `TInv` that every workload
  has been given what it asks for, and that its disks match.

  These are not true of all constants, and the theorems say of which they are.
  `KindsAgree`: a destination is asked for with one flag, by all requests; what
  happens otherwise is `MCStorageRetyped.cfg`. `MountsOnlyGrow`, for the disks only:
  a realloc that is not planned (`NeedSchedule`) takes nothing from a mount, else
  the disks stay charged, which is `storage_shrunk`. The requests of
  `storage_books` are such (`RequestsAgree`, which TLC evaluates).
- `BooksBalance` (`UsageIsHeld` of that module): the usage is what the workloads
  hold, of the storage, of each volume and of each rate of each disk. Usages
  are compared measure by measure (`Amount`): what `Put` stores is what it was
  given, whatever entries of disks it drops (`BookedIsStored`), a booking adds what
  is taken to each measure (`AmountsTotal`), and what all workloads hold of it
  changes by the same (`OneMoves`, `EnrolledMove`). `BInv` is `TInv` and that
  balance. The hypothesis `Nil \notin Workloads` says that what stands for no
  workload is not one, which of a constant has to be said.
- `DiscardsAreAccepted` (`DiscardsFit`): what a workload holds can always be given
  back. None holds less than nothing of a measure (`HeldIsNat`, by the sizes of
  `TInv` and by what the disks match in `MInv`), so each holds no more than all
  do, which is what is used (`HeldIsReturnable`), and a record with that much less
  usage still passes `Put` (`GivenBackIsAccepted`). With the hypotheses of
  `DisksAreMatched`.
- `ClosedFormIsTheLoop` (`MountPassesAreTheLoop`): the planner computes the passes
  over mounts alone without a loop. A pass that succeeds takes of each disk what
  the mounts on it ask for together, and puts that down (`MountPassIsExact`,
  `PassCharges`); on any other host with the same mount points and so much left it
  succeeds as well, with the same disk plan (`PassesAlike`). So after `k` passes of
  the loop the host is the first one less `k` times that (`OneMorePasses`), which is
  the host of the closed form (`ClosedForm`, `KinWithTheSame`). Where the closed
  form ends before the bound, some rate is what is left of a division
  (`MountPassesAreReached`, `TimesLeave`), and one more pass fails in the loop too
  (`OnePassTooMany`), leaving its charges in both.

### The storage plugin under core's lock

`StorageCluster_proofs` proves the types, `RollbackIsExact`, the books and the ledger, for all nodes,
requests, edits and faults. The invariant is

    IInv == StoredOk /\ CountersOk /\ WorksOk(workload) /\ TaskOk /\ Undoable

`Undoable` is what makes it inductive: while a set that succeeded may still be
rolled back, the half of the record it leaves alone is the one it found. For a
booking that is the capacity; for an edit it is the usage, up to disks without
one, which `Put` adds and removes (`KeptUsage`). `SnapshotsAreReplayed` then says
that the replayed half is not refused, and the record is the one found
(`UsageIsRestored`, `CapacityIsRestored`).

The books under core are those of `SpaceIsBooked` and `UsageIsBooked`: between
operations the usage is what the workloads hold, unless a repair entry is left.
`SInv(K)` says so of the measures in `K` (`Balanced`), and of an operation in progress
what it needs to end well (`Proceeds`): what it found was in order; if its call
succeeded, the record is in order for the workloads there will be; if its
roll-back did, for those there are; a removal found no workloads; and an added
node was one without usage. Each verb `Promises` that for its operation, whatever
is lost on the way (`CallBalances`, `UndoBalances`, `EndBalances`). An edit drops the
usage of disks it takes away, which was none (`EditBalances`, `KeptIsAlike`).

Only a repair tells storage from disks. If it finds differences, it stores the
sum; if not, the storage and the volumes are the same as those of the sum, and
the disks as far as the stored usage lists them (`CleanIsRight`). So
`SpaceIsBooked`, about storage and volumes, needs no more than `NoneIsApart`, that
what stands for nothing is no workload, no operation and no record.
`UsageIsBooked`, about the disks too, assumes that no repair passes over disks in
use that the record has no usage of (`NoneUnseen`): `storage_unseen` shows that the
code may, and the theorem that nothing else makes the books wrong.

`ClusterImplementsLedger` is the refinement: the storage, the size of each volume and
the rates of each disk are the ledger's amounts, `Settled`, the record the
operation in progress found, its record, and `repair` its doubt. Only the end of an
operation changes any of these (`HiddenSteps`), so the step of the ledger has to be
found there, from what the operation says of itself. `RInv` adds that to
`SInv(Measures)`: no workload takes less than nothing of a volume, of a disk or of
the storage (`WorksFit`), and what the operation in progress has written leads to where the
ledger goes (`Leads`): a booking keeps the capacity and, where it takes more of
anything, takes no more than there is (`GrownWithin`); an edit keeps the usage;
what a roll-back wrote is what was found; a repair wrote the sum, or changed
nothing. `Commit` then is the ledger's declaration, booking, recount or removal
(`CommitImplements`), and `Abandon` a stutter, or the doubt of a booking of which
nobody knows whether it was written (`AbandonImplements`). Its hypotheses are those
of `UsageIsBooked`, as the ledger's recount sets every amount right, and
`DeploysAskForSpace`: a deploy of less than nothing of a volume is modelled
nowhere, and TLC evaluates the condition on the constants of the runs. `NoneUnseen`
holds in every state of `storage_cluster`, where workloads take space together
with rates.

`ReturnsAreAccepted` (`ReturnsFit`) follows from the same invariant: between operations
the usage is what all workloads hold, each holds no less than nothing
(`HeldAmountsAreNat`), so each holds no more than is used (`HeldIsReturnable`), and a
record with that much less usage passes `Put`. Here requests need not agree on
anything: what a workload is charged on a disk may not be what its bindings ask
for, but it is never less than nothing. This is `Rated`, which holds of every
plan the scheduler makes: each binding that is placed is charged its own rates or
the group's (`PlaceNormalIsRated`, `ChargeMountIsRated`, `MonoPlansAreRated`), a
realloc keeps and adds such charges (`KeptAllIsRated`, `ReplansAreRated`), and what
`Validate` lets pass asks for none below zero (`ListsAreRated`).

### Only model-checked

- `RepairEnds` and `LocksAreReleased`, as liveness is out of the prover's reach.
- `GpuLate`, which is there for its counterexample.
- `ReallocsFit` and `NothingAskedNothingMoved` of `StorageBooks`, which are not
  true of all constants either. `ReallocsFit` fails where a realloc asks for a
  monopoly binding at the destination of a binding that shares its device: the
  merged plan has both on one device, but was charged to two. A proof would
  take the loops of a realloc through what is paid once more, as `DeploysFit`
  does those of a deploy.
- `CapacityIsRoom` of `StorageBooks`: that no order of devices finds more room, which
  compares the planner with all other ways to plan rather than with its counter.
- The invariants of `StorageLimits`. Whether limits cover what is promised on disks
  and whether a container runs on its plan rests on what `DisksAreMatched` and
  `DevicesAreKept` are made of, under the same conditions on requests, followed
  through a second list of bindings; that is not done.

## 5. Not modelled

- `get-most-idle-node` (ratio of two counts by a core function whose value for
  an empty node is not in this repository), metrics, configuration, the `name`
  and `verbs` commands, JSON.
- A record or a workload resource without its `prod_count_map`: core passes
  back what the plugin gave it, which always has one.
- Of the storage plugin: how bindings, sizes and disks are written as strings
  and JSON; the usage and rate figures in the answers of
  `get-nodes-deploy-capacity` and `get-node-resource-info`, which no decision
  here depends on; overlapping calls (see `GpuCalls`, `GpuCluster`);
  `get-most-idle-node` and `calculate-remap`, which answer constants; negative
  sizes in a deploy, volumes whose source is a device that is not the node's,
  and two disks of one name in a request.

## 6. Plan

What is left is proof.

1. `StorageLimits`: types, and that the limits cover the requests.
2. *Reference for plans*: `CapacityIsRoom` is one for single bindings and
   monopoly groups. What an admissible plan is for any request, and by how much
   the planner may miss the most there could be, is open.
