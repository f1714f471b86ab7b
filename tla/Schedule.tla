------------------------------ MODULE Schedule ------------------------------
(***************************************************************************)
(* Where the storage plugin puts volumes (storage/schedule/schedule.go).   *)
(* The functions of the code work on a host in place; here each returns    *)
(* the host it leaves, also where it fails half-way and leaves it partly   *)
(* charged.                                                                *)
(***************************************************************************)
EXTENDS StorageTypes

CONSTANTS
    MaxInt,         \* math.MaxInt: more than any number of plans, any size
    RoundedDown,    \* <<size, total, free>> of which the product of floats that
    RoundedUp       \* makes a share is too small, and those of which it is too big

ASSUME MaxIntAssumption == MaxInt \in Nat \ {0}

Smaller(a, b) == IF a <= b THEN a ELSE b
Larger(a, b) == IF a >= b THEN a ELSE b

\* Division towards zero, as in Go
Truncated(a, b) == IF a >= 0 THEN a \div b ELSE -((-a) \div b)

\* The members of a finite set in their order
Ranked(S, Before(_, _)) ==
    [i \in 1..Cardinality(S) |->
        CHOOSE x \in S : Cardinality({y \in S : Before(y, x)}) = i - 1]

\* n times Step, beginning with x
Iterate(Step(_), n, x) ==
    LET after[i \in 0..n] == IF i = 0 THEN x ELSE Step(after[i - 1])
    IN  after[n]

-----------------------------------------------------------------------------
(***************************************************************************)
(* A host: the free size of each volume, the devices in use and those that *)
(* are not, and what is left of the disks.  The unused ones are in the     *)
(* order of their sizes when the host was made.                            *)
(***************************************************************************)
CompareVolume(free, device, device1) ==
    free[device] < free[device1] \/ (free[device] = free[device1] /\ device < device1)

NewHost(info) ==
    LET volumes == info.capacity.volumes
        free  == [device \in DOMAIN volumes |-> volumes[device] - info.usage.volumes[device]]
        inUse == {device \in DOMAIN volumes : info.usage.volumes[device] # 0}
        Before(device, device1) == CompareVolume(free, device, device1)
        disks == info.capacity.disks
    IN  [free   |-> free,
         used   |-> Ranked(inUse, Before),
         unused |-> Ranked(DOMAIN volumes \ inUse, Before),
         disks  |-> [name \in DOMAIN disks |->
                       [disks[name] EXCEPT !.io = SubIO(@, UsedOf(info.usage.disks, name))]]]

\* Faulty variant: where no disk is there is no limit
QualifiedAnyway(disks, name, vb) ==
    name \in DOMAIN disks => Covers(disks[name].io, vb.io)

IsDiskIOPSQuotaQualified(disks, name, vb) ==
    IF name = NoDisk THEN ~RequireIOPS(vb) ELSE Covers(disks[name].io, vb.io)

Qualified(h, path, vb) ==
    IsDiskIOPSQuotaQualified(h.disks, GetDiskByPath(h.disks, path), vb)

\* The rates of vb on the disk of path, as a disk plan
DiskQuota(h, path, vb) ==
    [name \in IF RequireIOPS(vb) THEN {GetDiskByPath(h.disks, path)} ELSE {} |-> vb.io]

DecreaseIOPSQuota(h, path, vb) ==
    IF RequireIOPS(vb)
    THEN [h EXCEPT !.disks[GetDiskByPath(h.disks, path)].io = SubIO(@, vb.io)] ELSE h

(***************************************************************************)
(* The four kinds of bindings, in the order they are planned in.           *)
(***************************************************************************)
CompareBinding(vb, vb1) ==
    vb.size < vb1.size \/ (vb.size = vb1.size /\ vb.dest < vb1.dest)

\* By source, destination and flags, of which "m" comes first
CompareMount(vb, vb1) ==
    \/ vb.source < vb1.source
    \/ /\ vb.source = vb1.source
       /\ vb.dest < vb1.dest \/ (vb.dest = vb1.dest /\ vb.mono /\ ~vb1.mono)

IsUnlimited(vb) == RequireScheduleUnlimitedQuota(vb) /\ ~RequireScheduleMonopoly(vb)

IsNormal(vb) == /\ RequireSchedule(vb)
                /\ ~RequireScheduleMonopoly(vb)
                /\ ~RequireScheduleUnlimitedQuota(vb)

ClassifyVolumeBindings(vbs) ==
    [mono |-> Ranked({vb \in vbs : RequireScheduleMonopoly(vb)}, CompareBinding),
     unlimited |-> {vb \in vbs : IsUnlimited(vb)},
     normal |-> Ranked({vb \in vbs : IsNormal(vb)}, CompareBinding),
     mount |-> Ranked({vb \in vbs : ~RequireSchedule(vb)}, CompareMount)]

AnyRequireIOPS(reqs) == \E i \in DOMAIN reqs : RequireIOPS(reqs[i])

-----------------------------------------------------------------------------
(***************************************************************************)
(* Normal and mount bindings: one pass plans them all, or fails.           *)
(***************************************************************************)
Attempt(h) == [ok |-> TRUE, host |-> h, plan |-> EmptyPlan, disks |-> NoDisks]

\* The used volumes with space and quota enough, and the least of them
Fitting(h, req) ==
    {device \in ToSet(h.used) : h.free[device] >= req.size /\ Qualified(h, device, req)}

Least(free, devices) ==
    CHOOSE device \in devices :
        \A device1 \in devices \ {device} : CompareVolume(free, device, device1)

TakeSpace(h, device, size) == [h EXCEPT !.free[device] = @ - size]

\* A plan in which vb is on the device
Placing(plan, vb, device, size) ==
    [vb1 \in DOMAIN plan \cup {vb} |->
        IF vb1 = vb THEN [device |-> device, size |-> size] ELSE plan[vb1]]

PlaceOn(a, device, req) ==
    [a EXCEPT !.host = DecreaseIOPSQuota(TakeSpace(@, device, req.size), device, req),
              !.plan = Placing(@, req, device, req.size),
              !.disks = AddDisks(@, DiskQuota(a.host, device, req))]

PlaceNormal(a, req) ==
    LET Place(fitting) ==
            IF fitting = {} THEN [a EXCEPT !.ok = FALSE]
            ELSE PlaceOn(a, Least(a.host.free, fitting), req)
    IN  IF a.ok THEN Place(Fitting(a.host, req)) ELSE a

\* A mount stays where it is and is charged to the disk of its source
ChargeMount(a, req) ==
    IF ~RequireIOPS(req) THEN a
    ELSE IF ~a.ok \/ ~Qualified(a.host, req.source, req) THEN [a EXCEPT !.ok = FALSE]
    ELSE [a EXCEPT !.host = DecreaseIOPSQuota(@, req.source, req),
                   !.disks = AddDisks(@, DiskQuota(a.host, req.source, req))]

GetNormalPlan(h, normal) == FoldLeft(PlaceNormal, Attempt(h), normal)

GetMountDiskPlan(a, mount) == FoldLeft(ChargeMount, a, mount)

\* The plan of no binding at all
NoPlan == [plan |-> EmptyPlan, disks |-> NoDisks]

Repeat(n, plan) == [i \in 1..n |-> plan]

\* Pass after pass until one fails; the failed one leaves its charges
NormalPass(s, normal, mount) ==
    LET Add(a) == [failed |-> ~a.ok, host |-> a.host,
                   plans |-> IF ~a.ok THEN s.plans
                             ELSE Append(s.plans, [plan |-> a.plan, disks |-> a.disks])]
    IN  IF s.failed THEN s ELSE Add(GetMountDiskPlan(GetNormalPlan(s.host, normal), mount))

GetNormalPasses(h, normal, mount, bound) ==
    LET Pass(s) == NormalPass(s, normal, mount)
    IN  Iterate(Pass, bound, [failed |-> FALSE, host |-> h, plans |-> <<>>])

(***************************************************************************)
(* Only mounts: the passes in closed form.                                 *)
(***************************************************************************)
QuotaHeadroom(io, sum) ==
    Min({MaxInt} \cup {Truncated(io[rate], sum[rate]) : rate \in {r \in Rates : sum[r] > 0}})

\* What one pass takes of a disk
AddQuotaOn(h, name, io, req) ==
    IF RequireIOPS(req) /\ GetDiskByPath(h.disks, req.source) = name
    THEN AddIO(io, req.io) ELSE io

QuotaOn(h, mount, name) ==
    LET Add(io, req) == AddQuotaOn(h, name, io, req)
    IN  FoldLeft(Add, NoIO, mount)

\* As many passes as the first one and the headroom it leaves allow
MountPasses(first, mount, bound) ==
    Min({bound} \cup {1 + QuotaHeadroom(first.host.disks[name].io,
                                       QuotaOn(first.host, mount, name)) :
                        name \in DOMAIN first.disks})

\* The host of the first pass charged for the others
ChargePasses(h, mount, names, n) ==
    LET Left(name) == [rate \in Rates |->
                         h.disks[name].io[rate] - n * QuotaOn(h, mount, name)[rate]]
        Charged(name) == IF name \notin names THEN h.disks[name]
                         ELSE [h.disks[name] EXCEPT !.io = Left(name)]
    IN  [h EXCEPT !.disks = [name \in DOMAIN h.disks |-> Charged(name)]]

\* Faulty variant: forgets the pass that fails
NoTrailingPass(h, mount, capacity, bound) == h

\* The pass that fails in the loop, too, leaves its charges
TrailingPass(h, mount, capacity, bound) ==
    IF capacity < bound THEN GetMountDiskPlan(Attempt(h), mount).host ELSE h

ApplyMountPasses(h, mount, bound) ==
    LET All(first, capacity) ==
            [host |-> TrailingPass(ChargePasses(first.host, mount, DOMAIN first.disks,
                                                capacity - 1),
                                   mount, capacity, bound),
             capacity |-> capacity, disks |-> first.disks]
        Apply(first) ==
            IF ~first.ok \/ bound < 1
            THEN [host |-> first.host, capacity |-> 0, disks |-> NoDisks]
            ELSE All(first, MountPasses(first, mount, bound))
    IN  Apply(GetMountDiskPlan(Attempt(h), mount))

GetMountOnlyPlans(h, mount, bound) ==
    LET Plans(passes) ==
            [host |-> passes.host,
             plans |-> Repeat(passes.capacity, [plan |-> EmptyPlan, disks |-> passes.disks])]
    IN  Plans(ApplyMountPasses(h, mount, bound))

GetNormalPlans(h, count, normal, mount, bound) ==
    IF normal # <<>> THEN GetNormalPasses(h, normal, mount, bound)
    ELSE IF AnyRequireIOPS(mount) THEN GetMountOnlyPlans(h, mount, bound)
    ELSE [host |-> h, plans |-> Repeat(count, NoPlan)]

-----------------------------------------------------------------------------
(***************************************************************************)
(* Monopoly bindings share one volume, in proportion to their sizes; what  *)
(* the division leaves goes to the first of them.                          *)
(***************************************************************************)
Group(reqs) == FoldLeft(AddQuota, [reqs[1] EXCEPT !.size = 0, !.io = NoIO], reqs)

\* int64(float64(size) / float64(total) * float64(free)).  The two roundings of
\* the floats are off by less than one part in 2^51: of a volume below 2^50
\* bytes by less than if it were half a byte bigger or smaller.  Of which
\* products they are is left open.
Portion(size, total, free) ==
    LET Off == IF <<size, total, free>> \in RoundedDown THEN -1
               ELSE IF <<size, total, free>> \in RoundedUp THEN 1 ELSE 0
    IN  (size * (2 * free + Off)) \div (2 * total)

\* Faulty variant: the rest of the division is nobody's
MonoPlanWithoutRest(reqs, total, device, free) ==
    [vb \in ToSet(reqs) |-> [device |-> device, size |-> Portion(vb.size, total, free)]]

MonoPlan(reqs, total, device, free) ==
    LET portion == [vb \in ToSet(reqs) |-> Portion(vb.size, total, free)]
        rest    == free - SumFunction(portion)
    IN  [vb \in ToSet(reqs) |->
            [device |-> device,
             size   |-> portion[vb] + (IF vb = reqs[1] THEN rest ELSE 0)]]

\* The host and the plan once the group has the volume, if it is big enough
GetMonoPlan(h, reqs, device) ==
    LET Plan(total) ==
            [ok |-> h.free[device] >= total.size /\ Qualified(h, device, total),
             host |-> DecreaseIOPSQuota([h EXCEPT !.free[device] = 0], device, total),
             plan |-> MonoPlan(reqs, total.size, device, h.free[device]),
             disks |-> DiskQuota(h, device, total)]
    IN  Plan(Group(reqs))

\* The unused volumes in their order, as long as plans are wanted
TryVolume(s, mono, bound, device) ==
    LET Add(m) ==
            IF m.ok THEN [host |-> m.host,
                          plans |-> Append(s.plans, [plan |-> m.plan, disks |-> m.disks])]
            ELSE s
    IN  IF Len(s.plans) >= bound THEN s ELSE Add(GetMonoPlan(s.host, mono, device))

GetMonoPlans(h, count, mono, bound) ==
    LET Try(s, device) == TryVolume(s, mono, bound, device)
    IN  IF mono = <<>> THEN [host |-> h, plans |-> Repeat(count, NoPlan)]
        ELSE FoldLeft(Try, [host |-> h, plans |-> <<>>], h.unused)

(***************************************************************************)
(* Unlimited bindings share the volume with the most space left by all the *)
(* plans there are, the ones beyond the capacity included.                 *)
(***************************************************************************)
LeftAfter(left, p) ==
    [device \in DOMAIN left |-> left[device] - PlannedVolumes(p.plan)[device]]

LeftBy(free, plans) == FoldLeft(LeftAfter, free, plans)

\* Of equals the first
Largest(left, devices) ==
    LET Most(i) == \A j \in DOMAIN devices :
                      \/ left[devices[i]] > left[devices[j]]
                      \/ left[devices[i]] = left[devices[j]] /\ i <= j
    IN  devices[CHOOSE i \in DOMAIN devices : Most(i)]

GetUnlimitedPlan(h, plans, unlimited) ==
    LET On(device) == [vb \in unlimited |-> [device |-> device, size |-> vb.size]]
    IN  IF unlimited = {} THEN EmptyPlan
        ELSE On(Largest(LeftBy(h.free, plans), h.used \o h.unused))

-----------------------------------------------------------------------------
(***************************************************************************)
(* Unused volumes are opened for normal bindings, one after the other.     *)
(***************************************************************************)
NormalBound(h, count, classes) ==
    IF classes.mono = <<>> THEN count
    ELSE IF ~AnyRequireIOPS(classes.mono)
            \/ ~(AnyRequireIOPS(classes.normal) \/ AnyRequireIOPS(classes.mount))
    THEN Larger(count, Len(h.unused) + 1)
    ELSE MaxInt

\* slices.BinarySearchFunc: the first volume of that size, if they are in order
BinarySearch(h, size) ==
    LET search[i \in 1..Len(h.unused) + 1, j \in 1..Len(h.unused) + 1] ==
            LET middle == (i + j) \div 2
            IN  IF i >= j THEN i
                ELSE IF h.free[h.unused[middle]] < size THEN search[middle + 1, j]
                ELSE search[i, middle]
    IN  search[1, Len(h.unused) + 1]

\* Faulty variant: a volume the binding fills up is passed over
CandidateBeyond(h, normal) ==
    BinarySearch(h, IF normal = <<>> THEN MaxInt ELSE normal[1].size + 1)

\* The first volume the smallest normal binding fits on, if there is one
Candidate(h, normal) ==
    BinarySearch(h, IF normal = <<>> THEN MaxInt ELSE normal[1].size)

Open(h, p) == [h EXCEPT !.unused = RemoveAt(@, p), !.used = Append(@, h.unused[p])]

\* Opening one more may raise the number of plans
WorthOpening(best, count) == best.mono > best.normal /\ best.normal < count

(***************************************************************************)
(* Evaluate(h) plans or counts on a copy of the host; each time there are  *)
(* more monopoly plans than normal ones a volume changes sides.            *)
(***************************************************************************)
PromoteOne(s, count, normal, Evaluate(_)) ==
    LET Opened(host) == [host |-> host, best |-> Evaluate(host)]
        Turn(p) == IF WorthOpening(s.best, count) /\ p \in DOMAIN s.host.unused
                   THEN Opened(Open(s.host, p)) ELSE s
    IN  Turn(Candidate(s.host, normal))

Promote(h, count, normal, Evaluate(_)) ==
    LET Step(s) == PromoteOne(s, count, normal, Evaluate)
    IN  Iterate(Step, Len(h.unused), [host |-> h, best |-> Evaluate(h)])

NoVolumes(h, classes) ==
    /\ h.used = <<>> /\ h.unused = <<>>
    /\ classes.normal # <<>> \/ classes.mono # <<>> \/ classes.unlimited # {}

\* Plans of all four kinds, side by side
JoinPlans(n, normal, mono, unlimited) ==
    [i \in 1..n |->
        [plan |-> MergePlans(MergePlans(normal[i].plan, mono[i].plan), unlimited),
         disks |-> AddDisks(normal[i].disks, mono[i].disks)]]

BestPlans(last, count, unlimited) ==
    JoinPlans(Min({last.best.normal, last.best.mono, count}),
              last.best.normals, last.best.monos,
              GetUnlimitedPlan(last.host, last.best.normals \o last.best.monos, unlimited))

\* h is the host as it was made, host the one with volumes opened
EvaluatePlans(h, classes, count, host) ==
    LET MonoBound(normals) ==
            IF classes.unlimited = {} THEN Larger(count, Len(normals) + 1) ELSE MaxInt
        Both(normals, monos) ==
            [normal |-> Len(normals), mono |-> Len(monos),
             normals |-> normals, monos |-> monos]
        Mono(normal) ==
            Both(normal.plans,
                 GetMonoPlans(normal.host, count, classes.mono, MonoBound(normal.plans)).plans)
    IN  Mono(GetNormalPlans(host, count, classes.normal, classes.mount,
                            NormalBound(h, count, classes)))

PlansOfClasses(h, classes, count) ==
    LET Evaluate(host) == EvaluatePlans(h, classes, count, host)
    IN  IF NoVolumes(h, classes) THEN <<>>
        ELSE BestPlans(Promote(h, count, classes.normal, Evaluate), count, classes.unlimited)

VolumePlansOn(h, vbs, count) ==
    IF NeedSchedule(vbs) THEN PlansOfClasses(h, ClassifyVolumeBindings(vbs), count)
    ELSE Repeat(count, NoPlan)

GetVolumePlans(info, vbs, count) == VolumePlansOn(NewHost(info), vbs, count)

-----------------------------------------------------------------------------
(***************************************************************************)
(* The same, counting only.                                                *)
(***************************************************************************)
CountPass(s, normal, mount) ==
    LET Add(a) == [failed |-> ~a.ok, host |-> a.host,
                   capacity |-> IF a.ok THEN s.capacity + 1 ELSE s.capacity]
    IN  IF s.failed THEN s ELSE Add(GetMountDiskPlan(GetNormalPlan(s.host, normal), mount))

CountNormalPasses(h, normal, mount, bound) ==
    LET Pass(s) == CountPass(s, normal, mount)
    IN  Iterate(Pass, bound, [failed |-> FALSE, host |-> h, capacity |-> 0])

CountNormalPlans(h, count, normal, mount, bound) ==
    IF normal # <<>> THEN CountNormalPasses(h, normal, mount, bound)
    ELSE IF AnyRequireIOPS(mount) THEN ApplyMountPasses(h, mount, bound)
    ELSE [host |-> h, capacity |-> count]

\* Faulty variant: each volume is weighed against all of the disk's quota
CountMonoFits(h, count, mono, bound) ==
    IF mono = <<>> THEN count
    ELSE Smaller(bound, Cardinality({i \in DOMAIN h.unused :
                                       GetMonoPlan(h, mono, h.unused[i]).ok}))

CountVolume(s, mono, bound, device) ==
    LET Add(m) == IF m.ok THEN [host |-> m.host, capacity |-> s.capacity + 1] ELSE s
    IN  IF s.capacity >= bound THEN s ELSE Add(GetMonoPlan(s.host, mono, device))

CountMonoPlans(h, count, mono, bound) ==
    LET Take(s, device) == CountVolume(s, mono, bound, device)
    IN  IF mono = <<>> THEN count
        ELSE FoldLeft(Take, [host |-> h, capacity |-> 0], h.unused).capacity

EvaluateCapacity(h, classes, count, host) ==
    LET Mono(normal) ==
            [normal |-> normal.capacity,
             mono |-> CountMonoPlans(normal.host, count, classes.mono,
                                     Larger(count, normal.capacity + 1))]
    IN  Mono(CountNormalPlans(host, count, classes.normal, classes.mount,
                              NormalBound(h, count, classes)))

CapacityOfClasses(h, classes, count) ==
    LET Evaluate(host) == EvaluateCapacity(h, classes, count, host)
        AtMost(best) == Min({best.normal, best.mono, count})
    IN  IF NoVolumes(h, classes) THEN 0
        ELSE AtMost(Promote(h, count, classes.normal, Evaluate).best)

GetVolumeCapacity(info, vbs, count) ==
    IF NeedSchedule(vbs)
    THEN CapacityOfClasses(NewHost(info), ClassifyVolumeBindings(vbs), count) ELSE count

-----------------------------------------------------------------------------
(***************************************************************************)
(* Planning a workload again.  What it holds is given back first; then     *)
(* bindings that are alike to old ones stay on their device and the others *)
(* are planned like those of a new workload.                               *)
(***************************************************************************)
Refused == [ok |-> FALSE, plan |-> EmptyPlan, disks |-> NoDisks]

\* The devices of the plan and the disks that were charged are still there
CanGiveBack(h, plan, vbs) ==
    /\ \A vb \in vbs : ~RequireSchedule(vb) /\ RequireIOPS(vb)
                       => GetDiskByPath(h.disks, vb.source) # NoDisk
    /\ \A vb \in DOMAIN plan :
          /\ plan[vb].device \in DOMAIN h.free
          /\ RequireIOPS(vb) => GetDiskByPath(h.disks, plan[vb].device) # NoDisk

\* Faulty variant: the rates of the mounts are kept
NothingMounted(h, vbs, name) == {}

MountedOn(h, vbs, name) ==
    {vb \in vbs : ~RequireSchedule(vb) /\ GetDiskByPath(h.disks, vb.source) = name}

GiveBack(h, plan, vbs) ==
    LET PlacedOn(name) == {vb \in DOMAIN plan :
                             GetDiskByPath(h.disks, plan[vb].device) = name}
        Total(of, rate) == SumFunction([vb \in of |-> vb.io[rate]])
        Back(name) == [rate \in Rates |->
                         h.disks[name].io[rate] + Total(PlacedOn(name), rate)
                                                + Total(MountedOn(h, vbs, name), rate)]
    IN  [h EXCEPT
          !.free = [device \in DOMAIN h.free |->
                      h.free[device] + PlannedVolumes(plan)[device]],
          !.disks = [name \in DOMAIN h.disks |-> [h.disks[name] EXCEPT !.io = Back(name)]]]

\* Faulty variant: what has grown is another binding
AffinityExact(vb, plan) == {vb} \cap DOMAIN plan

\* The old bindings alike to vb
Affinity(vb, plan) == {vb1 \in DOMAIN plan : GetMapKey(vb1) = GetMapKey(vb)}

\* commonProcess: on the old device, grown or shrunk, or refused
KeepOn(a, req, device) ==
    IF ~a.ok \/ req.size > a.host.free[device]
          \/ (RequireIOPS(req) /\ ~Qualified(a.host, device, req))
    THEN [a EXCEPT !.ok = FALSE]
    ELSE [a EXCEPT !.host = DecreaseIOPSQuota(TakeSpace(@, device, req.size), device, req),
                   !.plan = MergePlans(@, Placing(EmptyPlan, req, device, req.size)),
                   !.disks = AddDisks(@, DiskQuota(a.host, device, req))]

KeepPlace(a, req, plan) ==
    IF Affinity(req, plan) = {} THEN a
    ELSE KeepOn(a, req, plan[CHOOSE vb \in Affinity(req, plan) : TRUE].device)

KeepPlaces(a, reqs, plan) ==
    LET Keep(b, req) == KeepPlace(b, req, plan)
    IN  FoldLeft(Keep, a, reqs)

\* The whole group stays on the volume one of them has, or none does
KeepGroup(a, mono, plan) ==
    LET stay == UNION {Affinity(mono[i], plan) : i \in DOMAIN mono}
        Room == SumFunction([vb \in {vb1 \in DOMAIN plan : RequireScheduleMonopoly(vb1)} |->
                                plan[vb].size])
        Keep(m) == IF ~m.ok THEN [a EXCEPT !.ok = FALSE]
                   ELSE [a EXCEPT !.host = m.host,
                                  !.plan = MergePlans(@, m.plan),
                                  !.disks = AddDisks(@, m.disks)]
    IN  IF ~a.ok \/ stay = {} THEN a
        ELSE IF Room < TotalSize(ToSet(mono)) THEN [a EXCEPT !.ok = FALSE]
        ELSE Keep(GetMonoPlan(a.host, mono, plan[CHOOSE vb \in stay : TRUE].device))

\* Faulty variant: unlimited bindings are taken to be placed
NonAffinityOfSized(classes, plan) ==
    LET Unplaced(vb) == Affinity(vb, plan) = {}
    IN  {vb \in ToSet(classes.normal) : Unplaced(vb)}
        \cup {vb \in ToSet(classes.mono) : \A i \in DOMAIN classes.mono : Unplaced(classes.mono[i])}

\* What has no place to keep
NonAffinity(classes, plan) ==
    LET Unplaced(vb) == Affinity(vb, plan) = {}
    IN  {vb \in ToSet(classes.normal) \cup classes.unlimited : Unplaced(vb)}
        \cup {vb \in ToSet(classes.mono) : \A i \in DOMAIN classes.mono : Unplaced(classes.mono[i])}

\* Mounts, normal, monopoly and unlimited bindings in this order
KeepAll(a, classes, plan) ==
    KeepPlaces(KeepGroup(KeepPlaces(GetMountDiskPlan(a, classes.mount), classes.normal, plan),
                         classes.mono, plan),
               Ranked(classes.unlimited, CompareBinding), plan)

\* The rest is planned as one new workload
PlanRest(kept, rest) ==
    LET Join(plans) ==
            IF plans = <<>> THEN Refused
            ELSE [ok |-> TRUE, plan |-> MergePlans(kept.plan, plans[1].plan),
                  disks |-> AddDisks(kept.disks, plans[1].disks)]
    IN  IF ~kept.ok THEN Refused
        ELSE IF rest = {} THEN [ok |-> TRUE, plan |-> kept.plan, disks |-> kept.disks]
        ELSE Join(VolumePlansOn(kept.host, rest, 1))

AffinityPlanOn(h, classes, plan, oldVbs) ==
    IF CanGiveBack(h, plan, oldVbs)
    THEN PlanRest(KeepAll(Attempt(GiveBack(h, plan, oldVbs)), classes, plan),
                  NonAffinity(classes, plan))
    ELSE Refused

GetAffinityPlan(info, vbs, plan, oldVbs) ==
    IF NeedSchedule(vbs)
    THEN AffinityPlanOn(NewHost(info), ClassifyVolumeBindings(vbs), plan, oldVbs)
    ELSE [Refused EXCEPT !.ok = TRUE]
=============================================================================
