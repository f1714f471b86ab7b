------------------------- MODULE StorageBooks_proofs -------------------------
(***************************************************************************)
(* One node and its workloads, for every node and every request: what is   *)
(* planned can be booked, what is counted can be planned, a monopoly       *)
(* volume is nobody else's, workloads are given what they ask for, and     *)
(* what is used is what they hold.                                         *)
(***************************************************************************)
EXTENDS StorageBooks, StorageRecord_proofs

-----------------------------------------------------------------------------
(* The invariant: the record is one Put stores, and workloads are what the  *)
(* verbs answer.  It is inductive, and what is said of every record and     *)
(* every request then holds in every state.                                 *)
WorksOk(works) ==
    DOMAIN works = Ids /\ \A id \in Ids : works[id] = Nil \/ WorkOk(works[id])

IInv == Sound(info) /\ WorksOk(workload)

\* What the constants say of requests
LEMMA RequestsAreWishes ==
    \A req \in DeployRequests \cup ReallocRequests : Wishes(req)
BY BooksInputsAssumption DEF Wishes, Requests, Bindings, Distinct

\* What is added up of bindings that are not less than nothing is not either
LEMMA DeploysAskForSomething ==
    ASSUME NEW req \in DeployRequests, ValidRequest(req)
    PROVE  Folded(req).storage >= 0
<1> DEFINE g == [vb \in req.vbs |-> vb.size]
<1>1. /\ Wishes(req) /\ IsFiniteSet(req.vbs) /\ req.vbs \in SUBSET VolumeBinding
      /\ req.storage \in Int /\ req.storage >= 0
  BY RequestsAreWishes DEF Wishes, Requests, Bindings, ValidRequest
<1>2. g \in [req.vbs -> Nat]
  BY <1>1, BooksInputsAssumption, BindingParts
<1> HIDE DEF g
<1>3. SumFunction(g) \in Nat
  <2>1. g \in [req.vbs -> Int] /\ \A vb \in req.vbs : g[vb] \in Nat
    BY <1>2
  <2>2. SumFunction(g) = SumOver(g, req.vbs)
    BY <2>1, SumOfWhole
  <2> QED
    BY <1>1, <2>1, <2>2, SumIsNat
<1>4. TotalSize(req.vbs) \in Nat
  BY <1>3 DEF TotalSize, g
<1>5. Folded(req).storage = req.storage + TotalSize(req.vbs)
  BY <1>1 DEF Folded, Requests, Wishes
<1> QED
  BY <1>1, <1>4, <1>5

\* A node added is sound
LEMMA InitIsIInv == Init => IInv
<1> SUFFICES ASSUME Init PROVE IInv
  OBVIOUS
<1>1. PICK capacity \in NewCapacities : info = [capacity |-> capacity, usage |-> NoUsage]
  BY DEF Init
<1>2. IsCapacity(capacity) /\ ValidInfo(info)
  BY <1>1, BooksInputsAssumption
<1>3. IsUsage(NoUsage) /\ DOMAIN NoUsage.disks = {}
  BY EmptyInfoIsInfo DEF NoUsage, NoDisks
<1>4. Sound(info)
  BY <1>1, <1>2, <1>3 DEF Sound, IsInfo
<1>5. WorksOk(workload)
  BY DEF Init, WorksOk
<1> QED
  BY <1>4, <1>5 DEF IInv

\* A deploy enrolls what was answered and books it
LEMMA DeployKeepsIInv == IInv /\ Deploy => IInv'
<1> SUFFICES ASSUME IInv, Deploy PROVE IInv'
  OBVIOUS
<1>1. PICK req \in DeployRequests, count \in 1..MaxWorkloads :
         LET deployed == Deployed(info, count, req)
         IN  /\ deployed.ok /\ Store(Book(info, HeldBy(deployed.works), TRUE))
             /\ workload' = Enrolled(deployed.works, count)
  BY DEF Deploy
<1>2. PICK deployed : deployed = Deployed(info, count, req)
  OBVIOUS
<1> DEFINE works == deployed.works
           taken == HeldBy(works)
           next == Enrolled(works, count)
           ids == NewIds
           result == Book(info, taken, TRUE)
<1>3. deployed.ok /\ result.ok /\ info' = result.info /\ workload' = next
  BY <1>1, <1>2 DEF Store
<1>4. /\ count \in Nat /\ Wishes(req) /\ IsInfo(info)
      /\ Folded(req).storage >= 0
  <2>1. ValidRequest(req)
    BY <1>2, <1>3 DEF Deployed
  <2> QED
    BY <2>1, BooksBoundsAssumption, RequestsAreWishes, DeploysAskForSomething DEF IInv, Sound
<1>5. /\ Len(works) \in Nat /\ DOMAIN works = 1..Len(works) /\ count <= Len(works)
      /\ \A i \in DOMAIN works : WorkOk(works[i])
  BY <1>2, <1>3, <1>4, DeployedAreOk
<1> HIDE DEF works
<1>6. WorksOk(next)
  <2> HIDE DEF ids
  <2>1. next = [id \in Ids |-> IF \E i \in 1..count : ids[i] = id
                               THEN works[CHOOSE i \in 1..count : ids[i] = id]
                               ELSE workload[id]]
    BY DEF Enrolled, ids
  <2> HIDE DEF next
  <2>2. \A id \in Ids : next[id] = Nil \/ WorkOk(next[id])
    <3> TAKE id \in Ids
    <3>1. next[id] = IF \E i \in 1..count : ids[i] = id
                     THEN works[CHOOSE i \in 1..count : ids[i] = id]
                     ELSE workload[id]
      BY <2>1
    <3>2. CASE \E i \in 1..count : ids[i] = id
      <4>1. PICK i \in 1..count : next[id] = works[i]
        BY <3>1, <3>2
      <4>2. i \in DOMAIN works
        BY <1>4, <1>5, <4>1
      <4> QED
        BY <1>5, <4>1, <4>2
    <3>3. CASE ~ \E i \in 1..count : ids[i] = id
      BY <3>1, <3>3 DEF IInv, WorksOk
    <3> QED
      BY <3>2, <3>3
  <2>3. DOMAIN next = Ids
    BY <2>1
  <2> QED
    BY <2>2, <2>3 DEF WorksOk
<1>7. AreTaken(taken)
  BY <1>5, HeldAreTaken
<1> HIDE DEF taken, next
<1>8. Sound(result.info)
  BY <1>3, <1>7, BookingStores DEF IInv
<1> HIDE DEF result
<1>9. Sound(info)'
  BY <1>3, <1>8 DEF Sound, IsInfo
<1>10. WorksOk(workload)'
  BY <1>3, <1>6 DEF WorksOk, WorkOk
<1> QED
  BY <1>9, <1>10 DEF IInv

\* A realloc books the difference
LEMMA ReallocKeepsIInv == IInv /\ Realloc => IInv'
<1> SUFFICES ASSUME IInv, Realloc PROVE IInv'
  OBVIOUS
<1>1. PICK id \in Live, req \in ReallocRequests :
         LET target == Reallocated(info, workload[id], req)
         IN  /\ target.ok /\ Store(Book(info, <<ReallocDelta(workload[id], target.work)>>, TRUE))
             /\ workload' = [workload EXCEPT ![id] = target.work]
  BY DEF Realloc
<1>2. PICK target : target = Reallocated(info, workload[id], req)
  OBVIOUS
<1> DEFINE delta == ReallocDelta(workload[id], target.work)
           next == [workload EXCEPT ![id] = target.work]
           result == Book(info, <<delta>>, TRUE)
<1>3. target.ok /\ result.ok /\ info' = result.info /\ workload' = next
  BY <1>1, <1>2 DEF Store
<1>4. /\ id \in Ids /\ WorkOk(workload[id]) /\ WorksOk(workload) /\ Wishes(req)
      /\ IsInfo(info)
  BY RequestsAreWishes DEF IInv, Live, WorksOk, Sound
<1>5. WorkOk(target.work)
  BY <1>2, <1>3, <1>4, ReallocatedIsOk
<1>6. WorksOk(next)
  BY <1>4, <1>5 DEF WorksOk
<1>7. AreTaken(<<delta>>)
  <2>1. IsUsage(Held(target.work)) /\ IsUsage(Held(workload[id]))
    BY <1>4, <1>5, HeldIsUsage
  <2>2. IsUsage(delta)
    BY <2>1, TakeIsUsage DEF Take, ReallocDelta
  <2> QED
    BY <2>2, OneIsTaken
<1> HIDE DEF delta, next
<1>8. Sound(result.info)
  BY <1>3, <1>7, BookingStores DEF IInv
<1> HIDE DEF result
<1>9. Sound(info)'
  BY <1>3, <1>8 DEF Sound, IsInfo
<1>10. WorksOk(workload)'
  BY <1>3, <1>6 DEF WorksOk, WorkOk
<1> QED
  BY <1>9, <1>10 DEF IInv

\* What a workload gives back leaves a sound record
LEMMA DiscardKeepsIInv == IInv /\ Discard => IInv'
<1> SUFFICES ASSUME IInv, Discard PROVE IInv'
  OBVIOUS
<1>1. PICK id \in Live :
         /\ Store(Book(info, <<Held(workload[id])>>, FALSE))
         /\ workload' = [workload EXCEPT ![id] = Nil]
  BY DEF Discard
<1> DEFINE held == Held(workload[id])
           next == [workload EXCEPT ![id] = Nil]
           result == Book(info, <<held>>, FALSE)
<1>2. result.ok /\ info' = result.info /\ workload' = next
  BY <1>1 DEF Store
<1>3. id \in Ids /\ WorkOk(workload[id]) /\ WorksOk(workload)
  BY DEF IInv, Live, WorksOk
<1>4. WorksOk(next)
  BY <1>3 DEF WorksOk
<1>5. AreTaken(<<held>>)
  BY <1>3, HeldIsUsage, OneIsTaken
<1> HIDE DEF held, next
<1>6. Sound(result.info)
  BY <1>2, <1>5, BookingStores DEF IInv
<1> HIDE DEF result
<1>7. Sound(info)'
  BY <1>2, <1>6 DEF Sound, IsInfo
<1>8. WorksOk(workload)'
  BY <1>2, <1>4 DEF WorksOk, WorkOk
<1> QED
  BY <1>7, <1>8 DEF IInv

\* Every step keeps it
LEMMA NextKeepsIInv == IInv /\ [Next]_vars => IInv'
<1> SUFFICES ASSUME IInv, [Next]_vars PROVE IInv'
  OBVIOUS
<1>1. CASE Deploy
  BY <1>1, DeployKeepsIInv
<1>2. CASE Realloc
  BY <1>2, ReallocKeepsIInv
<1>3. CASE Discard
  BY <1>3, DiscardKeepsIInv
<1>4. CASE UNCHANGED vars
  BY <1>4 DEF vars, IInv, Sound, IsInfo, WorksOk, WorkOk
<1> QED
  BY <1>1, <1>2, <1>3, <1>4 DEF Next

\* After any operations the record is one Put accepts, and workloads are planned
\* on volumes and disks there are.
THEOREM RecordsStaySound == Spec => []IInv
BY InitIsIInv, NextKeepsIInv, PTL DEF Spec

\* In every state the count the capacity query makes is the number of plans the
\* planner returns (GetVolumeCapacity's comment).
THEOREM CountsArePlans == Spec => []CountIsPlans
<1>1. IInv => CountIsPlans
  <2> SUFFICES ASSUME IInv, NEW req \in DeployRequests, NEW count \in 1..MaxDeployCount,
                      ValidBindings(req.vbs)
               PROVE  GetVolumeCapacity(info, req.vbs, count)
                        = Len(GetVolumePlans(info, req.vbs, count))
    BY DEF CountIsPlans
  <2>1. IsCapacity(info.capacity) /\ IsUsage(info.usage)
    BY DEF IInv, Sound, IsInfo
  <2>2. RequestOk(req.vbs)
    BY RequestsAreWishes DEF RequestOk, Wishes
  <2>3. count \in Nat /\ count <= MaxInt
    BY MaxDeployCountAssumption, MaxIntAssumption
  <2> QED
    BY <2>1, <2>2, <2>3, PlansAreCounted
<1> QED
  BY <1>1, RecordsStaySound, PTL

-----------------------------------------------------------------------------
(* Plans joined                                                             *)

\* No destination of one is a destination of the other
Apart(plan, plan1) == \A vb \in DOMAIN plan : \A vb1 \in DOMAIN plan1 : vb.dest # vb1.dest

\* Plans for different destinations are joined without change
LEMMA ApartMerge ==
    ASSUME NEW plan, NEW plan1, Apart(plan, plan1)
    PROVE  /\ DOMAIN MergePlans(plan, plan1) = DOMAIN plan \cup DOMAIN plan1
           /\ \A vb \in DOMAIN plan : MergePlans(plan, plan1)[vb] = plan[vb]
           /\ \A vb \in DOMAIN plan1 : MergePlans(plan, plan1)[vb] = plan1[vb]
           /\ DOMAIN plan \cap DOMAIN plan1 = {}
<1> DEFINE Same(vb) == {vb1 \in DOMAIN plan : vb1.dest = vb.dest}
           kept == {vb1 \in DOMAIN plan : \A vb \in DOMAIN plan1 : vb.dest # vb1.dest}
           fresh == {vb \in DOMAIN plan1 : Same(vb) = {}}
           joined == {p \in (DOMAIN plan1) \X (DOMAIN plan) : p[1].dest = p[2].dest}
           both == {[vb |-> AddQuota(p[1], p[2]),
                     to |-> [plan1[p[1]] EXCEPT !.size = @ + plan[p[2]].size]] : p \in joined}
           To(vb) == IF vb \in kept THEN plan[vb] ELSE IF vb \in fresh THEN plan1[vb]
                     ELSE (CHOOSE b \in both : b.vb = vb).to
           merged == [vb \in kept \cup fresh \cup {b.vb : b \in both} |-> To(vb)]
<1>1. MergePlans(plan, plan1) = merged
  BY DEF MergePlans
<1>2. kept = DOMAIN plan /\ fresh = DOMAIN plan1
  BY DEF Apart
<1>3. joined = {}
  BY DEF Apart
<1>4. both = {}
  <2> HIDE DEF joined
  <2> QED
    BY <1>3
<1>5. DOMAIN plan \cap DOMAIN plan1 = {}
  BY DEF Apart
<1> HIDE DEF both, kept, fresh
<1>6. DOMAIN merged = DOMAIN plan \cup DOMAIN plan1
  BY <1>2, <1>4
<1>7. \A vb \in DOMAIN plan : merged[vb] = plan[vb]
  BY <1>2
<1>8. \A vb \in DOMAIN plan1 : merged[vb] = plan1[vb]
  BY <1>2, <1>5
<1> HIDE DEF merged
<1> QED
  BY <1>1, <1>5, <1>6, <1>7, <1>8

\* And take what the two take
LEMMA ApartAddUp ==
    ASSUME NEW plan, NEW plan1, Sized(plan), Sized(plan1), Apart(plan, plan1)
    PROVE  /\ Sized(MergePlans(plan, plan1))
           /\ \A device : Space(MergePlans(plan, plan1), device)
                            = Space(plan, device) + Space(plan1, device)
<1> DEFINE m == MergePlans(plan, plan1)
<1>1. /\ DOMAIN m = DOMAIN plan \cup DOMAIN plan1
      /\ \A vb \in DOMAIN plan : m[vb] = plan[vb]
      /\ \A vb \in DOMAIN plan1 : m[vb] = plan1[vb]
      /\ DOMAIN plan \cap DOMAIN plan1 = {}
  BY ApartMerge
<1> HIDE DEF m
<1>2. Sized(m)
  <2>1. IsFiniteSet(DOMAIN plan \cup DOMAIN plan1)
    BY FS_Union DEF Sized
  <2> QED
    BY <1>1, <2>1 DEF Sized
<1>3. ASSUME NEW device
      PROVE  Space(m, device) = Space(plan, device) + Space(plan1, device)
  <2> DEFINE S == Placed(plan, device)
             T == Placed(plan1, device)
             g == SizesOf(m)
             e == SizesOf(plan)
             f == SizesOf(plan1)
  <2>1. Placed(m, device) = S \cup T /\ S \cap T = {}
    BY <1>1 DEF Placed
  <2>2. (\A vb \in S : g[vb] = e[vb]) /\ (\A vb \in T : g[vb] = f[vb])
    BY <1>1 DEF Placed, SizesOf
  <2>3. (\A vb \in S : e[vb] \in Int) /\ (\A vb \in T : f[vb] \in Int)
    BY DEF Placed, SizesOf, Sized
  <2>4. IsFiniteSet(S) /\ IsFiniteSet(T)
    BY FS_Subset DEF Placed, Sized
  <2> HIDE DEF S, T, e, f, g
  <2>5. Integral(g, S) /\ Integral(g, T)
    BY <2>2, <2>3, <2>4 DEF Integral
  <2>6. SumOver(g, S \cup T) = SumOver(g, S) + SumOver(g, T)
    BY <2>1, <2>5, SumJoins
  <2>7. SumOver(g, S) = SumOver(e, S) /\ SumOver(g, T) = SumOver(f, T)
    BY <2>2, SumSame
  <2> QED
    BY <2>1, <2>6, <2>7 DEF Space, S, T, e, f, g
<1> QED
  BY <1>2, <1>3 DEF m

\* Unlimited bindings are given no space
LEMMA UnlimitedTakesNothing ==
    ASSUME NEW h, NEW plans, NEW unlimited, IsFiniteSet(unlimited),
           \A vb \in unlimited : vb.size = 0, NEW plan,
           plan = GetUnlimitedPlan(h, plans, unlimited)
    PROVE  /\ Sized(plan) /\ DOMAIN plan \subseteq unlimited
           /\ \A device : Space(plan, device) = 0
<1>1. CASE unlimited = {}
  <2>1. plan = EmptyPlan /\ DOMAIN EmptyPlan = {}
    BY <1>1 DEF GetUnlimitedPlan, EmptyPlan
  <2> QED
    BY <2>1, EmptyTakesNothing
<1>2. CASE unlimited # {}
  <2>1. PICK d : plan = [vb \in unlimited |-> [device |-> d, size |-> vb.size]]
    BY <1>2 DEF GetUnlimitedPlan
  <2>2. DOMAIN plan = unlimited /\ \A vb \in unlimited : plan[vb].size = 0
    BY <2>1
  <2>3. Sized(plan)
    BY <2>2 DEF Sized
  <2>4. ASSUME NEW device
        PROVE  Space(plan, device) = 0
    <3>1. IsFiniteSet(Placed(plan, device))
      BY <2>2, FS_Subset DEF Placed
    <3>2. \A vb \in Placed(plan, device) : SizesOf(plan)[vb] = 0
      BY <2>2 DEF Placed, SizesOf
    <3> QED
      BY <3>1, <3>2, SumOfZeros DEF Space
  <2> QED
    BY <2>2, <2>3, <2>4
<1> QED
  BY <1>1, <1>2

-----------------------------------------------------------------------------
(* Plans for what a host has left                                           *)

\* h has what all these plans take
Afforded(h, plans, vbs) ==
    /\ \A i \in 1..Len(plans) : Takes(plans[i], vbs)
    /\ \A device \in DOMAIN h.free : AllSpace(plans, device) <= h.free[device]
    /\ \A name \in DOMAIN h.disks : \A rate \in Rates :
          AllUses(plans, name, rate) <= h.disks[name].io[rate]

\* h has what plans of two kinds of bindings take together
SideBySide(h, normals, monos, vbs, vbs1) ==
    /\ \A i \in 1..Len(normals) : Takes(normals[i], vbs)
    /\ \A i \in 1..Len(monos) : Takes(monos[i], vbs1)
    /\ \A device \in DOMAIN h.free :
          AllSpace(normals, device) + AllSpace(monos, device) <= h.free[device]
    /\ \A name \in DOMAIN h.disks : \A rate \in Rates :
          AllUses(normals, name, rate) + AllUses(monos, name, rate) <= h.disks[name].io[rate]

\* One after the other paid for they are side by side
LEMMA PaidSideBySide ==
    ASSUME NEW D, NEW N \in SUBSET DiskNames, NEW h \in HostsOn(D, N), NEW host \in HostsOn(D, N),
           NEW host1 \in HostsOn(D, N), NEW normals \in Seq(PlannedOn(D, N)),
           NEW monos \in Seq(PlannedOn(D, N)), NEW vbs, NEW vbs1,
           PaysAll(h, host, normals, vbs), PaysAll(host, host1, monos, vbs1), Solvent(host1)
    PROVE  SideBySide(h, normals, monos, vbs, vbs1)
<1>1. /\ Len(normals) \in Nat /\ DOMAIN normals = 1..Len(normals)
      /\ Len(monos) \in Nat /\ DOMAIN monos = 1..Len(monos)
  OBVIOUS
<1>2. /\ \A i \in 1..Len(normals) : Takes(normals[i], vbs)
      /\ \A i \in 1..Len(monos) : Takes(monos[i], vbs1)
  BY DEF PaysAll
<1>3. /\ DOMAIN h.free = D /\ DOMAIN h.disks = N /\ DOMAIN host.free = D /\ DOMAIN host.disks = N
      /\ DOMAIN host1.free = D /\ DOMAIN host1.disks = N
      /\ \A device \in D : /\ h.free[device] \in Int /\ host.free[device] \in Int
                           /\ host1.free[device] \in Int
      /\ \A name \in N : \A rate \in Rates :
            /\ h.disks[name].io[rate] \in Int /\ host.disks[name].io[rate] \in Int
            /\ host1.disks[name].io[rate] \in Int
  BY DEF HostsOn, DiskCapacity, IO
<1>4. ASSUME NEW device \in D
      PROVE  AllSpace(normals, device) + AllSpace(monos, device) <= h.free[device]
  <2>1. AllSpace(normals, device) \in Nat
    BY <1>1, <1>2, TakenIsNat
  <2>2. AllSpace(monos, device) \in Nat
    BY <1>1, <1>2, TakenIsNat
  <2>3. host.free[device] + AllSpace(normals, device) <= h.free[device]
    BY <1>3 DEF PaysAll
  <2>4. host1.free[device] + AllSpace(monos, device) <= host.free[device]
    BY <1>3 DEF PaysAll
  <2>5. host1.free[device] >= 0
    BY <1>3 DEF Solvent
  <2> QED
    BY <1>3, <2>1, <2>2, <2>3, <2>4, <2>5
<1>5. ASSUME NEW name \in N, NEW rate \in Rates
      PROVE  AllUses(normals, name, rate) + AllUses(monos, name, rate) <= h.disks[name].io[rate]
  <2>0. name \in DiskNames
    OBVIOUS
  <2>1. AllUses(normals, name, rate) \in Nat
    BY <1>1, <1>2, <2>0, TakenIsNat
  <2>2. AllUses(monos, name, rate) \in Nat
    BY <1>1, <1>2, <2>0, TakenIsNat
  <2>3. host.disks[name].io[rate] + AllUses(normals, name, rate) <= h.disks[name].io[rate]
    BY <1>3 DEF PaysAll
  <2>4. host1.disks[name].io[rate] + AllUses(monos, name, rate) <= host.disks[name].io[rate]
    BY <1>3 DEF PaysAll
  <2>5. host1.disks[name].io[rate] >= 0
    BY <1>3 DEF Solvent
  <2> QED
    BY <1>3, <2>1, <2>2, <2>3, <2>4, <2>5, SMTT(30)
<1> QED
  BY <1>2, <1>3, <1>4, <1>5 DEF SideBySide

\* What the first few of two lists come to side by side is no more than all of them
LEMMA FirstFew ==
    ASSUME NEW n \in Nat, NEW a \in Nat, NEW b \in Nat, n <= a, n <= b, NEW f, NEW g, NEW k,
           \A i \in 1..a : f[i] \in Nat, \A i \in 1..b : g[i] \in Nat,
           \A i \in 1..n : k[i] = f[i] + g[i]
    PROVE  SumOver(k, 1..n) <= SumOver(f, 1..a) + SumOver(g, 1..b)
<1> DEFINE S == 1..n
<1>1. S \in SUBSET (1..a) /\ S \in SUBSET (1..b) /\ IsFiniteSet(S)
      /\ IsFiniteSet(1..a) /\ IsFiniteSet(1..b)
  BY FS_Interval
<1>2. \A i \in S : k[i] = f[i] + g[i]
  OBVIOUS
<1> HIDE DEF S
<1>3. Integral(f, S) /\ Integral(g, S)
  BY <1>1 DEF Integral
<1>4. SumOver(k, S) = SumOver(f, S) + SumOver(g, S)
  BY <1>2, <1>3, SumAdds
<1>5. SumOver(f, S) \in Nat /\ SumOver(f, S) <= SumOver(f, 1..a) /\ SumOver(f, 1..a) \in Nat
  BY <1>1, SumIsNat
<1>6. SumOver(g, S) \in Nat /\ SumOver(g, S) <= SumOver(g, 1..b) /\ SumOver(g, 1..b) \in Nat
  BY <1>1, SumIsNat
<1>7. SumOver(k, S) <= SumOver(f, 1..a) + SumOver(g, 1..b)
  BY <1>4, <1>5, <1>6
<1> QED
  BY <1>7 DEF S

\* No destination is in both
Separate(vbs, vbs1) == \A vb \in vbs : \A vb1 \in vbs1 : vb.dest # vb1.dest

\* Plans of three kinds that go to different destinations
Kinds(vbs, vbs1, vbs2) == Separate(vbs, vbs1) /\ Separate(vbs, vbs2) /\ Separate(vbs1, vbs2)

\* A plan without space
Weightless(plan, vbs) ==
    Sized(plan) /\ DOMAIN plan \subseteq vbs /\ \A device : Space(plan, device) = 0

\* Two plans and one without space, as one
JoinsTwo(p, normal, mono, vbs) ==
    /\ Takes(p, vbs)
    /\ \A device : Space(p.plan, device) = Space(normal.plan, device) + Space(mono.plan, device)
    /\ \A name \in DiskNames : \A rate \in Rates :
          UsedOf(p.disks, name)[rate] = UsedOf(normal.disks, name)[rate]
                                        + UsedOf(mono.disks, name)[rate]

\* One of the plans of all kinds takes what the plans of each kind take
LEMMA OneIsJoined ==
    ASSUME NEW D, NEW N \in SUBSET DiskNames, NEW normal \in PlannedOn(D, N),
           NEW mono \in PlannedOn(D, N), NEW unlimited, NEW vbs, NEW vbs1, NEW vbs2,
           Kinds(vbs, vbs1, vbs2), Takes(normal, vbs), Takes(mono, vbs1),
           Weightless(unlimited, vbs2), NEW p,
           p = [plan |-> MergePlans(MergePlans(normal.plan, mono.plan), unlimited),
                disks |-> AddDisks(normal.disks, mono.disks)]
    PROVE  JoinsTwo(p, normal, mono, vbs \cup vbs1 \cup vbs2)
<1> DEFINE a == normal.plan
           b == mono.plan
           m == MergePlans(a, b)
           q == MergePlans(m, unlimited)
           disks == AddDisks(normal.disks, mono.disks)
<1>1. /\ Sized(a) /\ Sized(b) /\ DOMAIN a \subseteq vbs /\ DOMAIN b \subseteq vbs1
      /\ Sized(unlimited) /\ DOMAIN unlimited \subseteq vbs2
  BY DEF Takes, Weightless
<1>2. Apart(a, b)
  BY <1>1 DEF Kinds, Separate, Apart
<1> HIDE DEF a, b
<1>3. DOMAIN m = DOMAIN a \cup DOMAIN b
  BY <1>2, ApartMerge
<1>4. Sized(m) /\ \A device : Space(m, device) = Space(a, device) + Space(b, device)
  BY <1>1, <1>2, ApartAddUp
<1> HIDE DEF m
<1>5. Apart(m, unlimited)
  BY <1>1, <1>3 DEF Kinds, Separate, Apart
<1>6. DOMAIN q = DOMAIN m \cup DOMAIN unlimited
  BY <1>5, ApartMerge
<1>7. Sized(q) /\ \A device : Space(q, device) = Space(m, device) + Space(unlimited, device)
  BY <1>1, <1>4, <1>5, ApartAddUp
<1> HIDE DEF q
<1>8. \A device : Space(q, device) = Space(a, device) + Space(b, device)
  <2> TAKE device
  <2>1. Space(a, device) \in Nat /\ Space(b, device) \in Nat
    BY <1>1, SpaceIsNat
  <2>2. Space(unlimited, device) = 0
    BY DEF Weightless
  <2>3. /\ Space(q, device) = Space(m, device) + Space(unlimited, device)
        /\ Space(m, device) = Space(a, device) + Space(b, device)
    BY <1>4, <1>7
  <2> QED
    BY <2>1, <2>2, <2>3
<1>9. DOMAIN q \subseteq vbs \cup vbs1 \cup vbs2
  BY <1>1, <1>3, <1>6
<1>10. normal.disks \in DiskPlansOn(N) /\ mono.disks \in DiskPlansOn(N)
  BY DEF PlannedOn
<1>11. \A name \in DiskNames : \A rate \in Rates :
          UsedOf(disks, name)[rate] = UsedOf(normal.disks, name)[rate] + UsedOf(mono.disks, name)[rate]
  <2> TAKE name \in DiskNames
  <2> TAKE rate \in Rates
  <2> QED
    BY <1>10, UsesAddUp
<1>12. \A name \in DiskNames : \A rate \in Rates :
          UsedOf(normal.disks, name)[rate] \in Nat /\ UsedOf(mono.disks, name)[rate] \in Nat
  BY DEF Takes
<1> HIDE DEF disks
<1>13. \A name \in DiskNames : \A rate \in Rates : UsedOf(disks, name)[rate] \in Nat
  <2> TAKE name \in DiskNames
  <2> TAKE rate \in Rates
  <2>1. UsedOf(normal.disks, name)[rate] \in Nat /\ UsedOf(mono.disks, name)[rate] \in Nat
    BY <1>12
  <2>2. UsedOf(disks, name)[rate] = UsedOf(normal.disks, name)[rate] + UsedOf(mono.disks, name)[rate]
    BY <1>11
  <2> QED
    BY <2>1, <2>2
<1>14. p.plan = q /\ p.disks = disks
  BY DEF q, m, a, b, disks
<1>15. Takes(p, vbs \cup vbs1 \cup vbs2)
  BY <1>7, <1>9, <1>13, <1>14 DEF Takes
<1> QED
  BY <1>8, <1>11, <1>14, <1>15 DEF JoinsTwo, a, b

\* All of them are afforded
LEMMA JoinedAreAfforded ==
    ASSUME NEW D, NEW N \in SUBSET DiskNames, NEW h \in HostsOn(D, N),
           NEW normals \in Seq(PlannedOn(D, N)), NEW monos \in Seq(PlannedOn(D, N)),
           NEW unlimited, NEW vbs, NEW vbs1, NEW vbs2, Kinds(vbs, vbs1, vbs2),
           SideBySide(h, normals, monos, vbs, vbs1), Weightless(unlimited, vbs2),
           NEW n \in Nat, n <= Len(normals), n <= Len(monos), NEW plans,
           plans = JoinPlans(n, normals, monos, unlimited)
    PROVE  Len(plans) = n /\ Afforded(h, plans, vbs \cup vbs1 \cup vbs2)
<1> DEFINE all == vbs \cup vbs1 \cup vbs2
           join == [i \in 1..n |->
                      [plan |-> MergePlans(MergePlans(normals[i].plan, monos[i].plan), unlimited),
                       disks |-> AddDisks(normals[i].disks, monos[i].disks)]]
           a == Len(normals)
           b == Len(monos)
<1>1. /\ a \in Nat /\ DOMAIN normals = 1..a /\ b \in Nat /\ DOMAIN monos = 1..b
      /\ \A i \in 1..a : normals[i] \in PlannedOn(D, N)
      /\ \A i \in 1..b : monos[i] \in PlannedOn(D, N)
  BY MembersAreIn
<1>2. plans = join
  BY DEF JoinPlans
<1>3. DOMAIN plans = 1..n /\ Len(plans) = n
  <2> DEFINE X == {join[i] : i \in 1..n}
  <2>1. DOMAIN join = 1..n /\ join = [i \in 1..n |-> join[i]]
    OBVIOUS
  <2> HIDE DEF join
  <2>2. \A i \in 1..n : join[i] \in X
    OBVIOUS
  <2> HIDE DEF X
  <2>3. join \in [1..n -> X]
    BY <2>1, <2>2
  <2>4. join \in Seq(X) /\ Len(join) = n
    BY <2>3
  <2> QED
    BY <1>2, <2>1, <2>4
<1>4. \A i \in 1..n : i \in 1..a /\ i \in 1..b
  BY <1>1
<1>5. /\ \A i \in 1..a : Takes(normals[i], vbs)
      /\ \A i \in 1..b : Takes(monos[i], vbs1)
  BY DEF SideBySide
<1>6. \A i \in 1..n : JoinsTwo(plans[i], normals[i], monos[i], all)
  <2> TAKE i \in 1..n
  <2>1. plans[i] = [plan |-> MergePlans(MergePlans(normals[i].plan, monos[i].plan), unlimited),
                    disks |-> AddDisks(normals[i].disks, monos[i].disks)]
    BY <1>2
  <2>2. /\ normals[i] \in PlannedOn(D, N) /\ monos[i] \in PlannedOn(D, N)
        /\ Takes(normals[i], vbs) /\ Takes(monos[i], vbs1)
    BY <1>1, <1>4, <1>5
  <2> QED
    BY <2>1, <2>2, OneIsJoined
<1> HIDE DEF all, join, a, b
<1>7. \A i \in 1..Len(plans) : Takes(plans[i], all)
  BY <1>3, <1>6 DEF JoinsTwo
<1>8. DOMAIN h.free = D /\ DOMAIN h.disks = N
      /\ (\A device \in D : h.free[device] \in Int)
      /\ (\A name \in N : \A rate \in Rates : h.disks[name].io[rate] \in Int)
  BY DEF HostsOn, DiskCapacity, IO
<1>9. n <= a /\ n <= b
  BY DEF a, b
<1>10. ASSUME NEW device \in D
       PROVE  AllSpace(plans, device) <= h.free[device]
  <2> DEFINE f == SpaceIn(normals, device)
             g == SpaceIn(monos, device)
             k == SpaceIn(plans, device)
  <2>1. \A i \in 1..a : f[i] \in Nat
    BY <1>1, <1>5, TakenIsNat DEF a
  <2>2. \A i \in 1..b : g[i] \in Nat
    BY <1>1, <1>5, TakenIsNat DEF b
  <2>3. \A i \in 1..n : k[i] = f[i] + g[i]
    BY <1>1, <1>3, <1>4, <1>6 DEF JoinsTwo, SpaceIn
  <2> HIDE DEF f, g, k
  <2>4. SumOver(k, 1..n) <= SumOver(f, 1..a) + SumOver(g, 1..b)
    BY <1>1, <1>9, <2>1, <2>2, <2>3, FirstFew
  <2>5. AllSpace(plans, device) <= AllSpace(normals, device) + AllSpace(monos, device)
    BY <1>3, <2>4 DEF AllSpace, f, g, k, a, b
  <2>6. AllSpace(normals, device) + AllSpace(monos, device) <= h.free[device]
    BY <1>8 DEF SideBySide
  <2>7. AllSpace(normals, device) \in Nat /\ AllSpace(monos, device) \in Nat
    <3>1. AllSpace(normals, device) \in Nat
      BY <1>1, <1>5, TakenIsNat DEF a
    <3>2. AllSpace(monos, device) \in Nat
      BY <1>1, <1>5, TakenIsNat DEF b
    <3> QED
      BY <3>1, <3>2
  <2>8. AllSpace(plans, device) \in Nat
    <3>1. Len(plans) \in Nat /\ DOMAIN plans = 1..Len(plans)
      BY <1>3
    <3> QED
      BY <1>7, <3>1, TakenIsNat
  <2> QED
    BY <1>8, <2>5, <2>6, <2>7, <2>8
<1>11. ASSUME NEW name \in N, NEW rate \in Rates
       PROVE  AllUses(plans, name, rate) <= h.disks[name].io[rate]
  <2> DEFINE f == UsesIn(normals, name, rate)
             g == UsesIn(monos, name, rate)
             k == UsesIn(plans, name, rate)
  <2>0. name \in DiskNames
    OBVIOUS
  <2>1. \A i \in 1..a : f[i] \in Nat
    BY <1>1, <1>5, <2>0, TakenIsNat DEF a
  <2>2. \A i \in 1..b : g[i] \in Nat
    BY <1>1, <1>5, <2>0, TakenIsNat DEF b
  <2>3. \A i \in 1..n : k[i] = f[i] + g[i]
    BY <1>1, <1>3, <1>4, <1>6, <2>0 DEF JoinsTwo, UsesIn
  <2> HIDE DEF f, g, k
  <2>4. SumOver(k, 1..n) <= SumOver(f, 1..a) + SumOver(g, 1..b)
    BY <1>1, <1>9, <2>1, <2>2, <2>3, FirstFew
  <2>5. AllUses(plans, name, rate) <= AllUses(normals, name, rate) + AllUses(monos, name, rate)
    BY <1>3, <2>4 DEF AllUses, f, g, k, a, b
  <2>6. AllUses(normals, name, rate) + AllUses(monos, name, rate) <= h.disks[name].io[rate]
    BY <1>8 DEF SideBySide
  <2>7. AllUses(normals, name, rate) \in Nat /\ AllUses(monos, name, rate) \in Nat
    <3>1. AllUses(normals, name, rate) \in Nat
      BY <1>1, <1>5, <2>0, TakenIsNat DEF a
    <3>2. AllUses(monos, name, rate) \in Nat
      BY <1>1, <1>5, <2>0, TakenIsNat DEF b
    <3> QED
      BY <3>1, <3>2
  <2>8. AllUses(plans, name, rate) \in Nat
    <3>1. Len(plans) \in Nat /\ DOMAIN plans = 1..Len(plans)
      BY <1>3
    <3> QED
      BY <1>7, <2>0, <3>1, TakenIsNat
  <2> QED
    BY <1>8, <2>5, <2>6, <2>7, <2>8
<1> QED
  BY <1>3, <1>7, <1>8, <1>10, <1>11 DEF Afforded, all

\* Bindings that can be deployed: none less than nothing, one at a destination
Deployable(vbs) ==
    /\ RequestOk(vbs)
    /\ \A vb \in vbs : vb.size >= 0
    /\ \A vb \in vbs, vb1 \in vbs : vb.dest = vb1.dest => vb = vb1

\* The bindings of each kind that are placed
NormalsIn(vbs) == {vb \in vbs : IsNormal(vb)}
MonosIn(vbs) == {vb \in vbs : RequireScheduleMonopoly(vb)}
UnlimitedIn(vbs) == {vb \in vbs : IsUnlimited(vb)}

\* Classes that can be planned one beside the other
Plannable(classes, vbs) ==
    /\ Listed(classes.normal, classes.mount, NormalsIn(vbs))
    /\ Grouped(classes.mono) \/ classes.mono = <<>>
    /\ ToSet(classes.mono) \subseteq MonosIn(vbs)
    /\ classes.unlimited = UnlimitedIn(vbs) /\ IsFiniteSet(classes.unlimited)
    /\ \A vb \in classes.unlimited : vb.size = 0
    /\ Kinds(NormalsIn(vbs), MonosIn(vbs), UnlimitedIn(vbs))

\* The kinds of a request can be planned one beside the other
LEMMA ClassesArePlannable ==
    ASSUME NEW vbs, Deployable(vbs), NEW classes, classes = ClassifyVolumeBindings(vbs)
    PROVE  ClassesOk(classes) /\ Plannable(classes, vbs)
<1>1. RequestOk(vbs) /\ ValidBindings(vbs) /\ vbs \in SUBSET VolumeBinding
  BY DEF Deployable, RequestOk, Bindings
<1>2. ClassesOk(classes) /\ Classified(vbs, classes)
  BY <1>1, ClassesAreOk
<1>3. \A vb \in vbs : Wanted(vb)
  BY <1>1 DEF Deployable, Wanted, ValidBindings
<1>4. /\ classes.mono \in Seq(MonosIn(vbs)) /\ classes.normal \in Seq(NormalsIn(vbs))
      /\ classes.mount \in Seq({vb \in vbs : ~RequireSchedule(vb)})
      /\ \A i \in 1..Len(classes.mono), j \in 1..Len(classes.mono) :
            classes.mono[i] = classes.mono[j] => i = j
      /\ classes.unlimited = UnlimitedIn(vbs)
  BY <1>2 DEF Classified, Lists, MonosIn, NormalsIn, UnlimitedIn
<1>5. Listed(classes.normal, classes.mount, NormalsIn(vbs))
  <2>1. \A k \in 1..Len(classes.normal) : classes.normal[k] \in NormalsIn(vbs)
    BY <1>4, MembersAreIn
  <2>2. \A k \in 1..Len(classes.mount) : classes.mount[k] \in {vb \in vbs : ~RequireSchedule(vb)}
    BY <1>4, MembersAreIn
  <2>3. \A vb \in NormalsIn(vbs) : vb \in vbs
    BY DEF NormalsIn
  <2>4. classes.normal \in Seq(VolumeBinding) /\ classes.mount \in Seq(VolumeBinding)
    BY <1>2 DEF ClassesOk
  <2> QED
    BY <1>3, <2>1, <2>2, <2>3, <2>4 DEF Listed
<1>6. \A k \in 1..Len(classes.mono) : classes.mono[k] \in MonosIn(vbs)
  BY <1>4, MembersAreIn
<1>7. Grouped(classes.mono) \/ classes.mono = <<>>
  <2>1. \A k \in 1..Len(classes.mono) : Covers(classes.mono[k].io, NoIO)
    BY <1>3, <1>6 DEF MonosIn, Wanted
  <2> QED
    BY <1>2, <1>4, <2>1 DEF ClassesOk, Grouped
<1>8. ToSet(classes.mono) \subseteq MonosIn(vbs)
  BY <1>4, MembersAreIn
<1>9. IsFiniteSet(classes.unlimited) /\ \A vb \in classes.unlimited : vb.size = 0
  BY <1>2, <1>4 DEF ClassesOk, UnlimitedIn, IsUnlimited, RequireScheduleUnlimitedQuota
<1>10. Kinds(NormalsIn(vbs), MonosIn(vbs), UnlimitedIn(vbs))
  <2>1. NormalsIn(vbs) \cap MonosIn(vbs) = {}
    BY DEF NormalsIn, MonosIn, IsNormal
  <2>2. NormalsIn(vbs) \cap UnlimitedIn(vbs) = {}
    BY DEF NormalsIn, UnlimitedIn, IsNormal, IsUnlimited
  <2>3. MonosIn(vbs) \cap UnlimitedIn(vbs) = {}
    BY DEF MonosIn, UnlimitedIn, IsUnlimited
  <2>4. NormalsIn(vbs) \subseteq vbs /\ MonosIn(vbs) \subseteq vbs /\ UnlimitedIn(vbs) \subseteq vbs
    BY DEF NormalsIn, MonosIn, UnlimitedIn
  <2>5. \A A \in SUBSET vbs, B \in SUBSET vbs : A \cap B = {} => Separate(A, B)
    BY DEF Separate, Deployable
  <2> QED
    BY <2>1, <2>2, <2>3, <2>4, <2>5 DEF Kinds
<1> QED
  BY <1>2, <1>4, <1>5, <1>7, <1>8, <1>9, <1>10 DEF Plannable

\* What is planned for a host is afforded by the host
LEMMA EvaluationIsAfforded ==
    ASSUME NEW D \in SUBSET Devices, NEW N \in SUBSET DiskNames, NEW h, NEW classes,
           ClassesOk(classes), NEW vbs, Plannable(classes, vbs), NEW count \in Nat,
           NEW host \in HostsOn(D, N), Solvent(host), Len(h.unused) \in Nat,
           NEW best, best = EvaluatePlans(h, classes, count, host)
    PROVE  SideBySide(host, best.normals, best.monos, NormalsIn(vbs), MonosIn(vbs))
<1> DEFINE P == PlannedOn(D, N)
           bound == NormalBound(h, count, classes)
           normal == GetNormalPlans(host, count, classes.normal, classes.mount, bound)
           limit == IF classes.unlimited = {} THEN Larger(count, Len(normal.plans) + 1) ELSE MaxInt
           mono == GetMonoPlans(normal.host, count, classes.mono, limit)
<1>1. bound \in Nat
  BY MaxIntAssumption DEF NormalBound, Larger
<1>2. best = [normal |-> Len(normal.plans), mono |-> Len(mono.plans),
              normals |-> normal.plans, monos |-> mono.plans]
  BY DEF EvaluatePlans
<1> HIDE DEF bound
<1>3. normal.host \in HostsOn(D, N) /\ normal.plans \in Seq(P)
  BY <1>1, NormalPlansAreOn DEF ClassesOk
<1>4. PaidUp(host, normal, NormalsIn(vbs))
  BY <1>1, NormalPlansArePaid DEF Plannable
<1> HIDE DEF normal, limit
<1>5. mono.host \in HostsOn(D, N) /\ mono.plans \in Seq(P)
  BY <1>3, MonoPlansAreOn DEF ClassesOk
<1>6. PaidUp(normal.host, mono, MonosIn(vbs))
  BY <1>3, <1>4, MonoPlansArePaid DEF Plannable, PaidUp
<1> HIDE DEF mono
<1>7. best.normals = normal.plans /\ best.monos = mono.plans
  BY <1>2
<1> QED
  BY <1>3, <1>4, <1>5, <1>6, <1>7, PaidSideBySide DEF PaidUp

\* The plans of all kinds, as many as are asked for at most, are afforded
LEMMA ClassesPlansAreAfforded ==
    ASSUME NEW D \in SUBSET Devices, NEW N \in SUBSET DiskNames, NEW h \in HostsOn(D, N),
           Solvent(h), NEW classes, ClassesOk(classes), NEW vbs, Plannable(classes, vbs),
           NEW count \in Nat, NEW plans, plans = PlansOfClasses(h, classes, count)
    PROVE  Len(plans) <= count /\ Afforded(h, plans, vbs)
<1> DEFINE P == PlannedOn(D, N)
           E == EvaluationsOn(D, N)
           A == NormalsIn(vbs)
           B == MonosIn(vbs)
           C == UnlimitedIn(vbs)
           V == {s \in [host : HostsOn(D, N), best : E] :
                    /\ s.host.free = h.free /\ s.host.disks = h.disks
                    /\ SideBySide(h, s.best.normals, s.best.monos, A, B)}
           first == [host |-> h, best |-> EvaluatePlans(h, classes, count, h)]
           last == Promoted(h, classes, count)
           unlimited == GetUnlimitedPlan(last.host, last.best.normals \o last.best.monos,
                                         classes.unlimited)
           n == Min({last.best.normal, last.best.mono, count})
<1>1. CASE NoVolumes(h, classes)
  <2>1. plans = <<>>
    BY <1>1 DEF PlansOfClasses
  <2>2. PaysAll(h, h, <<>>, vbs)
    BY NonePays
  <2>3. Len(<<>>) = 0 /\ (\A device : AllSpace(<<>>, device) = 0)
        /\ (\A name, rate : AllUses(<<>>, name, rate) = 0)
    <3>1. Len(<<>>) = 0 /\ 1..0 = {}
      OBVIOUS
    <3> QED
      BY <3>1, SumOfNone DEF AllSpace, AllUses
  <2>4. \A i \in 1..0 : Takes(<<>>[i], vbs)
    OBVIOUS
  <2>5. Len(plans) = 0 /\ (\A device : AllSpace(plans, device) = 0)
        /\ (\A name, rate : AllUses(plans, name, rate) = 0)
        /\ \A i \in 1..0 : Takes(plans[i], vbs)
    BY <2>1, <2>3, <2>4
  <2> QED
    BY <2>5 DEF Afforded, Solvent
<1>2. CASE ~NoVolumes(h, classes)
  <2>1. plans = JoinPlans(n, last.best.normals, last.best.monos, unlimited)
    BY <1>2 DEF PlansOfClasses, BestPlans, Promoted
  <2>2. Len(h.unused) \in Nat
    <3>1. h.unused \in Seq(D)
      BY DEF HostsOn
    <3> QED
      BY <3>1
  <2>3. ASSUME NEW host \in HostsOn(D, N), host.free = h.free, host.disks = h.disks
        PROVE  [host |-> host, best |-> EvaluatePlans(h, classes, count, host)] \in V
    <3> DEFINE best == EvaluatePlans(h, classes, count, host)
    <3>1. Solvent(host)
      BY <2>3 DEF Solvent
    <3>2. best \in E
      BY <2>2, EvaluationIsOn
    <3>3. SideBySide(host, best.normals, best.monos, A, B)
      BY <2>2, <3>1, EvaluationIsAfforded
    <3> HIDE DEF best, A, B, E
    <3>4. SideBySide(h, best.normals, best.monos, A, B)
      BY <2>3, <3>3 DEF SideBySide
    <3> QED
      BY <2>3, <3>2, <3>4 DEF best
  <2>4. first \in V
    BY <2>3
  <2>5. ASSUME NEW s \in V
        PROVE  Opening(s, h, classes, count) \in V
    <3> DEFINE p == Candidate(s.host, classes.normal)
               host == Open(s.host, p)
               opened == [host |-> host, best |-> EvaluatePlans(h, classes, count, host)]
    <3>1. Opening(s, h, classes, count) =
            IF WorthOpening(s.best, count) /\ p \in DOMAIN s.host.unused THEN opened ELSE s
      BY DEF Opening, PromoteOne
    <3> HIDE DEF p
    <3>2. s.host \in HostsOn(D, N) /\ s.host.free = h.free /\ s.host.disks = h.disks
      <4> HIDE DEF E, A, B
      <4> QED
        OBVIOUS
    <3>3. p \in DOMAIN s.host.unused => opened \in V
      <4>1. SUFFICES ASSUME p \in DOMAIN s.host.unused
                     PROVE  opened \in V
        OBVIOUS
      <4>2. host \in HostsOn(D, N)
        BY <3>2, <4>1, OpenedStays
      <4>3. host.free = s.host.free /\ host.disks = s.host.disks
        BY <3>2 DEF Open, HostsOn
      <4> HIDE DEF host, V
      <4> QED
        BY <2>3, <3>2, <4>2, <4>3
    <3> HIDE DEF opened, V
    <3> QED
      BY <3>1, <3>3
  <2> HIDE DEF V
  <2>6. last \in V
    <3>1. Len(h.unused) \in 0..Len(h.unused)
      BY <2>2
    <3> QED
      BY <2>2, <2>4, <2>5, <3>1, PromotionsRun DEF RunsPromotions
  <2> HIDE DEF last
  <2>7. last.best \in E /\ SideBySide(h, last.best.normals, last.best.monos, A, B)
    <3> HIDE DEF E, A, B
    <3> QED
      BY <2>6 DEF V
  <2>8. /\ last.best.normals \in Seq(P) /\ last.best.monos \in Seq(P)
        /\ last.best.normal = Len(last.best.normals) /\ last.best.mono = Len(last.best.monos)
        /\ last.best.normal \in Nat /\ last.best.mono \in Nat
    <3> HIDE DEF P
    <3> QED
      BY <2>7 DEF EvaluationsOn, P
  <2>9. Weightless(unlimited, C)
    <3>1. IsFiniteSet(classes.unlimited) /\ classes.unlimited = C
          /\ \A vb \in classes.unlimited : vb.size = 0
      BY DEF Plannable
    <3> HIDE DEF C
    <3> QED
      BY <3>1, UnlimitedTakesNothing DEF Weightless
  <2> HIDE DEF unlimited
  <2>10. n \in Nat /\ n <= Len(last.best.normals) /\ n <= Len(last.best.monos) /\ n <= count
    <3>1. count \in Int /\ last.best.normal \in Int /\ last.best.mono \in Int
      BY <2>8
    <3>2. /\ n \in {last.best.normal, last.best.mono, count}
          /\ n <= last.best.normal /\ n <= last.best.mono /\ n <= count
      BY <3>1, LeastOfThree
    <3> HIDE DEF n
    <3>3. n \in Nat
      BY <2>8, <3>2
    <3> QED
      BY <2>8, <3>2, <3>3
  <2> HIDE DEF n
  <2>11. Kinds(A, B, C)
    BY DEF Plannable
  <2>12. A \cup B \cup C \subseteq vbs
    BY DEF NormalsIn, MonosIn, UnlimitedIn
  <2> HIDE DEF A, B, C
  <2>13. Len(plans) = n /\ Afforded(h, plans, A \cup B \cup C)
    <3> DEFINE normals == last.best.normals
               monos == last.best.monos
    <3>1. /\ normals \in Seq(P) /\ monos \in Seq(P) /\ n \in Nat /\ n <= Len(normals)
          /\ n <= Len(monos) /\ SideBySide(h, normals, monos, A, B)
          /\ plans = JoinPlans(n, normals, monos, unlimited)
      BY <2>1, <2>7, <2>8, <2>10
    <3> HIDE DEF normals, monos
    <3> QED
      BY <2>9, <2>11, <3>1, JoinedAreAfforded
  <2>14. Afforded(h, plans, vbs)
    BY <2>12, <2>13 DEF Afforded, Takes
  <2> QED
    BY <2>10, <2>13, <2>14
<1> QED
  BY <1>1, <1>2

\* The plans of a request are afforded
LEMMA VolumePlansAreAfforded ==
    ASSUME NEW D \in SUBSET Devices, NEW N \in SUBSET DiskNames, NEW h \in HostsOn(D, N),
           Solvent(h), NEW vbs, Deployable(vbs), NEW count \in Nat, NEW plans,
           plans = VolumePlansOn(h, vbs, count)
    PROVE  Len(plans) <= count /\ Afforded(h, plans, vbs)
<1>1. CASE NeedSchedule(vbs)
  <2>1. plans = PlansOfClasses(h, ClassifyVolumeBindings(vbs), count)
    BY <1>1 DEF VolumePlansOn
  <2>2. /\ ClassesOk(ClassifyVolumeBindings(vbs))
        /\ Plannable(ClassifyVolumeBindings(vbs), vbs)
    BY ClassesArePlannable
  <2> QED
    BY <2>1, <2>2, ClassesPlansAreAfforded
<1>2. CASE ~NeedSchedule(vbs)
  <2>1. plans = Repeat(count, NoPlan)
    BY <1>2 DEF VolumePlansOn
  <2>2. Len(plans) = count
    BY <2>1, RepeatedOften
  <2>3. PaysAll(h, h, plans, vbs)
    BY <2>1, FreePlansArePaid
  <2>4. /\ DOMAIN h.free = D /\ \A device \in D : h.free[device] \in Int
        /\ DOMAIN h.disks = N /\ \A name \in N : \A rate \in Rates : h.disks[name].io[rate] \in Int
    BY DEF HostsOn, DiskCapacity, IO
  <2>5. plans \in Seq(PlannedOn(D, N))
    BY <2>1, EmptyPlansStay, RepeatsAreOn
  <2>6. Len(plans) \in Nat /\ DOMAIN plans = 1..Len(plans)
    BY <2>5
  <2>7. \A i \in 1..Len(plans) : Takes(plans[i], vbs)
    BY <2>3 DEF PaysAll
  <2>8. ASSUME NEW device \in D
        PROVE  AllSpace(plans, device) <= h.free[device]
    <3>1. AllSpace(plans, device) \in Nat
      BY <2>6, <2>7, TakenIsNat
    <3>2. h.free[device] + AllSpace(plans, device) <= h.free[device]
      BY <2>3, <2>4 DEF PaysAll
    <3>3. h.free[device] >= 0
      BY <2>4 DEF Solvent
    <3> QED
      BY <2>4, <3>1, <3>2, <3>3
  <2>9. ASSUME NEW name \in N, NEW rate \in Rates
        PROVE  AllUses(plans, name, rate) <= h.disks[name].io[rate]
    <3>0. name \in DiskNames
      OBVIOUS
    <3>1. AllUses(plans, name, rate) \in Nat
      BY <2>6, <2>7, <3>0, TakenIsNat
    <3>2. h.disks[name].io[rate] + AllUses(plans, name, rate) <= h.disks[name].io[rate]
      BY <2>3, <2>4 DEF PaysAll
    <3>3. h.disks[name].io[rate] >= 0
      BY <2>4 DEF Solvent
    <3> QED
      BY <2>4, <3>1, <3>2, <3>3
  <2> QED
    BY <2>2, <2>4, <2>7, <2>8, <2>9 DEF Afforded
<1> QED
  BY <1>1, <1>2

-----------------------------------------------------------------------------
(* What is afforded is booked                                               *)

\* A host is what its node has left
HostOf(h, inf, D, N) ==
    /\ D \in SUBSET Devices /\ N \in SUBSET DiskNames /\ inf.capacity \in CapacitiesOn(D, N)
    /\ h \in HostsOn(D, N) /\ Solvent(h)
    /\ \A device \in D :
          h.free[device] = inf.capacity.volumes[device] - inf.usage.volumes[device]
    /\ \A name \in N : \A rate \in Rates :
          h.disks[name].io[rate] = inf.capacity.disks[name].io[rate]
                                   - UsedOf(inf.usage.disks, name)[rate]

\* The host of a record that is stored owes nothing
LEMMA NewHostIsSolvent ==
    ASSUME NEW inf, Sound(inf), NEW h, h = NewHost(inf)
    PROVE  \E D \in SUBSET Devices, N \in SUBSET DiskNames : HostOf(h, inf, D, N)
<1>1. PICK D \in SUBSET Devices, N \in SUBSET DiskNames : inf.capacity \in CapacitiesOn(D, N)
  BY DEF Sound, IsInfo, IsCapacity
<1>2. PICK M \in SUBSET DiskNames : inf.usage \in UsagesOn(M)
  BY DEF Sound, IsInfo, IsUsage
<1>3. h \in HostsOn(D, N)
  BY <1>1, <1>2, NewHostIsOn
<1>4. /\ DOMAIN inf.capacity.volumes = D /\ DOMAIN inf.capacity.disks = N
      /\ DOMAIN h.free = D /\ DOMAIN h.disks = N
      /\ \A device \in D : inf.capacity.volumes[device] \in Int
      /\ \A name \in N : \A rate \in Rates : inf.capacity.disks[name].io[rate] \in Int
  BY <1>1, <1>3 DEF CapacitiesOn, HostsOn, DiskCapacity, IO
<1>5. IsUsage(inf.usage)
  BY DEF Sound, IsInfo
<1>6. \A device \in D :
         h.free[device] = inf.capacity.volumes[device] - inf.usage.volumes[device]
  BY <1>4 DEF NewHost
<1>7. \A name \in N : \A rate \in Rates :
         h.disks[name].io[rate] = inf.capacity.disks[name].io[rate]
                                  - UsedOf(inf.usage.disks, name)[rate]
  <2> TAKE name \in N
  <2> TAKE rate \in Rates
  <2> DEFINE io == SubIO(inf.capacity.disks[name].io, UsedOf(inf.usage.disks, name))
  <2>1. h.disks[name] = [inf.capacity.disks[name] EXCEPT !.io = io]
    BY <1>4 DEF NewHost
  <2>2. inf.capacity.disks[name] \in DiskCapacity
    BY <1>1, <1>4 DEF CapacitiesOn
  <2>3. io[rate] = inf.capacity.disks[name].io[rate] - UsedOf(inf.usage.disks, name)[rate]
    BY DEF SubIO
  <2> HIDE DEF io
  <2>4. h.disks[name].io = io
    BY <2>1, <2>2 DEF DiskCapacity
  <2> QED
    BY <2>3, <2>4
<1>8. ASSUME NEW device \in D
      PROVE  h.free[device] >= 0
  <2>1. inf.usage.volumes[device] \in 0..inf.capacity.volumes[device]
    BY <1>4 DEF Sound, ValidInfo, ValidVolumes
  <2>2. inf.usage.volumes[device] <= inf.capacity.volumes[device]
        /\ inf.usage.volumes[device] \in Int /\ inf.capacity.volumes[device] \in Int
    BY <1>4, <2>1
  <2> QED
    BY <1>6, <2>2
<1>9. ASSUME NEW name \in N, NEW rate \in Rates
      PROVE  h.disks[name].io[rate] >= 0
  <2> DEFINE has == inf.capacity.disks[name].io[rate]
             used == UsedOf(inf.usage.disks, name)[rate]
  <2>1. has \in Int /\ used \in Int
    <3>1. name \in DiskNames
      OBVIOUS
    <3> QED
      BY <1>4, <1>5, <3>1, UsageParts
  <2>2. has >= used
    <3>1. ValidDisks(inf)
      BY DEF Sound, ValidInfo
    <3>2. CASE name \in DOMAIN inf.usage.disks
      <4>1. Covers(inf.capacity.disks[name].io, inf.usage.disks[name])
        BY <1>4, <3>1, <3>2 DEF ValidDisks
      <4>2. UsedOf(inf.usage.disks, name) = inf.usage.disks[name]
        BY <3>2 DEF UsedOf
      <4> QED
        BY <4>1, <4>2 DEF Covers
    <3>3. CASE name \notin DOMAIN inf.usage.disks
      <4>1. Covers(inf.capacity.disks[name].io, NoIO)
        BY <1>4, <3>1 DEF ValidDisks
      <4>2. UsedOf(inf.usage.disks, name) = NoIO
        BY <3>3 DEF UsedOf
      <4> QED
        BY <4>1, <4>2 DEF Covers
    <3> QED
      BY <3>2, <3>3
  <2>3. h.disks[name].io[rate] = has - used
    BY <1>7
  <2> HIDE DEF has, used
  <2> QED
    BY <2>1, <2>2, <2>3
<1>10. Solvent(h)
  BY <1>4, <1>8, <1>9 DEF Solvent
<1>11. HostOf(h, inf, D, N)
  BY <1>1, <1>3, <1>6, <1>7, <1>10 DEF HostOf
<1> QED
  BY <1>11

\* New workloads with these plans, each with so much storage
Follow(works, plans, storage) ==
    /\ DOMAIN works = 1..Len(plans)
    /\ \A i \in 1..Len(plans) : /\ WorkOk(works[i]) /\ works[i].storage = storage
                                /\ works[i].plan = plans[i].plan
                                /\ works[i].disks = plans[i].disks

\* What they take of the node is what the plans take of the host
LEMMA FollowersTake ==
    ASSUME NEW works, NEW plans, Len(plans) \in Nat, DOMAIN plans = 1..Len(plans),
           NEW storage \in Nat, Follow(works, plans, storage), NEW taken, taken = HeldBy(works)
    PROVE  /\ DOMAIN taken = 1..Len(plans) /\ \A i \in 1..Len(plans) : IsUsage(taken[i])
           /\ \A device \in Devices :
                 SumOver(VolumeTaken(taken, device), 1..Len(plans)) = AllSpace(plans, device)
           /\ \A name : \A rate :
                 SumOver(RateTaken(taken, name, rate), 1..Len(plans)) = AllUses(plans, name, rate)
           /\ SumOver(StorageTaken(taken), 1..Len(plans)) = Len(plans) * storage
           /\ \A i \in 1..Len(plans) : DOMAIN taken[i].disks = DOMAIN plans[i].disks
<1> DEFINE n == Len(plans)
<1>1. DOMAIN taken = 1..n /\ \A i \in 1..n : taken[i] = Held(works[i])
  BY DEF HeldBy, Follow
<1>2. \A i \in 1..n : IsUsage(taken[i])
  BY <1>1, HeldIsUsage DEF Follow
<1>3. \A i \in 1..n : /\ taken[i].volumes = PlannedVolumes(plans[i].plan)
                      /\ taken[i].disks = plans[i].disks
                      /\ taken[i].storage = storage
  BY <1>1 DEF Held, Follow
<1>4. ASSUME NEW device \in Devices
      PROVE  SumOver(VolumeTaken(taken, device), 1..n) = AllSpace(plans, device)
  <2> DEFINE f == VolumeTaken(taken, device)
             g == SpaceIn(plans, device)
  <2>1. \A i \in 1..n : f[i] = g[i]
    <3> TAKE i \in 1..n
    <3>1. f[i] = PlannedVolumes(plans[i].plan)[device]
      BY <1>1, <1>3 DEF VolumeTaken
    <3>2. g[i] = Space(plans[i].plan, device)
      BY DEF SpaceIn
    <3> QED
      BY <3>1, <3>2, SpaceIsPlanned
  <2> HIDE DEF f, g
  <2> QED
    BY <2>1, SumSame DEF AllSpace, f, g
<1>5. ASSUME NEW name, NEW rate
      PROVE  SumOver(RateTaken(taken, name, rate), 1..n) = AllUses(plans, name, rate)
  <2> DEFINE f == RateTaken(taken, name, rate)
             g == UsesIn(plans, name, rate)
  <2>1. \A i \in 1..n : f[i] = g[i]
    BY <1>1, <1>3 DEF RateTaken, UsesIn
  <2> HIDE DEF f, g
  <2> QED
    BY <2>1, SumSame DEF AllUses, f, g
<1>6. SumOver(StorageTaken(taken), 1..n) = n * storage
  <2> DEFINE f == StorageTaken(taken)
  <2>1. \A i \in 1..n : f[i] = storage
    BY <1>1, <1>3 DEF StorageTaken
  <2> HIDE DEF f, n
  <2>2. n \in Nat /\ storage \in Int
    BY DEF n
  <2>3. SumOver(f, 1..n) = n * storage
    BY <2>1, <2>2, SumRepeats
  <2> QED
    BY <2>3 DEF f
<1>7. \A i \in 1..n : DOMAIN taken[i].disks = DOMAIN plans[i].disks
  BY <1>3
<1> QED
  BY <1>1, <1>2, <1>4, <1>5, <1>6, <1>7

\* The usage that follows a booking of these plans: the storage of all of them is gone
BookedFor(set, inf, plans, storage) ==
    set.ok /\ FreeStorage(set.info) = FreeStorage(inf) - Len(plans) * storage

\* What the host has can be booked
LEMMA AffordedIsBooked ==
    ASSUME NEW inf, Sound(inf), NEW h, NEW D, NEW N, HostOf(h, inf, D, N),
           NEW plans \in Seq(PlannedOn(D, N)), NEW vbs, Afforded(h, plans, vbs),
           NEW storage \in Nat, NEW works, Follow(works, plans, storage),
           NEW set, set = Book(inf, HeldBy(works), TRUE)
    PROVE  BookedFor(set, inf, plans, storage)
<1> DEFINE n == Len(plans)
           taken == HeldBy(works)
           usage == TakeAll(inf.usage, taken, TRUE)
           next == [capacity |-> inf.capacity, usage |-> usage]
           has == inf.capacity
           used == inf.usage
<1>1. /\ n \in Nat /\ DOMAIN plans = 1..n
      /\ D \in SUBSET Devices /\ N \in SUBSET DiskNames /\ has \in CapacitiesOn(D, N)
      /\ \A i \in 1..n : plans[i] \in PlannedOn(D, N)
  BY MembersAreIn DEF HostOf
<1>2. /\ DOMAIN has.volumes = D /\ DOMAIN has.disks = N /\ has.storage \in Int
      /\ \A device \in D : has.volumes[device] \in Int
      /\ \A name \in N : \A rate \in Rates : has.disks[name].io[rate] \in Int
  BY <1>1 DEF CapacitiesOn, DiskCapacity, IO
<1>3. DOMAIN h.free = D /\ DOMAIN h.disks = N
  BY DEF HostOf, HostsOn
<1>4. IsUsage(used) /\ DOMAIN used.disks \subseteq N /\ IsCapacity(has)
  BY <1>2 DEF Sound, IsInfo
<1>5. /\ DOMAIN taken = 1..n /\ (\A i \in 1..n : IsUsage(taken[i]))
      /\ \A i \in 1..n : DOMAIN taken[i].disks = DOMAIN plans[i].disks
  BY <1>1, FollowersTake
<1>6. Totals(usage, used, taken, 1..n)
  <2> HIDE DEF taken, n, used
  <2> QED
    BY <1>1, <1>4, <1>5, BookedAddsUp DEF used
<1>7. \A device \in Devices : usage.volumes[device] = used.volumes[device] + AllSpace(plans, device)
  <2> TAKE device \in Devices
  <2>1. SumOver(VolumeTaken(taken, device), 1..n) = AllSpace(plans, device)
    BY <1>1, FollowersTake
  <2>2. usage.volumes[device] = used.volumes[device] + SumOver(VolumeTaken(taken, device), 1..n)
    <3> HIDE DEF usage, used, taken, n
    <3> QED
      BY <1>6 DEF Totals
  <2> QED
    BY <2>1, <2>2
<1>8. \A name \in DiskNames : \A rate \in Rates :
         UsedOf(usage.disks, name)[rate] = UsedOf(used.disks, name)[rate] + AllUses(plans, name, rate)
  <2> TAKE name \in DiskNames
  <2> TAKE rate \in Rates
  <2>1. SumOver(RateTaken(taken, name, rate), 1..n) = AllUses(plans, name, rate)
    BY <1>1, FollowersTake
  <2>2. UsedOf(usage.disks, name)[rate] = UsedOf(used.disks, name)[rate]
                                          + SumOver(RateTaken(taken, name, rate), 1..n)
    <3> HIDE DEF usage, used, taken, n
    <3> QED
      BY <1>6 DEF Totals
  <2> QED
    BY <2>1, <2>2
<1>9. usage.storage = used.storage + n * storage
  <2>1. SumOver(StorageTaken(taken), 1..n) = n * storage
    BY <1>1, FollowersTake
  <2>2. usage.storage = used.storage + SumOver(StorageTaken(taken), 1..n)
    <3> HIDE DEF usage, used, taken, n
    <3> QED
      BY <1>6 DEF Totals
  <2> QED
    BY <2>1, <2>2
<1>10. DOMAIN usage.disks \subseteq N
  <2>1. \A i \in 1..n : DOMAIN plans[i].disks \subseteq N
    BY <1>1, DiskPlanParts DEF PlannedOn
  <2>2. DOMAIN usage.disks \subseteq DOMAIN used.disks \cup UNION {DOMAIN taken[i].disks : i \in 1..n}
    <3> HIDE DEF usage, used, taken, n
    <3> QED
      BY <1>6 DEF Totals
  <2> HIDE DEF usage, taken, used
  <2> QED
    BY <1>4, <1>5, <2>1, <2>2
<1>11. /\ \A device : AllSpace(plans, device) \in Nat
       /\ \A name \in DiskNames : \A rate \in Rates : AllUses(plans, name, rate) \in Nat
  <2>1. \A i \in 1..Len(plans) : Takes(plans[i], vbs)
    BY DEF Afforded
  <2>2. \A device : AllSpace(plans, device) \in Nat
    BY <1>1, <2>1, TakenIsNat
  <2>3. \A name \in DiskNames, rate \in Rates : AllUses(plans, name, rate) \in Nat
    BY <1>1, <2>1, TakenIsNat
  <2> QED
    BY <2>2, <2>3
<1>12. IsUsage(usage)
  <2> HIDE DEF usage, used, taken
  <2> QED
    BY <1>6 DEF Totals
<1>13. ValidVolumes(inf) /\ ValidStorage(inf) /\ ValidDisks(inf)
  BY DEF Sound, ValidInfo
<1>14. n * storage \in Nat
  <2> HIDE DEF n
  <2> QED
    BY <1>1
<1>15. Book(inf, taken, TRUE) = Put(inf, next)
  <2>1. NextUsage(inf.usage, Nil, Nil, taken, TRUE, TRUE) = usage
    BY DEF NextUsage, Charged
  <2>2. \A x : [inf EXCEPT !.usage = x] = [capacity |-> has, usage |-> x]
    BY DEF Sound, IsInfo
  <2>3. [inf EXCEPT !.usage = NextUsage(@, Nil, Nil, taken, TRUE, TRUE)] = next
    <3>1. [inf EXCEPT !.usage = NextUsage(@, Nil, Nil, taken, TRUE, TRUE)] = [inf EXCEPT !.usage = usage]
      BY <2>1
    <3> HIDE DEF usage
    <3> QED
      BY <2>2, <3>1
  <2> HIDE DEF next, taken
  <2> QED
    BY <2>3 DEF Book, SetNodeResourceUsage
<1>16. /\ \A device \in D : /\ used.volumes[device] \in Int /\ used.volumes[device] >= 0
                            /\ h.free[device] = has.volumes[device] - used.volumes[device]
                            /\ AllSpace(plans, device) <= h.free[device]
       /\ \A name \in N : \A rate \in Rates :
             /\ UsedOf(used.disks, name)[rate] \in Int
             /\ h.disks[name].io[rate] = has.disks[name].io[rate] - UsedOf(used.disks, name)[rate]
             /\ AllUses(plans, name, rate) <= h.disks[name].io[rate]
  <2>1. \A device \in D : used.volumes[device] \in 0..has.volumes[device]
    BY <1>2, <1>13 DEF ValidVolumes
  <2>2. \A device \in D : used.volumes[device] \in Int /\ used.volumes[device] >= 0
    <3> HIDE DEF used, has
    <3> QED
      BY <1>2, <2>1
  <2>3. \A name \in DiskNames : \A rate \in Rates : UsedOf(used.disks, name)[rate] \in Int
    BY <1>4, UsageParts
  <2> QED
    BY <1>1, <1>3, <2>2, <2>3 DEF Afforded, HostOf
<1>17. \A name \in N : \A rate \in Rates : UsedOf(used.disks, name)[rate] >= 0
  <2> TAKE name \in N
  <2> TAKE rate \in Rates
  <2>1. CASE name \in DOMAIN used.disks
    <3>1. Covers(used.disks[name], NoIO)
      BY <1>2, <1>13, <2>1 DEF ValidDisks
    <3> QED
      BY <2>1, <3>1 DEF Covers, NoIO, UsedOf
  <2>2. CASE name \notin DOMAIN used.disks
    BY <2>2 DEF UsedOf, NoIO
  <2> QED
    BY <2>1, <2>2
<1>18. used.storage \in Int /\ used.storage >= 0 /\ has.storage >= 0
  BY <1>4, <1>13, UsageParts DEF ValidStorage
<1>19. \A name \in N : Covers(has.disks[name].io, NoIO)
  BY <1>2, <1>13 DEF ValidDisks
<1> HIDE DEF usage, taken, used, has, n
<1>20. next.capacity = has /\ next.usage = usage
  BY DEF next, has
<1>21. IsInfo(next)
  BY <1>4, <1>12, <1>20 DEF IsInfo, next, has
<1> HIDE DEF next
<1>22. ValidVolumes(next)
  <2>1. ASSUME NEW device \in D
        PROVE  usage.volumes[device] \in 0..has.volumes[device]
    <3>1. usage.volumes[device] = used.volumes[device] + AllSpace(plans, device)
      BY <1>1, <1>7
    <3>2. AllSpace(plans, device) \in Nat
      BY <1>11
    <3>3. /\ used.volumes[device] \in Int /\ used.volumes[device] >= 0
          /\ AllSpace(plans, device) <= has.volumes[device] - used.volumes[device]
      BY <1>16
    <3>4. has.volumes[device] \in Int
      BY <1>2
    <3> DEFINE space == AllSpace(plans, device)
    <3> HIDE DEF space
    <3>5. /\ space \in Int /\ space >= 0 /\ space <= has.volumes[device] - used.volumes[device]
          /\ usage.volumes[device] = used.volumes[device] + space
      BY <3>1, <3>2, <3>3 DEF space
    <3> QED
      BY <3>3, <3>4, <3>5
  <2> QED
    BY <1>2, <1>20, <2>1 DEF ValidVolumes
<1>23. ValidStorage(next)
  BY <1>9, <1>14, <1>18, <1>20 DEF ValidStorage
<1>24. ValidDisks(next)
  <2>1. ASSUME NEW name \in N, NEW rate \in Rates
        PROVE  /\ UsedOf(usage.disks, name)[rate] >= 0
               /\ has.disks[name].io[rate] >= UsedOf(usage.disks, name)[rate]
    <3> DEFINE uses == AllUses(plans, name, rate)
               before == UsedOf(used.disks, name)[rate]
               after == UsedOf(usage.disks, name)[rate]
               quota == has.disks[name].io[rate]
    <3>0. name \in DiskNames
      BY <1>1
    <3>1. after = before + uses /\ uses \in Nat
      BY <1>8, <1>11, <3>0
    <3>2. before \in Int /\ before >= 0 /\ uses <= quota - before /\ quota \in Int
      BY <1>2, <1>16, <1>17
    <3> HIDE DEF uses, before, after, quota
    <3>3. after >= 0 /\ quota >= after
      BY <3>1, <3>2
    <3> QED
      BY <3>3 DEF after, quota
  <2>2. \A name \in N : name \in DOMAIN usage.disks =>
           /\ Covers(usage.disks[name], NoIO) /\ Covers(has.disks[name].io, usage.disks[name])
    <3> TAKE name \in N
    <3>1. SUFFICES ASSUME name \in DOMAIN usage.disks
                   PROVE  /\ Covers(usage.disks[name], NoIO)
                          /\ Covers(has.disks[name].io, usage.disks[name])
      OBVIOUS
    <3>2. UsedOf(usage.disks, name) = usage.disks[name]
      BY <3>1 DEF UsedOf
    <3>3. \A rate \in Rates : usage.disks[name][rate] >= 0
                              /\ has.disks[name].io[rate] >= usage.disks[name][rate]
      BY <2>1, <3>2
    <3> QED
      BY <3>3 DEF Covers, NoIO
  <2> QED
    BY <1>2, <1>10, <1>19, <1>20, <2>2 DEF ValidDisks
<1>25. ValidInfo(next)
  BY <1>22, <1>23, <1>24 DEF ValidInfo
<1>26. set = Put(inf, next)
  BY <1>15 DEF taken
<1>27. Put(inf, next).ok
  BY <1>25 DEF Put
<1>28. set.ok /\ set.info.capacity = next.capacity /\ set.info.usage.storage = next.usage.storage
  <2>1. PICK record : record = Put(inf, next).info
    OBVIOUS
  <2>2. record.capacity = next.capacity
    BY <1>21, <1>27, <2>1, PutStores
  <2>3. record.usage.storage = next.usage.storage
    BY <1>21, <1>27, <2>1, PutStores
  <2>4. set.ok /\ set.info = record
    BY <1>26, <1>27, <2>1
  <2> QED
    BY <2>2, <2>3, <2>4
<1>29. FreeStorage(set.info) = has.storage - (used.storage + n * storage)
  BY <1>9, <1>20, <1>28 DEF FreeStorage
<1>30. FreeStorage(inf) = has.storage - used.storage
  BY DEF FreeStorage, has, used
<1>31. FreeStorage(set.info) = FreeStorage(inf) - n * storage
  <2> DEFINE c == n * storage
             a == has.storage
             b == used.storage
  <2>1. a \in Int /\ b \in Int /\ c \in Int
    BY <1>2, <1>14, <1>18
  <2>2. FreeStorage(set.info) = a - (b + c) /\ FreeStorage(inf) = a - b
    BY <1>29, <1>30
  <2>4. \A x \in Int, y \in Int, z \in Int : x - (y + z) = (x - y) - z
    OBVIOUS
  <2> HIDE DEF a, b, c
  <2>5. a - (b + c) = (a - b) - c
    BY <2>1, <2>4
  <2>3. FreeStorage(set.info) = FreeStorage(inf) - c
    BY <2>2, <2>5
  <2> QED
    BY <2>3 DEF c
<1> QED
  BY <1>28, <1>31 DEF n, BookedFor

\* What a deploy asks for can be deployed
LEMMA DeploysAreDeployable ==
    ASSUME NEW req \in DeployRequests, ValidRequest(req)
    PROVE  Deployable(req.vbs)
<1>1. Wishes(req)
  BY RequestsAreWishes
<1>2. RequestOk(req.vbs)
  BY <1>1 DEF Wishes, RequestOk, ValidRequest
<1>3. /\ \A vb \in req.vbs : vb.size >= 0
      /\ \A vb \in req.vbs, vb1 \in req.vbs : vb.dest = vb1.dest => vb = vb1
  BY BooksInputsAssumption
<1> QED
  BY <1>2, <1>3 DEF Deployable

\* All of what is deployed is as much as was asked for and is booked
Fits(inf, deployed, booked, count) ==
    /\ Len(deployed.works) = count /\ booked.ok
    /\ FreeStorage(booked.info) >= Smaller(0, FreeStorage(inf))

\* Whatever calculate-deploy answers fits the node it was asked for
LEMMA DeployedFits ==
    ASSUME NEW inf, Sound(inf), NEW req \in DeployRequests, NEW count \in Nat, count > 0,
           NEW deployed, deployed = Deployed(inf, count, req), deployed.ok,
           NEW booked, booked = Book(inf, HeldBy(deployed.works), TRUE)
    PROVE  Fits(inf, deployed, booked, count)
<1> DEFINE h == NewHost(inf)
           plans == VolumePlansOn(h, req.vbs, count)
           storage == Folded(req).storage
           Work(p) == [vbs |-> req.vbs, plan |-> p.plan, disks |-> p.disks, storage |-> storage]
           works == [i \in DOMAIN plans |-> Work(plans[i])]
           enough == Len(plans) >= count
           n == Len(plans)
<1>1. ValidRequest(req) /\ StorageCapacity(inf, storage) >= count
  BY DEF Deployed
<1>2. deployed = [ok |-> enough, works |-> works]
  BY <1>1 DEF Deployed, GetVolumePlans, VolumePlansOn
<1>3. Wishes(req) /\ Deployable(req.vbs) /\ IsInfo(inf) /\ storage >= 0 /\ storage \in Int
  BY <1>1, RequestsAreWishes, DeploysAreDeployable, DeploysAskForSomething, FoldedIsInt DEF Sound
<1>4. /\ Len(deployed.works) \in Nat /\ DOMAIN deployed.works = 1..Len(deployed.works)
      /\ \A i \in DOMAIN deployed.works : WorkOk(deployed.works[i])
  BY <1>3, DeployedAreOk
<1> HIDE DEF h
<1>5. PICK D \in SUBSET Devices, N \in SUBSET DiskNames : HostOf(h, inf, D, N)
  BY NewHostIsSolvent DEF h
<1>6. h \in HostsOn(D, N) /\ Solvent(h)
  BY <1>5 DEF HostOf
<1> HIDE DEF storage, plans
<1>7. n <= count /\ Afforded(h, plans, req.vbs)
  BY <1>3, <1>6, VolumePlansAreAfforded DEF plans
<1>8. plans \in Seq(PlannedOn(D, N))
  BY <1>3, <1>6, VolumePlansAreOn DEF plans, Deployable
<1>9. n \in Nat /\ DOMAIN plans = 1..n
  BY <1>8
<1>10. deployed.works = works /\ n >= count
  <2> HIDE DEF works, enough
  <2>1. deployed.ok = enough /\ deployed.works = works
    BY <1>2
  <2> QED
    BY <2>1 DEF enough
<1>11. DOMAIN works = 1..n
  BY <1>9
<1>12. n = count
  <2>1. n <= count /\ n >= count /\ n \in Nat
    BY <1>7, <1>9, <1>10
  <2> HIDE DEF n
  <2> QED
    BY <2>1
<1>13. Len(deployed.works) = count
  <2>1. 1..Len(deployed.works) = 1..n
    BY <1>4, <1>10, <1>11
  <2> DEFINE m == Len(deployed.works)
  <2>2. m \in Nat
    BY <1>4
  <2> HIDE DEF m, n
  <2>3. 1..m = 1..n
    BY <2>1 DEF m
  <2>4. n \in 1..n /\ n \in Nat
    BY <1>12 DEF n
  <2>5. m = n
    <3>1. n \in 1..m
      BY <2>3, <2>4
    <3>2. n <= m /\ m >= 1
      BY <2>2, <2>4, <3>1
    <3>3. m \in 1..m
      BY <2>2, <3>2
    <3>4. m \in 1..n
      BY <2>3, <3>3
    <3> QED
      BY <2>2, <2>4, <3>2, <3>4
  <2> QED
    BY <1>12, <2>5 DEF m, n
<1>14. storage \in Nat
  BY <1>3
<1>15. Follow(deployed.works, plans, storage)
  <2>1. \A i \in 1..n : /\ works[i].storage = storage /\ works[i].plan = plans[i].plan
                        /\ works[i].disks = plans[i].disks
    BY <1>9
  <2> HIDE DEF works
  <2> QED
    BY <1>4, <1>10, <1>11, <2>1 DEF Follow
<1> HIDE DEF works
<1>16. booked.ok /\ FreeStorage(booked.info) = FreeStorage(inf) - n * storage
  <2>1. BookedFor(booked, inf, plans, storage)
    BY <1>5, <1>7, <1>8, <1>14, <1>15, AffordedIsBooked
  <2> QED
    BY <2>1 DEF BookedFor
<1>17. FreeStorage(booked.info) >= Smaller(0, FreeStorage(inf))
  <2> DEFINE free == FreeStorage(inf)
             left == FreeStorage(booked.info)
  <2>1. free \in Int
    <3>1. inf.usage.storage \in Int
      BY UsageParts DEF Sound, IsInfo
    <3>2. inf.capacity.storage \in Int
      BY DEF Sound, IsInfo, IsCapacity, CapacitiesOn
    <3> QED
      BY <3>1, <3>2 DEF FreeStorage
  <2>2. CASE storage > 0
    <3>1. Truncated(free, storage) >= count
      BY <1>1, <2>2 DEF StorageCapacity
    <3> HIDE DEF free
    <3>2. free >= count * storage
      BY <1>14, <2>1, <2>2, <3>1, TruncatedFits
    <3>3. left = free - count * storage
      BY <1>12, <1>16 DEF free
    <3> HIDE DEF left
    <3> DEFINE c == count * storage
    <3>4. c \in Int
      BY <1>14
    <3>5. free >= c /\ left = free - c
      BY <3>2, <3>3
    <3> HIDE DEF c
    <3>6. left >= Smaller(0, free)
      BY <2>1, <3>4, <3>5 DEF Smaller
    <3> QED
      BY <3>6 DEF left, free
  <2>3. CASE storage = 0
    <3>1. n * storage = 0
      BY <1>9, <2>3
    <3>2. left = free - 0
      BY <1>16, <3>1
    <3> HIDE DEF left, free
    <3>3. left >= Smaller(0, free)
      BY <2>1, <3>2 DEF Smaller
    <3> QED
      BY <3>3 DEF left, free
  <2>4. storage > 0 \/ storage = 0
    BY <1>14
  <2> QED
    BY <2>2, <2>3, <2>4
<1> QED
  BY <1>13, <1>16, <1>17 DEF Fits

\* In every state whatever calculate-deploy answers, for all the workloads asked for
\* together, can be booked: no volume, disk rate or storage is overdrawn.
THEOREM DeploysFit == Spec => []PlansFit
<1>1. IInv => PlansFit
  <2> SUFFICES ASSUME IInv, NEW req \in DeployRequests, NEW count \in 1..MaxDeployCount,
                      Deployed(info, count, req).ok
               PROVE  /\ Len(Deployed(info, count, req).works) = count
                      /\ Book(info, HeldBy(Deployed(info, count, req).works), TRUE).ok
                      /\ FreeStorage(Book(info, HeldBy(Deployed(info, count, req).works), TRUE).info)
                           >= Smaller(0, FreeStorage(info))
    BY DEF PlansFit
  <2>1. Sound(info) /\ count \in Nat /\ count > 0
    BY MaxDeployCountAssumption, MaxIntAssumption DEF IInv
  <2>2. PICK deployed : deployed = Deployed(info, count, req)
    OBVIOUS
  <2>3. PICK booked : booked = Book(info, HeldBy(deployed.works), TRUE)
    OBVIOUS
  <2>4. deployed.ok
    BY <2>2
  <2>5. Fits(info, deployed, booked, count)
    BY <2>1, <2>2, <2>3, <2>4, DeployedFits
  <2> QED
    BY <2>2, <2>3, <2>5 DEF Fits
<1> QED
  BY <1>1, RecordsStaySound, PTL

-----------------------------------------------------------------------------
(* Volumes nobody uses                                                      *)

\* No volume is among the unused ones twice, or among them and the used ones
TwoSides(h) ==
    /\ \A i \in 1..Len(h.unused), j \in 1..Len(h.unused) : h.unused[i] = h.unused[j] => i = j
    /\ \A i \in 1..Len(h.unused), j \in 1..Len(h.used) : h.unused[i] # h.used[j]

\* The unused volumes of h are as they were
Spared(h, host) ==
    /\ host.used = h.used /\ host.unused = h.unused
    /\ \A device \in ToSet(h.unused) : host.free[device] = h.free[device]

\* A volume that is opened changes sides
LEMMA OpenKeepsSides ==
    ASSUME NEW D, NEW N, NEW h \in HostsOn(D, N), TwoSides(h), NEW p \in DOMAIN h.unused
    PROVE  TwoSides(Open(h, p)) /\ ToSet(Open(h, p).unused) \subseteq ToSet(h.unused)
<1> DEFINE n == Len(h.unused)
           m == Len(h.used)
           left == SubSeq(h.unused, 1, p - 1)
           right == SubSeq(h.unused, p + 1, n)
           used == Append(h.used, h.unused[p])
           unused == left \o right
           At(i) == IF i < p THEN i ELSE i + 1
<1>1. /\ h.unused \in Seq(D) /\ h.used \in Seq(D) /\ n \in Nat /\ p \in 1..n /\ m \in Nat
      /\ DOMAIN h.unused = 1..n
  BY MembersAreIn DEF HostsOn
<1>2. left \in Seq(D) /\ Len(left) = p - 1 /\ \A i \in 1..(p - 1) : left[i] = h.unused[i]
  BY <1>1, SubSeqProperties
<1>3. right \in Seq(D) /\ Len(right) = n - p /\ \A i \in 1..(n - p) : right[i] = h.unused[p + i]
  <2>1. p + 1 \in Int /\ n \in Int /\ \A i \in (p + 1)..n : h.unused[i] \in D
    BY <1>1
  <2>2. /\ right \in Seq(D)
        /\ Len(right) = (IF p + 1 <= n THEN n - (p + 1) + 1 ELSE 0)
        /\ (\A i \in 1..(n - (p + 1) + 1) : right[i] = h.unused[p + 1 + i - 1])
    <3> HIDE DEF n
    <3> QED
      BY <2>1, SubSeqProperties
  <2> HIDE DEF right, n
  <2>3. Len(right) = n - p
    BY <1>1, <2>2
  <2>4. ASSUME NEW i \in 1..(n - p)
        PROVE  right[i] = h.unused[p + i]
    <3>1. i \in 1..(n - (p + 1) + 1) /\ p + 1 + i - 1 = p + i
      BY <1>1
    <3> QED
      BY <2>2, <3>1
  <2> QED
    BY <2>2, <2>3, <2>4
<1>4. h.unused[p] \in D
  BY <1>1
<1>5. /\ Len(used) = m + 1 /\ used[m + 1] = h.unused[p]
      /\ \A j \in 1..m : used[j] = h.used[j]
  BY <1>1, <1>4, AppendProperties
<1> HIDE DEF left, right, used, n, m
<1>6. Len(unused) = n - 1 /\ \A i \in 1..(n - 1) : unused[i] = h.unused[At(i)]
  <2>1. /\ Len(unused) = Len(left) + Len(right)
        /\ \A i \in 1..(Len(left) + Len(right)) :
              unused[i] = IF i <= Len(left) THEN left[i] ELSE right[i - Len(left)]
    BY <1>2, <1>3, ConcatProperties
  <2> HIDE DEF unused
  <2>2. ASSUME NEW i \in 1..(n - 1)
        PROVE  unused[i] = h.unused[At(i)]
    <3>1. i \in 1..(Len(left) + Len(right)) /\ Len(left) = p - 1 /\ Len(right) = n - p
      BY <1>1, <1>2, <1>3
    <3>2. CASE i < p
      <4>1. i \in 1..(p - 1) /\ i <= Len(left)
        BY <1>1, <3>1, <3>2
      <4> QED
        BY <1>2, <2>1, <3>1, <3>2, <4>1
    <3>3. CASE ~(i < p)
      <4>1. /\ ~(i <= Len(left)) /\ i - Len(left) = i - (p - 1)
            /\ i - (p - 1) \in 1..(n - p) /\ p + (i - (p - 1)) = i + 1
        BY <1>1, <3>1, <3>3, SMTT(30)
      <4>2. unused[i] = right[i - (p - 1)]
        BY <2>1, <3>1, <4>1
      <4>3. right[i - (p - 1)] = h.unused[i + 1]
        BY <1>3, <4>1
      <4> QED
        BY <3>3, <4>2, <4>3
    <3> QED
      BY <3>2, <3>3
  <2>3. Len(unused) = n - 1
    BY <1>1, <1>2, <1>3, <2>1
  <2> QED
    BY <2>2, <2>3
<1>7. \A i \in 1..(n - 1) : At(i) \in 1..n /\ At(i) # p
  BY <1>1
<1>8. \A i \in 1..(n - 1), j \in 1..(n - 1) : At(i) = At(j) => i = j
  BY <1>1
<1>9. Open(h, p).used = used /\ Open(h, p).unused = unused
  BY DEF Open, RemoveAt, HostsOn, left, right, used, n
<1> HIDE DEF unused, At
<1>10. \A i \in 1..n, j \in 1..n : h.unused[i] = h.unused[j] => i = j
  BY DEF TwoSides, n
<1>11. \A i \in 1..n, j \in 1..m : h.unused[i] # h.used[j]
  BY DEF TwoSides, n, m
<1>12. \A i \in 1..(n - 1), j \in 1..(n - 1) : unused[i] = unused[j] => i = j
  BY <1>6, <1>7, <1>8, <1>10
<1>13. ASSUME NEW i \in 1..(n - 1), NEW j \in 1..(m + 1)
       PROVE  unused[i] # used[j]
  <2>1. CASE j = m + 1
    BY <1>1, <1>5, <1>6, <1>7, <1>10, <2>1
  <2>2. CASE j # m + 1
    <3>1. j \in 1..m
      BY <1>1, <2>2
    <3> QED
      BY <1>5, <1>6, <1>7, <1>11, <3>1
  <2> QED
    BY <2>1, <2>2
<1>14. TwoSides(Open(h, p))
  BY <1>5, <1>6, <1>9, <1>12, <1>13 DEF TwoSides
<1>15. ToSet(unused) \subseteq ToSet(h.unused)
  <2>1. unused \in Seq(D)
    BY <1>2, <1>3, ConcatProperties DEF unused
  <2>2. DOMAIN unused = 1..(n - 1)
    BY <1>6, <2>1, MembersAreIn
  <2> QED
    BY <1>1, <1>6, <1>7, <2>2 DEF ToSet
<1> QED
  BY <1>9, <1>14, <1>15

\* Attempts that spare them
SparingOn(D, N, h) == {a \in AttemptsOn(D, N) : Spared(h, a.host)}

\* A normal binding is placed on a used volume
LEMMA PlaceNormalSpares ==
    ASSUME NEW D \in SUBSET Devices, NEW N \in SUBSET DiskNames, NEW h \in HostsOn(D, N),
           TwoSides(h), NEW a \in SparingOn(D, N, h), NEW req \in VolumeBinding
    PROVE  PlaceNormal(a, req) \in SparingOn(D, N, h)
<1> DEFINE fitting == Fitting(a.host, req)
           device == Least(a.host.free, fitting)
           taken == TakeSpace(a.host, device, req.size)
           host == DecreaseIOPSQuota(taken, device, req)
           next == PlaceNormal(a, req)
<1>1. a \in AttemptsOn(D, N) /\ Spared(h, a.host) /\ a.host \in HostsOn(D, N)
  BY DEF SparingOn, AttemptsOn
<1>2. next \in AttemptsOn(D, N)
  BY <1>1, PlaceNormalStays
<1>3. CASE ~a.ok \/ fitting = {}
  <2>1. next.host = a.host
    <3>1. next = a \/ next = [a EXCEPT !.ok = FALSE]
      BY <1>3 DEF PlaceNormal
    <3> HIDE DEF next
    <3> QED
      BY <1>1, <3>1 DEF AttemptsOn
  <2> QED
    BY <1>1, <1>2, <2>1 DEF SparingOn
<1>4. CASE a.ok /\ fitting # {}
  <2>1. fitting \in SUBSET D /\ fitting \subseteq ToSet(a.host.used)
    <3>1. a.host.used \in Seq(D)
      BY <1>1 DEF HostsOn
    <3> QED
      BY <3>1, MembersAreIn DEF Fitting
  <2>2. device \in fitting
    <3>1. fitting \in SUBSET Devices /\ \A d \in fitting : a.host.free[d] \in Int
      BY <1>1, <2>1 DEF HostsOn
    <3> HIDE DEF fitting
    <3> QED
      BY <1>4, <3>1, LeastIsThere
  <2>3. next.host = host
    <3>1. next = PlaceOn(a, device, req)
      BY <1>4 DEF PlaceNormal
    <3>2. PlaceOn(a, device, req).host = host
      BY <1>1 DEF PlaceOn, AttemptsOn
    <3> QED
      BY <3>1, <3>2
  <2>4. device \in D /\ device \in ToSet(h.used)
    <3> HIDE DEF device, fitting
    <3> QED
      BY <1>1, <2>1, <2>2 DEF Spared
  <2>5. device \notin ToSet(h.unused)
    <3>1. h.used \in Seq(D) /\ h.unused \in Seq(D)
      BY DEF HostsOn
    <3>2. DOMAIN h.used = 1..Len(h.used) /\ DOMAIN h.unused = 1..Len(h.unused)
      BY <3>1, MembersAreIn
    <3> HIDE DEF device
    <3> QED
      BY <2>4, <3>2 DEF TwoSides, ToSet
  <2> HIDE DEF device, fitting, next
  <2>6. /\ taken.used = a.host.used /\ taken.unused = a.host.unused
        /\ \A d \in D : d # device => taken.free[d] = a.host.free[d]
    BY <1>1, <2>4 DEF TakeSpace, HostsOn
  <2>7. host.used = taken.used /\ host.unused = taken.unused /\ host.free = taken.free
    <3>1. taken \in HostsOn(D, N)
      BY <1>1, <2>4, BindingParts, TakenStays
    <3> HIDE DEF taken
    <3> QED
      BY <3>1 DEF DecreaseIOPSQuota, HostsOn
  <2> HIDE DEF taken, host
  <2>8. ToSet(h.unused) \subseteq D
    <3>1. h.unused \in Seq(D)
      BY DEF HostsOn
    <3> QED
      BY <3>1, MembersAreIn
  <2>9. Spared(h, next.host)
    BY <1>1, <2>3, <2>5, <2>6, <2>7, <2>8 DEF Spared
  <2> QED
    BY <1>2, <2>9 DEF SparingOn, next
<1> HIDE DEF fitting
<1> QED
  BY <1>3, <1>4

\* A mount takes no space
LEMMA ChargeMountSpares ==
    ASSUME NEW D \in SUBSET Devices, NEW N \in SUBSET DiskNames, NEW h,
           NEW a \in SparingOn(D, N, h), NEW req \in VolumeBinding
    PROVE  ChargeMount(a, req) \in SparingOn(D, N, h)
<1> DEFINE host == DecreaseIOPSQuota(a.host, req.source, req)
           next == ChargeMount(a, req)
<1>1. a \in AttemptsOn(D, N) /\ Spared(h, a.host) /\ a.host \in HostsOn(D, N)
  BY DEF SparingOn, AttemptsOn
<1>2. next \in AttemptsOn(D, N)
  BY <1>1, ChargeMountStays
<1>3. next.host = a.host \/ next.host = host
  BY <1>1 DEF ChargeMount, AttemptsOn
<1>4. host.used = a.host.used /\ host.unused = a.host.unused /\ host.free = a.host.free
  BY <1>1 DEF DecreaseIOPSQuota, HostsOn
<1> HIDE DEF host, next
<1>5. Spared(h, next.host)
  BY <1>1, <1>3, <1>4 DEF Spared
<1> QED
  BY <1>2, <1>5 DEF SparingOn, next

\* Nor does a pass take any of an unused volume
LEMMA PassSpares ==
    ASSUME NEW D \in SUBSET Devices, NEW N \in SUBSET DiskNames, NEW h \in HostsOn(D, N),
           TwoSides(h), NEW host \in HostsOn(D, N), Spared(h, host),
           NEW normal \in Seq(VolumeBinding), NEW mount \in Seq(VolumeBinding)
    PROVE  GetMountDiskPlan(GetNormalPlan(host, normal), mount) \in SparingOn(D, N, h)
<1> DEFINE V == SparingOn(D, N, h)
<1>1. Attempt(host) \in V
  BY EmptyPlansStay DEF SparingOn, Attempt
<1>2. \A a \in V, k \in 1..Len(normal) : PlaceNormal(a, normal[k]) \in V
  BY BindingList, PlaceNormalSpares
<1>3. \A a \in V, k \in 1..Len(mount) : ChargeMount(a, mount[k]) \in V
  BY BindingList, ChargeMountSpares
<1>4. /\ Len(normal) \in Nat /\ DOMAIN normal = 1..Len(normal)
      /\ Len(mount) \in Nat /\ DOMAIN mount = 1..Len(mount)
  BY BindingList
<1> HIDE DEF V
<1>5. GetNormalPlan(host, normal) \in V
  BY <1>1, <1>2, <1>4, NormalPlanStays
<1>6. GetMountDiskPlan(GetNormalPlan(host, normal), mount) \in V
  BY <1>3, <1>4, <1>5, MountPlanStays
<1> QED
  BY <1>6 DEF V

\* Nor do mounts alone
LEMMA MountsSpare ==
    ASSUME NEW D \in SUBSET Devices, NEW N \in SUBSET DiskNames, NEW h,
           NEW host \in HostsOn(D, N), Spared(h, host), NEW mount \in Seq(VolumeBinding)
    PROVE  GetMountDiskPlan(Attempt(host), mount) \in SparingOn(D, N, h)
<1> DEFINE V == SparingOn(D, N, h)
<1>1. Attempt(host) \in V
  BY EmptyPlansStay DEF SparingOn, Attempt
<1>2. \A a \in V, k \in 1..Len(mount) : ChargeMount(a, mount[k]) \in V
  BY BindingList, ChargeMountSpares
<1>3. Len(mount) \in Nat /\ DOMAIN mount = 1..Len(mount)
  BY BindingList
<1> HIDE DEF V
<1>4. GetMountDiskPlan(Attempt(host), mount) \in V
  BY <1>1, <1>2, <1>3, MountPlanStays
<1> QED
  BY <1>4 DEF V

\* Nor do all the passes
LEMMA NormalPassesSpare ==
    ASSUME NEW D \in SUBSET Devices, NEW N \in SUBSET DiskNames, NEW h \in HostsOn(D, N),
           TwoSides(h), NEW normal \in Seq(VolumeBinding), NEW mount \in Seq(VolumeBinding),
           NEW bound \in Nat
    PROVE  Spared(h, GetNormalPasses(h, normal, mount, bound).host)
<1> DEFINE V == {s \in PassesOn(D, N) : Spared(h, s.host)}
           first == [failed |-> FALSE, host |-> h, plans |-> <<>>]
<1>1. first \in V
  <2>1. first \in PassesOn(D, N)
    BY DEF PassesOn
  <2>2. Spared(h, first.host)
    BY DEF Spared
  <2> QED
    BY <2>1, <2>2
<1>2. ASSUME NEW s \in V
      PROVE  NormalPass(s, normal, mount) \in V
  <2> DEFINE a == GetMountDiskPlan(GetNormalPlan(s.host, normal), mount)
             next == NormalPass(s, normal, mount)
  <2>1. s \in PassesOn(D, N) /\ Spared(h, s.host) /\ s.host \in HostsOn(D, N)
    BY DEF PassesOn
  <2>2. next \in PassesOn(D, N)
    BY <2>1, NormalPassStays
  <2>3. a \in SparingOn(D, N, h)
    BY <2>1, PassSpares
  <2>4. next = s \/ next.host = a.host
    BY DEF NormalPass
  <2> HIDE DEF a, next
  <2>5. Spared(h, next.host)
    BY <2>1, <2>3, <2>4 DEF SparingOn
  <2> QED
    BY <2>2, <2>5 DEF next
<1> HIDE DEF V
<1>3. PICK g : RunsPasses(g, V, h, normal, mount, bound)
  BY <1>1, <1>2, NormalPassesRun
<1>4. bound \in 0..bound
  OBVIOUS
<1>5. GetNormalPasses(h, normal, mount, bound) \in V
  BY <1>3, <1>4 DEF RunsPasses
<1> QED
  BY <1>5 DEF V

\* Nor does the closed form
LEMMA MountOnlySpares ==
    ASSUME NEW D \in SUBSET Devices, NEW N \in SUBSET DiskNames, NEW h \in HostsOn(D, N),
           NEW mount \in Seq(VolumeBinding), NEW bound \in Nat
    PROVE  Spared(h, GetMountOnlyPlans(h, mount, bound).host)
<1> DEFINE first == GetMountDiskPlan(Attempt(h), mount)
           n == MountPasses(first, mount, bound)
           charged == ChargePasses(first.host, mount, DOMAIN first.disks, n - 1)
           last == GetMountDiskPlan(Attempt(charged), mount)
           trailing == TrailingPass(charged, mount, n, bound)
           passes == ApplyMountPasses(h, mount, bound)
           able == first.ok /\ bound >= 1
<1>1. first \in SparingOn(D, N, h)
  BY MountsSpare DEF Spared
<1>2. passes.host = IF able THEN trailing ELSE first.host
  BY DEF ApplyMountPasses
<1>3. GetMountOnlyPlans(h, mount, bound).host = passes.host
  BY DEF GetMountOnlyPlans
<1>4. trailing = IF n < bound THEN last.host ELSE charged
  BY DEF TrailingPass
<1>5. n \in Int \/ ~able
  <2>1. first \in AttemptsOn(D, N)
    BY <1>1 DEF SparingOn
  <2> HIDE DEF first
  <2>2. first.disks \in DiskPlansOn(N)
    BY <2>1 DEF AttemptsOn
  <2> QED
    BY <2>1, <2>2, DiskPlanParts, MountPassesIsInt
<1> HIDE DEF first, n
<1>6. first \in AttemptsOn(D, N) /\ first.host \in HostsOn(D, N) /\ Spared(h, first.host)
  BY <1>1 DEF SparingOn, AttemptsOn
<1>7. CASE ~able
  BY <1>2, <1>3, <1>6, <1>7
<1>8. CASE able
  <2>1. n - 1 \in Int
    BY <1>5, <1>8
  <2>2. charged \in HostsOn(D, N)
    BY <1>6, <2>1, ChargedPassesStay
  <2>3. charged.free = first.host.free /\ charged.used = first.host.used
        /\ charged.unused = first.host.unused
    BY <1>6 DEF ChargePasses, HostsOn
  <2> HIDE DEF charged
  <2>4. Spared(h, charged)
    BY <1>6, <2>3 DEF Spared
  <2>5. last \in SparingOn(D, N, h)
    BY <2>2, <2>4, MountsSpare
  <2> HIDE DEF last, trailing, passes
  <2>6. Spared(h, trailing)
    BY <1>4, <2>4, <2>5 DEF SparingOn
  <2> QED
    BY <1>2, <1>3, <1>8, <2>6
<1> HIDE DEF able
<1> QED
  BY <1>7, <1>8

\* What is planned of normal bindings and mounts takes nothing of an unused volume
LEMMA NormalPlansSpare ==
    ASSUME NEW D \in SUBSET Devices, NEW N \in SUBSET DiskNames, NEW h \in HostsOn(D, N),
           TwoSides(h), NEW count, NEW normal \in Seq(VolumeBinding),
           NEW mount \in Seq(VolumeBinding), NEW bound \in Nat
    PROVE  Spared(h, GetNormalPlans(h, count, normal, mount, bound).host)
<1>1. CASE normal # <<>>
  BY <1>1, NormalPassesSpare DEF GetNormalPlans
<1>2. CASE normal = <<>> /\ AnyRequireIOPS(mount)
  <2>1. GetNormalPlans(h, count, normal, mount, bound) = GetMountOnlyPlans(h, mount, bound)
    BY <1>2 DEF GetNormalPlans
  <2> QED
    BY <2>1, MountOnlySpares
<1>3. CASE normal = <<>> /\ ~AnyRequireIOPS(mount)
  <2>1. GetNormalPlans(h, count, normal, mount, bound).host = h
    BY <1>3 DEF GetNormalPlans
  <2> QED
    BY <2>1 DEF Spared
<1> QED
  BY <1>1, <1>2, <1>3

\* Each of the plans has all of a volume nobody used
Alone(plans, vbs, h, devices) ==
    \A i \in 1..Len(plans) : \E device \in devices :
        FilledWith(plans[i].plan, vbs, device, h.free[device])

\* A group's volumes so far: the others are as they were
Filling(D, N, h, vbs) ==
    {s \in GroupsOn(D, N) :
        /\ PaidUp(h, s, vbs) /\ Alone(s.plans, vbs, h, ToSet(h.unused))
        /\ \A device \in D : s.host.free[device] = h.free[device] \/ s.host.free[device] = 0}

\* One more plan of a list
LEMMA OneMoreAlone ==
    ASSUME NEW P, NEW plans \in Seq(P), NEW p \in P, NEW vbs, NEW h, NEW devices,
           Alone(plans, vbs, h, devices), NEW device \in devices,
           FilledWith(p.plan, vbs, device, h.free[device])
    PROVE  Alone(Append(plans, p), vbs, h, devices)
<1> DEFINE n == Len(plans)
           all == Append(plans, p)
<1>1. /\ Len(all) = n + 1 /\ n \in Nat /\ all[n + 1] = p
      /\ \A i \in 1..n : all[i] = plans[i]
  BY AppendProperties
<1> HIDE DEF all
<1>2. ASSUME NEW i \in 1..(n + 1)
      PROVE  \E d \in devices : FilledWith(all[i].plan, vbs, d, h.free[d])
  <2>1. CASE i = n + 1
    BY <1>1, <2>1
  <2>2. CASE i # n + 1
    <3>1. i \in 1..n
      BY <1>1, <2>2
    <3> QED
      BY <1>1, <3>1 DEF Alone
  <2> QED
    BY <2>1, <2>2
<1> QED
  BY <1>1, <1>2 DEF Alone, all

\* One more volume that nobody used
LEMMA TryVolumeFills ==
    ASSUME NEW D \in SUBSET Devices, NEW N \in SUBSET DiskNames, NEW h \in HostsOn(D, N),
           NEW mono, Grouped(mono), NEW vbs, vbs = ToSet(mono), NEW bound,
           NEW s \in Filling(D, N, h, vbs), NEW device \in D, device \in ToSet(h.unused)
    PROVE  TryVolume(s, mono, bound, device) \in Filling(D, N, h, vbs)
<1> DEFINE P == PlannedOn(D, N)
           m == GetMonoPlan(s.host, mono, device)
           p == [plan |-> m.plan, disks |-> m.disks]
           next == TryVolume(s, mono, bound, device)
           full == Len(s.plans) >= bound \/ ~m.ok
<1>1. /\ s \in GroupsOn(D, N) /\ s.host \in HostsOn(D, N) /\ s.plans \in Seq(P)
      /\ PaidUp(h, s, vbs) /\ Alone(s.plans, vbs, h, ToSet(h.unused)) /\ Solvent(s.host)
      /\ \A d \in D : s.host.free[d] = h.free[d] \/ s.host.free[d] = 0
  BY DEF Filling, GroupsOn, PaidUp
<1>2. next = IF full THEN s ELSE [host |-> m.host, plans |-> Append(s.plans, p)]
  BY DEF TryVolume
<1>3. CASE full
  BY <1>2, <1>3
<1>4. CASE ~full
  <2>1. m.ok /\ Monopolies(mono)
    BY <1>4 DEF Grouped
  <2>2. next \in GroupsOn(D, N)
    BY <1>1, <2>1, TryVolumeStays
  <2>3. PaidUp(h, next, vbs)
    BY <1>1, TryVolumeIsPaid
  <2>4. GroupHas(D, N, s.host, mono, vbs, device, m)
    BY <1>1, <2>1, GroupIsPaid
  <2>5. s.host.free[device] = h.free[device]
    <3>1. m.ok = (s.host.free[device] >= Group(mono).size /\ Qualified(s.host, device, Group(mono)))
      BY DEF GetMonoPlan
    <3>2. Group(mono).size \in Int /\ Group(mono).size > 0
      BY <2>1, GroupHasSize
    <3>3. s.host.free[device] \in Int /\ s.host.free[device] >= Group(mono).size
      BY <1>1, <2>1, <3>1 DEF HostsOn
    <3>4. s.host.free[device] # 0
      BY <3>2, <3>3
    <3> QED
      BY <1>1, <3>4
  <2>6. m.plan \in PlansOn(D) /\ m.disks \in DiskPlansOn(N)
    BY <1>1, <2>1, GroupIsPlanned
  <2>7. next.host = m.host /\ next.plans = Append(s.plans, p)
    BY <1>2, <1>4
  <2> HIDE DEF m, next
  <2>8. p \in P /\ FilledWith(p.plan, vbs, device, h.free[device])
    BY <2>4, <2>5, <2>6 DEF PlannedOn, GroupHas
  <2> HIDE DEF p, P
  <2>9. Alone(next.plans, vbs, h, ToSet(h.unused))
    BY <1>1, <2>7, <2>8, OneMoreAlone
  <2>10. \A d \in D : next.host.free[d] = h.free[d] \/ next.host.free[d] = 0
    <3>1. m.host.free = [s.host.free EXCEPT ![device] = 0]
      BY <2>4 DEF GroupHas
    <3>2. s.host.free \in [D -> Int]
      BY <1>1 DEF HostsOn
    <3> QED
      BY <1>1, <2>7, <3>1, <3>2
  <2> QED
    BY <2>2, <2>3, <2>9, <2>10 DEF Filling, next
<1> HIDE DEF full
<1> QED
  BY <1>3, <1>4

\* The group has each of its volumes to itself
LEMMA MonoPlansFill ==
    ASSUME NEW D \in SUBSET Devices, NEW N \in SUBSET DiskNames, NEW h \in HostsOn(D, N),
           Solvent(h), NEW count, NEW mono, Grouped(mono), NEW bound
    PROVE  Alone(GetMonoPlans(h, count, mono, bound).plans, ToSet(mono), h, ToSet(h.unused))
<1> DEFINE vbs == ToSet(mono)
           V == Filling(D, N, h, vbs)
           n == Len(h.unused)
           first == [host |-> h, plans |-> <<>>]
<1>1. first \in V
  <2>1. first \in GroupsOn(D, N)
    BY DEF GroupsOn
  <2>2. PaidUp(h, first, vbs)
    BY NonePays DEF PaidUp
  <2>3. Alone(first.plans, vbs, h, ToSet(h.unused))
    <3>1. Len(first.plans) = 0 /\ 1..0 = {}
      OBVIOUS
    <3> QED
      BY <3>1 DEF Alone
  <2> QED
    BY <2>1, <2>2, <2>3 DEF Filling
<1>2. h.unused \in Seq(D)
  BY DEF HostsOn
<1>3. /\ n \in Nat /\ DOMAIN h.unused = 1..n /\ n \in 0..n
      /\ \A k \in 1..n : h.unused[k] \in D /\ h.unused[k] \in ToSet(h.unused)
  BY <1>2, MembersAreIn DEF ToSet
<1> HIDE DEF vbs
<1>4. \A s \in V, k \in 1..n : TryVolume(s, mono, bound, h.unused[k]) \in V
  <2> HIDE DEF n
  <2> QED
    BY <1>3, TryVolumeFills DEF vbs
<1>5. mono # <<>>
  BY DEF Grouped, Monopolies
<1> HIDE DEF V, n
<1>6. PICK g : RunsVolumes(g, V, h, count, mono, bound, n)
  BY <1>1, <1>3, <1>4, <1>5, MonoPlansRun
<1>7. GetMonoPlans(h, count, mono, bound) \in V
  BY <1>3, <1>6 DEF RunsVolumes
<1> QED
  BY <1>7 DEF V, Filling, vbs

\* A group planned beside normal bindings has its volumes to itself
LEMMA EvaluationIsAlone ==
    ASSUME NEW D \in SUBSET Devices, NEW N \in SUBSET DiskNames, NEW h, NEW classes,
           ClassesOk(classes), NEW vbs, Plannable(classes, vbs), Grouped(classes.mono),
           NEW count \in Nat, NEW host \in HostsOn(D, N), Solvent(host), TwoSides(host),
           Len(h.unused) \in Nat, NEW best, best = EvaluatePlans(h, classes, count, host)
    PROVE  Alone(best.monos, ToSet(classes.mono), host, ToSet(host.unused))
<1> DEFINE bound == NormalBound(h, count, classes)
           normal == GetNormalPlans(host, count, classes.normal, classes.mount, bound)
           limit == IF classes.unlimited = {} THEN Larger(count, Len(normal.plans) + 1) ELSE MaxInt
           mono == GetMonoPlans(normal.host, count, classes.mono, limit)
           S == ToSet(classes.mono)
<1>1. bound \in Nat
  BY MaxIntAssumption DEF NormalBound, Larger
<1>2. best = [normal |-> Len(normal.plans), mono |-> Len(mono.plans),
              normals |-> normal.plans, monos |-> mono.plans]
  BY DEF EvaluatePlans
<1> HIDE DEF bound
<1>3. normal.host \in HostsOn(D, N)
  BY <1>1, NormalPlansAreOn DEF ClassesOk
<1>4. PaidUp(host, normal, NormalsIn(vbs))
  BY <1>1, NormalPlansArePaid DEF Plannable
<1>5. Spared(host, normal.host)
  BY <1>1, NormalPlansSpare DEF ClassesOk
<1> HIDE DEF normal, limit
<1>6. Alone(mono.plans, S, normal.host, ToSet(normal.host.unused))
  BY <1>3, <1>4, MonoPlansFill DEF PaidUp
<1> HIDE DEF mono, S
<1>7. Alone(mono.plans, S, host, ToSet(host.unused))
  BY <1>5, <1>6 DEF Alone, Spared
<1>8. best.monos = mono.plans
  BY <1>2
<1> QED
  BY <1>7, <1>8 DEF S

\* These bindings share the volume, all of it
Share(plan, vbs, device, free) ==
    /\ vbs \subseteq DOMAIN plan /\ \A vb \in vbs : plan[vb].device = device
    /\ SumOver(SizesOf(plan), vbs) = free

\* Each of the plans gives them a volume nobody used
AllShare(plans, vbs, h) ==
    \A i \in 1..Len(plans) : \E device \in ToSet(h.unused) :
        Share(plans[i].plan, vbs, device, h.free[device])

\* They do so, too, when the plan is joined with others
LEMMA JoinedShare ==
    ASSUME NEW normal, NEW mono, NEW unlimited, NEW vbs, NEW vbs1, NEW vbs2,
           Kinds(vbs, vbs1, vbs2), Takes(normal, vbs), Takes(mono, vbs1),
           Weightless(unlimited, vbs2), NEW S, NEW device, NEW free,
           FilledWith(mono.plan, S, device, free), NEW q,
           q = MergePlans(MergePlans(normal.plan, mono.plan), unlimited)
    PROVE  Share(q, S, device, free)
<1> DEFINE a == normal.plan
           b == mono.plan
           m == MergePlans(a, b)
<1>1. DOMAIN a \subseteq vbs /\ DOMAIN b \subseteq vbs1 /\ DOMAIN unlimited \subseteq vbs2
  BY DEF Takes, Weightless
<1>2. Apart(a, b)
  BY <1>1 DEF Kinds, Separate, Apart
<1>3. q = MergePlans(m, unlimited)
  OBVIOUS
<1>4. /\ DOMAIN b = S /\ (\A vb \in S : b[vb].device = device)
      /\ Space(b, device) = free
  BY DEF FilledWith
<1> HIDE DEF a, b
<1>5. DOMAIN m = DOMAIN a \cup DOMAIN b /\ \A vb \in DOMAIN b : m[vb] = b[vb]
  BY <1>2, ApartMerge
<1> HIDE DEF m
<1>6. Apart(m, unlimited)
  BY <1>1, <1>5 DEF Kinds, Separate, Apart
<1>7. DOMAIN q = DOMAIN m \cup DOMAIN unlimited /\ \A vb \in DOMAIN m : q[vb] = m[vb]
  <2>1. /\ DOMAIN MergePlans(m, unlimited) = DOMAIN m \cup DOMAIN unlimited
        /\ \A vb \in DOMAIN m : MergePlans(m, unlimited)[vb] = m[vb]
    BY <1>6, ApartMerge, ZenonT(60)
  <2> QED
    BY <1>3, <2>1
<1>8. S \subseteq DOMAIN q /\ \A vb \in S : q[vb] = b[vb]
  BY <1>4, <1>5, <1>7
<1>9. Placed(b, device) = S
  BY <1>4 DEF Placed
<1>10. \A vb \in S : SizesOf(q)[vb] = SizesOf(b)[vb]
  BY <1>4, <1>8 DEF SizesOf
<1>11. SumOver(SizesOf(q), S) = SumOver(SizesOf(b), S)
  BY <1>10, SumSame
<1> QED
  BY <1>4, <1>8, <1>9, <1>11 DEF Share, Space

\* The plans of all kinds give the monopoly bindings a volume nobody used
LEMMA ClassesPlansShare ==
    ASSUME NEW D \in SUBSET Devices, NEW N \in SUBSET DiskNames, NEW h \in HostsOn(D, N),
           Solvent(h), TwoSides(h), NEW classes, ClassesOk(classes), NEW vbs,
           Plannable(classes, vbs), Grouped(classes.mono),
           NEW count \in Nat, NEW plans, plans = PlansOfClasses(h, classes, count)
    PROVE  AllShare(plans, ToSet(classes.mono), h)
<1> DEFINE P == PlannedOn(D, N)
           E == EvaluationsOn(D, N)
           A == NormalsIn(vbs)
           B == MonosIn(vbs)
           C == UnlimitedIn(vbs)
           S == ToSet(classes.mono)
           T == ToSet(h.unused)
           V == {s \in [host : HostsOn(D, N), best : E] :
                    /\ s.host.free = h.free /\ s.host.disks = h.disks
                    /\ TwoSides(s.host) /\ ToSet(s.host.unused) \subseteq T
                    /\ SideBySide(h, s.best.normals, s.best.monos, A, B)
                    /\ Alone(s.best.monos, S, h, T)}
           first == [host |-> h, best |-> EvaluatePlans(h, classes, count, h)]
           last == Promoted(h, classes, count)
           unlimited == GetUnlimitedPlan(last.host, last.best.normals \o last.best.monos,
                                         classes.unlimited)
           n == Min({last.best.normal, last.best.mono, count})
<1>1. CASE NoVolumes(h, classes)
  <2>1. plans = <<>>
    BY <1>1 DEF PlansOfClasses
  <2>2. Len(plans) = 0 /\ 1..0 = {}
    BY <2>1
  <2> QED
    BY <2>2 DEF AllShare
<1>2. CASE ~NoVolumes(h, classes)
  <2>1. plans = JoinPlans(n, last.best.normals, last.best.monos, unlimited)
    BY <1>2 DEF PlansOfClasses, BestPlans, Promoted
  <2>2. Len(h.unused) \in Nat
    <3>1. h.unused \in Seq(D)
      BY DEF HostsOn
    <3> QED
      BY <3>1
  <2>3. ASSUME NEW host \in HostsOn(D, N), host.free = h.free, host.disks = h.disks,
               TwoSides(host), ToSet(host.unused) \subseteq T
        PROVE  [host |-> host, best |-> EvaluatePlans(h, classes, count, host)] \in V
    <3> DEFINE best == EvaluatePlans(h, classes, count, host)
    <3>1. Solvent(host)
      BY <2>3 DEF Solvent
    <3>2. best \in E
      BY <2>2, EvaluationIsOn
    <3>3. SideBySide(host, best.normals, best.monos, A, B)
      BY <2>2, <3>1, EvaluationIsAfforded
    <3>4. Alone(best.monos, S, host, ToSet(host.unused))
      BY <2>2, <2>3, <3>1, EvaluationIsAlone
    <3> HIDE DEF best, A, B, E, S, T
    <3>5. SideBySide(h, best.normals, best.monos, A, B)
      BY <2>3, <3>3 DEF SideBySide
    <3>6. Alone(best.monos, S, h, T)
      BY <2>3, <3>4 DEF Alone
    <3> QED
      BY <2>3, <3>2, <3>5, <3>6 DEF best
  <2>4. first \in V
    BY <2>3
  <2>5. ASSUME NEW s \in V
        PROVE  Opening(s, h, classes, count) \in V
    <3> DEFINE p == Candidate(s.host, classes.normal)
               host == Open(s.host, p)
               opened == [host |-> host, best |-> EvaluatePlans(h, classes, count, host)]
    <3>1. Opening(s, h, classes, count) =
            IF WorthOpening(s.best, count) /\ p \in DOMAIN s.host.unused THEN opened ELSE s
      BY DEF Opening, PromoteOne
    <3> HIDE DEF p
    <3>2. /\ s.host \in HostsOn(D, N) /\ s.host.free = h.free /\ s.host.disks = h.disks
          /\ TwoSides(s.host) /\ ToSet(s.host.unused) \subseteq T
      <4> HIDE DEF E, A, B, S, T
      <4> QED
        OBVIOUS
    <3>3. p \in DOMAIN s.host.unused => opened \in V
      <4>1. SUFFICES ASSUME p \in DOMAIN s.host.unused
                     PROVE  opened \in V
        OBVIOUS
      <4>2. host \in HostsOn(D, N)
        BY <3>2, <4>1, OpenedStays
      <4>3. host.free = s.host.free /\ host.disks = s.host.disks
        BY <3>2 DEF Open, HostsOn
      <4>4. TwoSides(host) /\ ToSet(host.unused) \subseteq ToSet(s.host.unused)
        BY <3>2, <4>1, OpenKeepsSides
      <4> HIDE DEF host, V, T
      <4> QED
        BY <2>3, <3>2, <4>2, <4>3, <4>4
    <3> HIDE DEF opened, V
    <3> QED
      BY <3>1, <3>3
  <2> HIDE DEF V
  <2>6. last \in V
    <3>1. Len(h.unused) \in 0..Len(h.unused)
      BY <2>2
    <3> QED
      BY <2>2, <2>4, <2>5, <3>1, PromotionsRun DEF RunsPromotions
  <2> HIDE DEF last
  <2>7. /\ last.best \in E /\ SideBySide(h, last.best.normals, last.best.monos, A, B)
        /\ Alone(last.best.monos, S, h, T)
    <3> HIDE DEF E, A, B, S, T
    <3> QED
      BY <2>6 DEF V
  <2>8. /\ last.best.normals \in Seq(P) /\ last.best.monos \in Seq(P)
        /\ last.best.normal = Len(last.best.normals) /\ last.best.mono = Len(last.best.monos)
        /\ last.best.normal \in Nat /\ last.best.mono \in Nat
    <3> HIDE DEF P
    <3> QED
      BY <2>7 DEF EvaluationsOn, P
  <2>9. Weightless(unlimited, C)
    <3>1. IsFiniteSet(classes.unlimited) /\ classes.unlimited = C
          /\ \A vb \in classes.unlimited : vb.size = 0
      BY DEF Plannable
    <3> HIDE DEF C
    <3> QED
      BY <3>1, UnlimitedTakesNothing DEF Weightless
  <2> HIDE DEF unlimited
  <2>10. n \in Nat /\ n <= Len(last.best.normals) /\ n <= Len(last.best.monos)
    <3>1. count \in Int /\ last.best.normal \in Int /\ last.best.mono \in Int
      BY <2>8
    <3>2. /\ n \in {last.best.normal, last.best.mono, count}
          /\ n <= last.best.normal /\ n <= last.best.mono
      BY <3>1, LeastOfThree
    <3> HIDE DEF n
    <3>3. n \in Nat
      BY <2>8, <3>2
    <3> QED
      BY <2>8, <3>2, <3>3
  <2> HIDE DEF n
  <2>11. Kinds(A, B, C)
    BY DEF Plannable
  <2> HIDE DEF A, B, C, S, T
  <2> DEFINE normals == last.best.normals
             monos == last.best.monos
  <2>12. /\ normals \in Seq(P) /\ monos \in Seq(P) /\ n \in Nat /\ n <= Len(normals)
         /\ n <= Len(monos) /\ SideBySide(h, normals, monos, A, B) /\ Alone(monos, S, h, T)
         /\ plans = JoinPlans(n, normals, monos, unlimited)
    BY <2>1, <2>7, <2>8, <2>10
  <2> HIDE DEF normals, monos
  <2>13. Len(plans) = n
    <3>1. Len(plans) = n /\ Afforded(h, plans, A \cup B \cup C)
      BY <2>9, <2>11, <2>12, JoinedAreAfforded
    <3> QED
      BY <3>1
  <2>14. ASSUME NEW i \in 1..n
         PROVE  \E device \in T : Share(plans[i].plan, S, device, h.free[device])
    <3>1. i \in 1..Len(normals) /\ i \in 1..Len(monos)
      BY <2>12
    <3>2. Takes(normals[i], A) /\ Takes(monos[i], B)
      BY <2>12, <3>1 DEF SideBySide
    <3>3. PICK device \in T : FilledWith(monos[i].plan, S, device, h.free[device])
      BY <2>12, <3>1 DEF Alone
    <3>4. plans[i].plan = MergePlans(MergePlans(normals[i].plan, monos[i].plan), unlimited)
      BY <2>12 DEF JoinPlans
    <3>5. Share(plans[i].plan, S, device, h.free[device])
      BY <2>9, <2>11, <3>2, <3>3, <3>4, JoinedShare
    <3> QED
      BY <3>5
  <2> QED
    BY <2>13, <2>14 DEF AllShare, S, T
<1> QED
  BY <1>1, <1>2

\* Nobody uses the unused volumes of a node
Untouched(h, inf) ==
    /\ TwoSides(h) /\ \A device \in ToSet(h.unused) : inf.usage.volumes[device] = 0

\* The used volumes and the others are listed by what is free on them
ListsOf(h, free, inUse, D) ==
    h.used = RankedVolumes(free, inUse) /\ h.unused = RankedVolumes(free, D \ inUse)

\* What is in use and what is not, of a new host
LEMMA NewHostLists ==
    ASSUME NEW inf, NEW D \in SUBSET Devices, NEW N, inf.capacity \in CapacitiesOn(D, N)
    PROVE  ListsOf(NewHost(inf),
                   [device \in D |-> inf.capacity.volumes[device] - inf.usage.volumes[device]],
                   {device \in D : inf.usage.volumes[device] # 0}, D)
<1> DEFINE volumes == inf.capacity.volumes
           free == [device \in D |-> volumes[device] - inf.usage.volumes[device]]
           inUse == {device \in D : inf.usage.volumes[device] # 0}
           used == RankedVolumes(free, inUse)
           unused == RankedVolumes(free, D \ inUse)
           io(name) == SubIO(inf.capacity.disks[name].io, UsedOf(inf.usage.disks, name))
           disks == [name \in N |-> [inf.capacity.disks[name] EXCEPT !.io = io(name)]]
<1>1. DOMAIN volumes = D /\ DOMAIN inf.capacity.disks = N
  BY DEF CapacitiesOn
<1>2. NewHost(inf) = [free |-> free, used |-> used, unused |-> unused, disks |-> disks]
  BY <1>1 DEF NewHost, RankedVolumes
<1>3. NewHost(inf).used = used /\ NewHost(inf).unused = unused
  <2> HIDE DEF free, inUse, used, unused, disks
  <2> QED
    BY <1>2
<1> QED
  BY <1>3 DEF ListsOf

\* The volumes of a new host are on one side or the other
LEMMA NewHostHasSides ==
    ASSUME NEW inf, NEW D \in SUBSET Devices, NEW N, inf.capacity \in CapacitiesOn(D, N),
           IsUsage(inf.usage), NEW h, h = NewHost(inf)
    PROVE  Untouched(h, inf)
<1> DEFINE volumes == inf.capacity.volumes
           free == [device \in D |-> volumes[device] - inf.usage.volumes[device]]
           inUse == {device \in D : inf.usage.volumes[device] # 0}
           used == RankedVolumes(free, inUse)
           unused == RankedVolumes(free, D \ inUse)
<1>1. /\ DOMAIN volumes = D /\ DOMAIN inf.capacity.disks = N /\ \A device \in D : volumes[device] \in Int
      /\ \A device \in D : inf.usage.volumes[device] \in Int
  BY DEF CapacitiesOn, IsUsage, UsagesOn
<1>2. h.used = used /\ h.unused = unused
  <2>1. ListsOf(h, free, inUse, D)
    BY NewHostLists
  <2> HIDE DEF free, inUse
  <2> QED
    BY <2>1 DEF ListsOf
<1>3. \A device \in D : free[device] \in Int
  BY <1>1
<1>4. inUse \in SUBSET Devices /\ D \ inUse \in SUBSET Devices
  OBVIOUS
<1> HIDE DEF free
<1>5. Lists(used, inUse)
  <2>1. \A device \in inUse : free[device] \in Int
    BY <1>3
  <2> HIDE DEF inUse
  <2> QED
    BY <1>4, <2>1, VolumesAreRanked
<1>6. Lists(unused, D \ inUse)
  <2> DEFINE rest == D \ inUse
  <2>1. \A device \in rest : free[device] \in Int
    BY <1>3
  <2>2. rest \in SUBSET Devices
    BY <1>4
  <2> HIDE DEF rest
  <2>3. Lists(RankedVolumes(free, rest), rest)
    BY <2>1, <2>2, VolumesAreRanked
  <2> QED
    BY <2>3 DEF rest
<1> HIDE DEF used, unused
<1>7. /\ used \in Seq(inUse) /\ unused \in Seq(D \ inUse)
      /\ \A i \in 1..Len(unused), j \in 1..Len(unused) : unused[i] = unused[j] => i = j
  BY <1>5, <1>6 DEF Lists
<1>8. \A i \in 1..Len(used) : used[i] \in inUse
  BY <1>7, MembersAreIn
<1>9. /\ \A i \in 1..Len(unused) : unused[i] \in D \ inUse
      /\ ToSet(unused) \subseteq D \ inUse
  BY <1>7, MembersAreIn
<1>10. TwoSides(h)
  BY <1>2, <1>7, <1>8, <1>9 DEF TwoSides
<1>11. \A device \in ToSet(h.unused) : inf.usage.volumes[device] = 0
  BY <1>2, <1>9
<1> QED
  BY <1>10, <1>11 DEF Untouched

\* What some bindings of a workload have of a device is part of what its plan has
LEMMA SpaceIsPart ==
    ASSUME NEW work, Sized(work.plan), NEW vbs, NEW device
    PROVE  /\ SpaceOf(work, vbs, device)
                = SumOver(SizesOf(work.plan), vbs \cap Placed(work.plan, device))
           /\ SpaceOf(work, vbs, device) \in Nat
           /\ SpaceOf(work, vbs, device) <= Space(work.plan, device)
<1> DEFINE S == {vb \in vbs \cap DOMAIN work.plan : work.plan[vb].device = device}
           T == Placed(work.plan, device)
           g == SizesOf(work.plan)
           a == [vb \in S |-> work.plan[vb].size]
           b == [vb \in S |-> g[vb]]
<1>1. S = vbs \cap T
  BY DEF Placed
<1>2. a = b
  BY DEF SizesOf
<1>3. SpaceOf(work, vbs, device) = SumFunction(a)
  BY DEF SpaceOf
<1>4. SumOver(g, S) = SumFunction(b)
  BY DEF SumOver
<1>5. IsFiniteSet(T)
  BY FS_Subset DEF Sized, Placed
<1>6. \A vb \in T : g[vb] \in Nat
  BY DEF Sized, SizesOf, Placed
<1> HIDE DEF S, T, g, a, b
<1>7. SumOver(g, S) \in Nat /\ SumOver(g, S) <= SumOver(g, T)
  <2>1. S \in SUBSET T
    BY <1>1
  <2> QED
    BY <1>5, <1>6, <2>1, SumIsNat
<1>8. Space(work.plan, device) = SumOver(g, T)
  BY DEF Space, g, T
<1>9. SpaceOf(work, vbs, device) = SumOver(g, S)
  BY <1>2, <1>3, <1>4
<1> QED
  BY <1>1, <1>7, <1>8, <1>9 DEF g, T

\* What two of some plans have of a device is no more than what all of them have
LEMMA TwoOfAll ==
    ASSUME NEW n \in Nat, NEW f, \A i \in 1..n : f[i] \in Nat, NEW i \in 1..n, NEW j \in 1..n, i # j
    PROVE  f[i] <= SumOver(f, 1..n) /\ f[i] + f[j] <= SumOver(f, 1..n)
<1> DEFINE S == 1..n
<1>1. IsFiniteSet(S) /\ Integral(f, S)
  BY FS_Interval DEF Integral
<1>2. S \in SUBSET S /\ i \in S /\ j \in S \ {i} /\ S \ {i} \in SUBSET S /\ (S \ {i}) \ {j} \in SUBSET S
  OBVIOUS
<1>3. \A x \in S : f[x] \in Nat
  OBVIOUS
<1> HIDE DEF S
<1>4. SumOver(f, S) = f[i] + SumOver(f, S \ {i})
  BY <1>1, <1>2, SumSplits
<1>5. SumOver(f, S \ {i}) = f[j] + SumOver(f, (S \ {i}) \ {j})
  BY <1>1, <1>2, SumSplits
<1>6. SumOver(f, (S \ {i}) \ {j}) \in Nat /\ SumOver(f, S \ {i}) \in Nat /\ SumOver(f, S) \in Nat
  BY <1>1, <1>2, <1>3, SumIsNat
<1>7. f[i] \in Nat /\ f[j] \in Nat
  OBVIOUS
<1>8. f[i] <= SumOver(f, S) /\ f[i] + f[j] <= SumOver(f, S)
  BY <1>4, <1>5, <1>6, <1>7
<1> QED
  BY <1>8 DEF S

\* One alone as well
LEMMA OneOfAll ==
    ASSUME NEW n \in Nat, NEW f, \A i \in 1..n : f[i] \in Nat, NEW i \in 1..n
    PROVE  f[i] <= SumOver(f, 1..n)
<1> DEFINE S == 1..n
<1>1. IsFiniteSet(S) /\ Integral(f, S)
  BY FS_Interval DEF Integral
<1>2. S \in SUBSET S /\ i \in S /\ S \ {i} \in SUBSET S /\ \A x \in S : f[x] \in Nat
  OBVIOUS
<1> HIDE DEF S
<1>4. SumOver(f, S) = f[i] + SumOver(f, S \ {i})
  BY <1>1, <1>2, SumSplits
<1>6. SumOver(f, S \ {i}) \in Nat
  BY <1>1, <1>2, SumIsNat
<1>8. f[i] <= SumOver(f, S)
  BY <1>2, <1>4, <1>6
<1> QED
  BY <1>8 DEF S

\* With a part of its bindings a workload has all of the device, nobody has any of it
TakesAll(inf, works, i, mono, others, all, device) ==
    /\ SpaceOf(works[i], mono, device) = inf.capacity.volumes[device]
    /\ inf.usage.volumes[device] = 0
    /\ \A j \in DOMAIN works : SpaceOf(works[j], IF j = i THEN others ELSE all, device) = 0

\* Workloads that have these plans
Planned(works, plans) ==
    DOMAIN works = 1..Len(plans) /\ \A i \in 1..Len(plans) : works[i].plan = plans[i].plan

\* The workload whose group shares a volume nobody used has it to itself
LEMMA SharedIsAlone ==
    ASSUME NEW h, NEW inf, NEW D, NEW N, HostOf(h, inf, D, N), Untouched(h, inf),
           NEW plans, Len(plans) \in Nat, DOMAIN plans = 1..Len(plans), NEW vbs,
           Afforded(h, plans, vbs), NEW works, Planned(works, plans), NEW i \in 1..Len(plans),
           NEW mono, NEW others, mono \cap others = {}, NEW device \in ToSet(h.unused),
           Share(plans[i].plan, mono, device, h.free[device])
    PROVE  TakesAll(inf, works, i, mono, others, vbs, device)
<1> DEFINE n == Len(plans)
           f == SpaceIn(plans, device)
           g == SizesOf(plans[i].plan)
           T == Placed(plans[i].plan, device)
           free == h.free[device]
<1>1. /\ n \in Nat /\ DOMAIN works = 1..n /\ i \in 1..n
      /\ \A j \in 1..n : works[j].plan = plans[j].plan /\ Sized(plans[j].plan)
  BY DEF Planned, Afforded, Takes
<1>2. h.unused \in Seq(D) /\ D \in SUBSET Devices /\ h.free \in [D -> Int]
      /\ inf.capacity \in CapacitiesOn(D, N)
  BY DEF HostOf, HostsOn
<1>3. device \in D
  BY <1>2, MembersAreIn
<1>4. inf.usage.volumes[device] = 0
  BY DEF Untouched
<1>5. free \in Int /\ free = inf.capacity.volumes[device]
  <2>1. inf.capacity.volumes[device] \in Int
    BY <1>2, <1>3 DEF CapacitiesOn
  <2>2. free = inf.capacity.volumes[device] - inf.usage.volumes[device]
    BY <1>3 DEF HostOf
  <2> HIDE DEF free
  <2> QED
    BY <1>4, <2>1, <2>2
<1>6. \A j \in 1..n : f[j] = Space(plans[j].plan, device) /\ f[j] \in Nat
  <2> TAKE j \in 1..n
  <2>1. f[j] = Space(plans[j].plan, device)
    BY DEF SpaceIn
  <2> QED
    BY <1>1, <2>1, SpaceIsNat
<1>7. SumOver(f, 1..n) <= free
  BY <1>2, <1>3 DEF Afforded, AllSpace
<1>8. mono \subseteq T /\ SumOver(g, mono) = free
  BY DEF Share, Placed
<1>9. IsFiniteSet(T) /\ \A vb \in T : g[vb] \in Nat
  <2>1. Sized(plans[i].plan)
    BY <1>1
  <2>2. IsFiniteSet(T)
    BY <2>1, FS_Subset DEF Sized, Placed
  <2> QED
    BY <2>1, <2>2 DEF Sized, SizesOf, Placed
<1>10. f[i] = SumOver(g, T)
  BY <1>6 DEF Space
<1> HIDE DEF f, g, T, free, n
<1>11. SumOver(f, 1..n) \in Nat
  <2>1. IsFiniteSet(1..n)
    BY <1>1, FS_Interval
  <2> QED
    BY <1>6, <2>1, SumIsNat
<1>12. f[i] = free
  <2>1. f[i] <= SumOver(f, 1..n)
    BY <1>1, <1>6, OneOfAll
  <2>2. SumOver(g, mono) <= SumOver(g, T) /\ SumOver(g, T) \in Nat
    <3>1. mono \in SUBSET T
      BY <1>8
    <3> QED
      BY <1>9, <3>1, SumIsNat
  <2> QED
    BY <1>5, <1>7, <1>8, <1>10, <1>11, <2>1, <2>2
<1>13. SpaceOf(works[i], mono, device) = free
  <2>1. SpaceOf(works[i], mono, device) = SumOver(g, mono \cap T)
    <3>1. works[i].plan = plans[i].plan /\ Sized(works[i].plan)
      BY <1>1
    <3> QED
      BY <3>1, SpaceIsPart, ZenonT(60) DEF g, T
  <2>2. mono \cap T = mono
    BY <1>8
  <2> QED
    BY <1>8, <2>1, <2>2
<1>14. SpaceOf(works[i], others, device) = 0
  <2> DEFINE rest == others \cap T
  <2>1. SpaceOf(works[i], others, device) = SumOver(g, rest)
    <3>1. works[i].plan = plans[i].plan /\ Sized(works[i].plan)
      BY <1>1
    <3> QED
      BY <3>1, SpaceIsPart, ZenonT(60) DEF g, T
  <2>2. rest \in SUBSET T /\ mono \in SUBSET T /\ mono \cap rest = {} /\ mono \cup rest \in SUBSET T
    BY <1>8
  <2> HIDE DEF rest
  <2>3. Integral(g, mono) /\ Integral(g, rest)
    BY <1>9, <2>2, FS_Subset DEF Integral
  <2>4. SumOver(g, mono \cup rest) = SumOver(g, mono) + SumOver(g, rest)
    BY <2>2, <2>3, SumJoins
  <2>5. SumOver(g, mono \cup rest) <= SumOver(g, T) /\ SumOver(g, rest) \in Nat
        /\ SumOver(g, T) \in Nat /\ SumOver(g, mono \cup rest) \in Nat
    BY <1>9, <2>2, SumIsNat
  <2>6. SumOver(g, rest) = 0
    BY <1>5, <1>8, <1>10, <1>12, <2>4, <2>5
  <2> QED
    BY <2>1, <2>6
<1>15. ASSUME NEW j \in 1..n, j # i
       PROVE  SpaceOf(works[j], vbs, device) = 0
  <2>1. f[i] + f[j] <= SumOver(f, 1..n)
    BY <1>1, <1>6, <1>15, TwoOfAll
  <2>2. f[j] = 0
    BY <1>1, <1>5, <1>6, <1>7, <1>11, <1>12, <2>1
  <2>3. works[j].plan = plans[j].plan /\ Sized(works[j].plan)
    BY <1>1
  <2>4. SpaceOf(works[j], vbs, device) \in Nat
        /\ SpaceOf(works[j], vbs, device) <= Space(works[j].plan, device)
    BY <2>3, SpaceIsPart
  <2>5. Space(works[j].plan, device) = 0
    BY <1>6, <2>2, <2>3
  <2> QED
    BY <2>4, <2>5
<1>16. \A j \in DOMAIN works : SpaceOf(works[j], IF j = i THEN others ELSE vbs, device) = 0
  <2> TAKE j \in DOMAIN works
  <2>1. j \in 1..n
    BY <1>1
  <2>2. CASE j = i
    BY <1>14, <2>2
  <2>3. CASE j # i
    BY <1>15, <2>1, <2>3
  <2> QED
    BY <2>2, <2>3
<1> QED
  BY <1>4, <1>5, <1>13, <1>16 DEF TakesAll

\* The monopoly bindings of a new workload have all of a device that nobody uses
LEMMA GroupsAreAlone ==
    ASSUME NEW inf, Sound(inf), NEW req \in DeployRequests, NEW count \in Nat,
           NEW works, works = Deployed(inf, count, req).works, NEW i \in DOMAIN works,
           NEW vb \in req.vbs, RequireScheduleMonopoly(vb)
    PROVE  TakesAll(inf, works, i, MonosIn(req.vbs), req.vbs \ MonosIn(req.vbs), req.vbs,
                    works[i].plan[vb].device)
<1> DEFINE able == ValidRequest(req) /\ StorageCapacity(inf, Folded(req).storage) >= count
           h == NewHost(inf)
           classes == ClassifyVolumeBindings(req.vbs)
           plans == VolumePlansOn(h, req.vbs, count)
           n == Len(plans)
           mono == MonosIn(req.vbs)
           Work(p) == [vbs |-> req.vbs, plan |-> p.plan, disks |-> p.disks,
                       storage |-> Folded(req).storage]
<1>1. able
  <2>1. ~able => works = <<>>
    BY DEF Deployed
  <2> HIDE DEF able
  <2> QED
    BY <2>1
<1>2. works = [j \in DOMAIN plans |-> Work(plans[j])]
  BY <1>1 DEF Deployed, GetVolumePlans, VolumePlansOn
<1>3. /\ DOMAIN works = DOMAIN plans
      /\ \A j \in DOMAIN plans : works[j].plan = plans[j].plan
  <2> HIDE DEF plans
  <2> QED
    BY <1>2
<1>4. Deployable(req.vbs) /\ RequestOk(req.vbs)
  BY <1>1, DeploysAreDeployable DEF Deployable
<1>5. ClassesOk(classes) /\ Plannable(classes, req.vbs) /\ Classified(req.vbs, classes)
  BY <1>4, ClassesArePlannable, ClassesAreOk
<1>6. mono = ToSet(classes.mono) /\ classes.mono # <<>>
  <2>1. Lists(classes.mono, mono)
    BY <1>5 DEF Classified, MonosIn
  <2>2. vb \in mono
    BY DEF MonosIn
  <2> HIDE DEF mono, classes
  <2>3. /\ classes.mono \in Seq(mono)
        /\ \A x \in mono : \E k \in 1..Len(classes.mono) : classes.mono[k] = x
    BY <2>1 DEF Lists
  <2>4. ToSet(classes.mono) \in SUBSET mono /\ DOMAIN classes.mono = 1..Len(classes.mono)
    BY <2>3, MembersAreIn
  <2>5. mono \subseteq ToSet(classes.mono)
    BY <2>3, <2>4 DEF ToSet
  <2>6. classes.mono # <<>>
    <3>1. ToSet(<<>>) = {}
      BY DEF ToSet
    <3> QED
      BY <2>2, <2>5, <3>1
  <2> QED
    BY <2>4, <2>5, <2>6
<1>7. plans = PlansOfClasses(h, classes, count)
  <2>1. NeedSchedule(req.vbs)
    BY DEF NeedSchedule, RequireScheduleMonopoly
  <2> QED
    BY <2>1 DEF VolumePlansOn
<1>8. Grouped(classes.mono)
  BY <1>5, <1>6 DEF Plannable
<1>9. h = NewHost(inf) /\ plans = VolumePlansOn(h, req.vbs, count)
  OBVIOUS
<1> HIDE DEF h, plans, classes, mono
<1>10. PICK D \in SUBSET Devices, N \in SUBSET DiskNames : HostOf(h, inf, D, N)
  BY <1>9, NewHostIsSolvent
<1>11. h \in HostsOn(D, N) /\ Solvent(h) /\ inf.capacity \in CapacitiesOn(D, N)
       /\ IsUsage(inf.usage)
  BY <1>10 DEF HostOf, Sound, IsInfo
<1>12. Untouched(h, inf)
  BY <1>9, <1>11, NewHostHasSides
<1>13. Afforded(h, plans, req.vbs)
  BY <1>4, <1>9, <1>11, VolumePlansAreAfforded
<1>14. n \in Nat /\ DOMAIN plans = 1..n
  <2>1. plans \in Seq(PlannedOn(D, N))
    BY <1>4, <1>9, <1>11, VolumePlansAreOn
  <2> QED
    BY <2>1
<1>15. AllShare(plans, mono, h)
  BY <1>5, <1>6, <1>7, <1>8, <1>11, <1>12, ClassesPlansShare DEF Untouched
<1>16. i \in 1..n
  BY <1>3, <1>14
<1>17. PICK device \in ToSet(h.unused) : Share(plans[i].plan, mono, device, h.free[device])
  BY <1>15, <1>16 DEF AllShare
<1>18. works[i].plan[vb].device = device
  <2>1. vb \in mono
    BY DEF MonosIn, mono
  <2>2. works[i].plan = plans[i].plan
    BY <1>3, <1>14, <1>16
  <2> QED
    BY <1>17, <2>1, <2>2 DEF Share
<1>19. Planned(works, plans)
  BY <1>3, <1>14 DEF Planned
<1> DEFINE others == req.vbs \ mono
<1>20. mono \cap others = {}
  OBVIOUS
<1> HIDE DEF others
<1>21. TakesAll(inf, works, i, mono, others, req.vbs, device)
  BY <1>10, <1>12, <1>13, <1>14, <1>16, <1>17, <1>19, <1>20, SharedIsAlone
<1> QED
  BY <1>18, <1>21 DEF mono, others

\* In every state the monopoly bindings of whatever calculate-deploy answers have all of a
\* device that nobody has any space on, whoever else is deployed with them.
THEOREM MonopoliesTakeAll == Spec => []MonopolyTakesAll
<1>1. IInv => MonopolyTakesAll
  <2> SUFFICES ASSUME IInv, NEW req \in DeployRequests
               PROVE  LET works == Deployed(info, MaxWorkloads, req).works
                          mono == MonosIn(req.vbs)
                          others == req.vbs \ mono
                      IN  \A i \in DOMAIN works : \A vb \in mono :
                             LET device == works[i].plan[vb].device
                             IN  TakesAll(info, works, i, mono, others, req.vbs, device)
    BY DEF MonopolyTakesAll, TakesAll, MonosIn
  <2>1. Sound(info) /\ MaxWorkloads \in Nat
    BY BooksBoundsAssumption DEF IInv
  <2>2. PICK works : works = Deployed(info, MaxWorkloads, req).works
    OBVIOUS
  <2>3. ASSUME NEW i \in DOMAIN works, NEW vb \in MonosIn(req.vbs)
        PROVE  TakesAll(info, works, i, MonosIn(req.vbs), req.vbs \ MonosIn(req.vbs), req.vbs,
                        works[i].plan[vb].device)
    <3>1. vb \in req.vbs /\ RequireScheduleMonopoly(vb)
      BY DEF MonosIn
    <3> QED
      BY <2>1, <2>2, <3>1, GroupsAreAlone
  <2> QED
    BY <2>2, <2>3
<1> QED
  BY <1>1, RecordsStaySound, PTL

-----------------------------------------------------------------------------
(* The types.  A workload's bindings and plan have nothing less than        *)
(* nothing, its plan is on volumes the node has, and so no volume the node  *)
(* does not have is ever used: what Put does not look at stays zero.        *)

WorksSized(works, D) == \A id \in Ids : works[id] = Nil \/ WorkSized(works[id], D)

TInv ==
    /\ IInv /\ ops \in 0..MaxOps
    /\ Confined(info.usage, DOMAIN info.capacity.volumes)
    /\ WorksSized(workload, DOMAIN info.capacity.volumes)

\* What is put in the record is the usage with what was taken, or given back
LEMMA BookingTakes ==
    ASSUME NEW inf, Sound(inf), NEW taken, AreTaken(taken), NEW incr \in BOOLEAN,
           NEW set, set = Book(inf, taken, incr), set.ok
    PROVE  set.info.usage.volumes = TakeAll(inf.usage, taken, incr).volumes
<1> DEFINE usage == NextUsage(inf.usage, Nil, Nil, taken, TRUE, incr)
           next == [inf EXCEPT !.usage = NextUsage(@, Nil, Nil, taken, TRUE, incr)]
<1>1. usage = TakeAll(inf.usage, taken, incr)
  BY DEF NextUsage, Charged
<1>2. IsUsage(usage)
  BY NextUsageIsUsage DEF Sound, IsInfo
<1>3. next = [capacity |-> inf.capacity, usage |-> usage]
  <2>1. \A x : [inf EXCEPT !.usage = x] = [capacity |-> inf.capacity, usage |-> x]
    BY DEF Sound, IsInfo
  <2>2. next = [inf EXCEPT !.usage = usage]
    OBVIOUS
  <2> HIDE DEF usage, next
  <2> QED
    BY <2>1, <2>2
<1>4. set = Put(inf, next)
  BY DEF Book, SetNodeResourceUsage
<1> HIDE DEF usage
<1>5. IsInfo(next) /\ next.usage = usage
  BY <1>2, <1>3 DEF Sound, IsInfo
<1> HIDE DEF next
<1>6. set.info.usage.volumes = next.usage.volumes
  BY <1>4, <1>5, PutStores
<1> QED
  BY <1>1, <1>5, <1>6

\* Booking what new workloads hold uses no other volumes
LEMMA BookedIsConfined ==
    ASSUME NEW D, NEW base, IsUsage(base), Confined(base, D), NEW taken, AreTaken(taken),
           \A i \in DOMAIN taken : Confined(taken[i], D)
    PROVE  Confined(TakeAll(base, taken, TRUE), D)
<1> DEFINE n == Len(taken)
           usage == TakeAll(base, taken, TRUE)
<1>1. n \in Nat /\ DOMAIN taken = 1..n /\ \A i \in 1..n : IsUsage(taken[i])
  BY DEF AreTaken
<1>2. Totals(usage, base, taken, 1..n)
  <2> HIDE DEF n
  <2> QED
    BY <1>1, BookedAddsUp
<1> HIDE DEF usage
<1> SUFFICES ASSUME NEW device \in Devices \ D
             PROVE  usage.volumes[device] = 0
  BY DEF Confined, usage
<1> DEFINE g == VolumeTaken(taken, device)
<1>3. \A i \in 1..n : g[i] = 0
  BY <1>1 DEF VolumeTaken, Confined
<1>4. usage.volumes[device] = base.volumes[device] + SumOver(g, 1..n)
  <2> HIDE DEF n
  <2> QED
    BY <1>2 DEF Totals
<1>5. base.volumes[device] = 0
  BY DEF Confined
<1> HIDE DEF g, n
<1>6. SumOver(g, 1..n) = n * 0
  BY <1>1, <1>3, SumRepeats
<1> QED
  BY <1>1, <1>4, <1>5, <1>6

\* Neither does adding or taking back one usage
LEMMA TakenIsConfined ==
    ASSUME NEW D, NEW base, Confined(base, D), NEW usage, Confined(usage, D), NEW plus \in BOOLEAN
    PROVE  Confined(TakeAll(base, <<usage>>, plus), D)
<1>1. TakeAll(base, <<usage>>, plus) = Take(base, usage, plus)
  BY TakeAllOfOne
<1>2. Confined(Take(base, usage, plus), D)
  BY DEF Take, Confined, AddUsage, SubUsage
<1> QED
  BY <1>1, <1>2

\* So does calculate-realloc: what the request takes back of a binding drops
\* the binding before it is less than nothing
LEMMA ReallocatedIsSized ==
    ASSUME NEW inf, Sound(inf), NEW D, D = DOMAIN inf.capacity.volumes,
           NEW work, WorkOk(work), WorkSized(work, D), NEW req, Wishes(req),
           NEW target, target = Reallocated(inf, work, req), target.ok
    PROVE  WorkSized(target.work, D)
<1> DEFINE merged == Merged(work, req)
           to == IF NeedSchedule(req.vbs)
                 THEN GetAffinityPlan(inf, merged.vbs, work.plan, work.vbs)
                 ELSE [ok |-> TRUE, plan |-> work.plan, disks |-> work.disks]
<1>1. merged.vbs = MergeVolumeBindings(req.vbs, work.vbs)
  BY DEF Merged
<1>2. merged.vbs \in Bindings /\ Distinct(merged.vbs)
  BY <1>1, MergedBindingsStay DEF Wishes, WorkOk
<1>3. Sizes(merged.vbs)
  BY <1>1 DEF Sizes, MergeVolumeBindings
<1> HIDE DEF merged
<1>4. /\ ValidRequest(merged)
      /\ target = [ok |-> to.ok, work |-> [vbs |-> merged.vbs, storage |-> merged.storage,
                                           plan |-> to.plan, disks |-> to.disks]]
  BY DEF Reallocated, Replanned, merged
<1>5. RequestOk(merged.vbs) /\ \A vb \in merged.vbs : Covers(vb.io, NoIO)
  BY <1>2, <1>4 DEF RequestOk, ValidRequest, ValidBindings
<1>6. to.plan \in PlansOn(D) /\ Sized(to.plan)
  <2>1. PICK N \in SUBSET DiskNames, M \in SUBSET DiskNames :
           D \in SUBSET Devices /\ inf.capacity \in CapacitiesOn(D, N) /\ inf.usage \in UsagesOn(M)
    BY RecordParts
  <2>2. work.plan \in PlansOn(D) /\ Sized(work.plan) /\ work.vbs \in Bindings
    BY DEF WorkSized, WorkOk
  <2> DEFINE answer == GetAffinityPlan(inf, merged.vbs, work.plan, work.vbs)
  <2>3. answer \in AnswersOn(D, N)
    BY <1>5, <2>1, <2>2, ReplansAreOnTheNode
  <2>4. Sized(answer.plan)
    BY <1>3, <1>5, <2>1, <2>2, ReplansAreSized
  <2> HIDE DEF answer
  <2>5. answer.plan \in PlansOn(D)
    BY <2>3 DEF AnswersOn
  <2>6. to.plan = IF NeedSchedule(req.vbs) THEN answer.plan ELSE work.plan
    BY DEF answer
  <2> QED
    BY <2>2, <2>4, <2>5, <2>6
<1> HIDE DEF to
<1>7. target.work.vbs = merged.vbs /\ target.work.plan = to.plan
  BY <1>4
<1> QED
  BY <1>3, <1>5, <1>6, <1>7 DEF WorkSized

\* A node added has the types
LEMMA InitIsTyped == Init => TInv
<1> SUFFICES ASSUME Init PROVE TInv
  OBVIOUS
<1>1. PICK capacity \in NewCapacities : info = [capacity |-> capacity, usage |-> NoUsage]
  BY DEF Init
<1>2. Confined(info.usage, DOMAIN info.capacity.volumes)
  BY <1>1 DEF Confined, NoUsage
<1>3. ops \in 0..MaxOps /\ WorksSized(workload, DOMAIN info.capacity.volumes)
  BY BooksBoundsAssumption DEF Init, WorksSized
<1> QED
  BY <1>2, <1>3, InitIsIInv DEF TInv

\* A deploy enrolls what was answered and books it
LEMMA DeployKeepsTypes == TInv /\ Deploy => TInv'
<1> SUFFICES ASSUME TInv, Deploy PROVE TInv'
  OBVIOUS
<1>1. PICK req \in DeployRequests, count \in 1..MaxWorkloads :
         /\ ops < MaxOps /\ ops' = ops + 1
         /\ LET deployed == Deployed(info, count, req)
            IN  /\ deployed.ok /\ Store(Book(info, HeldBy(deployed.works), TRUE))
                /\ workload' = Enrolled(deployed.works, count)
  BY DEF Deploy
<1>2. PICK deployed : deployed = Deployed(info, count, req)
  OBVIOUS
<1> DEFINE works == deployed.works
           taken == HeldBy(works)
           next == Enrolled(works, count)
           ids == NewIds
           result == Book(info, taken, TRUE)
           D == DOMAIN info.capacity.volumes
<1>3. deployed.ok /\ result.ok /\ info' = result.info /\ workload' = next
  BY <1>1, <1>2 DEF Store
<1>4. /\ count \in Nat /\ Wishes(req) /\ IsInfo(info) /\ Sound(info)
      /\ Folded(req).storage >= 0 /\ Sizes(req.vbs)
  <2>1. ValidRequest(req)
    BY <1>2, <1>3 DEF Deployed
  <2>2. Sizes(req.vbs)
    BY BooksInputsAssumption DEF Sizes
  <2> QED
    BY <2>1, <2>2, BooksBoundsAssumption, RequestsAreWishes, DeploysAskForSomething
    DEF TInv, IInv, Sound
<1>5. /\ Len(works) \in Nat /\ DOMAIN works = 1..Len(works) /\ count <= Len(works)
      /\ \A i \in DOMAIN works : WorkOk(works[i])
  BY <1>2, <1>3, <1>4, DeployedAreOk
<1>6. \A i \in DOMAIN works : WorkSized(works[i], D)
  BY <1>2, <1>3, <1>4, DeployedAreSized
<1>7. D \in SUBSET Devices /\ IsUsage(info.usage) /\ Confined(info.usage, D)
  BY <1>4, RecordParts DEF TInv, Sound, IsInfo
<1> HIDE DEF works, D
<1>8. WorksSized(next, D)
  <2> HIDE DEF ids
  <2>1. next = [id \in Ids |-> IF \E i \in 1..count : ids[i] = id
                               THEN works[CHOOSE i \in 1..count : ids[i] = id]
                               ELSE workload[id]]
    BY DEF Enrolled, ids
  <2> HIDE DEF next
  <2> SUFFICES ASSUME NEW id \in Ids
               PROVE  next[id] = Nil \/ WorkSized(next[id], D)
    BY DEF WorksSized
  <2>2. next[id] = IF \E i \in 1..count : ids[i] = id
                   THEN works[CHOOSE i \in 1..count : ids[i] = id]
                   ELSE workload[id]
    BY <2>1
  <2>3. CASE \E i \in 1..count : ids[i] = id
    <3>1. PICK i \in 1..count : next[id] = works[i]
      BY <2>2, <2>3
    <3>2. i \in DOMAIN works
      BY <1>4, <1>5, <3>1
    <3> QED
      BY <1>6, <3>1, <3>2
  <2>4. CASE ~ \E i \in 1..count : ids[i] = id
    BY <2>2, <2>4 DEF TInv, WorksSized, D
  <2> QED
    BY <2>3, <2>4
<1>9. AreTaken(taken)
  BY <1>5, HeldAreTaken
<1>10. \A i \in DOMAIN taken : Confined(taken[i], D)
  <2> TAKE i \in DOMAIN taken
  <2>1. i \in DOMAIN works /\ taken[i] = Held(works[i])
    BY DEF HeldBy
  <2>2. works[i].plan \in PlansOn(D)
    BY <1>6, <2>1 DEF WorkSized
  <2> QED
    BY <1>7, <2>1, <2>2, HeldIsConfined
<1> HIDE DEF taken, next
<1>11. result.info.capacity = info.capacity
  BY <1>3, <1>4, <1>9, BookingStores
<1>12. result.info.usage.volumes = TakeAll(info.usage, taken, TRUE).volumes
  BY <1>3, <1>4, <1>9, BookingTakes
<1>13. Confined(TakeAll(info.usage, taken, TRUE), D)
  BY <1>7, <1>9, <1>10, BookedIsConfined
<1> HIDE DEF result
<1>14. DOMAIN info'.capacity.volumes = D
  BY <1>3, <1>11 DEF D
<1>15. Confined(info'.usage, D)
  BY <1>3, <1>12, <1>13 DEF Confined
<1>16. WorksSized(workload', D)
  BY <1>3, <1>8
<1>17. ops' \in 0..MaxOps
  BY <1>1, BooksBoundsAssumption DEF TInv
<1>18. IInv'
  BY DeployKeepsIInv DEF TInv
<1> QED
  BY <1>14, <1>15, <1>16, <1>17, <1>18 DEF TInv, Confined, WorksSized, WorkSized, Sizes, Ids

\* A realloc books the difference, on volumes of the node
LEMMA ReallocKeepsTypes == TInv /\ Realloc => TInv'
<1> SUFFICES ASSUME TInv, Realloc PROVE TInv'
  OBVIOUS
<1>1. PICK id \in Live, req \in ReallocRequests :
         /\ ops < MaxOps /\ ops' = ops + 1
         /\ LET target == Reallocated(info, workload[id], req)
            IN  /\ target.ok
                /\ Store(Book(info, <<ReallocDelta(workload[id], target.work)>>, TRUE))
                /\ workload' = [workload EXCEPT ![id] = target.work]
  BY DEF Realloc
<1>2. PICK target : target = Reallocated(info, workload[id], req)
  OBVIOUS
<1> DEFINE delta == ReallocDelta(workload[id], target.work)
           next == [workload EXCEPT ![id] = target.work]
           result == Book(info, <<delta>>, TRUE)
           D == DOMAIN info.capacity.volumes
<1>3. target.ok /\ result.ok /\ info' = result.info /\ workload' = next
  BY <1>1, <1>2 DEF Store
<1>4. /\ id \in Ids /\ WorkOk(workload[id]) /\ WorkSized(workload[id], D) /\ Wishes(req)
      /\ IsInfo(info) /\ Sound(info) /\ WorksOk(workload)
  BY RequestsAreWishes DEF TInv, IInv, Live, WorksOk, WorksSized, Sound
<1>5. WorkOk(target.work)
  BY <1>2, <1>3, <1>4, ReallocatedIsOk
<1>6. WorkSized(target.work, D)
  BY <1>2, <1>3, <1>4, ReallocatedIsSized
<1>7. D \in SUBSET Devices /\ Confined(info.usage, D)
  BY <1>4, RecordParts DEF TInv
<1>8. WorksSized(next, D)
  BY <1>4, <1>6 DEF TInv, WorksSized, WorksOk
<1> HIDE DEF D
<1>9. AreTaken(<<delta>>)
  <2>1. IsUsage(Held(target.work)) /\ IsUsage(Held(workload[id]))
    BY <1>4, <1>5, HeldIsUsage
  <2>2. IsUsage(delta)
    BY <2>1, TakeIsUsage DEF Take, ReallocDelta
  <2> QED
    BY <2>2, OneIsTaken
<1>10. Confined(delta, D)
  <2>1. Confined(Held(target.work), D) /\ Confined(Held(workload[id]), D)
    BY <1>4, <1>6, <1>7, HeldIsConfined DEF WorkSized
  <2> QED
    BY <2>1 DEF Confined, ReallocDelta, SubUsage
<1> HIDE DEF delta, next
<1>11. result.info.capacity = info.capacity
  BY <1>3, <1>4, <1>9, BookingStores
<1>12. result.info.usage.volumes = TakeAll(info.usage, <<delta>>, TRUE).volumes
  BY <1>3, <1>4, <1>9, BookingTakes
<1>13. Confined(TakeAll(info.usage, <<delta>>, TRUE), D)
  BY <1>7, <1>10, TakenIsConfined
<1> HIDE DEF result
<1>14. DOMAIN info'.capacity.volumes = D
  BY <1>3, <1>11 DEF D
<1>15. Confined(info'.usage, D)
  BY <1>3, <1>12, <1>13 DEF Confined
<1>16. WorksSized(workload', D)
  BY <1>3, <1>8
<1>17. ops' \in 0..MaxOps
  BY <1>1, BooksBoundsAssumption DEF TInv
<1>18. IInv'
  BY ReallocKeepsIInv DEF TInv
<1> QED
  BY <1>14, <1>15, <1>16, <1>17, <1>18 DEF TInv, Confined, WorksSized, WorkSized, Sizes, Ids

\* A workload that goes leaves them
LEMMA DiscardKeepsTypes == TInv /\ Discard => TInv'
<1> SUFFICES ASSUME TInv, Discard PROVE TInv'
  OBVIOUS
<1>1. PICK id \in Live :
         /\ Store(Book(info, <<Held(workload[id])>>, FALSE))
         /\ workload' = [workload EXCEPT ![id] = Nil] /\ ops' = ops
  BY DEF Discard
<1> DEFINE held == Held(workload[id])
           next == [workload EXCEPT ![id] = Nil]
           result == Book(info, <<held>>, FALSE)
           D == DOMAIN info.capacity.volumes
<1>2. result.ok /\ info' = result.info /\ workload' = next
  BY <1>1 DEF Store
<1>3. /\ id \in Ids /\ WorkOk(workload[id]) /\ WorkSized(workload[id], D) /\ WorksOk(workload)
      /\ Sound(info)
  BY DEF TInv, IInv, Live, WorksOk, WorksSized
<1>4. D \in SUBSET Devices /\ Confined(info.usage, D)
  BY <1>3, RecordParts DEF TInv
<1>5. WorksSized(next, D)
  BY <1>3 DEF TInv, WorksSized, WorksOk
<1> HIDE DEF D
<1>6. AreTaken(<<held>>)
  BY <1>3, HeldIsUsage, OneIsTaken
<1>7. Confined(held, D)
  BY <1>3, <1>4, HeldIsConfined DEF WorkSized
<1> HIDE DEF held, next
<1>8. result.info.capacity = info.capacity
  BY <1>2, <1>3, <1>6, BookingStores
<1>9. result.info.usage.volumes = TakeAll(info.usage, <<held>>, FALSE).volumes
  BY <1>2, <1>3, <1>6, BookingTakes
<1>10. Confined(TakeAll(info.usage, <<held>>, FALSE), D)
  BY <1>4, <1>7, TakenIsConfined
<1> HIDE DEF result
<1>11. DOMAIN info'.capacity.volumes = D
  BY <1>2, <1>8 DEF D
<1>12. Confined(info'.usage, D)
  BY <1>2, <1>9, <1>10 DEF Confined
<1>13. WorksSized(workload', D)
  BY <1>2, <1>5
<1>14. ops' \in 0..MaxOps
  BY <1>1 DEF TInv
<1>15. IInv'
  BY DiscardKeepsIInv DEF TInv
<1> QED
  BY <1>11, <1>12, <1>13, <1>14, <1>15 DEF TInv, Confined, WorksSized, WorkSized, Sizes, Ids

\* Every step keeps them
LEMMA NextKeepsTypes == TInv /\ [Next]_vars => TInv'
<1> SUFFICES ASSUME TInv, [Next]_vars PROVE TInv'
  OBVIOUS
<1>1. CASE UNCHANGED vars
  BY <1>1, NextKeepsIInv
  DEF vars, TInv, Confined, WorksSized, WorkSized, Sizes, Sized, Ids
<1> QED
  BY <1>1, DeployKeepsTypes, ReallocKeepsTypes, DiscardKeepsTypes DEF Next

\* After any operations no volume's and no storage usage is less than nothing,
\* those of volumes the node does not have included, no workload holds less
\* than nothing of anything, and all are planned on volumes of the node.
THEOREM TypesHold == Spec => []BooksTypeOK
<1>1. TInv => BooksTypeOK
  <2> SUFFICES ASSUME TInv PROVE BooksTypeOK
    OBVIOUS
  <2> DEFINE D == DOMAIN info.capacity.volumes
  <2>1. /\ Sound(info) /\ IsInfo(info) /\ ValidVolumes(info) /\ ValidStorage(info)
        /\ IsUsage(info.usage) /\ DOMAIN info.usage.disks \subseteq DOMAIN info.capacity.disks
        /\ Confined(info.usage, D) /\ ops \in 0..MaxOps
    BY DEF TInv, IInv, Sound, IsInfo, ValidInfo
  <2>2. PICK N \in SUBSET DiskNames, M \in SUBSET DiskNames :
           D \in SUBSET Devices /\ info.capacity \in CapacitiesOn(D, N) /\ info.usage \in UsagesOn(M)
    BY <2>1, RecordParts
  <2>3. info.usage.volumes \in [Devices -> Nat]
    <3>1. info.usage.volumes \in [Devices -> Int]
      BY <2>2 DEF UsagesOn
    <3>2. \A device \in D : info.usage.volumes[device] >= 0
      BY <2>1 DEF ValidVolumes
    <3>3. \A device \in Devices \ D : info.usage.volumes[device] = 0
      BY <2>1 DEF Confined
    <3> HIDE DEF D
    <3>4. \A device \in Devices : info.usage.volumes[device] \in Nat
      BY <3>1, <3>2, <3>3
    <3> QED
      BY <3>1, <3>4
  <2>4. info.usage.storage \in Nat
    <3>1. info.usage.storage \in Int
      BY <2>2 DEF UsagesOn
    <3> QED
      BY <2>1, <3>1 DEF ValidStorage
  <2>5. ASSUME NEW id \in Live
        PROVE  /\ workload[id].storage \in Nat
               /\ \A vb \in workload[id].vbs : vb.size \in Nat /\ Covers(vb.io, NoIO)
               /\ \A vb \in DOMAIN workload[id].plan :
                     /\ workload[id].plan[vb].device \in D
                     /\ workload[id].plan[vb].size \in Nat
    <3> DEFINE work == workload[id]
    <3>1. WorkOk(work) /\ WorkSized(work, D)
      BY DEF TInv, IInv, WorksOk, WorksSized, Live
    <3> HIDE DEF work, D
    <3>2. work.storage \in Nat /\ work.vbs \in Bindings
      BY <3>1 DEF WorkOk
    <3>3. \A vb \in work.vbs : vb.size \in Int
      BY <3>2, BindingParts DEF Bindings
    <3>4. \A vb \in work.vbs : vb.size \in Nat /\ Covers(vb.io, NoIO)
      BY <3>1, <3>3 DEF WorkSized, Sizes
    <3>5. \A vb \in DOMAIN work.plan : work.plan[vb].device \in D /\ work.plan[vb].size \in Nat
      BY <3>1, PlanParts DEF WorkSized, Sized
    <3> QED
      BY <3>2, <3>4, <3>5 DEF work
  <2> QED
    BY <2>1, <2>3, <2>4, <2>5 DEF BooksTypeOK
<1> QED
  BY <1>1, InitIsTyped, NextKeepsTypes, PTL DEF Spec

-----------------------------------------------------------------------------
(* Counting for fewer than there can be.  A count that stops at a bound      *)
(* finds no more than one with a larger bound, and as many if it has not     *)
(* come to its bound.                                                        *)

\* n is what is counted with a bound, n1 what is counted with a larger one
CutAt(n, n1, bound) ==
    n \in Nat /\ n1 \in Nat /\ n <= n1 /\ (n < bound => n1 = n)

\* A pass after one that failed changes nothing
LEMMA CountPassesCut ==
    ASSUME NEW D \in SUBSET Devices, NEW N \in SUBSET DiskNames, NEW h \in HostsOn(D, N),
           NEW normal \in Seq(VolumeBinding), NEW mount \in Seq(VolumeBinding),
           NEW b \in Nat, NEW B \in Nat, b <= B,
           NEW s, s = CountNormalPasses(h, normal, mount, b),
           NEW s1, s1 = CountNormalPasses(h, normal, mount, B)
    PROVE  CutAt(s.capacity, s1.capacity, b) /\ (s.capacity < b => s1 = s)
<1> DEFINE W == [failed : BOOLEAN, host : HostsOn(D, N), capacity : Nat]
           zero == [failed |-> FALSE, host |-> h, capacity |-> 0]
           Kept(i, c) == /\ c \in W /\ c.capacity \in Nat /\ c.capacity <= i
                         /\ c.capacity < i => c.failed
<1>1. zero \in W
  OBVIOUS
<1>2. ASSUME NEW c \in W
      PROVE  /\ CountPass(c, normal, mount) \in W
             /\ c.failed => CountPass(c, normal, mount) = c
             /\ CountPass(c, normal, mount).capacity = c.capacity + 1
                \/ (CountPass(c, normal, mount).capacity = c.capacity
                    /\ CountPass(c, normal, mount).failed)
  <2> DEFINE a == GetMountDiskPlan(GetNormalPlan(c.host, normal), mount)
             next == CountPass(c, normal, mount)
             more == IF a.ok THEN c.capacity + 1 ELSE c.capacity
  <2>1. CASE c.failed
    BY <2>1 DEF CountPass
  <2>2. CASE ~c.failed
    <3>1. a \in AttemptsOn(D, N) /\ c.capacity \in Nat
      BY PassStays
    <3>2. next = [failed |-> ~a.ok, host |-> a.host, capacity |-> more]
      BY <2>2 DEF CountPass
    <3>3. a.ok \in BOOLEAN /\ a.host \in HostsOn(D, N)
      BY <3>1 DEF AttemptsOn
    <3>4. more \in Nat /\ (a.ok => more = c.capacity + 1) /\ (~a.ok => more = c.capacity)
      BY <3>1, <3>3
    <3> HIDE DEF a, more, next
    <3>5. next \in W /\ next.capacity = more /\ next.failed = ~a.ok
      BY <3>2, <3>3, <3>4
    <3> HIDE DEF W
    <3>6. next.capacity = c.capacity + 1 \/ (next.capacity = c.capacity /\ next.failed)
      BY <3>3, <3>4, <3>5
    <3> QED
      BY <2>2, <3>5, <3>6 DEF next
  <2> QED
    BY <2>1, <2>2
<1>3. \A c \in W : c.capacity \in Nat /\ c.failed \in BOOLEAN
  OBVIOUS
<1>4. zero.capacity = 0
  OBVIOUS
<1> HIDE DEF W, zero
<1>5. PICK f : RunsCount(f, W, h, normal, mount, b)
  BY <1>1, <1>2, CountPassesRun DEF zero
<1>6. PICK f1 : RunsCount(f1, W, h, normal, mount, B)
  BY <1>1, <1>2, CountPassesRun DEF zero
<1> DEFINE S == {i \in 0..b : f1[i] = f[i] /\ Kept(i, f[i])}
           T == {i \in 0..B : i >= b => (Kept(i, f1[i]) /\ f1[i].capacity >= f[b].capacity
                                         /\ (f[b].capacity < b => f1[i] = f[b]))}
<1>7. 0 \in S
  BY <1>1, <1>3, <1>4, <1>5, <1>6 DEF RunsCount, zero
<1>8. ASSUME NEW i \in 1..b, i - 1 \in S
      PROVE  i \in S
  <2>1. i \in 0..b /\ i - 1 \in 0..b /\ i \in 1..B
    OBVIOUS
  <2>2. f1[i - 1] = f[i - 1] /\ Kept(i - 1, f[i - 1])
    BY <1>8
  <2>3. f[i] = CountPass(f[i - 1], normal, mount) /\ f1[i] = CountPass(f1[i - 1], normal, mount)
    BY <1>5, <1>6, <2>1 DEF RunsCount
  <2>4. Kept(i, f[i])
    BY <1>2, <1>3, <2>2, <2>3
  <2> QED
    BY <2>1, <2>2, <2>3, <2>4
<1>9. b \in S
  <2> HIDE DEF S
  <2> QED
    BY <1>7, <1>8, CountsUp
<1>10. Kept(b, f[b]) /\ f1[b] = f[b]
  BY <1>9
<1>11. 0 \in T
  BY <1>10
<1>12. ASSUME NEW i \in 1..B, i - 1 \in T
       PROVE  i \in T
  <2>1. CASE i < b
    BY <2>1
  <2>2. CASE i = b
    BY <1>10, <2>2
  <2>3. CASE i > b
    <3>1. /\ Kept(i - 1, f1[i - 1]) /\ f1[i - 1].capacity >= f[b].capacity
          /\ f[b].capacity < b => f1[i - 1] = f[b]
      BY <1>12, <2>3
    <3>2. f1[i] = CountPass(f1[i - 1], normal, mount)
      BY <1>6 DEF RunsCount
    <3>3. Kept(i, f1[i])
      BY <1>2, <1>3, <3>1, <3>2
    <3>4. f1[i].capacity >= f[b].capacity
      BY <1>2, <1>3, <1>10, <3>1, <3>2
    <3>5. f[b].capacity < b => f1[i] = f[b]
      BY <1>2, <1>10, <3>1, <3>2
    <3> QED
      BY <3>3, <3>4, <3>5
  <2> QED
    BY <2>1, <2>2, <2>3
<1>13. B \in T
  <2> HIDE DEF T
  <2> QED
    BY <1>11, <1>12, CountsUp
<1>14. s = f[b] /\ s1 = f1[B]
  BY <1>5, <1>6 DEF RunsCount
<1>15. Kept(B, f1[B]) /\ f1[B].capacity >= f[b].capacity /\ (f[b].capacity < b => f1[B] = f[b])
  BY <1>13
<1> QED
  BY <1>10, <1>14, <1>15 DEF CutAt

\* A least number with a bound among the numbers is cut at the bound
LEMMA MinIsCut ==
    ASSUME NEW T \in SUBSET Nat, IsFiniteSet(T), NEW b \in Nat, NEW B \in Nat, b <= B
    PROVE  CutAt(Min({b} \cup T), Min({B} \cup T), b)
<1>1. ASSUME NEW x \in Nat
      PROVE  Min({x} \cup T) \in {x} \cup T /\ \A y \in {x} \cup T : Min({x} \cup T) <= y
  <2>1. IsFiniteSet(T \cup {x}) /\ T \cup {x} = {x} \cup T
    BY FS_AddElement
  <2>2. {x} \cup T \in SUBSET Int /\ {x} \cup T # {}
    OBVIOUS
  <2> QED
    BY <2>1, <2>2, MinOfFinite
<1> DEFINE m == Min({b} \cup T)
           m1 == Min({B} \cup T)
<1>2. m \in {b} \cup T /\ \A y \in {b} \cup T : m <= y
  BY <1>1
<1>3. m1 \in {B} \cup T /\ \A y \in {B} \cup T : m1 <= y
  BY <1>1
<1> HIDE DEF m, m1
<1>4. m \in Nat /\ m1 \in Nat /\ m <= b /\ m1 <= B
  BY <1>2, <1>3
<1>5. m <= m1
  BY <1>2, <1>3, <1>4
<1>6. m < b => m1 <= m
  BY <1>2, <1>3, <1>4
<1>7. CutAt(m, m1, b)
  BY <1>4, <1>5, <1>6 DEF CutAt
<1> QED
  BY <1>7 DEF m, m1

\* The passes of the closed form, too
LEMMA MountPassesAreCut ==
    ASSUME NEW D \in SUBSET Devices, NEW N \in SUBSET DiskNames, NEW h \in HostsOn(D, N),
           NEW mount \in Seq(VolumeBinding), NEW b \in Nat, NEW B \in Nat, b <= B, NEW first,
           first = GetMountDiskPlan(Attempt(h), mount), first.ok
    PROVE  CutAt(MountPasses(first, mount, b), MountPasses(first, mount, B), b)
<1> DEFINE S == DOMAIN first.disks
           f == [name \in S |-> 1 + QuotaHeadroom(first.host.disks[name].io,
                                                  QuotaOn(first.host, mount, name))]
           T == {f[name] : name \in S}
<1>1. first \in AttemptsOn(D, N)
  BY EmptyPlansStay, MountPassStays
<1>2. first.host \in HostsOn(D, N) /\ S \subseteq N
  BY <1>1, DiskPlanParts DEF AttemptsOn
<1>3. IsFiniteSet(S)
  <2>1. IsFiniteSet(DiskNames) /\ S \in SUBSET DiskNames
    BY <1>2, DisksAssumption
  <2> HIDE DEF S
  <2> QED
    BY <2>1, FS_Subset
<1>4. \A name \in S : f[name] \in Nat
  <2> TAKE name \in S
  <2>1. first.host.disks[name].io \in IO
    BY <1>2 DEF HostsOn, DiskCapacity
  <2>2. Covers(first.host.disks[name].io, NoIO)
    BY ChargedQuotaIsLeft
  <2>3. QuotaOn(first.host, mount, name) \in IO
    BY QuotaIsIO
  <2>4. QuotaHeadroom(first.host.disks[name].io, QuotaOn(first.host, mount, name)) \in Nat
    BY <2>1, <2>2, <2>3, HeadroomIsNat
  <2> QED
    BY <2>4
<1>5. IsFiniteSet(T)
  <2> HIDE DEF f, S
  <2> QED
    BY <1>3, ImageIsFinite
<1>6. T \in SUBSET Nat
  BY <1>4
<1>7. /\ MountPasses(first, mount, b) = Min({b} \cup T)
      /\ MountPasses(first, mount, B) = Min({B} \cup T)
  BY DEF MountPasses
<1> HIDE DEF T
<1> QED
  BY <1>5, <1>6, <1>7, MinIsCut

\* n is the outcome of a count with a bound, n1 with a larger one
CountCut(n, n1, bound) ==
    CutAt(n.capacity, n1.capacity, bound) /\ (n.capacity < bound => n1.host = n.host)

\* And what they leave, the charges of the pass that fails included
LEMMA MountCountIsCut ==
    ASSUME NEW D \in SUBSET Devices, NEW N \in SUBSET DiskNames, NEW h \in HostsOn(D, N),
           NEW mount \in Seq(VolumeBinding), NEW b \in Nat, NEW B \in Nat, b <= B
    PROVE  CountCut(ApplyMountPasses(h, mount, b), ApplyMountPasses(h, mount, B), b)
<1> DEFINE first == GetMountDiskPlan(Attempt(h), mount)
           refused == [host |-> first.host, capacity |-> 0, disks |-> NoDisks]
           last(n, bound) == TrailingPass(ChargePasses(first.host, mount, DOMAIN first.disks, n - 1),
                                          mount, n, bound)
           n1 == MountPasses(first, mount, b)
           n2 == MountPasses(first, mount, B)
           s1 == ApplyMountPasses(h, mount, b)
           s2 == ApplyMountPasses(h, mount, B)
<1>1. /\ s1 = IF ~first.ok \/ b < 1 THEN refused
              ELSE [host |-> last(n1, b), capacity |-> n1, disks |-> first.disks]
      /\ s2 = IF ~first.ok \/ B < 1 THEN refused
              ELSE [host |-> last(n2, B), capacity |-> n2, disks |-> first.disks]
  BY DEF ApplyMountPasses
<1>2. first.ok => CutAt(n1, n2, b)
  BY MountPassesAreCut
<1>3. n1 < b => n1 < B \/ ~(n1 \in Int)
  OBVIOUS
<1>4. \A n : n < b /\ n < B => last(n, b) = last(n, B)
  BY DEF TrailingPass
<1> HIDE DEF first, refused, last, n1, n2, s1, s2
<1>5. refused.capacity = 0 /\ refused.host = first.host
  BY DEF refused
<1>6. CASE ~first.ok
  <2>1. s1 = refused /\ s2 = refused
    BY <1>1, <1>6
  <2>2. CountCut(s1, s2, b)
    BY <1>5, <2>1 DEF CountCut, CutAt
  <2> QED
    BY <2>2 DEF s1, s2
<1>7. CASE first.ok /\ b < 1
  <2>1. b = 0 /\ s1.capacity = 0
    BY <1>1, <1>5, <1>7
  <2>2. s2.capacity \in Nat
    BY <1>1, <1>2, <1>5, <1>7 DEF CutAt
  <2>3. CountCut(s1, s2, b)
    BY <2>1, <2>2 DEF CountCut, CutAt
  <2> QED
    BY <2>3 DEF s1, s2
<1>8. CASE first.ok /\ b >= 1
  <2>1. s1.capacity = n1 /\ s1.host = last(n1, b) /\ s2.capacity = n2 /\ s2.host = last(n2, B)
    BY <1>1, <1>8
  <2>2. n1 \in Nat /\ n2 \in Nat /\ n1 <= n2 /\ (n1 < b => n2 = n1)
    BY <1>2, <1>8 DEF CutAt
  <2>3. n1 < b => s2.host = s1.host
    BY <1>4, <2>1, <2>2
  <2>4. CountCut(s1, s2, b)
    BY <2>1, <2>2, <2>3 DEF CountCut, CutAt
  <2> QED
    BY <2>4 DEF s1, s2
<1>9. b < 1 \/ b >= 1
  OBVIOUS
<1> QED
  BY <1>6, <1>7, <1>8, <1>9

\* Passes over normal bindings and mounts
LEMMA NormalCountIsCut ==
    ASSUME NEW D \in SUBSET Devices, NEW N \in SUBSET DiskNames, NEW h \in HostsOn(D, N),
           NEW normal \in Seq(VolumeBinding), NEW mount \in Seq(VolumeBinding),
           NEW c \in Nat, NEW C \in Nat, c <= C,
           NEW b \in Nat, NEW B \in Nat, c <= b, b <= B, NEW n, NEW n1,
           n = CountNormalPlans(h, c, normal, mount, b),
           n1 = CountNormalPlans(h, C, normal, mount, B)
    PROVE  /\ CutAt(n.capacity, n1.capacity, c)
           /\ b = B => n1.host = n.host
<1>1. ASSUME NEW s, NEW s1, CountCut(s, s1, b)
      PROVE  CutAt(s.capacity, s1.capacity, c)
  BY <1>1 DEF CountCut, CutAt
<1>2. CASE normal # <<>>
  <2>1. n = CountNormalPasses(h, normal, mount, b) /\ n1 = CountNormalPasses(h, normal, mount, B)
    BY <1>2 DEF CountNormalPlans
  <2>2. CutAt(n.capacity, n1.capacity, b) /\ (n.capacity < b => n1 = n)
    BY <2>1, CountPassesCut
  <2>3. CountCut(n, n1, b)
    BY <2>2 DEF CountCut
  <2> QED
    BY <1>1, <2>1, <2>3
<1>3. CASE normal = <<>> /\ AnyRequireIOPS(mount)
  <2>1. n = ApplyMountPasses(h, mount, b) /\ n1 = ApplyMountPasses(h, mount, B)
    BY <1>3 DEF CountNormalPlans
  <2>2. CountCut(n, n1, b)
    BY <2>1, MountCountIsCut
  <2> QED
    BY <1>1, <2>1, <2>2
<1>4. CASE normal = <<>> /\ ~AnyRequireIOPS(mount)
  <2>1. n = [host |-> h, capacity |-> c] /\ n1 = [host |-> h, capacity |-> C]
    BY <1>4 DEF CountNormalPlans
  <2> QED
    BY <2>1 DEF CutAt
<1> QED
  BY <1>2, <1>3, <1>4

\* A group of bindings without rates takes none
LEMMA GroupTakesNoRates ==
    ASSUME NEW reqs, Grouped(reqs), ~AnyRequireIOPS(reqs)
    PROVE  Group(reqs).io = NoIO
<1> DEFINE n == Len(reqs)
           first == [reqs[1] EXCEPT !.size = 0, !.io = NoIO]
           V == {vb \in VolumeBinding : vb.io = NoIO}
<1>1. n \in Nat /\ 1 \in 1..n /\ DOMAIN reqs = 1..n
  <2>1. reqs \in Seq(VolumeBinding) /\ reqs # <<>>
    BY DEF Grouped, Monopolies
  <2>2. n \in Nat /\ DOMAIN reqs = 1..n
    BY <2>1, BindingList
  <2>3. n # 0
    BY <2>1, EmptySeq
  <2> HIDE DEF n
  <2> QED
    BY <2>2, <2>3
<1>2. \A k \in 1..n : reqs[k] \in VolumeBinding /\ reqs[k].io \in IO /\ Covers(reqs[k].io, NoIO)
  BY BindingList, BindingParts DEF Monopolies, Grouped
<1>3. \A k \in 1..n : \A rate \in Rates : reqs[k].io[rate] = 0
  <2> TAKE k \in 1..n
  <2>1. ~RequireIOPS(reqs[k])
    BY <1>1 DEF AnyRequireIOPS
  <2>2. \A rate \in Rates : reqs[k].io[rate] \in Int /\ reqs[k].io[rate] >= 0
    BY <1>2 DEF Covers, NoIO, IO
  <2> QED
    BY <2>1, <2>2 DEF RequireIOPS
<1>4. first \in V
  <2>1. NoIO \in IO
    BY DEF NoIO, IO
  <2>2. PICK vb \in VolumeBinding : vb = reqs[1]
    BY <1>1, <1>2
  <2> DEFINE io == NoIO
             size == 0
             empty == [vb EXCEPT !.size = size, !.io = io]
  <2>3. first = empty
    BY <2>2
  <2>4. io \in IO /\ size \in Int /\ io = NoIO
    BY <2>1
  <2> HIDE DEF io, size
  <2>5. empty \in VolumeBinding /\ empty.io = io
    BY <2>4 DEF VolumeBinding
  <2> HIDE DEF first, empty
  <2> QED
    BY <2>3, <2>4, <2>5
<1>5. \A vb \in V, k \in 1..n : AddQuota(vb, reqs[k]) \in V
  <2> TAKE vb \in V, k \in 1..n
  <2>1. AddQuota(vb, reqs[k]) \in VolumeBinding
    BY <1>2, QuotasAddUp
  <2>2. AddQuota(vb, reqs[k]).io = AddIO(NoIO, reqs[k].io)
    BY DEF AddQuota, VolumeBinding
  <2>3. AddIO(NoIO, reqs[k].io) = NoIO
    BY <1>3 DEF AddIO, NoIO
  <2> QED
    BY <2>1, <2>2, <2>3
<1> HIDE DEF n
<1>6. PICK g : RunsGroup(g, V, reqs, n)
  <2> HIDE DEF V
  <2> QED
    BY <1>1, <1>4, <1>5, GroupRuns
<1>7. Group(reqs) = g[n] /\ g[n] \in V
  <2>1. n \in 0..n
    BY <1>1
  <2> HIDE DEF V
  <2> QED
    BY <1>6, <2>1 DEF RunsGroup
<1> QED
  BY <1>7

\* No rate of a disk is overdrawn
Rich(h) == \A name \in DOMAIN h.disks : Covers(h.disks[name].io, NoIO)

\* Hosts that are alike for a group on one of the devices
HostsAlike(h, h1, devices, reqs) ==
    /\ \A device \in devices : h1.free[device] = h.free[device]
    /\ \/ h1.disks = h.disks
       \/ Group(reqs).io = NoIO /\ Rich(h) /\ Rich(h1)

\* They stay alike once the group has it
LEMMA GroupsStayAlike ==
    ASSUME NEW D, NEW N \in SUBSET DiskNames, NEW h \in HostsOn(D, N), NEW h1 \in HostsOn(D, N),
           NEW devices \in SUBSET D, NEW device \in devices, NEW reqs,
           HostsAlike(h, h1, devices, reqs),
           NEW m, m = GetMonoPlan(h, reqs, device), NEW m1, m1 = GetMonoPlan(h1, reqs, device)
    PROVE  m1.ok = m.ok /\ HostsAlike(m.host, m1.host, devices, reqs)
<1> DEFINE total == Group(reqs)
           Empty(host) == [host EXCEPT !.free[device] = 0]
           Ok(host) == host.free[device] >= total.size /\ Qualified(host, device, total)
           name == GetDiskByPath(h.disks, device)
           After(host) == DecreaseIOPSQuota(Empty(host), device, total)
<1>1. m.ok = Ok(h) /\ m.host = After(h) /\ m1.ok = Ok(h1) /\ m1.host = After(h1)
  BY DEF GetMonoPlan
<1>2. h1.free[device] = h.free[device]
  BY DEF HostsAlike
<1>3. ASSUME NEW host \in HostsOn(D, N)
      PROVE  /\ Empty(host).free = [host.free EXCEPT ![device] = 0]
             /\ Empty(host).disks = host.disks
             /\ After(host).free = [host.free EXCEPT ![device] = 0]
             /\ ~RequireIOPS(total) => After(host).disks = host.disks
             /\ RequireIOPS(total) =>
                  After(host).disks = [host.disks EXCEPT ![GetDiskByPath(host.disks, device)].io =
                                                            SubIO(@, total.io)]
  <2>1. /\ Empty(host).free = [host.free EXCEPT ![device] = 0]
        /\ Empty(host).disks = host.disks /\ Empty(host) \in [free : {Empty(host).free},
              used : Seq(D), unused : Seq(D), disks : [N -> DiskCapacity]]
    BY DEF HostsOn
  <2> HIDE DEF Empty, total
  <2> QED
    BY <2>1 DEF DecreaseIOPSQuota
<1>4. DOMAIN h.free = D /\ DOMAIN h1.free = D
  BY DEF HostsOn
<1>5. \A device1 \in devices :
         [h1.free EXCEPT ![device] = 0][device1] = [h.free EXCEPT ![device] = 0][device1]
  BY <1>4 DEF HostsAlike
<1> HIDE DEF Empty, After, total
<1>9. /\ After(h).free = [h.free EXCEPT ![device] = 0]
      /\ After(h1).free = [h1.free EXCEPT ![device] = 0]
      /\ ~RequireIOPS(total) => After(h).disks = h.disks /\ After(h1).disks = h1.disks
      /\ RequireIOPS(total) =>
           /\ After(h).disks = [h.disks EXCEPT ![GetDiskByPath(h.disks, device)].io =
                                                  SubIO(@, total.io)]
           /\ After(h1).disks = [h1.disks EXCEPT ![GetDiskByPath(h1.disks, device)].io =
                                                    SubIO(@, total.io)]
  BY <1>3
<1>6. \A device1 \in devices : m1.host.free[device1] = m.host.free[device1]
  <2>1. m.host.free = [h.free EXCEPT ![device] = 0] /\ m1.host.free = [h1.free EXCEPT ![device] = 0]
    BY <1>1, <1>9
  <2> QED
    BY <1>5, <2>1
<1>7. CASE h1.disks = h.disks
  <2>1. Qualified(h1, device, total) <=> Qualified(h, device, total)
    BY <1>7 DEF Qualified
  <2>2. m1.host.disks = m.host.disks
    BY <1>1, <1>7, <1>9
  <2>3. m1.ok = m.ok
    BY <1>1, <1>2, <2>1
  <2> QED
    BY <1>6, <2>2, <2>3 DEF HostsAlike
<1>8. CASE total.io = NoIO /\ Rich(h) /\ Rich(h1)
  <2>1. ~RequireIOPS(total)
    BY <1>8 DEF RequireIOPS, NoIO
  <2>2. ASSUME NEW host \in HostsOn(D, N), Rich(host)
        PROVE  Qualified(host, device, total)
    <3>1. host.disks \in [N -> DiskCapacity]
      BY DEF HostsOn
    <3>2. GetDiskByPath(host.disks, device) \in N \cup {NoDisk}
      BY <3>1, DiskIsThere
    <3> QED
      BY <1>8, <2>1, <2>2, <3>1, <3>2 DEF Qualified, IsDiskIOPSQuotaQualified, Rich
  <2>3. Qualified(h, device, total) /\ Qualified(h1, device, total)
    BY <1>8, <2>2
  <2>4. m1.ok = m.ok
    BY <1>1, <1>2, <2>3
  <2>5. m.host.disks = h.disks /\ m1.host.disks = h1.disks
    BY <1>1, <1>9, <2>1
  <2>6. Rich(m.host) /\ Rich(m1.host)
    BY <1>8, <2>5 DEF Rich
  <2> QED
    BY <1>6, <1>8, <2>4, <2>6 DEF HostsAlike, total
<1> QED
  BY <1>7, <1>8 DEF HostsAlike, total

\* s are the volumes found with a bound, s1 those found with a larger one
VolumesCut(s, s1, bound, devices, reqs) ==
    CutAt(s.capacity, s1.capacity, bound)
    /\ (s.capacity < bound => HostsAlike(s.host, s1.host, devices, reqs))

\* A volume tried keeps the two counts in step
LEMMA VolumesStayCut ==
    ASSUME NEW D, NEW N \in SUBSET DiskNames, NEW devices \in SUBSET D, NEW device \in devices,
           NEW reqs, NEW b \in Nat, NEW B \in Nat, b <= B,
           NEW s, s.host \in HostsOn(D, N), NEW s1, s1.host \in HostsOn(D, N),
           VolumesCut(s, s1, b, devices, reqs)
    PROVE  VolumesCut(CountVolume(s, reqs, b, device), CountVolume(s1, reqs, B, device),
                      b, devices, reqs)
<1> DEFINE m == GetMonoPlan(s.host, reqs, device)
           m1 == GetMonoPlan(s1.host, reqs, device)
           t == CountVolume(s, reqs, b, device)
           t1 == CountVolume(s1, reqs, B, device)
<1>1. /\ t = IF s.capacity >= b \/ ~m.ok THEN s
             ELSE [host |-> m.host, capacity |-> s.capacity + 1]
      /\ t1 = IF s1.capacity >= B \/ ~m1.ok THEN s1
              ELSE [host |-> m1.host, capacity |-> s1.capacity + 1]
  BY DEF CountVolume
<1>2. CutAt(s.capacity, s1.capacity, b)
  BY DEF VolumesCut
<1>3. s.capacity < b => m1.ok = m.ok /\ HostsAlike(m.host, m1.host, devices, reqs)
  BY GroupsStayAlike DEF VolumesCut
<1> HIDE DEF m, m1, t, t1
<1>4. s.capacity \in Nat /\ s1.capacity \in Nat /\ s.capacity <= s1.capacity
      /\ (s.capacity < b => s1.capacity = s.capacity)
  BY <1>2 DEF CutAt
<1>5. CASE s.capacity >= b
  <2>1. t = s /\ t1.capacity \in Nat /\ t1.capacity >= s1.capacity
    BY <1>1, <1>4, <1>5
  <2> QED
    BY <1>4, <1>5, <2>1 DEF VolumesCut, CutAt, t, t1
<1>6. CASE s.capacity < b /\ ~m.ok
  <2>1. t = s /\ t1 = s1
    BY <1>1, <1>3, <1>6
  <2> QED
    BY <2>1 DEF t, t1
<1>7. CASE s.capacity < b /\ m.ok
  <2>1. t = [host |-> m.host, capacity |-> s.capacity + 1]
    BY <1>1, <1>4, <1>7
  <2>2. t1 = [host |-> m1.host, capacity |-> s.capacity + 1]
    <3>1. s1.capacity = s.capacity /\ ~(s1.capacity >= B)
      BY <1>4, <1>7
    <3>2. m1.ok
      BY <1>3, <1>7
    <3> QED
      BY <1>1, <3>1, <3>2
  <2>3. /\ t.capacity = s.capacity + 1 /\ t1.capacity = s.capacity + 1
        /\ HostsAlike(t.host, t1.host, devices, reqs)
    BY <1>3, <1>7, <2>1, <2>2
  <2> QED
    BY <1>4, <2>3 DEF VolumesCut, CutAt, t, t1
<1> QED
  BY <1>4, <1>5, <1>6, <1>7

\* The volumes of a group
LEMMA MonoCountIsCut ==
    ASSUME NEW D \in SUBSET Devices, NEW N \in SUBSET DiskNames, NEW h \in HostsOn(D, N),
           NEW h1 \in HostsOn(D, N), h1.unused = h.unused, NEW reqs, Monopolies(reqs),
           HostsAlike(h, h1, ToSet(h.unused), reqs), NEW b \in Nat, NEW B \in Nat, b <= B,
           NEW c, NEW C
    PROVE  CutAt(CountMonoPlans(h, c, reqs, b), CountMonoPlans(h1, C, reqs, B), b)
<1> DEFINE n == Len(h.unused)
           U == ToSet(h.unused)
           W == [host : HostsOn(D, N), capacity : Nat]
           zero == [host |-> h, capacity |-> 0]
           zero1 == [host |-> h1, capacity |-> 0]
<1>1. zero \in W /\ zero1 \in W
  OBVIOUS
<1>2. h.unused \in Seq(D)
  BY DEF HostsOn
<1>3. n \in Nat /\ DOMAIN h.unused = 1..n /\ U \in SUBSET D
      /\ \A k \in 1..n : h.unused[k] \in D /\ h.unused[k] \in U
  BY <1>2, MembersAreIn DEF ToSet
<1>4. ASSUME NEW s \in W, NEW device \in D, NEW bound
      PROVE  CountVolume(s, reqs, bound, device) \in W
  <2> DEFINE m == GetMonoPlan(s.host, reqs, device)
  <2>1. CountVolume(s, reqs, bound, device) =
          IF s.capacity >= bound \/ ~m.ok THEN s
          ELSE [host |-> m.host, capacity |-> s.capacity + 1]
    BY DEF CountVolume
  <2>2. m.ok => m.host \in HostsOn(D, N)
    BY GroupIsPlanned
  <2> HIDE DEF m
  <2> QED
    BY <2>1, <2>2
<1>5. \A s \in W : s.host \in HostsOn(D, N)
  OBVIOUS
<1>6. VolumesCut(zero, zero1, b, U, reqs)
  BY DEF VolumesCut, CutAt
<1> HIDE DEF W, n, zero, zero1, U
<1>7. PICK f : RunsTaken(f, W, h, reqs, b, n)
  BY <1>1, <1>3, <1>4, CountVolumesRun DEF zero
<1>8. PICK f1 : RunsTaken(f1, W, h1, reqs, B, n)
  BY <1>1, <1>3, <1>4, CountVolumesRun DEF zero1
<1> DEFINE S == {k \in 0..n : VolumesCut(f[k], f1[k], b, U, reqs)}
<1>9. 0 \in S
  BY <1>3, <1>6, <1>7, <1>8 DEF RunsTaken, zero, zero1
<1>10. ASSUME NEW k \in 1..n, k - 1 \in S
       PROVE  k \in S
  <2>1. k \in 0..n /\ k - 1 \in 0..n
    BY <1>3
  <2>2. f[k - 1] \in W /\ f1[k - 1] \in W /\ VolumesCut(f[k - 1], f1[k - 1], b, U, reqs)
    BY <1>7, <1>8, <1>10, <2>1 DEF RunsTaken
  <2>3. VolumesCut(CountVolume(f[k - 1], reqs, b, h.unused[k]),
                   CountVolume(f1[k - 1], reqs, B, h.unused[k]), b, U, reqs)
    BY <1>3, <1>5, <2>2, VolumesStayCut
  <2> QED
    BY <1>7, <1>8, <2>1, <2>3 DEF RunsTaken
<1> HIDE DEF S
<1>11. n \in S
  BY <1>3, <1>9, <1>10, CountsUp
<1>12. reqs # <<>>
  BY DEF Monopolies
<1>13. /\ CountMonoPlans(h, c, reqs, b) = CountTaken(h, reqs, b).capacity
       /\ CountMonoPlans(h1, C, reqs, B) = CountTaken(h1, reqs, B).capacity
  BY <1>12 DEF CountMonoPlans, CountTaken
<1>14. CountTaken(h, reqs, b) = f[n] /\ CountTaken(h1, reqs, B) = f1[n]
  BY <1>7, <1>8 DEF RunsTaken
<1> QED
  BY <1>11, <1>13, <1>14 DEF S, VolumesCut

\* Attempts that have charged no disk
UnchargedOn(D, N, disks) == {a \in AttemptsOn(D, N) : a.host.disks = disks}

\* Bindings without rates charge none
LEMMA PassChargesNone ==
    ASSUME NEW D \in SUBSET Devices, NEW N \in SUBSET DiskNames, NEW h \in HostsOn(D, N),
           NEW normal \in Seq(VolumeBinding), NEW mount \in Seq(VolumeBinding),
           ~AnyRequireIOPS(normal), ~AnyRequireIOPS(mount)
    PROVE  GetMountDiskPlan(GetNormalPlan(h, normal), mount) \in UnchargedOn(D, N, h.disks)
<1> DEFINE V == UnchargedOn(D, N, h.disks)
<1>1. Attempt(h) \in V
  BY EmptyPlansStay DEF UnchargedOn, Attempt
<1>2. /\ Len(normal) \in Nat /\ DOMAIN normal = 1..Len(normal)
      /\ Len(mount) \in Nat /\ DOMAIN mount = 1..Len(mount)
      /\ \A k \in 1..Len(normal) : normal[k] \in VolumeBinding
      /\ \A k \in 1..Len(mount) : mount[k] \in VolumeBinding
  BY BindingList
<1>3. ASSUME NEW a \in V, NEW k \in 1..Len(normal)
      PROVE  PlaceNormal(a, normal[k]) \in V
  <2> DEFINE req == normal[k]
             fitting == Fitting(a.host, req)
             device == Least(a.host.free, fitting)
             taken == TakeSpace(a.host, device, req.size)
             next == PlaceNormal(a, req)
  <2>1. a \in AttemptsOn(D, N) /\ a.host.disks = h.disks /\ a.host \in HostsOn(D, N)
    BY DEF UnchargedOn, AttemptsOn
  <2>2. next \in AttemptsOn(D, N)
    BY <1>2, <2>1, PlaceNormalStays
  <2>3. ~RequireIOPS(req)
    BY <1>2 DEF AnyRequireIOPS
  <2>4. taken.disks = a.host.disks
    BY <2>1 DEF TakeSpace, HostsOn
  <2>5. PlaceOn(a, device, req).host = taken
    BY <2>1, <2>3 DEF PlaceOn, AttemptsOn, DecreaseIOPSQuota
  <2>6. [a EXCEPT !.ok = FALSE].host = a.host
    BY <2>1 DEF AttemptsOn
  <2>7. next = a \/ next = [a EXCEPT !.ok = FALSE] \/ next = PlaceOn(a, device, req)
    BY DEF PlaceNormal
  <2> HIDE DEF taken, device, fitting, next
  <2>8. next.host.disks = h.disks
    BY <2>1, <2>4, <2>5, <2>6, <2>7
  <2> QED
    BY <2>2, <2>8 DEF UnchargedOn, next
<1>4. ASSUME NEW a \in V, NEW k \in 1..Len(mount)
      PROVE  ChargeMount(a, mount[k]) \in V
  <2>1. ~RequireIOPS(mount[k])
    BY <1>2 DEF AnyRequireIOPS
  <2>2. ChargeMount(a, mount[k]) = a
    BY <2>1 DEF ChargeMount
  <2> QED
    BY <2>2
<1> HIDE DEF V
<1>5. GetNormalPlan(h, normal) \in V
  BY <1>1, <1>2, <1>3, NormalPlanStays
<1>6. GetMountDiskPlan(GetNormalPlan(h, normal), mount) \in V
  BY <1>2, <1>4, <1>5, MountPlanStays
<1> QED
  BY <1>6 DEF V

\* The count of normal plans, where none asks for rates
LEMMA NormalCountChargesNone ==
    ASSUME NEW D \in SUBSET Devices, NEW N \in SUBSET DiskNames, NEW h \in HostsOn(D, N),
           NEW normal \in Seq(VolumeBinding), NEW mount \in Seq(VolumeBinding),
           ~AnyRequireIOPS(normal), ~AnyRequireIOPS(mount), NEW count, NEW bound \in Nat
    PROVE  CountNormalPlans(h, count, normal, mount, bound).host.disks = h.disks
<1> DEFINE W == [failed : BOOLEAN, host : {host \in HostsOn(D, N) : host.disks = h.disks},
                 capacity : Nat]
           zero == [failed |-> FALSE, host |-> h, capacity |-> 0]
<1>1. CASE normal = <<>>
  BY <1>1 DEF CountNormalPlans
<1>2. CASE normal # <<>>
  <2>1. zero \in W
    OBVIOUS
  <2>2. ASSUME NEW c \in W
        PROVE  CountPass(c, normal, mount) \in W
    <3> DEFINE a == GetMountDiskPlan(GetNormalPlan(c.host, normal), mount)
    <3>1. a \in UnchargedOn(D, N, c.host.disks)
      BY PassChargesNone
    <3>2. a.ok \in BOOLEAN /\ a.host \in HostsOn(D, N) /\ a.host.disks = h.disks
      BY <3>1 DEF UnchargedOn, AttemptsOn
    <3>3. CountPass(c, normal, mount) =
            IF c.failed THEN c
            ELSE [failed |-> ~a.ok, host |-> a.host,
                  capacity |-> IF a.ok THEN c.capacity + 1 ELSE c.capacity]
      BY DEF CountPass
    <3> HIDE DEF a
    <3> QED
      BY <3>2, <3>3
  <2>3. \A c \in W : c.host.disks = h.disks
    OBVIOUS
  <2> HIDE DEF W
  <2>4. PICK f : RunsCount(f, W, h, normal, mount, bound)
    BY <2>1, <2>2, CountPassesRun
  <2>5. bound \in 0..bound
    OBVIOUS
  <2>6. CountNormalPasses(h, normal, mount, bound) \in W
    BY <2>4, <2>5 DEF RunsCount
  <2>7. CountNormalPlans(h, count, normal, mount, bound) = CountNormalPasses(h, normal, mount, bound)
    BY <1>2 DEF CountNormalPlans
  <2> QED
    BY <2>3, <2>6, <2>7
<1> QED
  BY <1>1, <1>2

\* What a count of normal plans leaves
Leaves(D, N, host, n) ==
    /\ n.capacity \in Nat /\ n.host \in HostsOn(D, N)
    /\ Spared(host, n.host) /\ Rich(n.host)

\* What the count of normal plans leaves of a host
LEMMA NormalCountLeaves ==
    ASSUME NEW D \in SUBSET Devices, NEW N \in SUBSET DiskNames, NEW host \in HostsOn(D, N),
           Solvent(host), TwoSides(host), NEW normal, NEW mount, NEW vbs,
           Listed(normal, mount, vbs), NEW bound \in Nat, NEW count \in Nat,
           NEW n, n = CountNormalPlans(host, count, normal, mount, bound)
    PROVE  Leaves(D, N, host, n)
<1> DEFINE normals == GetNormalPlans(host, count, normal, mount, bound)
<1>1. normal \in Seq(VolumeBinding) /\ mount \in Seq(VolumeBinding)
  BY DEF Listed
<1>2. AgreedCount(normals, n)
  BY <1>1, NormalPlansAreCounted
<1>3. normals.host \in HostsOn(D, N) /\ normals.plans \in Seq(PlannedOn(D, N))
  BY <1>1, NormalPlansAreOn
<1>4. PaidUp(host, normals, vbs)
  BY NormalPlansArePaid
<1>5. Spared(host, normals.host)
  BY <1>1, NormalPlansSpare
<1> HIDE DEF normals
<1>6. n.host = normals.host /\ n.capacity \in Nat
  BY <1>2, <1>3 DEF AgreedCount
<1>7. Rich(normals.host)
  <2>1. DOMAIN normals.host.disks = N /\ Solvent(normals.host)
    BY <1>3, <1>4 DEF HostsOn, PaidUp
  <2> QED
    BY <2>1 DEF Rich, Solvent, Covers, NoIO
<1> QED
  BY <1>3, <1>5, <1>6, <1>7 DEF Leaves

\* An evaluation for few and one for more
EvaluationsCut(best, best1, count) ==
    CutAt(best.normal, best1.normal, count) /\ CutAt(best.mono, best1.mono, count)

\* Counts that agree below a bound agree about less
LEMMA CutBelow ==
    ASSUME NEW n, NEW n1, NEW b \in Int, CutAt(n, n1, b), NEW c \in Int, c <= b
    PROVE  CutAt(n, n1, c)
BY DEF CutAt

\* The bounds of the normal plans: where they differ the group and the others
\* do not both take rates of the disks
LEMMA NormalBoundsGrow ==
    ASSUME NEW h, Len(h.unused) \in Nat, NEW classes, NEW c \in Nat, NEW C \in Nat,
           c <= C, C <= MaxInt, NEW b, b = NormalBound(h, c, classes),
           NEW B, B = NormalBound(h, C, classes)
    PROVE  /\ b \in Nat /\ B \in Nat /\ c <= b /\ b <= B
           /\ \/ classes.mono = <<>> \/ b = B \/ ~AnyRequireIOPS(classes.mono)
              \/ ~AnyRequireIOPS(classes.normal) /\ ~AnyRequireIOPS(classes.mount)
BY MaxIntAssumption DEF NormalBound, Larger

\* Two evaluations agree up to the smaller count
LEMMA EvaluationIsCut ==
    ASSUME NEW D \in SUBSET Devices, NEW N \in SUBSET DiskNames, NEW h, Len(h.unused) \in Nat,
           NEW classes, ClassesOk(classes), NEW vbs, Plannable(classes, vbs),
           NEW host \in HostsOn(D, N), Solvent(host), TwoSides(host),
           NEW c \in Nat, NEW C \in Nat, c <= C, C <= MaxInt
    PROVE  EvaluationsCut(EvaluateCapacity(h, classes, c, host),
                          EvaluateCapacity(h, classes, C, host), c)
<1> DEFINE b == NormalBound(h, c, classes)
           B == NormalBound(h, C, classes)
           n == CountNormalPlans(host, c, classes.normal, classes.mount, b)
           n1 == CountNormalPlans(host, C, classes.normal, classes.mount, B)
           limit == Larger(c, n.capacity + 1)
           limit1 == Larger(C, n1.capacity + 1)
           mono == CountMonoPlans(n.host, c, classes.mono, limit)
           mono1 == CountMonoPlans(n1.host, C, classes.mono, limit1)
<1>1. /\ EvaluateCapacity(h, classes, c, host) = [normal |-> n.capacity, mono |-> mono]
      /\ EvaluateCapacity(h, classes, C, host) = [normal |-> n1.capacity, mono |-> mono1]
  BY DEF EvaluateCapacity
<1>2. /\ b \in Nat /\ B \in Nat /\ c <= b /\ b <= B
      /\ \/ classes.mono = <<>> \/ b = B \/ ~AnyRequireIOPS(classes.mono)
         \/ ~AnyRequireIOPS(classes.normal) /\ ~AnyRequireIOPS(classes.mount)
  BY NormalBoundsGrow
<1> HIDE DEF b, B
<1>3. /\ classes.normal \in Seq(VolumeBinding) /\ classes.mount \in Seq(VolumeBinding)
      /\ Listed(classes.normal, classes.mount, NormalsIn(vbs))
  BY DEF ClassesOk, Plannable
<1>4. CutAt(n.capacity, n1.capacity, c) /\ (b = B => n1.host = n.host)
  BY <1>2, <1>3, NormalCountIsCut
<1>5. Leaves(D, N, host, n) /\ Leaves(D, N, host, n1)
  <2>1. Leaves(D, N, host, n)
    BY <1>2, <1>3, NormalCountLeaves
  <2>2. Leaves(D, N, host, n1)
    BY <1>2, <1>3, NormalCountLeaves
  <2> QED
    BY <2>1, <2>2
<1>6. ~AnyRequireIOPS(classes.normal) /\ ~AnyRequireIOPS(classes.mount)
        => n.host.disks = host.disks /\ n1.host.disks = host.disks
  BY <1>2, <1>3, NormalCountChargesNone
<1> HIDE DEF n, n1
<1>7. limit \in Nat /\ limit1 \in Nat /\ limit <= limit1 /\ c <= limit
  BY <1>4 DEF CutAt, Larger
<1> HIDE DEF limit, limit1
<1>8. CutAt(mono, mono1, c)
  <2>1. CASE classes.mono = <<>>
    <3>1. mono = c /\ mono1 = C
      BY <2>1 DEF CountMonoPlans
    <3> HIDE DEF mono, mono1
    <3> QED
      BY <3>1 DEF CutAt
  <2>2. CASE classes.mono # <<>>
    <3>1. Grouped(classes.mono) /\ Monopolies(classes.mono)
      BY <2>2 DEF Plannable, Grouped
    <3>2. /\ n.host \in HostsOn(D, N) /\ n1.host \in HostsOn(D, N) /\ Rich(n.host) /\ Rich(n1.host)
          /\ n1.host.unused = n.host.unused
          /\ \A device \in ToSet(n.host.unused) : n1.host.free[device] = n.host.free[device]
      BY <1>5 DEF Leaves, Spared
    <3>3. n1.host.disks = n.host.disks \/ Group(classes.mono).io = NoIO
      BY <1>2, <1>4, <1>6, <2>2, <3>1, GroupTakesNoRates
    <3>4. HostsAlike(n.host, n1.host, ToSet(n.host.unused), classes.mono)
      BY <3>2, <3>3 DEF HostsAlike
    <3>5. CutAt(mono, mono1, limit)
      BY <1>7, <3>1, <3>2, <3>4, MonoCountIsCut
    <3> HIDE DEF mono, mono1
    <3> QED
      BY <1>7, <3>5, CutBelow
  <2> QED
    BY <2>1, <2>2
<1> HIDE DEF mono, mono1
<1> QED
  BY <1>1, <1>4, <1>8 DEF EvaluationsCut

\* Volumes opened to count few, s, and to count more, s1: the same ones, until
\* there are enough for the few
OpeningsCut(D, N, s, s1, count) ==
    \/ /\ s.best.normal \in Nat /\ s.best.mono \in Nat
       /\ s.best.normal >= count /\ s.best.mono >= count
    \/ /\ s1.host = s.host /\ s.host \in HostsOn(D, N) /\ Solvent(s.host) /\ TwoSides(s.host)
       /\ EvaluationsCut(s.best, s1.best, count)

\* A volume opened in both keeps them in step
LEMMA OpeningsStayCut ==
    ASSUME NEW D \in SUBSET Devices, NEW N \in SUBSET DiskNames, NEW h, Len(h.unused) \in Nat,
           NEW classes, ClassesOk(classes), NEW vbs, Plannable(classes, vbs),
           NEW c \in Nat, NEW C \in Nat, c <= C, C <= MaxInt,
           NEW s, NEW s1, OpeningsCut(D, N, s, s1, c)
    PROVE  OpeningsCut(D, N, CountOpening(s, h, classes, c), CountOpening(s1, h, classes, C), c)
<1> DEFINE p == Candidate(s.host, classes.normal)
           host == Open(s.host, p)
           best == EvaluateCapacity(h, classes, c, host)
           best1 == EvaluateCapacity(h, classes, C, host)
           t == CountOpening(s, h, classes, c)
           t1 == CountOpening(s1, h, classes, C)
<1>1. t = IF WorthOpening(s.best, c) /\ p \in DOMAIN s.host.unused
          THEN [host |-> host, best |-> best] ELSE s
  BY DEF CountOpening, PromoteOne
<1>2. CASE s.best.normal \in Nat /\ s.best.mono \in Nat /\ s.best.normal >= c /\ s.best.mono >= c
  <2>1. ~WorthOpening(s.best, c)
    BY <1>2 DEF WorthOpening
  <2>2. t = s
    BY <1>1, <2>1
  <2> QED
    BY <1>2, <2>2 DEF OpeningsCut
<1>3. CASE /\ s1.host = s.host /\ s.host \in HostsOn(D, N) /\ Solvent(s.host) /\ TwoSides(s.host)
           /\ EvaluationsCut(s.best, s1.best, c)
           /\ ~(s.best.normal >= c /\ s.best.mono >= c)
  <2>1. t1 = IF WorthOpening(s1.best, C) /\ p \in DOMAIN s.host.unused
             THEN [host |-> host, best |-> best1] ELSE s1
    BY <1>3 DEF CountOpening, PromoteOne
  <2>2. WorthOpening(s.best, c) <=> WorthOpening(s1.best, C)
    BY <1>3 DEF WorthOpening, EvaluationsCut, CutAt
  <2>3. CASE ~(WorthOpening(s.best, c) /\ p \in DOMAIN s.host.unused)
    <3>1. t = s /\ t1 = s1
      BY <1>1, <2>1, <2>2, <2>3
    <3> QED
      BY <3>1
  <2>4. CASE WorthOpening(s.best, c) /\ p \in DOMAIN s.host.unused
    <3>1. t = [host |-> host, best |-> best] /\ t1 = [host |-> host, best |-> best1]
      BY <1>1, <2>1, <2>2, <2>4
    <3> HIDE DEF p
    <3>2. host \in HostsOn(D, N) /\ TwoSides(host)
      BY <1>3, <2>4, OpenedStays, OpenKeepsSides
    <3>3. host.free = s.host.free /\ host.disks = s.host.disks
      BY <1>3 DEF Open, HostsOn
    <3> HIDE DEF host
    <3>4. Solvent(host)
      BY <1>3, <3>3 DEF Solvent
    <3>5. EvaluationsCut(best, best1, c)
      BY <3>2, <3>4, EvaluationIsCut
    <3> HIDE DEF best, best1, t, t1
    <3>6. /\ t.host = host /\ t.best = best /\ t1.host = host /\ t1.best = best1
      BY <3>1
    <3>7. OpeningsCut(D, N, t, t1, c)
      BY <3>2, <3>4, <3>5, <3>6 DEF OpeningsCut
    <3> QED
      BY <3>7 DEF t, t1
  <2> QED
    BY <2>3, <2>4
<1>4. EvaluationsCut(s.best, s1.best, c) => s.best.normal \in Nat /\ s.best.mono \in Nat
  BY DEF EvaluationsCut, CutAt
<1> HIDE DEF t, t1, p, host, best, best1
<1>5. OpeningsCut(D, N, t, t1, c)
  BY <1>2, <1>3, <1>4 DEF OpeningsCut, t, t1
<1> QED
  BY <1>5 DEF t, t1

\* What is enough of many is enough of few
LEMMA ClassesPromise ==
    ASSUME NEW D \in SUBSET Devices, NEW N \in SUBSET DiskNames, NEW h \in HostsOn(D, N),
           Solvent(h), TwoSides(h), NEW classes, ClassesOk(classes), NEW vbs,
           Plannable(classes, vbs), NEW c \in Nat, NEW C \in Nat, c <= C, C <= MaxInt,
           c > 0, CapacityOfClasses(h, classes, C) >= c
    PROVE  CapacityOfClasses(h, classes, c) = c
<1> DEFINE n == Len(h.unused)
           V(k) == [host : HostsOn(D, N), best : {EvaluateCapacity(h, classes, k, host) :
                                                     host \in HostsOn(D, N)}]
           zero(k) == [host |-> h, best |-> EvaluateCapacity(h, classes, k, h)]
           last(k) == CountPromoted(h, classes, k)
           o(k) == Min({last(k).best.normal, last(k).best.mono, k})
<1>1. n \in Nat
  <2>1. h.unused \in Seq(D)
    BY DEF HostsOn
  <2> QED
    BY <2>1
<1>2. ~NoVolumes(h, classes)
  <2>1. SUFFICES ASSUME NoVolumes(h, classes)
                 PROVE  FALSE
    OBVIOUS
  <2>2. CapacityOfClasses(h, classes, C) = 0
    BY <2>1 DEF CapacityOfClasses
  <2> QED
    BY <2>2
<1>3. CapacityOfClasses(h, classes, c) = o(c) /\ CapacityOfClasses(h, classes, C) = o(C)
  BY <1>2 DEF CapacityOfClasses, CountPromoted
<1>4. \A k : zero(k) \in V(k)
  OBVIOUS
<1>5. ASSUME NEW k, NEW s \in V(k)
      PROVE  CountOpening(s, h, classes, k) \in V(k)
  <2> DEFINE p == Candidate(s.host, classes.normal)
             host == Open(s.host, p)
  <2>1. CountOpening(s, h, classes, k) =
          IF WorthOpening(s.best, k) /\ p \in DOMAIN s.host.unused
          THEN [host |-> host, best |-> EvaluateCapacity(h, classes, k, host)] ELSE s
    BY DEF CountOpening, PromoteOne
  <2>2. s.host \in HostsOn(D, N)
    OBVIOUS
  <2> HIDE DEF p
  <2>3. p \in DOMAIN s.host.unused => host \in HostsOn(D, N)
    BY <2>2, OpenedStays
  <2> HIDE DEF host
  <2> QED
    BY <2>1, <2>3
<1>6. OpeningsCut(D, N, zero(c), zero(C), c)
  <2> DEFINE e == EvaluateCapacity(h, classes, c, h)
             e1 == EvaluateCapacity(h, classes, C, h)
  <2>1. EvaluationsCut(e, e1, c)
    BY <1>1, EvaluationIsCut
  <2> HIDE DEF e, e1
  <2>2. zero(c).host = h /\ zero(C).host = h /\ zero(c).best = e /\ zero(C).best = e1
    BY DEF e, e1
  <2> HIDE DEF zero
  <2> QED
    BY <2>1, <2>2 DEF OpeningsCut
<1> HIDE DEF V, n
<1>7. PICK f : RunsCountPromotions(f, V(c), h, classes, c, n)
  BY <1>1, <1>4, <1>5, CountPromotionsRun DEF n
<1>8. PICK f1 : RunsCountPromotions(f1, V(C), h, classes, C, n)
  BY <1>1, <1>4, <1>5, CountPromotionsRun DEF n
<1> DEFINE S == {k \in 0..n : OpeningsCut(D, N, f[k], f1[k], c)}
<1>9. 0 \in S
  <2>1. f[0] = zero(c) /\ f1[0] = zero(C)
    BY <1>7, <1>8 DEF RunsCountPromotions
  <2> HIDE DEF zero
  <2> QED
    BY <1>1, <1>6, <2>1
<1>10. ASSUME NEW k \in 1..n, k - 1 \in S
       PROVE  k \in S
  <2>1. k \in 0..n /\ k - 1 \in 0..n
    BY <1>1
  <2>2. OpeningsCut(D, N, CountOpening(f[k - 1], h, classes, c),
                    CountOpening(f1[k - 1], h, classes, C), c)
    BY <1>1, <1>10, <2>1, OpeningsStayCut DEF n
  <2> QED
    BY <1>7, <1>8, <2>1, <2>2 DEF RunsCountPromotions
<1> HIDE DEF S
<1>11. n \in S
  BY <1>1, <1>9, <1>10, CountsUp
<1> HIDE DEF last
<1>12. OpeningsCut(D, N, last(c), last(C), c)
  BY <1>7, <1>8, <1>11 DEF S, RunsCountPromotions, last
<1> DEFINE a == last(c).best.normal
           b == last(c).best.mono
           a1 == last(C).best.normal
           b1 == last(C).best.mono
<1>13. /\ a \in Nat /\ b \in Nat
       /\ (a >= c /\ b >= c) \/ (CutAt(a, a1, c) /\ CutAt(b, b1, c))
  BY <1>12 DEF OpeningsCut, EvaluationsCut, CutAt
<1>14. o(c) = Min({a, b, c}) /\ o(C) = Min({a1, b1, C})
  OBVIOUS
<1> HIDE DEF a, b, a1, b1, o
<1>15. a >= c /\ b >= c
  <2>1. CASE CutAt(a, a1, c) /\ CutAt(b, b1, c)
    <3>1. a1 \in Nat /\ b1 \in Nat
      BY <2>1 DEF CutAt
    <3>2. o(C) <= a1 /\ o(C) <= b1 /\ o(C) \in Int
      <4>1. a1 \in Int /\ b1 \in Int /\ C \in Int
        BY <3>1
      <4>2. Min({a1, b1, C}) <= a1 /\ Min({a1, b1, C}) <= b1 /\ Min({a1, b1, C}) \in Int
        BY <4>1, LeastOfThree
      <4> QED
        BY <1>14, <4>2
    <3>3. a1 >= c /\ b1 >= c
      BY <1>3, <3>1, <3>2
    <3> QED
      BY <2>1, <3>3 DEF CutAt
  <2> QED
    BY <1>13, <2>1
<1>16. o(c) \in {a, b, c} /\ o(c) <= c
  <2>1. a \in Int /\ b \in Int /\ c \in Int
    BY <1>13
  <2>2. Min({a, b, c}) \in {a, b, c} /\ Min({a, b, c}) <= c
    BY <2>1, LeastOfThree
  <2> QED
    BY <1>14, <2>2
<1> QED
  BY <1>3, <1>13, <1>15, <1>16

\* How often a storage goes into what is free
LEMMA StorageCapacityIsInt ==
    ASSUME NEW inf, Sound(inf), NEW storage \in Int
    PROVE  StorageCapacity(inf, storage) \in Int
<1>1. FreeStorage(inf) \in Int
  BY DEF Sound, IsInfo, IsCapacity, IsUsage, CapacitiesOn, UsagesOn, FreeStorage
<1>2. \A a \in Int, b \in Int : b > 0 => Truncated(a, b) \in Int
  BY DEF Truncated
<1> QED
  BY <1>1, <1>2, MaxIntAssumption DEF StorageCapacity

\* The volumes of a node: if there is room for many there is for few
LEMMA VolumesPromise ==
    ASSUME NEW inf, Sound(inf), NEW vbs, Deployable(vbs), NeedSchedule(vbs),
           NEW c \in Nat, NEW C \in Nat, c > 0, c <= C, C <= MaxInt
    PROVE  /\ GetVolumeCapacity(inf, vbs, C) \in Nat
           /\ c <= GetVolumeCapacity(inf, vbs, C) => Len(GetVolumePlans(inf, vbs, c)) = c
<1> DEFINE h == NewHost(inf)
           classes == ClassifyVolumeBindings(vbs)
<1>1. PICK D \in SUBSET Devices, N \in SUBSET DiskNames : HostOf(h, inf, D, N)
  BY NewHostIsSolvent
<1>2. PICK M \in SUBSET DiskNames : inf.usage \in UsagesOn(M)
  BY DEF Sound, IsInfo, IsUsage
<1>3. inf.capacity \in CapacitiesOn(D, N) /\ h \in HostsOn(D, N) /\ Solvent(h)
  BY <1>1 DEF HostOf
<1>4. TwoSides(h)
  <2>1. IsUsage(inf.usage)
    BY <1>2 DEF IsUsage
  <2>2. Untouched(h, inf)
    BY <1>3, <2>1, NewHostHasSides
  <2> QED
    BY <2>2 DEF Untouched
<1>5. ClassesOk(classes) /\ Plannable(classes, vbs)
  BY ClassesArePlannable
<1>6. \A k : GetVolumeCapacity(inf, vbs, k) = CapacityOfClasses(h, classes, k)
  BY DEF GetVolumeCapacity
<1> HIDE DEF h, classes
<1>7. RequestOk(vbs) /\ c <= MaxInt
  BY MaxIntAssumption DEF Deployable
<1>8. GetVolumeCapacity(inf, vbs, c) = Len(GetVolumePlans(inf, vbs, c))
  BY <1>7, PlansAreCounted DEF Sound, IsInfo
<1>9. GetVolumeCapacity(inf, vbs, C) = Len(GetVolumePlans(inf, vbs, C))
  BY <1>7, PlansAreCounted DEF Sound, IsInfo
<1>10. Len(GetVolumePlans(inf, vbs, C)) \in Nat
  <2>1. VolumePlansOn(h, vbs, C) \in Seq(PlannedOn(D, N))
    BY <1>3, <1>7, VolumePlansAreOn
  <2> QED
    BY <2>1 DEF GetVolumePlans, h
<1>11. c <= GetVolumeCapacity(inf, vbs, C) => CapacityOfClasses(h, classes, c) = c
  <2> SUFFICES ASSUME c <= GetVolumeCapacity(inf, vbs, C)
               PROVE  CapacityOfClasses(h, classes, c) = c
    OBVIOUS
  <2>1. CapacityOfClasses(h, classes, C) >= c
    BY <1>6, <1>9, <1>10
  <2> QED
    BY <1>3, <1>4, <1>5, <2>1, ClassesPromise
<1> QED
  BY <1>6, <1>8, <1>9, <1>10, <1>11

\* In every state calculate-deploy delivers what get-nodes-deploy-capacity
\* promises: the scheduler, asked for fewer plans than the query counted, ends its
\* passes earlier, opens fewer volumes and leaves other charges on the disks, and
\* yet plans all that it is asked for.
THEOREM PromisesAreKept == Spec => []PromiseKept
<1>1. IInv => PromiseKept
  <2> SUFFICES ASSUME IInv, NEW req \in DeployRequests, NEW count \in 1..MaxDeployCount,
                      ValidRequest(req), count <= DeployCapacity(info, req)
               PROVE  Deployed(info, count, req).ok
    BY DEF PromiseKept
  <2> DEFINE vbs == req.vbs
             storage == Folded(req).storage
             plans == IF NeedSchedule(vbs) THEN GetVolumePlans(info, vbs, count)
                      ELSE Repeat(count, NoPlan)
             room == IF NeedSchedule(vbs) THEN GetVolumeCapacity(info, vbs, MaxDeployCount)
                     ELSE MaxDeployCount
             room1 == StorageCapacity(info, storage)
  <2>1. Sound(info)
    BY DEF IInv
  <2>2. /\ count \in Nat /\ count > 0 /\ count <= MaxDeployCount
        /\ MaxDeployCount \in Nat /\ MaxDeployCount <= MaxInt
    BY MaxDeployCountAssumption, MaxIntAssumption
  <2>3. Deployable(vbs)
    BY DeploysAreDeployable
  <2>4. storage \in Int
    BY RequestsAreWishes, FoldedIsInt
  <2>5. room1 \in Int
    BY <2>1, <2>4, StorageCapacityIsInt
  <2>6. count <= Smaller(room, room1)
    BY DEF DeployCapacity
  <2>7. room \in Nat /\ (count <= room => Len(plans) = count)
    <3>1. CASE NeedSchedule(vbs)
      <4>1. /\ GetVolumeCapacity(info, vbs, MaxDeployCount) \in Nat
            /\ count <= GetVolumeCapacity(info, vbs, MaxDeployCount)
                 => Len(GetVolumePlans(info, vbs, count)) = count
        BY <2>1, <2>2, <2>3, <3>1, VolumesPromise
      <4> QED
        BY <3>1, <4>1
    <3>2. CASE ~NeedSchedule(vbs)
      BY <2>2, <3>2, RepeatedOften
    <3> QED
      BY <3>1, <3>2
  <2>8. Deployed(info, count, req).ok = (Len(plans) >= count) \/ ~(room1 >= count)
    BY DEF Deployed
  <2> HIDE DEF room, room1, plans
  <2>9. count <= room /\ count <= room1
    BY <2>2, <2>5, <2>6, <2>7 DEF Smaller
  <2>10. Len(plans) >= count
    BY <2>2, <2>7, <2>9
  <2> QED
    BY <2>2, <2>5, <2>8, <2>9, <2>10
<1> QED
  BY <1>1, RecordsStaySound, PTL

-----------------------------------------------------------------------------
(* Mounts alone: the closed form is the loop                                *)

\* Hosts that differ in the rates that are left at most
Kin(h, h1) ==
    /\ h1.free = h.free /\ h1.used = h.used /\ h1.unused = h.unused
    /\ SameMounts(h.disks, h1.disks)

\* Hosts alike stay alike
LEMMA KinIsKin ==
    ASSUME NEW h, NEW h1, NEW h2, Kin(h, h1)
    PROVE  /\ Kin(h, h) /\ Kin(h1, h)
           /\ Kin(h1, h2) => Kin(h, h2)
BY DEF Kin, SameMounts

\* With the same rates left they are one
LEMMA KinWithTheSame ==
    ASSUME NEW D, NEW N, NEW h \in HostsOn(D, N), NEW h1 \in HostsOn(D, N), Kin(h, h1),
           \A name \in N : \A rate \in Rates : h1.disks[name].io[rate] = h.disks[name].io[rate]
    PROVE  h1 = h
<1>1. /\ h = [free |-> h.free, used |-> h.used, unused |-> h.unused, disks |-> h.disks]
      /\ h1 = [free |-> h1.free, used |-> h1.used, unused |-> h1.unused, disks |-> h1.disks]
      /\ h.disks \in [N -> DiskCapacity] /\ h1.disks \in [N -> DiskCapacity]
  BY DEF HostsOn
<1>2. ASSUME NEW name \in N
      PROVE  h1.disks[name] = h.disks[name]
  <2>1. h.disks[name] \in DiskCapacity /\ h1.disks[name] \in DiskCapacity
    BY <1>1
  <2>2. h.disks[name].io \in [Rates -> Int] /\ h1.disks[name].io \in [Rates -> Int]
    BY <2>1 DEF DiskCapacity, IO
  <2>3. h1.disks[name].io = h.disks[name].io
    BY <2>2
  <2>4. h1.disks[name].mounts = h.disks[name].mounts
    BY <1>1 DEF Kin, SameMounts
  <2> QED
    BY <2>1, <2>3, <2>4 DEF DiskCapacity
<1>3. h1.disks = h.disks
  BY <1>1, <1>2
<1> QED
  BY <1>1, <1>3 DEF Kin

\* An attempt at mounts that has taken of the host what it has put down
Exact(D, N, h) ==
    {a \in AttemptsOn(D, N) :
        /\ Kin(h, a.host)
        /\ \A name \in N : \A rate \in Rates :
              /\ UsedOf(a.disks, name)[rate] \in Nat
              /\ a.host.disks[name].io[rate] + UsedOf(a.disks, name)[rate] = h.disks[name].io[rate]}

\* An attempt at nothing has taken nothing
LEMMA AttemptIsExact ==
    ASSUME NEW D, NEW N, NEW h \in HostsOn(D, N)
    PROVE  Attempt(h) \in Exact(D, N, h)
<1>1. Attempt(h) \in AttemptsOn(D, N)
  BY EmptyPlansStay
<1>2. Attempt(h).host = h /\ Attempt(h).disks = NoDisks
  BY DEF Attempt
<1>3. Kin(h, h)
  BY DEF Kin, SameMounts
<1>4. \A name \in N : \A rate \in Rates : h.disks[name].io[rate] \in Int
  BY DEF HostsOn, DiskCapacity, IO
<1>5. \A name : \A rate \in Rates : UsedOf(NoDisks, name)[rate] = 0
  BY NoDisksTaken
<1> QED
  BY <1>1, <1>2, <1>3, <1>4, <1>5 DEF Exact

\* A mount that is charged: what becomes of the host and of the disk plan
LEMMA ChargedMount ==
    ASSUME NEW D, NEW N \in SUBSET DiskNames, NEW a \in AttemptsOn(D, N), NEW req, Wanted(req),
           RequireIOPS(req), a.ok, Qualified(a.host, req.source, req),
           NEW b, b = ChargeMount(a, req), NEW quota, quota = DiskQuota(a.host, req.source, req)
    PROVE  /\ b.ok /\ b.disks = AddDisks(a.disks, quota) /\ Kin(a.host, b.host)
           /\ quota \in DiskPlansOn(N)
           /\ ChargedBy(a.host, b.host, quota)
<1> DEFINE host == DecreaseIOPSQuota(a.host, req.source, req)
           name == GetDiskByPath(a.host.disks, req.source)
<1>1. a.host \in HostsOn(D, N)
  BY DEF AttemptsOn
<1>2. ChargedBy(a.host, host, quota)
  BY <1>1, QuotaIsCharged DEF Wanted, VolumeBinding
<1>3. host = [a.host EXCEPT !.disks[name].io = SubIO(@, req.io)]
  BY DEF DecreaseIOPSQuota
<1>4. host.used = a.host.used /\ host.unused = a.host.unused
  <2> HIDE DEF host, name
  <2> QED
    BY <1>1, <1>3 DEF HostsOn
<1>5. b = [a EXCEPT !.host = host, !.disks = AddDisks(a.disks, quota)]
  BY DEF ChargeMount
<1>6. quota \in DiskPlansOn(N)
  <2>1. req.io \in IO
    BY DEF Wanted, VolumeBinding
  <2> QED
    BY <1>1, <2>1, ChargesStay
<1> HIDE DEF host, name
<1>7. b.ok /\ b.host = host /\ b.disks = AddDisks(a.disks, quota)
  BY <1>5 DEF AttemptsOn
<1>8. Kin(a.host, host)
  BY <1>2, <1>4 DEF Kin, SameMounts, ChargedBy
<1> QED
  BY <1>2, <1>6, <1>7, <1>8

\* One that is not
LEMMA UnchargedMount ==
    ASSUME NEW D, NEW N, NEW a \in AttemptsOn(D, N), NEW req,
           ~(RequireIOPS(req) /\ a.ok /\ Qualified(a.host, req.source, req)),
           NEW b, b = ChargeMount(a, req)
    PROVE  /\ b.host = a.host /\ b.disks = a.disks
           /\ b.ok = (a.ok /\ ~RequireIOPS(req))
BY DEF ChargeMount, AttemptsOn

\* A mount keeps the accounts
LEMMA ChargeMountIsExact ==
    ASSUME NEW D \in SUBSET Devices, NEW N \in SUBSET DiskNames, NEW h \in HostsOn(D, N),
           NEW a \in Exact(D, N, h), NEW req, Wanted(req)
    PROVE  ChargeMount(a, req) \in Exact(D, N, h)
<1> DEFINE b == ChargeMount(a, req)
           quota == DiskQuota(a.host, req.source, req)
<1>1. a \in AttemptsOn(D, N) /\ a.host \in HostsOn(D, N) /\ a.disks \in DiskPlansOn(N)
  BY DEF Exact, AttemptsOn
<1>2. b \in AttemptsOn(D, N)
  BY <1>1, ChargeMountStays DEF Wanted
<1>3. CASE ~(RequireIOPS(req) /\ a.ok /\ Qualified(a.host, req.source, req))
  <2>1. b.host = a.host /\ b.disks = a.disks
    BY <1>1, <1>3, UnchargedMount
  <2> HIDE DEF b
  <2>2. b \in Exact(D, N, h)
    BY <1>2, <2>1 DEF Exact
  <2> QED
    BY <2>2 DEF b
<1>4. CASE RequireIOPS(req) /\ a.ok /\ Qualified(a.host, req.source, req)
  <2>1. /\ b.disks = AddDisks(a.disks, quota) /\ Kin(a.host, b.host)
        /\ quota \in DiskPlansOn(N) /\ ChargedBy(a.host, b.host, quota)
    BY <1>1, <1>4, ChargedMount
  <2> HIDE DEF b, quota
  <2>2. Kin(h, b.host)
    BY <2>1, KinIsKin DEF Exact
  <2>3. ASSUME NEW name \in N, NEW rate \in Rates
        PROVE  /\ UsedOf(b.disks, name)[rate] \in Nat
               /\ b.host.disks[name].io[rate] + UsedOf(b.disks, name)[rate] = h.disks[name].io[rate]
    <3>1. UsedOf(b.disks, name)[rate] = UsedOf(a.disks, name)[rate] + UsedOf(quota, name)[rate]
      BY <1>1, <2>1, UsesAddUp
    <3>2. /\ UsedOf(quota, name)[rate] \in Nat
          /\ b.host.disks[name].io[rate] + UsedOf(quota, name)[rate] = a.host.disks[name].io[rate]
      BY <1>1, <2>1 DEF ChargedBy, HostsOn
    <3>3. /\ UsedOf(a.disks, name)[rate] \in Nat
          /\ a.host.disks[name].io[rate] + UsedOf(a.disks, name)[rate] = h.disks[name].io[rate]
      BY DEF Exact
    <3>4. b.host.disks[name].io[rate] \in Int /\ a.host.disks[name].io[rate] \in Int
      BY <1>1, <1>2 DEF AttemptsOn, HostsOn, DiskCapacity, IO
    <3> QED
      BY <3>1, <3>2, <3>3, <3>4
  <2>4. b \in Exact(D, N, h)
    BY <1>2, <2>2, <2>3 DEF Exact
  <2> QED
    BY <2>4 DEF b
<1> QED
  BY <1>3, <1>4

\* A pass over the mounts
LEMMA MountPassIsExact ==
    ASSUME NEW D \in SUBSET Devices, NEW N \in SUBSET DiskNames, NEW h \in HostsOn(D, N),
           NEW mount \in Seq(VolumeBinding), AllWanted(mount)
    PROVE  GetMountDiskPlan(Attempt(h), mount) \in Exact(D, N, h)
<1> DEFINE V == Exact(D, N, h)
<1>1. Len(mount) \in Nat /\ DOMAIN mount = 1..Len(mount)
  BY BindingList
<1>2. Attempt(h) \in V
  BY AttemptIsExact
<1>3. \A a \in V, k \in 1..Len(mount) : ChargeMount(a, mount[k]) \in V
  BY ChargeMountIsExact DEF AllWanted
<1> HIDE DEF V
<1>4. GetMountDiskPlan(Attempt(h), mount) \in V
  BY <1>1, <1>2, <1>3, MountPlanStays
<1> QED
  BY <1>4 DEF V

\* What the mounts ask of a disk depends on where they are only
LEMMA QuotaIsTheSame ==
    ASSUME NEW h, NEW h1, SameMounts(h.disks, h1.disks), NEW mount \in Seq(VolumeBinding), NEW name
    PROVE  QuotaOn(h1, mount, name) = QuotaOn(h, mount, name)
<1> DEFINE n == Len(mount)
<1>1. n \in Nat /\ DOMAIN mount = 1..n
  BY BindingList
<1>2. NoIO \in IO
  BY DEF NoIO, IO
<1>3. \A host : \A io \in IO, k \in 1..n : AddQuotaOn(host, name, io, mount[k]) \in IO
  <2> TAKE host
  <2> TAKE io \in IO, k \in 1..n
  <2>1. mount[k].io \in IO
    BY BindingList, BindingParts
  <2>2. AddIO(io, mount[k].io) \in IO
    BY <2>1 DEF AddIO, IO
  <2> QED
    BY <2>2 DEF AddQuotaOn
<1>4. PICK q : RunsQuota(q, IO, h, name, mount, n)
  <2>1. \A io \in IO, k \in 1..n : AddQuotaOn(h, name, io, mount[k]) \in IO
    BY <1>3
  <2> QED
    BY <1>1, <1>2, <2>1, QuotaRuns
<1>5. PICK q1 : RunsQuota(q1, IO, h1, name, mount, n)
  <2>1. \A io \in IO, k \in 1..n : AddQuotaOn(h1, name, io, mount[k]) \in IO
    BY <1>3
  <2> QED
    BY <1>1, <1>2, <2>1, QuotaRuns
<1> DEFINE S == {k \in 0..n : q1[k] = q[k]}
<1>6. 0 \in S
  BY <1>1, <1>4, <1>5 DEF RunsQuota
<1>7. ASSUME NEW k \in 1..n, k - 1 \in S
      PROVE  k \in S
  <2>1. GetDiskByPath(h1.disks, mount[k].source) = GetDiskByPath(h.disks, mount[k].source)
    BY MountsDecide
  <2>2. /\ q[k] = AddQuotaOn(h, name, q[k - 1], mount[k])
        /\ q1[k] = AddQuotaOn(h1, name, q1[k - 1], mount[k])
    BY <1>4, <1>5 DEF RunsQuota
  <2>3. q1[k - 1] = q[k - 1] /\ k \in 0..n
    BY <1>7
  <2>4. q1[k] = q[k]
    BY <2>1, <2>2, <2>3 DEF AddQuotaOn
  <2> QED
    BY <2>3, <2>4
<1> HIDE DEF S
<1>8. n \in S
  BY <1>1, <1>6, <1>7, CountsUp
<1> QED
  BY <1>4, <1>5, <1>8 DEF S, RunsQuota

\* Once failed an attempt has failed, and it only takes
LEMMA ChargeMountTakes ==
    ASSUME NEW D \in SUBSET Devices, NEW N \in SUBSET DiskNames, NEW a \in AttemptsOn(D, N),
           NEW req, Wanted(req), NEW b, b = ChargeMount(a, req), b.ok
    PROVE  /\ a.ok
           /\ RequireIOPS(req) => Qualified(a.host, req.source, req)
           /\ \A name \in N : \A rate \in Rates :
                 b.host.disks[name].io[rate] <= a.host.disks[name].io[rate]
<1>1. a.host \in HostsOn(D, N) /\ b \in AttemptsOn(D, N) /\ b.host \in HostsOn(D, N)
  <2>1. b \in AttemptsOn(D, N)
    BY ChargeMountStays DEF Wanted
  <2> QED
    BY <2>1 DEF AttemptsOn
<1>2. /\ DOMAIN a.host.disks = N
      /\ \A name \in N : \A rate \in Rates :
            a.host.disks[name].io[rate] \in Int /\ b.host.disks[name].io[rate] \in Int
  BY <1>1 DEF HostsOn, DiskCapacity, IO
<1>3. CASE ~(RequireIOPS(req) /\ a.ok /\ Qualified(a.host, req.source, req))
  <2>1. b.host = a.host /\ a.ok /\ ~RequireIOPS(req)
    BY <1>3, UnchargedMount
  <2> QED
    BY <1>2, <2>1
<1>4. CASE RequireIOPS(req) /\ a.ok /\ Qualified(a.host, req.source, req)
  <2> DEFINE quota == DiskQuota(a.host, req.source, req)
  <2>1. ChargedBy(a.host, b.host, quota)
    BY <1>4, ChargedMount
  <2> HIDE DEF quota
  <2>2. ASSUME NEW name \in N, NEW rate \in Rates
        PROVE  b.host.disks[name].io[rate] <= a.host.disks[name].io[rate]
    <3>1. /\ UsedOf(quota, name)[rate] \in Nat
          /\ b.host.disks[name].io[rate] + UsedOf(quota, name)[rate] = a.host.disks[name].io[rate]
      BY <1>2, <2>1 DEF ChargedBy
    <3> QED
      BY <1>2, <3>1
  <2> QED
    BY <1>4, <2>2
<1> QED
  BY <1>3, <1>4

\* A disk that has paid the rates of a mount
PaidBy(N, h, h1, name, req) ==
    /\ name \in N
    /\ \A rate \in Rates : h1.disks[name].io[rate] + req.io[rate] = h.disks[name].io[rate]

\* Of all that is charged for a mount the disk of its source pays its rates
LEMMA MountPays ==
    ASSUME NEW D \in SUBSET Devices, NEW N \in SUBSET DiskNames, NEW a \in AttemptsOn(D, N),
           NEW req, Wanted(req), RequireIOPS(req), NEW b, b = ChargeMount(a, req), b.ok
    PROVE  PaidBy(N, a.host, b.host, GetDiskByPath(a.host.disks, req.source), req)
<1> DEFINE name == GetDiskByPath(a.host.disks, req.source)
<1> DEFINE quota == DiskQuota(a.host, req.source, req)
<1>1. a.ok /\ Qualified(a.host, req.source, req)
  BY ChargeMountTakes
<1>2. a.host \in HostsOn(D, N) /\ DOMAIN a.host.disks = N
  BY DEF AttemptsOn, HostsOn
<1>3. name \in N
  BY <1>1, <1>2, QualifiedIsThere
<1>4. ChargedBy(a.host, b.host, quota)
  BY <1>1, ChargedMount
<1>5. UsedOf(quota, name) = req.io
  <2>1. DOMAIN quota = {name} /\ quota[name] = req.io
    BY DEF DiskQuota
  <2> HIDE DEF quota
  <2> QED
    BY <2>1 DEF UsedOf
<1> HIDE DEF quota
<1>6. \A rate \in Rates :
         b.host.disks[name].io[rate] + UsedOf(quota, name)[rate] = a.host.disks[name].io[rate]
  BY <1>2, <1>3, <1>4 DEF ChargedBy
<1> QED
  BY <1>3, <1>5, <1>6 DEF PaidBy

\* Where a pass succeeds, so it does on a host with as much as it takes, and
\* with the same disk plan
LEMMA PassesAlike ==
    ASSUME NEW D \in SUBSET Devices, NEW N \in SUBSET DiskNames,
           NEW h \in HostsOn(D, N), NEW h1 \in HostsOn(D, N), Kin(h, h1),
           NEW mount \in Seq(VolumeBinding), AllWanted(mount),
           NEW first, first = GetMountDiskPlan(Attempt(h), mount), first.ok,
           NEW second, second = GetMountDiskPlan(Attempt(h1), mount),
           \A name \in N : \A rate \in Rates :
              h1.disks[name].io[rate] + first.host.disks[name].io[rate] >= h.disks[name].io[rate]
    PROVE  second.ok /\ second.disks = first.disks
<1> DEFINE n == Len(mount)
           V == Exact(D, N, h)
           V1 == Exact(D, N, h1)
<1>1. n \in Nat /\ DOMAIN mount = 1..n
  BY BindingList
<1>2. PICK g : RunsMounts(g, V, Attempt(h), mount, n)
  <2>1. Attempt(h) \in V
    BY AttemptIsExact
  <2>2. \A a \in V, k \in 1..n : ChargeMount(a, mount[k]) \in V
    BY ChargeMountIsExact DEF AllWanted
  <2> HIDE DEF V
  <2> QED
    BY <1>1, <2>1, <2>2, MountPlanRuns
<1>3. PICK g1 : RunsMounts(g1, V1, Attempt(h1), mount, n)
  <2>1. Attempt(h1) \in V1
    BY AttemptIsExact
  <2>2. \A a \in V1, k \in 1..n : ChargeMount(a, mount[k]) \in V1
    BY ChargeMountIsExact DEF AllWanted
  <2> HIDE DEF V1
  <2> QED
    BY <1>1, <2>1, <2>2, MountPlanRuns
<1>4. /\ first = g[n] /\ second = g1[n] /\ g[0] = Attempt(h) /\ g1[0] = Attempt(h1)
      /\ \A k \in 0..n : g[k] \in V /\ g1[k] \in V1
      /\ \A k \in 1..n : /\ g[k] = ChargeMount(g[k - 1], mount[k])
                         /\ g1[k] = ChargeMount(g1[k - 1], mount[k])
  BY <1>2, <1>3 DEF RunsMounts
<1>5. \A k \in 0..n : /\ g[k] \in AttemptsOn(D, N) /\ g1[k] \in AttemptsOn(D, N)
                      /\ g[k].host \in HostsOn(D, N) /\ g1[k].host \in HostsOn(D, N)
                      /\ Kin(h, g[k].host) /\ Kin(h1, g1[k].host)
  BY <1>4 DEF Exact, AttemptsOn
<1>6. \A k \in 0..n : \A name \in N : \A rate \in Rates :
         /\ UsedOf(g[k].disks, name)[rate] \in Nat /\ UsedOf(g1[k].disks, name)[rate] \in Nat
         /\ g[k].host.disks[name].io[rate] + UsedOf(g[k].disks, name)[rate] = h.disks[name].io[rate]
         /\ g1[k].host.disks[name].io[rate] + UsedOf(g1[k].disks, name)[rate]
              = h1.disks[name].io[rate]
  BY <1>4 DEF Exact
<1>7. \A name \in N : \A rate \in Rates :
         /\ h.disks[name].io[rate] \in Int /\ h1.disks[name].io[rate] \in Int
         /\ \A k \in 0..n : /\ g[k].host.disks[name].io[rate] \in Int
                            /\ g1[k].host.disks[name].io[rate] \in Int
  <2>1. \A host \in HostsOn(D, N) : \A name \in N : \A rate \in Rates :
           host.disks[name].io[rate] \in Int
    BY DEF HostsOn, DiskCapacity, IO
  <2> QED
    BY <1>5, <2>1
<1> HIDE DEF V, V1
<1> DEFINE Before(k) == /\ g[k].ok
                        /\ \A name \in N : \A rate \in Rates :
                              first.host.disks[name].io[rate] <= g[k].host.disks[name].io[rate]
           S == {j \in 0..n : Before(n - j)}
           T == {k \in 0..n : g1[k].ok /\ g1[k].disks = g[k].disks}
<1>8. \A k \in 0..n : Before(k)
  <2>1. 0 \in S
    <3>1. 0 \in 0..n /\ n - 0 = n /\ n \in 0..n
      BY <1>1
    <3>2. Before(n)
      BY <1>4, <1>7, <3>1
    <3> HIDE DEF Before
    <3> QED
      BY <3>1, <3>2
  <2>2. ASSUME NEW j \in 1..n, j - 1 \in S
        PROVE  j \in S
    <3> DEFINE k == n - j + 1
    <3>1. k \in 1..n /\ k \in 0..n /\ k - 1 \in 0..n /\ n - (j - 1) = k /\ n - j = k - 1 /\ j \in 0..n
      BY <1>1
    <3>2. Before(k)
      BY <2>2, <3>1
    <3> HIDE DEF k
    <3>3. g[k] = ChargeMount(g[k - 1], mount[k]) /\ Wanted(mount[k]) /\ g[k - 1] \in AttemptsOn(D, N)
      BY <1>4, <1>5, <3>1 DEF AllWanted
    <3>4. /\ g[k - 1].ok
          /\ \A name \in N : \A rate \in Rates :
                g[k].host.disks[name].io[rate] <= g[k - 1].host.disks[name].io[rate]
      BY <3>2, <3>3, ChargeMountTakes
    <3>5. ASSUME NEW name \in N, NEW rate \in Rates
          PROVE  first.host.disks[name].io[rate] <= g[k - 1].host.disks[name].io[rate]
      <4>1. /\ g[k].host.disks[name].io[rate] <= g[k - 1].host.disks[name].io[rate]
            /\ first.host.disks[name].io[rate] <= g[k].host.disks[name].io[rate]
        BY <3>2, <3>4
      <4>2. /\ g[k].host.disks[name].io[rate] \in Int /\ g[k - 1].host.disks[name].io[rate] \in Int
            /\ first.host.disks[name].io[rate] \in Int
        <5>1. n \in 0..n
          BY <1>1
        <5> QED
          BY <1>4, <1>7, <3>1, <5>1
      <4> QED
        BY <4>1, <4>2
    <3>6. Before(k - 1)
      BY <3>4, <3>5
    <3> HIDE DEF Before
    <3> QED
      BY <3>1, <3>6
  <2> HIDE DEF S
  <2>3. ASSUME NEW k \in 0..n
        PROVE  Before(k)
    <3> DEFINE m == n - k
    <3>1. m \in Nat /\ m \in 0..n /\ n - m = k
      BY <1>1
    <3>2. \A j \in 1..m : j - 1 \in S => j \in S
      BY <1>1, <2>2, <3>1
    <3> HIDE DEF m
    <3>3. m \in S
      BY <2>1, <3>1, <3>2, CountsUp
    <3> HIDE DEF Before
    <3> QED
      BY <3>1, <3>3 DEF S
  <2> QED
    BY <2>3
<1>9. 0 \in T
  BY <1>1, <1>4 DEF Attempt
<1>10. ASSUME NEW k \in 1..n, k - 1 \in T
       PROVE  k \in T
  <2> DEFINE a == g[k - 1]
             a1 == g1[k - 1]
             req == mount[k]
             name == GetDiskByPath(a.host.disks, req.source)
             quota == DiskQuota(a.host, req.source, req)
             quota1 == DiskQuota(a1.host, req.source, req)
  <2>1. /\ k - 1 \in 0..n /\ k \in 0..n /\ Wanted(req) /\ a1.ok /\ a1.disks = a.disks
        /\ g[k] = ChargeMount(a, req) /\ g1[k] = ChargeMount(a1, req)
        /\ g[k].ok /\ a.ok
    BY <1>4, <1>8, <1>10 DEF AllWanted
  <2>2. /\ a \in AttemptsOn(D, N) /\ a1 \in AttemptsOn(D, N) /\ a1.host \in HostsOn(D, N)
        /\ Kin(h, a.host) /\ Kin(h1, a1.host)
    BY <1>5, <2>1
  <2>3. GetDiskByPath(a1.host.disks, req.source) = name
    <3>1. SameMounts(a.host.disks, a1.host.disks)
      BY <2>2 DEF Kin, SameMounts
    <3> QED
      BY <3>1, MountsDecide
  <2>4. CASE ~RequireIOPS(req)
    <3>1. g[k].disks = a.disks
      BY <2>1, <2>2, <2>4, UnchargedMount
    <3>2. g1[k].ok /\ g1[k].disks = a1.disks
      BY <2>1, <2>2, <2>4, UnchargedMount
    <3> QED
      BY <2>1, <3>1, <3>2
  <2>5. CASE RequireIOPS(req)
    <3>9. name = GetDiskByPath(a.host.disks, req.source)
      OBVIOUS
    <3> HIDE DEF a, a1, req, name
    <3>1. Qualified(a.host, req.source, req)
      BY <2>1, <2>2, <2>5, ChargeMountTakes
    <3>2. /\ name \in N
          /\ \A rate \in Rates :
                g[k].host.disks[name].io[rate] + req.io[rate] = a.host.disks[name].io[rate]
      <4>1. PaidBy(N, a.host, g[k].host, GetDiskByPath(a.host.disks, req.source), req)
        BY <2>1, <2>2, <2>5, MountPays
      <4> QED
        BY <3>9, <4>1 DEF PaidBy
    <3>3. Covers(a1.host.disks[name].io, req.io)
      <4>1. ASSUME NEW rate \in Rates
            PROVE  a1.host.disks[name].io[rate] >= req.io[rate]
        <5>1. g[k].host.disks[name].io[rate] + req.io[rate] = a.host.disks[name].io[rate]
          BY <3>2
        <5>2. first.host.disks[name].io[rate] <= g[k].host.disks[name].io[rate]
          BY <1>8, <2>1, <3>2
        <5>3. h1.disks[name].io[rate] + first.host.disks[name].io[rate] >= h.disks[name].io[rate]
          BY <3>2
        <5>4. a.host.disks[name].io[rate] + UsedOf(a.disks, name)[rate] = h.disks[name].io[rate]
          BY <1>6, <2>1, <3>2 DEF a
        <5>5. a1.host.disks[name].io[rate] + UsedOf(a.disks, name)[rate] = h1.disks[name].io[rate]
          <6>1. a1.host.disks[name].io[rate] + UsedOf(a1.disks, name)[rate] = h1.disks[name].io[rate]
            BY <1>6, <2>1, <3>2 DEF a1
          <6> QED
            BY <2>1, <6>1
        <5>6. /\ UsedOf(a.disks, name)[rate] \in Int /\ req.io[rate] \in Int
              /\ h.disks[name].io[rate] \in Int /\ h1.disks[name].io[rate] \in Int
              /\ a.host.disks[name].io[rate] \in Int /\ a1.host.disks[name].io[rate] \in Int
              /\ g[k].host.disks[name].io[rate] \in Int /\ first.host.disks[name].io[rate] \in Int
          <6>1. n \in 0..n
            BY <1>1
          <6>2. req.io \in IO
            BY <2>1 DEF Wanted, VolumeBinding
          <6>3. req.io[rate] \in Int
            BY <6>2 DEF IO
          <6>4. /\ g[k].host.disks[name].io[rate] \in Int /\ first.host.disks[name].io[rate] \in Int
                /\ h.disks[name].io[rate] \in Int /\ h1.disks[name].io[rate] \in Int
            BY <1>4, <1>7, <2>1, <3>2, <6>1
          <6>5. a.host.disks[name].io[rate] \in Int /\ a1.host.disks[name].io[rate] \in Int
            BY <1>7, <2>1, <3>2 DEF a, a1
          <6>6. UsedOf(a.disks, name)[rate] \in Int
            BY <1>6, <2>1, <3>2 DEF a
          <6> QED
            BY <6>3, <6>4, <6>5, <6>6
        <5> DEFINE x == a1.host.disks[name].io[rate]
                   y == a.host.disks[name].io[rate]
                   z == g[k].host.disks[name].io[rate]
                   w == first.host.disks[name].io[rate]
                   u == UsedOf(a.disks, name)[rate]
                   r == req.io[rate]
                   s == h.disks[name].io[rate]
                   t == h1.disks[name].io[rate]
        <5> HIDE DEF x, y, z, w, u, r, s, t, a, a1, req, name
        <5>7. x \in Int /\ y \in Int /\ z \in Int /\ w \in Int /\ u \in Int /\ r \in Int /\ s \in Int /\ t \in Int
          BY <5>6 DEF x, y, z, w, u, r, s, t
        <5>8. z + r = y /\ w <= z /\ t + w >= s /\ y + u = s /\ x + u = t
          BY <5>1, <5>2, <5>3, <5>4, <5>5 DEF x, y, z, w, u, r, s, t
        <5>9. x >= r
          BY <5>7, <5>8
        <5> QED
          BY <5>9 DEF x, r
      <4> QED
        BY <4>1 DEF Covers
    <3>4. Qualified(a1.host, req.source, req)
      <4>1. name # NoDisk
        BY <3>2, DisksAssumption
      <4> QED
        BY <2>3, <3>3, <3>9, <4>1 DEF Qualified, IsDiskIOPSQuotaQualified
    <3>5. quota1 = quota
      BY <2>3, <3>9 DEF DiskQuota
    <3>6. g[k].disks = AddDisks(a.disks, quota)
      BY <2>1, <2>2, <2>5, <3>1, ChargedMount
    <3>7. g1[k].ok /\ g1[k].disks = AddDisks(a1.disks, quota1)
      BY <2>1, <2>2, <2>5, <3>4, ChargedMount
    <3> HIDE DEF quota, quota1
    <3>8. g1[k].disks = g[k].disks
      BY <2>1, <3>5, <3>6, <3>7
    <3> QED
      BY <2>1, <3>7, <3>8
  <2> QED
    BY <2>4, <2>5
<1> HIDE DEF T
<1>11. n \in T
  BY <1>1, <1>9, <1>10, CountsUp
<1> QED
  BY <1>4, <1>11 DEF T

\* What a pass that has succeeded has taken, and left
Drawn(D, N, h, mount, first) ==
    /\ first \in AttemptsOn(D, N) /\ first.host \in HostsOn(D, N) /\ Kin(h, first.host)
    /\ \A name \in N : \A rate \in Rates :
          /\ QuotaOn(h, mount, name)[rate] \in Nat
          /\ first.host.disks[name].io[rate]
               = h.disks[name].io[rate] - QuotaOn(h, mount, name)[rate]
          /\ first.host.disks[name].io[rate] >= 0

\* A pass succeeds only where there is as much as it takes
LEMMA PassNeeds ==
    ASSUME NEW D \in SUBSET Devices, NEW N \in SUBSET DiskNames,
           NEW h \in HostsOn(D, N), Solvent(h), NEW mount \in Seq(VolumeBinding), AllWanted(mount),
           NEW first, first = GetMountDiskPlan(Attempt(h), mount), first.ok
    PROVE  Drawn(D, N, h, mount, first)
<1>1. first \in Exact(D, N, h)
  BY MountPassIsExact
<1>2. /\ first \in AttemptsOn(D, N) /\ first.host \in HostsOn(D, N) /\ Kin(h, first.host)
      /\ \A name \in N : \A rate \in Rates :
            /\ UsedOf(first.disks, name)[rate] \in Nat
            /\ first.host.disks[name].io[rate] + UsedOf(first.disks, name)[rate]
                 = h.disks[name].io[rate]
  BY <1>1 DEF Exact, AttemptsOn
<1>3. PassIsCharged(first, mount)
  BY PassCharges
<1>4. ASSUME NEW name \in N
      PROVE  UsedOf(first.disks, name) = QuotaOn(h, mount, name)
  <2>1. QuotaOn(first.host, mount, name) = QuotaOn(h, mount, name)
    BY <1>2, QuotaIsTheSame DEF Kin
  <2> QED
    BY <1>3, <2>1 DEF PassIsCharged
<1>5. Solvent(first.host)
  <2> DEFINE V == Paid(D, N, h, {})
  <2>1. Len(mount) \in Nat /\ DOMAIN mount = 1..Len(mount)
    BY BindingList
  <2>2. Attempt(h) \in V
    BY AttemptIsPaid
  <2>3. \A a \in V, k \in 1..Len(mount) : ChargeMount(a, mount[k]) \in V
    BY ChargeMountIsPaid DEF AllWanted
  <2> HIDE DEF V
  <2>4. first \in V
    BY <2>1, <2>2, <2>3, MountPlanStays
  <2> QED
    BY <2>4 DEF V, Paid
<1>6. \A name \in N : \A rate \in Rates :
         /\ first.host.disks[name].io[rate] \in Int /\ h.disks[name].io[rate] \in Int
         /\ first.host.disks[name].io[rate] >= 0
  BY <1>2, <1>5 DEF Solvent, HostsOn, DiskCapacity, IO
<1>7. ASSUME NEW name \in N, NEW rate \in Rates
      PROVE  /\ QuotaOn(h, mount, name)[rate] \in Nat
             /\ first.host.disks[name].io[rate]
                  = h.disks[name].io[rate] - QuotaOn(h, mount, name)[rate]
             /\ first.host.disks[name].io[rate] >= 0
  <2> DEFINE q == QuotaOn(h, mount, name)[rate]
  <2>1. q \in Nat /\ first.host.disks[name].io[rate] + q = h.disks[name].io[rate]
    BY <1>2, <1>4
  <2> HIDE DEF q
  <2>2. first.host.disks[name].io[rate] = h.disks[name].io[rate] - q
    BY <1>6, <2>1
  <2> QED
    BY <1>6, <2>1, <2>2 DEF q
<1> QED
  BY <1>2, <1>7 DEF Drawn

\* Only the mounts
LEMMA NoNormalPlan ==
    ASSUME NEW h
    PROVE  GetNormalPlan(h, <<>>) = Attempt(h)
<1> DEFINE V == {Attempt(h)}
           none == <<>>
<1>1. DOMAIN none = 1..0 /\ 0 \in Nat /\ Attempt(h) \in V /\ 1..0 = {}
  OBVIOUS
<1>2. \A a \in V, k \in 1..0 : PlaceNormal(a, none[k]) \in V
  BY <1>1
<1> HIDE DEF V, none
<1>3. PICK g : RunsPlaces(g, V, h, none, 0)
  BY <1>1, <1>2, NormalPlanRuns
<1> QED
  BY <1>3 DEF RunsPlaces, none

\* The loop after k passes: each has taken the same
Passed(N, h, mount, disks, s, k) ==
    /\ ~s.failed /\ Kin(h, s.host) /\ Len(s.plans) = k
    /\ \A i \in 1..k : s.plans[i].disks = disks
    /\ \A name \in N : \A rate \in Rates :
          s.host.disks[name].io[rate] = h.disks[name].io[rate] - k * QuotaOn(h, mount, name)[rate]

\* One more, where there is as much as all of them take
LEMMA OneMorePasses ==
    ASSUME NEW D \in SUBSET Devices, NEW N \in SUBSET DiskNames,
           NEW h \in HostsOn(D, N), Solvent(h), NEW mount \in Seq(VolumeBinding), AllWanted(mount),
           NEW first, first = GetMountDiskPlan(Attempt(h), mount), first.ok,
           NEW s \in PassesOn(D, N), NEW k \in Nat, Passed(N, h, mount, first.disks, s, k),
           \A name \in N : \A rate \in Rates :
              (k + 1) * QuotaOn(h, mount, name)[rate] <= h.disks[name].io[rate]
    PROVE  Passed(N, h, mount, first.disks, NormalPass(s, <<>>, mount), k + 1)
<1> DEFINE a == GetMountDiskPlan(Attempt(s.host), mount)
           p == [plan |-> a.plan, disks |-> a.disks]
           next == NormalPass(s, <<>>, mount)
           Q(name) == QuotaOn(h, mount, name)
<1>1. /\ s.host \in HostsOn(D, N) /\ s.plans \in Seq(PlannedOn(D, N)) /\ ~s.failed
      /\ Kin(h, s.host) /\ Len(s.plans) = k /\ \A i \in 1..k : s.plans[i].disks = first.disks
  BY DEF PassesOn, Passed
<1>2. \A name \in N : \A rate \in Rates :
         /\ Q(name)[rate] \in Nat
         /\ first.host.disks[name].io[rate] = h.disks[name].io[rate] - Q(name)[rate]
         /\ h.disks[name].io[rate] \in Int
  <2>1. \A name \in N : \A rate \in Rates : h.disks[name].io[rate] \in Int
    BY DEF HostsOn, DiskCapacity, IO
  <2> QED
    BY <2>1, PassNeeds, ZenonT(60) DEF Drawn
<1>3. \A name \in N : \A rate \in Rates :
         /\ s.host.disks[name].io[rate] = h.disks[name].io[rate] - k * Q(name)[rate]
         /\ (k + 1) * Q(name)[rate] <= h.disks[name].io[rate]
  BY DEF Passed
<1> HIDE DEF Q
<1>4. ASSUME NEW name \in N, NEW rate \in Rates
      PROVE  s.host.disks[name].io[rate] + first.host.disks[name].io[rate] >= h.disks[name].io[rate]
  <2> DEFINE q == Q(name)[rate]
             io == h.disks[name].io[rate]
             most == k * q
  <2>1. /\ q \in Nat /\ io \in Int /\ most \in Int /\ (k + 1) * q = most + q
        /\ s.host.disks[name].io[rate] = io - most /\ first.host.disks[name].io[rate] = io - q
        /\ (k + 1) * q <= io
    <3>1. q \in Nat /\ io \in Int
      BY <1>2
    <3>2. s.host.disks[name].io[rate] = io - most /\ (k + 1) * q <= io
      BY <1>3
    <3>3. first.host.disks[name].io[rate] = io - q
      BY <1>2
    <3> HIDE DEF q, io
    <3>4. most \in Int /\ (k + 1) * q = most + q
      BY <3>1, SMTT(30)
    <3> QED
      BY <3>1, <3>2, <3>3, <3>4
  <2> HIDE DEF q, io, most
  <2>2. (io - most) + (io - q) >= io
    BY <2>1
  <2>3. s.host.disks[name].io[rate] + first.host.disks[name].io[rate] >= io
    BY <2>1, <2>2
  <2> QED
    BY <2>3 DEF io
<1>5. a.ok /\ a.disks = first.disks
  BY <1>1, <1>4, PassesAlike
<1>6. a \in Exact(D, N, s.host)
  BY <1>1, MountPassIsExact
<1>7. next = [failed |-> FALSE, host |-> a.host, plans |-> Append(s.plans, p)]
  <2>1. GetNormalPlan(s.host, <<>>) = Attempt(s.host)
    BY NoNormalPlan
  <2>2. next = [failed |-> ~a.ok, host |-> a.host,
                plans |-> IF ~a.ok THEN s.plans ELSE Append(s.plans, p)]
    BY <1>1, <2>1 DEF NormalPass
  <2> HIDE DEF a, p, next
  <2> QED
    BY <1>5, <2>2
<1>8. p.disks = first.disks
  BY <1>5
<1>9. /\ ~next.failed /\ next.host = a.host /\ next.plans = Append(s.plans, p)
  <2> HIDE DEF a, p, next
  <2> QED
    BY <1>7
<1> HIDE DEF a, p, next
<1>10. Kin(h, next.host)
  BY <1>1, <1>6, <1>9, KinIsKin DEF Exact
<1>11. Len(next.plans) = k + 1 /\ \A i \in 1..k + 1 : next.plans[i].disks = first.disks
  <2>1. /\ Len(next.plans) = k + 1 /\ next.plans[k + 1] = p
        /\ \A i \in 1..k : next.plans[i] = s.plans[i]
    BY <1>1, <1>9
  <2>2. \A i \in 1..k + 1 : i \in 1..k \/ i = k + 1
    OBVIOUS
  <2> QED
    BY <1>1, <1>8, <2>1, <2>2
<1>12. ASSUME NEW name \in N, NEW rate \in Rates
       PROVE  next.host.disks[name].io[rate] = h.disks[name].io[rate] - (k + 1) * Q(name)[rate]
  <2>1. /\ UsedOf(a.disks, name)[rate] \in Nat
        /\ a.host.disks[name].io[rate] + UsedOf(a.disks, name)[rate] = s.host.disks[name].io[rate]
    BY <1>6 DEF Exact
  <2>2. UsedOf(a.disks, name) = Q(name)
    <3>1. PassIsCharged(first, mount)
      BY PassCharges
    <3>2. Kin(h, first.host)
      BY PassNeeds DEF Drawn
    <3>3. QuotaOn(first.host, mount, name) = QuotaOn(h, mount, name)
      BY <3>2, QuotaIsTheSame DEF Kin
    <3> QED
      BY <1>5, <3>1, <3>3 DEF PassIsCharged, Q
  <2> DEFINE q == Q(name)[rate]
             io == h.disks[name].io[rate]
             x == a.host.disks[name].io[rate]
  <2>3. q \in Nat /\ io \in Int /\ x \in Int
    <3>1. a.host \in HostsOn(D, N)
      BY <1>6 DEF Exact, AttemptsOn
    <3>2. x \in Int
      BY <3>1 DEF HostsOn, DiskCapacity, IO
    <3> QED
      BY <1>2, <3>2
  <2>4. x + q = io - k * q
    BY <1>3, <2>1, <2>2
  <2>5. next.host.disks[name].io[rate] = x
    BY <1>9
  <2> HIDE DEF q, io, x
  <2>6. (k + 1) * q = k * q + q /\ k * q \in Int
    BY <2>3
  <2> DEFINE most == k * q
  <2>7. most \in Int /\ (k + 1) * q = most + q /\ x + q = io - most
    BY <2>4, <2>6
  <2> HIDE DEF most
  <2>8. x = io - (k + 1) * q
    BY <2>3, <2>7
  <2> QED
    BY <2>5, <2>8 DEF q, io
<1>13. Passed(N, h, mount, first.disks, next, k + 1)
  BY <1>9, <1>10, <1>11, <1>12 DEF Passed, Q
<1> QED
  BY <1>13 DEF next

\* What is left of the disks once other passes are charged
LEMMA ChargedPassesLeave ==
    ASSUME NEW D, NEW N, NEW h \in HostsOn(D, N), NEW mount \in Seq(VolumeBinding), NEW names,
           NEW n \in Int, NEW charged, charged = ChargePasses(h, mount, names, n),
           \A name \in N \ names : QuotaOn(h, mount, name) = NoIO
    PROVE  /\ Kin(h, charged)
           /\ \A name \in N : \A rate \in Rates :
                 charged.disks[name].io[rate]
                   = h.disks[name].io[rate] - n * QuotaOn(h, mount, name)[rate]
<1> DEFINE Left(x) == [r \in Rates |-> h.disks[x].io[r] - n * QuotaOn(h, mount, x)[r]]
           disk(x) == IF x \notin names THEN h.disks[x] ELSE [h.disks[x] EXCEPT !.io = Left(x)]
           disks == [x \in N |-> disk(x)]
<1>1. DOMAIN h.disks = N /\ \A name \in N : h.disks[name] \in DiskCapacity
  BY DEF HostsOn
<1>2. charged = [h EXCEPT !.disks = disks]
  BY <1>1 DEF ChargePasses
<1>3. /\ charged.disks = disks /\ charged.free = h.free
      /\ charged.used = h.used /\ charged.unused = h.unused
  <2> HIDE DEF disks
  <2> QED
    BY <1>2 DEF HostsOn
<1>4. DOMAIN charged.disks = N /\ \A name \in N : charged.disks[name] = disk(name)
  BY <1>3
<1> HIDE DEF disks
<1>5. ASSUME NEW name \in N
      PROVE  /\ charged.disks[name].mounts = h.disks[name].mounts
             /\ \A rate \in Rates : charged.disks[name].io[rate]
                                      = h.disks[name].io[rate] - n * QuotaOn(h, mount, name)[rate]
  <2>1. CASE name \notin names
    <3>1. charged.disks[name] = h.disks[name]
      BY <1>4, <2>1
    <3>2. ASSUME NEW rate \in Rates
          PROVE  h.disks[name].io[rate]
                   = h.disks[name].io[rate] - n * QuotaOn(h, mount, name)[rate]
      <4>1. QuotaOn(h, mount, name)[rate] = 0
        BY <2>1 DEF NoIO
      <4>2. h.disks[name].io[rate] \in Int
        BY <1>1 DEF DiskCapacity, IO
      <4>3. n * 0 = 0
        OBVIOUS
      <4> QED
        BY <4>1, <4>2, <4>3
    <3> QED
      BY <3>1, <3>2
  <2>2. CASE name \in names
    <3>1. charged.disks[name] = [h.disks[name] EXCEPT !.io = Left(name)]
      BY <1>4, <2>2
    <3>2. \A rate \in Rates :
             Left(name)[rate] = h.disks[name].io[rate] - n * QuotaOn(h, mount, name)[rate]
      OBVIOUS
    <3> HIDE DEF Left
    <3>3. charged.disks[name].io = Left(name) /\ charged.disks[name].mounts = h.disks[name].mounts
      BY <1>1, <3>1 DEF DiskCapacity
    <3> QED
      BY <3>2, <3>3
  <2> QED
    BY <2>1, <2>2
<1>6. Kin(h, charged)
  BY <1>1, <1>3, <1>4, <1>5 DEF Kin, SameMounts
<1> QED
  BY <1>5, <1>6

\* Less headroom than there can be is the headroom of some rate
LEMMA HeadroomIsReached ==
    ASSUME NEW io \in IO, NEW sum \in IO, QuotaHeadroom(io, sum) < MaxInt
    PROVE  \E rate \in Rates : /\ sum[rate] > 0
                               /\ QuotaHeadroom(io, sum) = Truncated(io[rate], sum[rate])
<1> DEFINE R == {r \in Rates : sum[r] > 0}
           f == [rate \in R |-> Truncated(io[rate], sum[rate])]
           T == {f[rate] : rate \in R}
<1>1. IsFiniteSet(R)
  BY DisksAssumption, FS_Subset
<1>2. \A rate \in R : f[rate] \in Int
  BY DEF IO, Truncated
<1>3. IsFiniteSet(T)
  <2> HIDE DEF f, R
  <2> QED
    BY <1>1, ImageIsFinite
<1>4. T \subseteq Int
  BY <1>2
<1>5. {Truncated(io[rate], sum[rate]) : rate \in R} = T
  OBVIOUS
<1>6. QuotaHeadroom(io, sum) = Min({MaxInt} \cup T)
  BY <1>5 DEF QuotaHeadroom
<1>10. \A x \in T : \E rate \in Rates : sum[rate] > 0 /\ x = Truncated(io[rate], sum[rate])
  OBVIOUS
<1> HIDE DEF T
<1>7. IsFiniteSet(T \cup {MaxInt}) /\ T \cup {MaxInt} = {MaxInt} \cup T
  BY <1>3, FS_AddElement
<1>8. {MaxInt} \cup T \in SUBSET Int /\ {MaxInt} \cup T # {}
  BY <1>4, MaxIntAssumption
<1>9. Min({MaxInt} \cup T) \in {MaxInt} \cup T
  BY <1>7, <1>8, MinOfFinite
<1>11. QuotaHeadroom(io, sum) \in T
  BY <1>6, <1>9, MaxIntAssumption
<1> QED
  BY <1>10, <1>11

\* The disk and the rate that end the passes before the bound does
Spent(first, mount, n) ==
    \E name \in DOMAIN first.disks : \E rate \in Rates :
        /\ QuotaOn(first.host, mount, name)[rate] > 0
        /\ n = 1 + Truncated(first.host.disks[name].io[rate],
                             QuotaOn(first.host, mount, name)[rate])

\* Some disk spends a rate where the passes end before the bound
LEMMA MountPassesAreReached ==
    ASSUME NEW D \in SUBSET Devices, NEW N \in SUBSET DiskNames, NEW first \in AttemptsOn(D, N),
           NEW mount \in Seq(VolumeBinding), NEW bound \in Nat, bound <= MaxInt,
           NEW n, n = MountPasses(first, mount, bound), n < bound
    PROVE  Spent(first, mount, n)
<1> DEFINE S == DOMAIN first.disks
           f == [name \in S |-> 1 + QuotaHeadroom(first.host.disks[name].io,
                                                  QuotaOn(first.host, mount, name))]
           T == {f[name] : name \in S}
<1>1. first.host \in HostsOn(D, N) /\ S \subseteq N
  BY DiskPlanParts DEF AttemptsOn
<1>2. IsFiniteSet(S)
  <2>1. IsFiniteSet(DiskNames) /\ S \in SUBSET DiskNames
    BY <1>1, DisksAssumption
  <2> HIDE DEF S
  <2> QED
    BY <2>1, FS_Subset
<1>3. \A name \in S : /\ first.host.disks[name].io \in IO /\ QuotaOn(first.host, mount, name) \in IO
                      /\ QuotaHeadroom(first.host.disks[name].io, QuotaOn(first.host, mount, name)) \in Int
  <2> TAKE name \in S
  <2>1. first.host.disks[name].io \in IO
    BY <1>1 DEF HostsOn, DiskCapacity
  <2>2. QuotaOn(first.host, mount, name) \in IO
    BY QuotaIsIO
  <2> QED
    BY <2>1, <2>2, HeadroomIsInt
<1>4. IsFiniteSet(T)
  <2> HIDE DEF f, S
  <2> QED
    BY <1>2, ImageIsFinite
<1>5. T \subseteq Int
  <2>1. \A name \in S : 1 + QuotaHeadroom(first.host.disks[name].io,
                                          QuotaOn(first.host, mount, name)) \in Int
    BY <1>3
  <2> QED
    BY <2>1
<1>6. MountPasses(first, mount, bound) = Min({bound} \cup T)
  BY DEF MountPasses
<1>7. \A x \in T : \E name \in S : x = 1 + QuotaHeadroom(first.host.disks[name].io,
                                                         QuotaOn(first.host, mount, name))
  OBVIOUS
<1> HIDE DEF T
<1>8. IsFiniteSet(T \cup {bound}) /\ T \cup {bound} = {bound} \cup T
  BY <1>4, FS_AddElement
<1>9. {bound} \cup T \in SUBSET Int /\ {bound} \cup T # {}
  BY <1>5
<1>10. Min({bound} \cup T) \in {bound} \cup T
  BY <1>8, <1>9, MinOfFinite
<1>11. n \in T
  BY <1>6, <1>10
<1>12. PICK name \in S : n = 1 + QuotaHeadroom(first.host.disks[name].io,
                                              QuotaOn(first.host, mount, name))
  BY <1>7, <1>11
<1> DEFINE io == first.host.disks[name].io
           sum == QuotaOn(first.host, mount, name)
<1>13. io \in IO /\ sum \in IO /\ QuotaHeadroom(io, sum) \in Int
  BY <1>3
<1>14. n = 1 + QuotaHeadroom(io, sum)
  BY <1>12
<1> HIDE DEF io, sum
<1>15. QuotaHeadroom(io, sum) < MaxInt
  BY <1>13, <1>14, MaxIntAssumption
<1>16. PICK rate \in Rates : sum[rate] > 0 /\ QuotaHeadroom(io, sum) = Truncated(io[rate], sum[rate])
  BY <1>13, <1>15, HeadroomIsReached
<1>17. sum[rate] > 0 /\ n = 1 + Truncated(io[rate], sum[rate])
  BY <1>14, <1>16
<1> QED
  BY <1>17 DEF Spent, io, sum, S

\* What all take is what some of them take and what the others do
LEMMA SharesAdd ==
    ASSUME NEW n \in Nat, NEW k \in Nat, k <= n, NEW q \in Nat
    PROVE  n * q = (n - k) * q + k * q /\ (n - k) * q \in Nat /\ k * q \in Int
<1>1. PICK rest \in Nat : rest = n - k
  OBVIOUS
<1>2. n = rest + k
  BY <1>1
<1>3. (rest + k) * q = rest * q + k * q /\ rest * q \in Nat /\ k * q \in Int
  OBVIOUS
<1> QED
  BY <1>1, <1>2, <1>3

\* What is left of io when q has been taken from it as often as it goes is less
LEMMA TimesLeave ==
    ASSUME NEW q \in Nat, q > 0, NEW io \in Nat
    PROVE  Truncated(io, q) \in Nat /\ io - Truncated(io, q) * q < q
<1>1. Truncated(io, q) = io \div q
  BY DEF Truncated
<1>2. io \div q \in Nat /\ io = ((io \div q) * q) + (io % q)
      /\ (io % q) < q /\ (io % q) \in Nat
  OBVIOUS
<1> DEFINE k == io \div q
           r == io % q
<1>3. k \in Nat /\ io = k * q + r /\ r < q /\ r \in Nat
  BY <1>2
<1> HIDE DEF k, r
<1> DEFINE most == k * q
<1>4. most \in Nat /\ io = most + r
  BY <1>3
<1> HIDE DEF most
<1>5. io - most < q
  BY <1>3, <1>4
<1> QED
  BY <1>1, <1>3, <1>5 DEF most, k

\* The closed form of the passes: the hosts they leave, and where they end
Closed(N, h, mount, n, charged) ==
    /\ n \in Nat /\ n >= 1 /\ Kin(h, charged)
    /\ \A name \in N : \A rate \in Rates :
          /\ charged.disks[name].io[rate]
               = h.disks[name].io[rate] - n * QuotaOn(h, mount, name)[rate]
          /\ charged.disks[name].io[rate] >= 0

\* The host charged in one step is the host after as many passes, and owes nothing
LEMMA ClosedForm ==
    ASSUME NEW D \in SUBSET Devices, NEW N \in SUBSET DiskNames,
           NEW h \in HostsOn(D, N), Solvent(h), NEW mount \in Seq(VolumeBinding), AllWanted(mount),
           NEW first, first = GetMountDiskPlan(Attempt(h), mount), first.ok,
           NEW bound \in Nat, bound >= 1,
           NEW n, n = MountPasses(first, mount, bound),
           NEW charged, charged = ChargePasses(first.host, mount, DOMAIN first.disks, n - 1)
    PROVE  charged \in HostsOn(D, N) /\ Solvent(charged) /\ Closed(N, h, mount, n, charged)
<1> DEFINE Q(name) == QuotaOn(h, mount, name)
<1>1. /\ first \in AttemptsOn(D, N) /\ first.host \in HostsOn(D, N) /\ Kin(h, first.host)
      /\ \A name \in N : \A rate \in Rates :
            /\ Q(name)[rate] \in Nat
            /\ first.host.disks[name].io[rate] = h.disks[name].io[rate] - Q(name)[rate]
  BY PassNeeds, ZenonT(60) DEF Drawn
<1>2. n \in Nat /\ n >= 1
  BY MountPassesIsNat
<1>3. \A name : QuotaOn(first.host, mount, name) = Q(name)
  BY <1>1, QuotaIsTheSame DEF Kin
<1>4. \A name : name \notin DOMAIN first.disks => Q(name) = NoIO
  <2>1. PassIsCharged(first, mount)
    BY PassCharges
  <2> QED
    BY <1>3, <2>1 DEF PassIsCharged, UsedOf
<1> HIDE DEF Q
<1>5. /\ Kin(first.host, charged)
      /\ \A name \in N : \A rate \in Rates :
            charged.disks[name].io[rate] = first.host.disks[name].io[rate] - (n - 1) * Q(name)[rate]
  <2>1. n - 1 \in Int
    BY <1>2
  <2>2. \A name \in N \ DOMAIN first.disks : QuotaOn(first.host, mount, name) = NoIO
    BY <1>3, <1>4
  <2>3. /\ Kin(first.host, charged)
        /\ \A name \in N : \A rate \in Rates :
              charged.disks[name].io[rate]
                = first.host.disks[name].io[rate] - (n - 1) * QuotaOn(first.host, mount, name)[rate]
    BY <1>1, <2>1, <2>2, ChargedPassesLeave
  <2> QED
    BY <1>3, <2>3
<1>6. charged \in HostsOn(D, N) /\ Solvent(charged)
  <2> DEFINE V == Paid(D, N, h, {})
             p == [plan |-> EmptyPlan, disks |-> first.disks]
  <2>1. Len(mount) \in Nat /\ DOMAIN mount = 1..Len(mount)
    BY BindingList
  <2>2. Attempt(h) \in V
    BY AttemptIsPaid
  <2>3. \A a \in V, k \in 1..Len(mount) : ChargeMount(a, mount[k]) \in V
    BY ChargeMountIsPaid DEF AllWanted
  <2> HIDE DEF V
  <2>4. first \in V
    BY <2>1, <2>2, <2>3, MountPlanStays
  <2>5. p = [plan |-> EmptyPlan, disks |-> first.disks]
    OBVIOUS
  <2> HIDE DEF p
  <2> QED
    BY <2>4, <2>5, ChargedPassesArePaid DEF V
<1>7. Kin(h, charged)
  BY <1>1, <1>5, KinIsKin
<1>8. ASSUME NEW name \in N, NEW rate \in Rates
      PROVE  /\ charged.disks[name].io[rate] = h.disks[name].io[rate] - n * Q(name)[rate]
             /\ charged.disks[name].io[rate] >= 0
  <2> DEFINE q == Q(name)[rate]
             io == h.disks[name].io[rate]
             x == charged.disks[name].io[rate]
  <2>1. q \in Nat /\ io \in Int
    <3>1. io \in Int
      BY DEF HostsOn, DiskCapacity, IO
    <3> QED
      BY <1>1, <3>1
  <2>2. x = (io - q) - (n - 1) * q
    BY <1>1, <1>5
  <2>3. x >= 0
    BY <1>6 DEF Solvent, HostsOn
  <2> HIDE DEF q, io, x
  <2>4. (n - 1) * q = n * q - q /\ n * q \in Int
    BY <1>2, <2>1
  <2> DEFINE most == n * q
  <2>5. most \in Int /\ x = (io - q) - (most - q)
    BY <2>2, <2>4
  <2> HIDE DEF most
  <2>6. x = io - most
    BY <2>1, <2>5
  <2> QED
    BY <2>3, <2>6 DEF most, q, io, x
<1>9. Closed(N, h, mount, n, charged)
  BY <1>2, <1>7, <1>8 DEF Closed, Q
<1> QED
  BY <1>6, <1>9

\* Where the closed form ends before the bound one more pass fails
LEMMA OnePassTooMany ==
    ASSUME NEW D \in SUBSET Devices, NEW N \in SUBSET DiskNames,
           NEW h \in HostsOn(D, N), Solvent(h), NEW mount \in Seq(VolumeBinding), AllWanted(mount),
           NEW first, first = GetMountDiskPlan(Attempt(h), mount), first.ok,
           NEW bound \in Nat, bound <= MaxInt,
           NEW n, n = MountPasses(first, mount, bound), n < bound,
           NEW charged \in HostsOn(D, N), Solvent(charged), Closed(N, h, mount, n, charged)
    PROVE  ~GetMountDiskPlan(Attempt(charged), mount).ok
<1> DEFINE second == GetMountDiskPlan(Attempt(charged), mount)
           Q(name) == QuotaOn(h, mount, name)
<1>1. /\ first \in AttemptsOn(D, N) /\ Kin(h, first.host)
      /\ \A name \in N : \A rate \in Rates :
            /\ Q(name)[rate] \in Nat
            /\ first.host.disks[name].io[rate] = h.disks[name].io[rate] - Q(name)[rate]
            /\ first.host.disks[name].io[rate] >= 0
  <2>1. Drawn(D, N, h, mount, first)
    BY PassNeeds
  <2> QED
    BY <2>1 DEF Drawn
<1>2. \A name : /\ QuotaOn(first.host, mount, name) = Q(name)
                /\ QuotaOn(charged, mount, name) = Q(name)
  BY <1>1, QuotaIsTheSame DEF Kin, Closed
<1>3. \A name \in N : \A rate \in Rates :
         charged.disks[name].io[rate] = h.disks[name].io[rate] - n * Q(name)[rate]
  BY DEF Closed
<1>4. Spent(first, mount, n)
  BY <1>1, MountPassesAreReached
<1>5. PICK name \in DOMAIN first.disks : \E rate \in Rates :
         /\ QuotaOn(first.host, mount, name)[rate] > 0
         /\ n = 1 + Truncated(first.host.disks[name].io[rate],
                              QuotaOn(first.host, mount, name)[rate])
  BY <1>4 DEF Spent
<1>6. PICK rate \in Rates :
         /\ QuotaOn(first.host, mount, name)[rate] > 0
         /\ n = 1 + Truncated(first.host.disks[name].io[rate],
                              QuotaOn(first.host, mount, name)[rate])
  BY <1>5
<1>7. name \in N
  BY <1>1, DiskPlanParts DEF AttemptsOn
<1> SUFFICES ASSUME second.ok
             PROVE  FALSE
  OBVIOUS
<1>8. \A rate1 \in Rates :
         /\ second.host.disks[name].io[rate1]
              = charged.disks[name].io[rate1] - QuotaOn(charged, mount, name)[rate1]
         /\ second.host.disks[name].io[rate1] >= 0
  <2>1. Drawn(D, N, charged, mount, second)
    BY PassNeeds
  <2> QED
    BY <1>7, <2>1 DEF Drawn
<1> DEFINE q == Q(name)[rate]
           io == first.host.disks[name].io[rate]
           all == h.disks[name].io[rate]
           left == charged.disks[name].io[rate]
           after == second.host.disks[name].io[rate]
           k == Truncated(io, q)
<1>9. all \in Int /\ left \in Int
  BY <1>7 DEF HostsOn, DiskCapacity, IO
<1>10. q \in Nat /\ io = all - q /\ io >= 0
  BY <1>1, <1>7
<1>11. q > 0 /\ n = 1 + k
  BY <1>2, <1>6
<1>12. left = all - n * q
  BY <1>3, <1>7
<1>13. after = left - q /\ after >= 0
  BY <1>2, <1>8
<1> HIDE DEF q, io, all, left, after, Q, second
<1>14. k \in Nat /\ io - k * q < q
  <2>1. io \in Nat
    BY <1>9, <1>10
  <2> QED
    BY <1>10, <1>11, <2>1, TimesLeave
<1> HIDE DEF k
<1>15. n * q = k * q + q /\ k * q \in Int
  BY <1>10, <1>11, <1>14
<1> DEFINE most == k * q
<1>16. most \in Int /\ n * q = most + q /\ io - most < q
  BY <1>14, <1>15
<1> HIDE DEF most
<1> QED
  BY <1>9, <1>10, <1>12, <1>13, <1>16

\* Once a pass has failed none is made
LEMMA FailedStays ==
    ASSUME NEW g, NEW V, NEW h, NEW normal, NEW mount, NEW bound \in Nat,
           RunsPasses(g, V, h, normal, mount, bound), NEW m \in 0..bound, g[m].failed
    PROVE  g[bound] = g[m]
<1> DEFINE end == g[m]
           rest == bound - m
           T == {j \in 0..rest : g[m + j] = end}
<1>1. rest \in Nat /\ m + rest = bound /\ m + 0 = m /\ 0 \in 0..rest
  OBVIOUS
<1>2. 0 \in T
  BY <1>1
<1>3. ASSUME NEW j \in 1..rest, j - 1 \in T
      PROVE  j \in T
  <2> DEFINE k == m + j
  <2>1. k \in 1..bound /\ k - 1 = m + (j - 1) /\ j \in 0..rest
    BY <1>1
  <2>2. g[k] = NormalPass(g[k - 1], normal, mount)
    BY <2>1 DEF RunsPasses
  <2>3. g[k - 1] = end
    BY <1>3, <2>1
  <2>4. end.failed
    OBVIOUS
  <2> HIDE DEF end
  <2>5. g[k] = end
    BY <2>2, <2>3, <2>4 DEF NormalPass
  <2> QED
    BY <2>1, <2>5
<1> HIDE DEF T, rest
<1>4. rest \in T
  BY <1>1, <1>2, <1>3, CountsUp
<1> QED
  BY <1>1, <1>4 DEF T

\* What a loop over the mounts has found, and the host it leaves
Looped(loop, host, n, disks) ==
    loop.host = host /\ Len(loop.plans) = n /\ \A i \in 1..n : loop.plans[i].disks = disks

\* The loop, where the first pass succeeds
LEMMA LoopIsClosed ==
    ASSUME NEW D \in SUBSET Devices, NEW N \in SUBSET DiskNames,
           NEW h \in HostsOn(D, N), Solvent(h), NEW mount \in Seq(VolumeBinding), AllWanted(mount),
           NEW first, first = GetMountDiskPlan(Attempt(h), mount), first.ok,
           NEW bound \in Nat, bound >= 1, bound <= MaxInt,
           NEW n, n = MountPasses(first, mount, bound),
           NEW charged, charged = ChargePasses(first.host, mount, DOMAIN first.disks, n - 1)
    PROVE  /\ n \in Nat
           /\ Looped(GetNormalPasses(h, <<>>, mount, bound),
                     TrailingPass(charged, mount, n, bound), n, first.disks)
<1> DEFINE V == PassesOn(D, N)
           base == [failed |-> FALSE, host |-> h, plans |-> <<>>]
           loop == GetNormalPasses(h, <<>>, mount, bound)
           second == GetMountDiskPlan(Attempt(charged), mount)
           Q(name) == QuotaOn(h, mount, name)
<1>1. /\ charged \in HostsOn(D, N) /\ Solvent(charged) /\ Closed(N, h, mount, n, charged)
      /\ n \in Nat /\ n >= 1 /\ n <= bound
  <2>1. n <= bound
    BY MountPassesIsNat
  <2>2. charged \in HostsOn(D, N) /\ Solvent(charged) /\ Closed(N, h, mount, n, charged)
    BY ClosedForm
  <2> QED
    BY <2>1, <2>2 DEF Closed
<1>2. \A name \in N : \A rate \in Rates :
         /\ Q(name)[rate] \in Nat /\ h.disks[name].io[rate] \in Int
         /\ n * Q(name)[rate] <= h.disks[name].io[rate]
  <2> TAKE name \in N
  <2> TAKE rate \in Rates
  <2>1. Q(name)[rate] \in Nat
    BY PassNeeds DEF Drawn
  <2>2. h.disks[name].io[rate] \in Int
    BY DEF HostsOn, DiskCapacity, IO
  <2>3. h.disks[name].io[rate] - n * Q(name)[rate] >= 0
    BY <1>1 DEF Closed
  <2> DEFINE q == Q(name)[rate]
             io == h.disks[name].io[rate]
             most == n * q
  <2>4. most \in Int
    <3>1. q \in Nat
      BY <2>1
    <3> HIDE DEF q
    <3> QED
      BY <1>1, <3>1
  <2>5. io \in Int /\ io - most >= 0
    BY <2>2, <2>3
  <2> HIDE DEF q, io, most
  <2>6. most <= io
    BY <2>4, <2>5
  <2> QED
    BY <2>1, <2>2, <2>6 DEF most, io, q
<1>3. PICK g : RunsPasses(g, V, h, <<>>, mount, bound)
  <2>1. base \in V
    <3>1. <<>> \in Seq(PlannedOn(D, N))
      OBVIOUS
    <3> QED
      BY <3>1 DEF PassesOn
  <2>2. \A s \in V : NormalPass(s, <<>>, mount) \in V
    <3>1. <<>> \in Seq(VolumeBinding)
      OBVIOUS
    <3> QED
      BY <3>1, NormalPassStays
  <2> HIDE DEF V
  <2> QED
    BY <2>1, <2>2, NormalPassesRun
<1>4. /\ loop = g[bound] /\ g[0] = base /\ \A k \in 0..bound : g[k] \in PassesOn(D, N)
      /\ \A k \in 1..bound : g[k] = NormalPass(g[k - 1], <<>>, mount)
  BY <1>3 DEF RunsPasses
<1> DEFINE S == {k \in 0..n : Passed(N, h, mount, first.disks, g[k], k)}
<1>5. 0 \in S
  <2>1. g[0].failed = FALSE /\ g[0].host = h /\ g[0].plans = <<>>
    BY <1>4
  <2>2. Kin(h, h)
    BY DEF Kin, SameMounts
  <2>3. \A name \in N : \A rate \in Rates :
           h.disks[name].io[rate] = h.disks[name].io[rate] - 0 * Q(name)[rate]
    <3> TAKE name \in N
    <3> TAKE rate \in Rates
    <3>1. Q(name)[rate] \in Nat /\ h.disks[name].io[rate] \in Int
      BY <1>2
    <3> DEFINE q == Q(name)[rate]
               io == h.disks[name].io[rate]
    <3> HIDE DEF q, io
    <3>2. io = io - 0 * q
      BY <3>1 DEF q, io
    <3> QED
      BY <3>2 DEF q, io
  <2>4. Passed(N, h, mount, first.disks, g[0], 0)
    BY <2>1, <2>2, <2>3 DEF Passed
  <2> QED
    BY <1>1, <2>4
<1>6. ASSUME NEW k \in 1..n, k - 1 \in S
      PROVE  k \in S
  <2> DEFINE j == k - 1
  <2>1. /\ j \in Nat /\ j \in 0..bound /\ k \in 1..bound /\ j + 1 = k /\ k <= n /\ k \in 0..n
        /\ Passed(N, h, mount, first.disks, g[j], j)
    BY <1>1, <1>6
  <2>2. g[k] = NormalPass(g[j], <<>>, mount) /\ g[j] \in PassesOn(D, N)
    BY <1>4, <2>1
  <2> HIDE DEF j
  <2>3. ASSUME NEW name \in N, NEW rate \in Rates
        PROVE  (j + 1) * QuotaOn(h, mount, name)[rate] <= h.disks[name].io[rate]
    <3> DEFINE q == Q(name)[rate]
               io == h.disks[name].io[rate]
    <3>1. q \in Nat /\ io \in Int /\ n * q <= io
      BY <1>2
    <3> HIDE DEF q, io
    <3>2. n * q = (n - k) * q + k * q /\ (n - k) * q \in Nat /\ k * q \in Int
      <4>1. n \in Nat /\ k \in Nat /\ k <= n
        BY <1>1, <2>1
      <4> QED
        BY ONLY <3>1, <4>1, SharesAdd
    <3>3. k * q <= io
      <4> DEFINE x == (n - k) * q
                 y == k * q
                 z == n * q
      <4>1. x \in Nat /\ y \in Int /\ z = x + y /\ z <= io
        BY <3>1, <3>2
      <4> HIDE DEF x, y, z
      <4>2. y <= io
        BY <3>1, <4>1
      <4> QED
        BY <4>2 DEF y
    <3> QED
      BY <2>1, <3>3 DEF q, io
  <2>4. Passed(N, h, mount, first.disks, g[k], j + 1)
    BY <2>1, <2>2, <2>3, OneMorePasses
  <2> QED
    BY <2>1, <2>4
<1> HIDE DEF S
<1>7. n \in S
  BY <1>1, <1>5, <1>6, CountsUp
<1>8. Passed(N, h, mount, first.disks, g[n], n) /\ g[n] \in PassesOn(D, N)
  BY <1>1, <1>4, <1>7 DEF S
<1>9. g[n].host = charged
  <2>1. g[n].host \in HostsOn(D, N) /\ Kin(h, g[n].host) /\ Kin(h, charged)
    BY <1>1, <1>8 DEF PassesOn, Passed, Closed
  <2>2. \A name \in N : \A rate \in Rates :
           g[n].host.disks[name].io[rate] = charged.disks[name].io[rate]
    BY <1>1, <1>8 DEF Passed, Closed
  <2>3. Kin(charged, g[n].host)
    BY <2>1, KinIsKin
  <2> QED
    BY <1>1, <2>1, <2>2, <2>3, KinWithTheSame
<1>10. CASE n = bound
  <2>1. loop.host = charged /\ Len(loop.plans) = n /\ \A i \in 1..n : loop.plans[i].disks = first.disks
    BY <1>4, <1>8, <1>9, <1>10 DEF Passed
  <2>2. TrailingPass(charged, mount, n, bound) = charged
    BY <1>10 DEF TrailingPass
  <2> QED
    BY <1>1, <2>1, <2>2 DEF Looped
<1>11. CASE n < bound
  <2>1. ~second.ok
    BY <1>1, <1>11, OnePassTooMany
  <2> DEFINE end == g[n + 1]
  <2>2. /\ end.failed /\ end.host = second.host /\ end.plans = g[n].plans
    <3>1. n + 1 \in 1..bound /\ (n + 1) - 1 = n
      BY <1>1, <1>11
    <3>2. end = NormalPass(g[n], <<>>, mount)
      BY <1>4, <3>1
    <3>3. GetNormalPlan(g[n].host, <<>>) = Attempt(charged)
      BY <1>9, NoNormalPlan
    <3>4. ~g[n].failed
      BY <1>8 DEF Passed
    <3> DEFINE more == Append(g[n].plans, [plan |-> second.plan, disks |-> second.disks])
    <3>5. end = [failed |-> ~second.ok, host |-> second.host,
                 plans |-> IF ~second.ok THEN g[n].plans ELSE more]
      BY <3>2, <3>3, <3>4 DEF NormalPass
    <3> HIDE DEF end, second, more
    <3> QED
      BY <2>1, <3>5
  <2>7. g[bound] = end
    <3>1. n + 1 \in 0..bound
      BY <1>1, <1>11
    <3> QED
      BY <1>3, <2>2, <3>1, FailedStays
  <2> HIDE DEF end
  <2>8. loop.host = second.host /\ Len(loop.plans) = n /\ \A i \in 1..n : loop.plans[i].disks = first.disks
    BY <1>4, <1>8, <2>2, <2>7 DEF Passed
  <2>9. TrailingPass(charged, mount, n, bound) = second.host
    BY <1>11 DEF TrailingPass
  <2> QED
    BY <1>1, <2>8, <2>9 DEF Looped
<1> QED
  BY <1>1, <1>10, <1>11
\* The loop, where the first pass fails
LEMMA LoopFailsAtOnce ==
    ASSUME NEW D \in SUBSET Devices, NEW N \in SUBSET DiskNames,
           NEW h \in HostsOn(D, N), NEW mount \in Seq(VolumeBinding),
           NEW first, first = GetMountDiskPlan(Attempt(h), mount), ~first.ok,
           NEW bound \in Nat, bound >= 1
    PROVE  Looped(GetNormalPasses(h, <<>>, mount, bound), first.host, 0, NoDisks)
<1> DEFINE V == PassesOn(D, N)
           base == [failed |-> FALSE, host |-> h, plans |-> <<>>]
<1>1. PICK g : RunsPasses(g, V, h, <<>>, mount, bound)
  <2>1. base \in V
    <3>1. <<>> \in Seq(PlannedOn(D, N))
      OBVIOUS
    <3> QED
      BY <3>1 DEF PassesOn
  <2>2. \A s \in V : NormalPass(s, <<>>, mount) \in V
    <3>1. <<>> \in Seq(VolumeBinding)
      OBVIOUS
    <3> QED
      BY <3>1, NormalPassStays
  <2> HIDE DEF V
  <2> QED
    BY <2>1, <2>2, NormalPassesRun
<1>2. /\ GetNormalPasses(h, <<>>, mount, bound) = g[bound] /\ g[0] = base
      /\ \A k \in 1..bound : g[k] = NormalPass(g[k - 1], <<>>, mount)
  BY <1>1 DEF RunsPasses
<1>3. g[1].failed /\ g[1].host = first.host /\ g[1].plans = <<>>
  <2>1. g[1] = NormalPass(base, <<>>, mount)
    <3>1. 1 \in 1..bound /\ 1 - 1 = 0
      OBVIOUS
    <3> QED
      BY <1>2, <3>1
  <2>2. GetNormalPlan(h, <<>>) = Attempt(h)
    BY NoNormalPlan
  <2> DEFINE more == Append(<<>>, [plan |-> first.plan, disks |-> first.disks])
  <2>3. g[1] = [failed |-> ~first.ok, host |-> first.host,
                plans |-> IF ~first.ok THEN <<>> ELSE more]
    BY <2>1, <2>2 DEF NormalPass
  <2>4. g[1] = [failed |-> TRUE, host |-> first.host, plans |-> <<>>]
    BY <2>3
  <2> QED
    BY <2>4
<1>4. g[bound] = g[1]
  <2>1. 1 \in 0..bound
    OBVIOUS
  <2> QED
    BY <1>1, <1>3, <2>1, FailedStays
<1>5. 1..0 = {} /\ Len(<<>>) = 0
  OBVIOUS
<1> QED
  BY <1>2, <1>3, <1>4, <1>5 DEF Looped

\* The closed form has found what the loop has found
LEMMA ClosedIsLoop ==
    ASSUME NEW D \in SUBSET Devices, NEW N \in SUBSET DiskNames,
           NEW h \in HostsOn(D, N), Solvent(h), NEW mount \in Seq(VolumeBinding), AllWanted(mount),
           NEW bound \in Nat, bound >= 1, bound <= MaxInt,
           NEW closed, closed = ApplyMountPasses(h, mount, bound)
    PROVE  /\ closed.capacity \in Nat
           /\ Looped(GetNormalPasses(h, <<>>, mount, bound), closed.host, closed.capacity, closed.disks)
<1> DEFINE first == GetMountDiskPlan(Attempt(h), mount)
           n == MountPasses(first, mount, bound)
           charged == ChargePasses(first.host, mount, DOMAIN first.disks, n - 1)
<1>1. closed = IF ~first.ok \/ bound < 1
               THEN [host |-> first.host, capacity |-> 0, disks |-> NoDisks]
               ELSE [host |-> TrailingPass(charged, mount, n, bound),
                     capacity |-> n, disks |-> first.disks]
  BY DEF ApplyMountPasses
<1>2. CASE ~first.ok
  <2>1. Looped(GetNormalPasses(h, <<>>, mount, bound), first.host, 0, NoDisks)
    BY <1>2, LoopFailsAtOnce
  <2> HIDE DEF first
  <2>2. closed.host = first.host /\ closed.capacity = 0 /\ closed.disks = NoDisks
    BY <1>1, <1>2
  <2> QED
    BY <2>1, <2>2
<1>3. CASE first.ok
  <2>1. /\ n \in Nat
        /\ Looped(GetNormalPasses(h, <<>>, mount, bound),
                  TrailingPass(charged, mount, n, bound), n, first.disks)
    BY <1>3, LoopIsClosed
  <2> HIDE DEF first, n, charged
  <2>2. /\ closed.host = TrailingPass(charged, mount, n, bound) /\ closed.capacity = n
        /\ closed.disks = first.disks
    BY <1>1, <1>3
  <2> QED
    BY <2>1, <2>2
<1> QED
  BY <1>2, <1>3

\* The closed form for mounts, which plans them without a loop, leaves the
\* host of the loop and finds its passes, on every record that is stored
\* (applyMountPasses)
THEOREM ClosedFormIsTheLoop == Spec => []MountPassesAreTheLoop
<1>1. IInv => MountPassesAreTheLoop
  <2> SUFFICES ASSUME IInv, NEW req \in DeployRequests,
                      NEW bound \in 1..MaxDeployCount \cup {MaxInt}, ValidBindings(req.vbs),
                      NEW h, h = NewHost(info),
                      NEW mount, mount = ClassifyVolumeBindings(req.vbs).mount,
                      NEW closed, closed = ApplyMountPasses(h, mount, bound),
                      NEW loop, loop = GetNormalPasses(h, <<>>, mount, bound)
               PROVE  /\ closed.host = loop.host
                      /\ Repeat(closed.capacity, closed.disks)
                           = [i \in DOMAIN loop.plans |-> loop.plans[i].disks]
    BY DEF MountPassesAreTheLoop
  <2>1. Sound(info)
    BY DEF IInv
  <2>2. PICK D \in SUBSET Devices, N \in SUBSET DiskNames : HostOf(h, info, D, N)
    BY <2>1, NewHostIsSolvent
  <2>3. h \in HostsOn(D, N) /\ Solvent(h)
    BY <2>2 DEF HostOf
  <2>4. Deployable(req.vbs)
    <3>1. RequestOk(req.vbs)
      BY RequestsAreWishes DEF RequestOk, Wishes
    <3> QED
      BY <3>1, BooksInputsAssumption DEF Deployable
  <2>5. mount \in Seq(VolumeBinding) /\ AllWanted(mount)
    <3>1. Plannable(ClassifyVolumeBindings(req.vbs), req.vbs)
      BY <2>4, ClassesArePlannable
    <3> QED
      BY <3>1 DEF Plannable, Listed, AllWanted
  <2>6. bound \in Nat /\ bound >= 1 /\ bound <= MaxInt
    BY MaxIntAssumption, MaxDeployCountAssumption
  <2>7. /\ closed.capacity \in Nat
        /\ Looped(loop, closed.host, closed.capacity, closed.disks)
    BY <2>3, <2>5, <2>6, ClosedIsLoop
  <2>8. DOMAIN loop.plans = 1..Len(loop.plans)
    <3>1. <<>> \in Seq(VolumeBinding)
      OBVIOUS
    <3>2. loop.plans \in Seq(PlannedOn(D, N))
      BY <2>3, <2>5, <2>6, <3>1, NormalPassesAreOn
    <3> QED
      BY <3>2
  <2>9. /\ loop.host = closed.host /\ DOMAIN loop.plans = 1..closed.capacity
        /\ \A i \in 1..closed.capacity : loop.plans[i].disks = closed.disks
    BY <2>7, <2>8 DEF Looped
  <2> QED
    BY <2>9 DEF Repeat
<1> QED
  BY <1>1, RecordsStaySound, PTL

-----------------------------------------------------------------------------
(* What a workload is given.  Every binding to be placed is, with what it   *)
(* is due, and the disks are charged what those on them ask for.            *)

Scheduled(vbs) == {vb \in vbs : RequireSchedule(vb)}

\* Where a binding is, and the bindings on a disk
PathIn(plan, vb) == IF RequireSchedule(vb) THEN plan[vb].device ELSE vb.source
OnDisk(disks, plan, vbs, name) == {vb \in vbs : GetDiskByPath(disks, PathIn(plan, vb)) = name}

RateOf(rate) == [vb \in VolumeBinding |-> vb.io[rate]]

\* The disks are charged what the bindings on them ask for
Matches(p, vbs, disks) ==
    \A name \in DOMAIN disks : \A rate \in Rates :
        UsedOf(p.disks, name)[rate] = SumOver(RateOf(rate), OnDisk(disks, p.plan, vbs, name))

\* The monopoly bindings are on one volume, with no less than they ask for together
MonosOf(plan) == {vb \in DOMAIN plan : RequireScheduleMonopoly(vb)}
Together(plan) ==
    /\ \A vb \in DOMAIN plan : \A vb1 \in DOMAIN plan :
          RequireScheduleMonopoly(vb) /\ RequireScheduleMonopoly(vb1)
          => plan[vb].device = plan[vb1].device
    /\ SumOver(SizesOf(plan), MonosOf(plan)) >= SumOver(Asking, MonosOf(plan))

Meets(p, vbs, disks) ==
    /\ DOMAIN p.plan = Scheduled(vbs) /\ \A vb \in Scheduled(vbs) : p.plan[vb].size >= Due(vb)
    /\ Together(p.plan) /\ Matches(p, vbs, disks)

NoMonos(vbs) == \A vb \in vbs : ~RequireScheduleMonopoly(vb)

\* q is p and p1 together
Joins(plan, plan1, plan2) ==
    /\ DOMAIN plan = DOMAIN plan1 \cup DOMAIN plan2
    /\ \A vb \in DOMAIN plan1 : plan[vb] = plan1[vb]
    /\ \A vb \in DOMAIN plan2 : plan[vb] = plan2[vb]

AddsUp(q, p, p1, disks) ==
    /\ Joins(q.plan, p.plan, p1.plan)
    /\ \A name \in DOMAIN disks : \A rate \in Rates :
          UsedOf(q.disks, name)[rate] = UsedOf(p.disks, name)[rate] + UsedOf(p1.disks, name)[rate]

\* The rates of some bindings are numbers
LEMMA RatesAreIntegral ==
    ASSUME NEW vbs \in Bindings, NEW rate \in Rates, NEW S \in SUBSET vbs
    PROVE  Integral(RateOf(rate), S) /\ SumOver(RateOf(rate), S) \in Int
<1>1. IsFiniteSet(S) /\ S \in SUBSET VolumeBinding
  BY FS_Subset DEF Bindings
<1>2. \A vb \in S : RateOf(rate)[vb] \in Int
  BY <1>1, BindingParts DEF RateOf, IO
<1>3. Integral(RateOf(rate), S)
  BY <1>1, <1>2 DEF Integral
<1> HIDE DEF RateOf
<1> QED
  BY <1>3, SumSplits

\* What is given for some bindings and for others is given for all of them
\* In a plan without any, and in one that gives each what it asks for, they are
LEMMA NoneTogether ==
    ASSUME NEW plan, \A vb \in DOMAIN plan : ~RequireScheduleMonopoly(vb)
    PROVE  Together(plan)
<1>1. MonosOf(plan) = {}
  BY DEF MonosOf
<1>2. SumOver(SizesOf(plan), {}) = 0 /\ SumOver(Asking, {}) = 0
  BY SumOfNone
<1> QED
  BY <1>1, <1>2 DEF Together

LEMMA SameTogether ==
    ASSUME NEW plan, Together(plan), NEW plan1, MonosOf(plan1) = MonosOf(plan),
           \A vb \in MonosOf(plan) : plan1[vb] = plan[vb]
    PROVE  Together(plan1)
<1>1. \A vb \in MonosOf(plan) : SizesOf(plan1)[vb] = SizesOf(plan)[vb]
  BY DEF SizesOf, MonosOf
<1>2. SumOver(SizesOf(plan1), MonosOf(plan)) = SumOver(SizesOf(plan), MonosOf(plan))
  BY <1>1, SumSame
<1> QED
  BY <1>2 DEF Together, MonosOf

LEMMA OneTogether ==
    ASSUME NEW vb \in VolumeBinding, NEW plan, DOMAIN plan = {vb}, plan[vb].size = vb.size
    PROVE  Together(plan)
<1> DEFINE S == MonosOf(plan)
<1>1. S \in SUBSET {vb} /\ IsFiniteSet(S)
  BY FS_Singleton, FS_Subset DEF MonosOf
<1>2. \A vb1 \in S : SizesOf(plan)[vb1] = Asking[vb1] /\ Asking[vb1] \in Int
  BY <1>1, BindingParts DEF SizesOf, Asking
<1> HIDE DEF S
<1>3. SumOver(SizesOf(plan), S) = SumOver(Asking, S)
  BY <1>2, SumSame
<1>4. Integral(Asking, S) /\ S \in SUBSET S
  BY <1>1, <1>2 DEF Integral
<1>5. SumOver(Asking, S) \in Int
  BY <1>4, SumSplits
<1> QED
  BY <1>3, <1>5 DEF Together, S

LEMMA MeetsBoth ==
    ASSUME NEW disks, NEW p, NEW p1, NEW q, NEW S \in Bindings, NEW S1 \in Bindings,
           S \cap S1 = {}, NoMonos(S) \/ NoMonos(S1), AddsUp(q, p, p1, disks),
           Meets(p, S, disks), Meets(p1, S1, disks)
    PROVE  Meets(q, S \cup S1, disks)
<1>1. /\ DOMAIN p.plan = Scheduled(S) /\ DOMAIN p1.plan = Scheduled(S1)
      /\ DOMAIN q.plan = Scheduled(S) \cup Scheduled(S1)
      /\ \A vb \in Scheduled(S) : q.plan[vb] = p.plan[vb]
      /\ \A vb \in Scheduled(S1) : q.plan[vb] = p1.plan[vb]
  BY DEF Meets, AddsUp, Joins
<1>2. Scheduled(S \cup S1) = Scheduled(S) \cup Scheduled(S1)
  BY DEF Scheduled
<1>3. \A vb \in Scheduled(S \cup S1) : q.plan[vb].size >= Due(vb)
  BY <1>1, <1>2 DEF Meets
<1>4. Together(q.plan)
  <2>1. Scheduled(S) \subseteq S /\ Scheduled(S1) \subseteq S1
    BY DEF Scheduled
  <2>2. CASE NoMonos(S)
    <3>1. MonosOf(q.plan) = MonosOf(p1.plan)
      BY <1>1, <2>1, <2>2 DEF NoMonos, MonosOf
    <3>2. Together(p1.plan) /\ \A vb \in MonosOf(p1.plan) : q.plan[vb] = p1.plan[vb]
      BY <1>1 DEF Meets, MonosOf
    <3> QED
      BY <3>1, <3>2, SameTogether
  <2>3. CASE NoMonos(S1)
    <3>1. MonosOf(q.plan) = MonosOf(p.plan)
      BY <1>1, <2>1, <2>3 DEF NoMonos, MonosOf
    <3>2. Together(p.plan) /\ \A vb \in MonosOf(p.plan) : q.plan[vb] = p.plan[vb]
      BY <1>1 DEF Meets, MonosOf
    <3> QED
      BY <3>1, <3>2, SameTogether
  <2> QED
    BY <2>2, <2>3
<1>5. Matches(q, S \cup S1, disks)
  <2> SUFFICES ASSUME NEW name \in DOMAIN disks, NEW rate \in Rates
               PROVE  UsedOf(q.disks, name)[rate]
                        = SumOver(RateOf(rate), OnDisk(disks, q.plan, S \cup S1, name))
    BY DEF Matches
  <2> DEFINE T == OnDisk(disks, p.plan, S, name)
             T1 == OnDisk(disks, p1.plan, S1, name)
  <2>1. \A vb \in S : PathIn(q.plan, vb) = PathIn(p.plan, vb)
    BY <1>1 DEF PathIn, Scheduled
  <2>2. \A vb \in S1 : PathIn(q.plan, vb) = PathIn(p1.plan, vb)
    BY <1>1 DEF PathIn, Scheduled
  <2>3. OnDisk(disks, q.plan, S \cup S1, name) = T \cup T1
    BY <2>1, <2>2 DEF OnDisk
  <2>4. T \in SUBSET S /\ T1 \in SUBSET S1
    BY DEF OnDisk
  <2> HIDE DEF T, T1
  <2>5. T \cap T1 = {}
    BY <2>4
  <2>6. Integral(RateOf(rate), T) /\ Integral(RateOf(rate), T1)
    BY <2>4, RatesAreIntegral
  <2>7. SumOver(RateOf(rate), T \cup T1) = SumOver(RateOf(rate), T) + SumOver(RateOf(rate), T1)
    BY <2>5, <2>6, SumJoins
  <2>8. /\ UsedOf(p.disks, name)[rate] = SumOver(RateOf(rate), T)
        /\ UsedOf(p1.disks, name)[rate] = SumOver(RateOf(rate), T1)
    BY DEF Meets, Matches, T, T1
  <2>9. UsedOf(q.disks, name)[rate] = UsedOf(p.disks, name)[rate] + UsedOf(p1.disks, name)[rate]
    BY DEF AddsUp
  <2> QED
    BY <2>3, <2>7, <2>8, <2>9
<1> QED
  BY <1>1, <1>2, <1>3, <1>4, <1>5 DEF Meets

\* Nothing is given for no bindings
LEMMA NothingMeets ==
    ASSUME NEW p, p.plan = EmptyPlan, NEW disks,
           \A name : \A rate \in Rates : UsedOf(p.disks, name)[rate] = 0,
           NEW vbs \in Bindings, \A vb \in vbs : ~RequireSchedule(vb),
           \A vb \in vbs : \A rate \in Rates : vb.io[rate] = 0
    PROVE  Meets(p, vbs, disks)
<1>1. Scheduled(vbs) = {} /\ DOMAIN EmptyPlan = {}
  BY DEF Scheduled, EmptyPlan
<1>2. Together(p.plan)
  BY <1>1, NoneTogether
<1>3. Matches(p, vbs, disks)
  <2> SUFFICES ASSUME NEW name \in DOMAIN disks, NEW rate \in Rates
               PROVE  UsedOf(p.disks, name)[rate]
                        = SumOver(RateOf(rate), OnDisk(disks, p.plan, vbs, name))
    BY DEF Matches
  <2> DEFINE T == OnDisk(disks, p.plan, vbs, name)
  <2>1. T \in SUBSET vbs
    BY DEF OnDisk
  <2> HIDE DEF T
  <2>2. IsFiniteSet(T) /\ T \in SUBSET VolumeBinding
    BY <2>1, FS_Subset DEF Bindings
  <2>3. \A vb \in T : RateOf(rate)[vb] = 0
    BY <2>1, <2>2 DEF RateOf
  <2>4. SumOver(RateOf(rate), T) = 0
    BY <2>2, <2>3, SumOfZeros
  <2> QED
    BY <2>4 DEF T
<1> QED
  BY <1>1, <1>2, <1>3 DEF Meets

\* The rates of one binding, as they are charged
LEMMA QuotaMatches ==
    ASSUME NEW vb, vb.io \in IO, Covers(vb.io, NoIO), NEW h, NEW disks,
           SameMounts(disks, h.disks), NEW path, NEW name, NEW rate \in Rates
    PROVE  UsedOf(DiskQuota(h, path, vb), name)[rate]
             = IF GetDiskByPath(disks, path) = name THEN vb.io[rate] ELSE 0
<1>1. GetDiskByPath(h.disks, path) = GetDiskByPath(disks, path)
  BY MountsDecide
<1>2. vb.io[rate] \in Int /\ vb.io[rate] >= 0
  BY DEF Covers, NoIO, IO
<1>3. CASE RequireIOPS(vb)
  BY <1>1, <1>3 DEF DiskQuota, UsedOf, NoIO
<1>4. CASE ~RequireIOPS(vb)
  <2>1. vb.io[rate] = 0
    BY <1>2, <1>4 DEF RequireIOPS
  <2> QED
    BY <1>4, <2>1 DEF DiskQuota, UsedOf, NoIO
<1> QED
  BY <1>3, <1>4

\* One binding on a disk or not
LEMMA OneOnDisk ==
    ASSUME NEW vb \in VolumeBinding, NEW rate \in Rates, NEW disks, NEW plan, NEW name
    PROVE  SumOver(RateOf(rate), OnDisk(disks, plan, {vb}, name))
             = IF GetDiskByPath(disks, PathIn(plan, vb)) = name THEN vb.io[rate] ELSE 0
<1> DEFINE T == OnDisk(disks, plan, {vb}, name)
<1> DEFINE U == SumOver(RateOf(rate), {vb})
<1>1. CASE GetDiskByPath(disks, PathIn(plan, vb)) = name
  <2>1. T = {vb}
    BY <1>1 DEF OnDisk
  <2>2. {vb} \in Bindings
    BY FS_Singleton DEF Bindings
  <2>3. Integral(RateOf(rate), {vb})
    BY <2>2, RatesAreIntegral
  <2>4. RateOf(rate)[vb] = vb.io[rate] /\ vb.io[rate] \in Int
    BY BindingParts DEF RateOf, IO
  <2>5. U = RateOf(rate)[vb] + SumOver(RateOf(rate), {vb} \ {vb})
    BY <2>3, SumSplits
  <2>6. {vb} \ {vb} = {}
    OBVIOUS
  <2>7. SumOver(RateOf(rate), {}) = 0
    BY SumOfNone
  <2>8. SumOver(RateOf(rate), {vb} \ {vb}) = 0
    BY <2>6, <2>7
  <2> HIDE DEF U
  <2>9. U = vb.io[rate]
    BY <2>4, <2>5, <2>8
  <2>10. SumOver(RateOf(rate), T) = U
    BY <2>1 DEF U
  <2> QED
    BY <1>1, <2>9, <2>10
<1>2. CASE GetDiskByPath(disks, PathIn(plan, vb)) # name
  <2>1. T = {}
    BY <1>2 DEF OnDisk
  <2> QED
    BY <1>2, <2>1, SumOfNone
<1> QED
  BY <1>1, <1>2

\* A binding that is placed
LEMMA OneMeets ==
    ASSUME NEW vb \in VolumeBinding, Covers(vb.io, NoIO), RequireSchedule(vb), NEW h, NEW disks,
           SameMounts(disks, h.disks), NEW device, NEW p,
           p = [plan |-> Placing(EmptyPlan, vb, device, vb.size),
                disks |-> DiskQuota(h, device, vb)]
    PROVE  Meets(p, {vb}, disks)
<1>1. DOMAIN p.plan = {vb} /\ p.plan[vb] = [device |-> device, size |-> vb.size]
  BY DEF Placing, EmptyPlan
<1>2. Scheduled({vb}) = {vb}
  BY DEF Scheduled
<1>3. p.plan[vb].size >= Due(vb)
  BY <1>1, BindingParts DEF Due
<1>4. Together(p.plan)
  BY <1>1, OneTogether
<1>5. Matches(p, {vb}, disks)
  <2>1. PathIn(p.plan, vb) = device /\ p.disks = DiskQuota(h, device, vb)
    BY <1>1 DEF PathIn
  <2> SUFFICES ASSUME NEW name \in DOMAIN disks, NEW rate \in Rates
               PROVE  UsedOf(p.disks, name)[rate]
                        = SumOver(RateOf(rate), OnDisk(disks, p.plan, {vb}, name))
    BY DEF Matches
  <2>2. UsedOf(p.disks, name)[rate]
          = IF GetDiskByPath(disks, PathIn(p.plan, vb)) = name THEN vb.io[rate] ELSE 0
    BY <2>1, QuotaMatches, BindingParts
  <2>3. SumOver(RateOf(rate), OnDisk(disks, p.plan, {vb}, name))
          = IF GetDiskByPath(disks, PathIn(p.plan, vb)) = name THEN vb.io[rate] ELSE 0
    BY OneOnDisk
  <2> QED
    BY <2>2, <2>3
<1> QED
  BY <1>1, <1>2, <1>3, <1>4, <1>5 DEF Meets

\* A mount that is charged
LEMMA MountMeets ==
    ASSUME NEW vb \in VolumeBinding, Covers(vb.io, NoIO), ~RequireSchedule(vb), NEW h, NEW disks,
           SameMounts(disks, h.disks), NEW p,
           p = [plan |-> EmptyPlan, disks |-> DiskQuota(h, vb.source, vb)]
    PROVE  Meets(p, {vb}, disks)
<1>1. DOMAIN p.plan = {}
  BY DEF EmptyPlan
<1>2. Scheduled({vb}) = {}
  BY DEF Scheduled
<1>3. Together(p.plan)
  BY <1>1, NoneTogether
<1>4. Matches(p, {vb}, disks)
  <2>1. PathIn(p.plan, vb) = vb.source /\ p.disks = DiskQuota(h, vb.source, vb)
    BY DEF PathIn
  <2> SUFFICES ASSUME NEW name \in DOMAIN disks, NEW rate \in Rates
               PROVE  UsedOf(p.disks, name)[rate]
                        = SumOver(RateOf(rate), OnDisk(disks, p.plan, {vb}, name))
    BY DEF Matches
  <2>2. UsedOf(p.disks, name)[rate]
          = IF GetDiskByPath(disks, PathIn(p.plan, vb)) = name THEN vb.io[rate] ELSE 0
    BY <2>1, QuotaMatches, BindingParts
  <2>3. SumOver(RateOf(rate), OnDisk(disks, p.plan, {vb}, name))
          = IF GetDiskByPath(disks, PathIn(p.plan, vb)) = name THEN vb.io[rate] ELSE 0
    BY OneOnDisk
  <2> QED
    BY <2>2, <2>3
<1> QED
  BY <1>1, <1>2, <1>3, <1>4 DEF Meets

\* Charging leaves the mount points of the disks
LEMMA ChargesKeepMounts ==
    ASSUME NEW D, NEW N, NEW h \in HostsOn(D, N), NEW path, NEW vb, NEW disks,
           SameMounts(disks, h.disks)
    PROVE  SameMounts(disks, DecreaseIOPSQuota(h, path, vb).disks)
<1> DEFINE name == GetDiskByPath(h.disks, path)
           host == [h EXCEPT !.disks[name].io = SubIO(h.disks[name].io, vb.io)]
<1>1. h.disks \in [N -> DiskCapacity] /\ h = [free |-> h.free, used |-> h.used,
                                             unused |-> h.unused, disks |-> h.disks]
  BY DEF HostsOn
<1>2. DecreaseIOPSQuota(h, path, vb) = IF RequireIOPS(vb) THEN host ELSE h
  BY DEF DecreaseIOPSQuota
<1> HIDE DEF name
<1>3. host.disks = [h.disks EXCEPT ![name].io = SubIO(h.disks[name].io, vb.io)]
  BY <1>1
<1> HIDE DEF host
<1>4. DOMAIN host.disks = DOMAIN h.disks
  BY <1>1, <1>3
<1>5. \A name1 \in DOMAIN h.disks : host.disks[name1].mounts = h.disks[name1].mounts
  <2> TAKE name1 \in DOMAIN h.disks
  <2>1. h.disks[name1] \in DiskCapacity
    BY <1>1
  <2> QED
    BY <1>1, <1>3, <2>1 DEF DiskCapacity
<1> QED
  BY <1>2, <1>4, <1>5 DEF SameMounts

\* Disks added, the plans joined
LEMMA DisksAddUp ==
    ASSUME NEW N, NEW q, NEW p, p.disks \in DiskPlansOn(N), NEW p1, p1.disks \in DiskPlansOn(N),
           q.disks = AddDisks(p.disks, p1.disks), Joins(q.plan, p.plan, p1.plan), NEW disks
    PROVE  AddsUp(q, p, p1, disks)
BY UsesAddUp DEF AddsUp

\* An attempt at some bindings, as far as it has come
Met(a, vbs, disks) == SameMounts(disks, a.host.disks) /\ (a.ok => Meets(a, vbs, disks))

\* An attempt at nothing
LEMMA AttemptIsGiven ==
    ASSUME NEW h, NEW disks, SameMounts(disks, h.disks)
    PROVE  Met(Attempt(h), {}, disks)
<1> DEFINE a == Attempt(h)
<1>1. a.plan = EmptyPlan /\ a.disks = NoDisks /\ a.host = h
  BY DEF Attempt
<1>2. \A name : \A rate \in Rates : UsedOf(a.disks, name)[rate] = 0
  BY <1>1 DEF UsedOf, NoDisks, NoIO
<1>3. {} \in Bindings
  BY FS_EmptySet DEF Bindings
<1> HIDE DEF a
<1>4. Meets(a, {}, disks)
  BY <1>1, <1>2, <1>3, NothingMeets
<1> QED
  BY <1>1, <1>4 DEF Met, a

\* A normal binding is placed on one of the used volumes, or the attempt fails
LEMMA PlaceNormalMeets ==
    ASSUME NEW D \in SUBSET Devices, NEW N \in SUBSET DiskNames, NEW a \in AttemptsOn(D, N),
           NEW disks, NEW S \in Bindings, Met(a, S, disks),
           NEW req \in VolumeBinding, req \notin S, Covers(req.io, NoIO), IsNormal(req)
    PROVE  Met(PlaceNormal(a, req), S \cup {req}, disks)
<1> DEFINE fitting == Fitting(a.host, req)
           device == Least(a.host.free, fitting)
           next == PlaceNormal(a, req)
           quota == DiskQuota(a.host, device, req)
           p1 == [plan |-> Placing(EmptyPlan, req, device, req.size), disks |-> quota]
<1>1. /\ a.host \in HostsOn(D, N) /\ a.plan \in PlansOn(D) /\ a.disks \in DiskPlansOn(N)
      /\ a = [ok |-> a.ok, host |-> a.host, plan |-> a.plan, disks |-> a.disks]
  BY DEF AttemptsOn
<1>2. CASE ~(a.ok /\ fitting # {})
  <2>1. next.host = a.host /\ ~next.ok
    BY <1>1, <1>2 DEF PlaceNormal
  <2> QED
    BY <2>1 DEF Met
<1>3. CASE a.ok /\ fitting # {}
  <2>1. next = PlaceOn(a, device, req)
    BY <1>3 DEF PlaceNormal
  <2>2. fitting \in SUBSET D
    BY <1>1, MembersAreIn DEF Fitting, HostsOn
  <2>3. device \in D /\ Qualified(a.host, device, req)
    <3>1. \A d \in fitting : a.host.free[d] \in Int /\ Qualified(a.host, d, req)
      BY <1>1, <2>2 DEF Fitting, HostsOn
    <3> HIDE DEF fitting
    <3>2. device \in fitting
      BY <1>3, <2>2, <3>1, LeastIsThere
    <3> QED
      BY <2>2, <3>1, <3>2
  <2> HIDE DEF device, fitting, next
  <2>4. /\ next.host = DecreaseIOPSQuota(TakeSpace(a.host, device, req.size), device, req)
        /\ next.plan = Placing(a.plan, req, device, req.size)
        /\ next.disks = AddDisks(a.disks, quota)
    BY <1>1, <2>1 DEF PlaceOn
  <2>5. SameMounts(disks, next.host.disks)
    <3>1. req.size \in Int
      BY BindingParts
    <3>2. /\ TakeSpace(a.host, device, req.size) \in HostsOn(D, N)
          /\ TakeSpace(a.host, device, req.size).disks = a.host.disks
      BY <1>1, <2>3, <3>1, TakenStays
    <3> QED
      BY <2>4, <3>2, ChargesKeepMounts DEF Met
  <2>6. quota \in DiskPlansOn(N)
    BY <1>1, <2>3, BindingParts, ChargesStay
  <2>7. Meets(p1, {req}, disks)
    BY OneMeets DEF Met, IsNormal
  <2>8. Joins(next.plan, a.plan, p1.plan)
    <3>1. DOMAIN a.plan = Scheduled(S)
      BY <1>3 DEF Met, Meets
    <3>2. req \notin DOMAIN a.plan
      BY <3>1 DEF Scheduled
    <3> QED
      BY <2>4, <3>2 DEF Joins, Placing, EmptyPlan
  <2>9. AddsUp(next, a, p1, disks)
    BY <1>1, <2>4, <2>6, <2>8, DisksAddUp
  <2>10. {req} \in Bindings /\ S \cap {req} = {} /\ NoMonos({req})
    BY FS_Singleton DEF Bindings, NoMonos, IsNormal
  <2>11. Meets(a, S, disks)
    BY <1>3 DEF Met
  <2> HIDE DEF p1
  <2>12. Meets(next, S \cup {req}, disks)
    BY <2>7, <2>9, <2>10, <2>11, MeetsBoth
  <2> QED
    BY <2>5, <2>12 DEF Met, next
<1> HIDE DEF next, fitting
<1> QED
  BY <1>2, <1>3 DEF next

\* A mount is charged, if it asks for rates
LEMMA ChargeMountMeets ==
    ASSUME NEW D, NEW N \in SUBSET DiskNames, NEW a \in AttemptsOn(D, N),
           NEW disks, NEW S \in Bindings, Met(a, S, disks),
           NEW req \in VolumeBinding, req \notin S, Covers(req.io, NoIO), ~RequireSchedule(req)
    PROVE  Met(ChargeMount(a, req), S \cup {req}, disks)
<1> DEFINE next == ChargeMount(a, req)
           quota == DiskQuota(a.host, req.source, req)
           p1 == [plan |-> EmptyPlan, disks |-> quota]
<1>1. /\ a.host \in HostsOn(D, N) /\ a.plan \in PlansOn(D) /\ a.disks \in DiskPlansOn(N)
      /\ a = [ok |-> a.ok, host |-> a.host, plan |-> a.plan, disks |-> a.disks]
  BY DEF AttemptsOn
<1>2. Meets(p1, {req}, disks)
  BY MountMeets DEF Met
<1>3. {req} \in Bindings /\ S \cap {req} = {} /\ NoMonos({req})
  BY FS_Singleton DEF Bindings, NoMonos, RequireScheduleMonopoly
<1>4. \A plan : Joins(plan, plan, EmptyPlan)
  BY DEF Joins, EmptyPlan
<1>5. CASE ~RequireIOPS(req)
  <2>1. next = a
    BY <1>5 DEF ChargeMount
  <2>2. quota = [name \in {} |-> req.io]
    BY <1>5 DEF DiskQuota
  <2>3. \A name : \A rate \in Rates : UsedOf(quota, name)[rate] = 0
    BY <2>2 DEF UsedOf, NoIO
  <2> HIDE DEF quota
  <2>4. \A name : \A rate \in Rates : UsedOf(a.disks, name)[rate] \in Int
    BY <1>1, UsesAddUp
  <2>5. AddsUp(a, a, p1, disks)
    BY <1>4, <2>3, <2>4 DEF AddsUp
  <2> HIDE DEF p1
  <2>6. a.ok => Meets(a, S \cup {req}, disks)
    BY <1>2, <1>3, <2>5, MeetsBoth DEF Met
  <2> HIDE DEF next
  <2> QED
    BY <2>1, <2>6 DEF Met, next
<1>6. CASE RequireIOPS(req) /\ (~a.ok \/ ~Qualified(a.host, req.source, req))
  <2>1. next.host = a.host /\ ~next.ok
    BY <1>1, <1>6 DEF ChargeMount
  <2> QED
    BY <2>1 DEF Met
<1>7. CASE RequireIOPS(req) /\ a.ok /\ Qualified(a.host, req.source, req)
  <2>1. /\ next.host = DecreaseIOPSQuota(a.host, req.source, req)
        /\ next.plan = a.plan /\ next.disks = AddDisks(a.disks, quota)
    BY <1>1, <1>7 DEF ChargeMount
  <2> HIDE DEF next
  <2>2. SameMounts(disks, next.host.disks)
    BY <1>1, <2>1, ChargesKeepMounts DEF Met
  <2>3. quota \in DiskPlansOn(N)
    BY <1>1, <1>7, BindingParts, ChargesStay
  <2>4. AddsUp(next, a, p1, disks)
    BY <1>1, <1>4, <2>1, <2>3, DisksAddUp
  <2>5. Meets(a, S, disks)
    BY <1>7 DEF Met
  <2> HIDE DEF p1
  <2>6. Meets(next, S \cup {req}, disks)
    BY <1>2, <1>3, <2>4, <2>5, MeetsBoth
  <2> QED
    BY <2>2, <2>6 DEF Met, next
<1> QED
  BY <1>5, <1>6, <1>7

\* The first k of a list, and lists that name nothing twice
FirstOf(s, k) == {s[j] : j \in 1..k}
OnceEach(s) == \A i \in 1..Len(s) : \A j \in 1..Len(s) : s[i] = s[j] => i = j

\* One more of a list
LEMMA OneMoreOf ==
    ASSUME NEW s \in Seq(VolumeBinding), OnceEach(s)
    PROVE  /\ FirstOf(s, 0) = {} /\ FirstOf(s, Len(s)) = ToSet(s)
           /\ \A k \in 1..Len(s) : /\ FirstOf(s, k) = FirstOf(s, k - 1) \cup {s[k]}
                                   /\ s[k] \in ToSet(s) /\ s[k] \notin FirstOf(s, k - 1)
           /\ \A k \in 0..Len(s) : FirstOf(s, k) \in Bindings /\ FirstOf(s, k) \subseteq ToSet(s)
<1>1. Len(s) \in Nat /\ DOMAIN s = 1..Len(s) /\ ToSet(s) = {s[i] : i \in 1..Len(s)}
  BY BindingList DEF ToSet
<1>2. IsFiniteSet(ToSet(s)) /\ ToSet(s) \in SUBSET VolumeBinding
  BY MembersAreFinite
<1>3. FirstOf(s, 0) = {} /\ FirstOf(s, Len(s)) = ToSet(s)
  BY <1>1 DEF FirstOf
<1>4. \A k \in 1..Len(s) : /\ FirstOf(s, k) = FirstOf(s, k - 1) \cup {s[k]}
                           /\ s[k] \in ToSet(s) /\ s[k] \notin FirstOf(s, k - 1)
  <2> TAKE k \in 1..Len(s)
  <2>1. k \in Int /\ 1..k = (1..(k - 1)) \cup {k} /\ k \notin 1..(k - 1)
    BY <1>1
  <2>2. FirstOf(s, k) = FirstOf(s, k - 1) \cup {s[k]}
    BY <2>1 DEF FirstOf
  <2>3. \A j \in 1..(k - 1) : j \in 1..Len(s) /\ j # k
    BY <1>1
  <2>4. s[k] \notin FirstOf(s, k - 1)
    BY <2>3 DEF FirstOf, OnceEach
  <2> QED
    BY <1>1, <2>2, <2>4
<1>5. \A k \in 0..Len(s) : FirstOf(s, k) \in Bindings /\ FirstOf(s, k) \subseteq ToSet(s)
  <2> TAKE k \in 0..Len(s)
  <2>1. FirstOf(s, k) \subseteq ToSet(s)
    BY <1>1 DEF FirstOf
  <2> QED
    BY <1>2, <2>1, FS_Subset DEF Bindings
<1> QED
  BY <1>3, <1>4, <1>5

\* A list of bindings with rates that are not less than nothing
AskedOnce(s) ==
    /\ s \in Seq(VolumeBinding) /\ OnceEach(s)
    /\ \A k \in 1..Len(s) : Covers(s[k].io, NoIO)

\* Normal bindings, one after the other
LEMMA NormalPlanMeets ==
    ASSUME NEW D \in SUBSET Devices, NEW N \in SUBSET DiskNames, NEW h \in HostsOn(D, N),
           NEW disks, SameMounts(disks, h.disks),
           NEW normal, AskedOnce(normal), \A k \in 1..Len(normal) : IsNormal(normal[k])
    PROVE  Met(GetNormalPlan(h, normal), ToSet(normal), disks)
<1> DEFINE n == Len(normal)
           V == AttemptsOn(D, N)
<1>1. n \in Nat /\ DOMAIN normal = 1..n /\ \A k \in 1..n : normal[k] \in VolumeBinding
  BY BindingList DEF AskedOnce
<1>2. Attempt(h) \in V
  BY EmptyPlansStay
<1>3. \A a \in V, k \in 1..n : PlaceNormal(a, normal[k]) \in V
  BY <1>1, PlaceNormalStays
<1> HIDE DEF V
<1>4. PICK g : RunsPlaces(g, V, h, normal, n)
  BY <1>1, <1>2, <1>3, NormalPlanRuns
<1> DEFINE Done(k) == Met(g[k], FirstOf(normal, k), disks)
           S == {k \in 0..n : Done(k)}
<1>5. FirstOf(normal, 0) = {} /\ FirstOf(normal, n) = ToSet(normal)
  BY OneMoreOf DEF AskedOnce
<1>6. 0 \in S
  <2>1. g[0] = Attempt(h)
    BY <1>4 DEF RunsPlaces
  <2>2. Done(0)
    BY <1>5, <2>1, AttemptIsGiven
  <2> QED
    BY <1>1, <2>2
<1>7. ASSUME NEW k \in 1..n, k - 1 \in S
      PROVE  k \in S
  <2> DEFINE F == FirstOf(normal, k - 1)
             req == normal[k]
  <2>1. k - 1 \in 0..n /\ k \in 0..n /\ Met(g[k - 1], F, disks)
    BY <1>7
  <2>2. g[k - 1] \in AttemptsOn(D, N) /\ g[k] = PlaceNormal(g[k - 1], req)
    BY <1>4, <2>1 DEF RunsPlaces, V
  <2>3. FirstOf(normal, k) = F \cup {req} /\ req \notin F /\ F \in Bindings
    BY <2>1, OneMoreOf DEF AskedOnce
  <2>4. req \in VolumeBinding /\ Covers(req.io, NoIO) /\ IsNormal(req)
    BY <1>1 DEF AskedOnce
  <2> HIDE DEF F, req
  <2>5. Met(PlaceNormal(g[k - 1], req), F \cup {req}, disks)
    BY <2>1, <2>2, <2>3, <2>4, PlaceNormalMeets
  <2>6. Done(k)
    BY <2>2, <2>3, <2>5
  <2> QED
    BY <2>1, <2>6
<1> HIDE DEF S
<1>8. n \in S
  BY <1>1, <1>6, <1>7, CountsUp
<1>9. GetNormalPlan(h, normal) = g[n]
  BY <1>4 DEF RunsPlaces
<1> QED
  BY <1>5, <1>8, <1>9 DEF S

\* Mounts, one after the other, after other bindings
LEMMA MountPlanMeets ==
    ASSUME NEW D \in SUBSET Devices, NEW N \in SUBSET DiskNames, NEW a \in AttemptsOn(D, N),
           NEW disks, NEW vbs \in Bindings, Met(a, vbs, disks),
           NEW mount, AskedOnce(mount), \A k \in 1..Len(mount) : ~RequireSchedule(mount[k]),
           vbs \cap ToSet(mount) = {}
    PROVE  Met(GetMountDiskPlan(a, mount), vbs \cup ToSet(mount), disks)
<1> DEFINE n == Len(mount)
           V == AttemptsOn(D, N)
<1>1. n \in Nat /\ DOMAIN mount = 1..n /\ \A k \in 1..n : mount[k] \in VolumeBinding
  BY BindingList DEF AskedOnce
<1>2. a \in V
  OBVIOUS
<1>3. \A b \in V, k \in 1..n : ChargeMount(b, mount[k]) \in V
  BY <1>1, ChargeMountStays
<1> HIDE DEF V
<1>4. PICK g : RunsMounts(g, V, a, mount, n)
  BY <1>1, <1>2, <1>3, MountPlanRuns
<1> DEFINE Done(k) == Met(g[k], vbs \cup FirstOf(mount, k), disks)
           S == {k \in 0..n : Done(k)}
<1>5. FirstOf(mount, 0) = {} /\ FirstOf(mount, n) = ToSet(mount)
  BY OneMoreOf DEF AskedOnce
<1>6. 0 \in S
  <2>1. g[0] = a
    BY <1>4 DEF RunsMounts
  <2>2. vbs \cup FirstOf(mount, 0) = vbs
    BY <1>5
  <2>3. Done(0)
    BY <2>1, <2>2
  <2> QED
    BY <1>1, <2>3
<1>7. ASSUME NEW k \in 1..n, k - 1 \in S
      PROVE  k \in S
  <2> DEFINE F == FirstOf(mount, k - 1)
             G == vbs \cup F
             req == mount[k]
  <2>1. k - 1 \in 0..n /\ k \in 0..n /\ Met(g[k - 1], G, disks)
    BY <1>7
  <2>2. g[k - 1] \in AttemptsOn(D, N) /\ g[k] = ChargeMount(g[k - 1], req)
    BY <1>4, <2>1 DEF RunsMounts, V
  <2>3. FirstOf(mount, k) = F \cup {req} /\ req \notin F /\ F \in Bindings /\ req \in ToSet(mount)
    BY <2>1, OneMoreOf DEF AskedOnce
  <2>4. req \in VolumeBinding /\ Covers(req.io, NoIO) /\ ~RequireSchedule(req)
    BY <1>1 DEF AskedOnce
  <2>5. G \in Bindings /\ req \notin G
    BY <2>3, FS_Union DEF Bindings
  <2>6. vbs \cup FirstOf(mount, k) = G \cup {req}
    BY <2>3
  <2> HIDE DEF G, req
  <2>7. Met(ChargeMount(g[k - 1], req), G \cup {req}, disks)
    BY <2>1, <2>2, <2>4, <2>5, ChargeMountMeets
  <2>8. Done(k)
    BY <2>2, <2>6, <2>7
  <2> QED
    BY <2>1, <2>8
<1> HIDE DEF S
<1>8. n \in S
  BY <1>1, <1>6, <1>7, CountsUp
<1>9. GetMountDiskPlan(a, mount) = g[n]
  BY <1>4 DEF RunsMounts
<1> QED
  BY <1>5, <1>8, <1>9 DEF S

\* The normal bindings and the mounts of one request
Unalike(normal, mount) ==
    /\ AskedOnce(normal) /\ \A k \in 1..Len(normal) : IsNormal(normal[k])
    /\ AskedOnce(mount) /\ \A k \in 1..Len(mount) : ~RequireSchedule(mount[k])

\* None of them is both
LEMMA UnalikeApart ==
    ASSUME NEW normal, NEW mount, Unalike(normal, mount)
    PROVE  /\ ToSet(normal) \in Bindings /\ ToSet(mount) \in Bindings
           /\ ToSet(normal) \cap ToSet(mount) = {}
           /\ ToSet(normal) \cup ToSet(mount) \in Bindings
<1>1. normal \in Seq(VolumeBinding) /\ mount \in Seq(VolumeBinding)
  BY DEF Unalike, AskedOnce
<1>2. ToSet(normal) \in Bindings /\ ToSet(mount) \in Bindings
  BY <1>1, MembersAreFinite DEF Bindings
<1>3. DOMAIN normal = 1..Len(normal) /\ DOMAIN mount = 1..Len(mount)
  BY <1>1, BindingList
<1>4. \A vb \in ToSet(normal) : RequireSchedule(vb)
  BY <1>3 DEF ToSet, Unalike, IsNormal
<1>5. \A vb \in ToSet(mount) : ~RequireSchedule(vb)
  BY <1>3 DEF ToSet, Unalike
<1>6. ToSet(normal) \cup ToSet(mount) \in Bindings
  BY <1>2, FS_Union DEF Bindings
<1> QED
  BY <1>2, <1>4, <1>5, <1>6

\* A pass over all of them
LEMMA PassMeets ==
    ASSUME NEW D \in SUBSET Devices, NEW N \in SUBSET DiskNames, NEW h \in HostsOn(D, N),
           NEW disks, SameMounts(disks, h.disks), NEW normal, NEW mount, Unalike(normal, mount)
    PROVE  Met(GetMountDiskPlan(GetNormalPlan(h, normal), mount),
                 ToSet(normal) \cup ToSet(mount), disks)
<1> DEFINE a == GetNormalPlan(h, normal)
<1>1. Met(a, ToSet(normal), disks)
  BY NormalPlanMeets DEF Unalike
<1>2. a \in AttemptsOn(D, N)
  <2>1. normal \in Seq(VolumeBinding)
    BY DEF Unalike, AskedOnce
  <2>2. \A b \in AttemptsOn(D, N), k \in 1..Len(normal) : PlaceNormal(b, normal[k]) \in AttemptsOn(D, N)
    BY <2>1, BindingList, PlaceNormalStays
  <2>3. Len(normal) \in Nat /\ DOMAIN normal = 1..Len(normal)
    BY <2>1, BindingList
  <2>4. Attempt(h) \in AttemptsOn(D, N)
    BY EmptyPlansStay
  <2> QED
    BY <2>2, <2>3, <2>4, NormalPlanStays
<1> HIDE DEF a
<1>3. ToSet(normal) \in Bindings /\ ToSet(normal) \cap ToSet(mount) = {}
  BY UnalikeApart
<1>4. Met(GetMountDiskPlan(a, mount), ToSet(normal) \cup ToSet(mount), disks)
  BY <1>1, <1>2, <1>3, MountPlanMeets DEF Unalike
<1> QED
  BY <1>4 DEF a

\* Plans that all do, and a host with the same mount points
AllMeet(plans, vbs, disks) == \A i \in 1..Len(plans) : Meets(plans[i], vbs, disks)
PassesMeet(s, vbs, disks) == SameMounts(disks, s.host.disks) /\ AllMeet(s.plans, vbs, disks)

\* One more that does
LEMMA OneMoreMeets ==
    ASSUME NEW P, NEW plans \in Seq(P), NEW p \in P, NEW vbs, NEW disks,
           AllMeet(plans, vbs, disks), Meets(p, vbs, disks)
    PROVE  AllMeet(Append(plans, p), vbs, disks)
<1>1. /\ Len(Append(plans, p)) = Len(plans) + 1 /\ Len(plans) \in Nat
      /\ \A i \in 1..Len(plans) : Append(plans, p)[i] = plans[i]
      /\ Append(plans, p)[Len(plans) + 1] = p
  OBVIOUS
<1>2. \A i \in 1..(Len(plans) + 1) : i \in 1..Len(plans) \/ i = Len(plans) + 1
  BY <1>1
<1> QED
  BY <1>1, <1>2 DEF AllMeet

\* The same plan over and over
LEMMA RepeatMeets ==
    ASSUME NEW n \in Int, NEW P, NEW p \in P, NEW vbs, NEW disks, n >= 1 => Meets(p, vbs, disks)
    PROVE  AllMeet(Repeat(n, p), vbs, disks)
<1>1. Repeat(n, p) = [i \in 1..n |-> p]
  BY DEF Repeat
<1>2. Repeat(n, p) \in Seq(P)
  BY RepeatsAreOn
<1>3. DOMAIN Repeat(n, p) = 1..Len(Repeat(n, p)) /\ DOMAIN Repeat(n, p) = 1..n
  BY <1>1, <1>2, MembersAreIn
<1>4. ASSUME NEW i \in 1..Len(Repeat(n, p)) PROVE Meets(Repeat(n, p)[i], vbs, disks)
  <2>1. i \in 1..n
    BY <1>3
  <2>2. Repeat(n, p)[i] = p /\ n >= 1
    BY <1>1, <2>1
  <2> QED
    BY <2>2
<1> QED
  BY <1>4 DEF AllMeet

\* One more pass
LEMMA NormalPassMeets ==
    ASSUME NEW D \in SUBSET Devices, NEW N \in SUBSET DiskNames, NEW s \in PassesOn(D, N),
           NEW disks, NEW normal, NEW mount, Unalike(normal, mount),
           NEW vbs, vbs = ToSet(normal) \cup ToSet(mount), PassesMeet(s, vbs, disks)
    PROVE  PassesMeet(NormalPass(s, normal, mount), vbs, disks)
<1> DEFINE P == PlannedOn(D, N)
           a == GetMountDiskPlan(GetNormalPlan(s.host, normal), mount)
           p == [plan |-> a.plan, disks |-> a.disks]
           next == NormalPass(s, normal, mount)
<1>1. s.host \in HostsOn(D, N) /\ s.plans \in Seq(P) /\ SameMounts(disks, s.host.disks)
  BY DEF PassesOn, PassesMeet
<1>2. CASE s.failed
  BY <1>2 DEF NormalPass
<1>3. CASE ~s.failed
  <2>1. Met(a, vbs, disks)
    BY <1>1, PassMeets
  <2>2. a \in AttemptsOn(D, N)
    BY <1>1, PassStays DEF Unalike, AskedOnce
  <2>3. next.host = a.host /\ next.plans = IF ~a.ok THEN s.plans ELSE Append(s.plans, p)
    BY <1>3 DEF NormalPass
  <2> HIDE DEF a, next
  <2>4. p \in P
    BY <2>2 DEF AttemptsOn, PlannedOn
  <2>5. a.ok => Meets(p, vbs, disks)
    BY <2>1 DEF Met, Meets, Matches
  <2> HIDE DEF p, P
  <2>6. AllMeet(s.plans, vbs, disks)
    BY DEF PassesMeet
  <2>7. a.ok => AllMeet(Append(s.plans, p), vbs, disks)
    BY <1>1, <2>4, <2>5, <2>6, OneMoreMeets
  <2>8. PassesMeet(next, vbs, disks)
    BY <2>1, <2>3, <2>6, <2>7 DEF PassesMeet, Met
  <2> QED
    BY <2>8 DEF next
<1> QED
  BY <1>2, <1>3

\* All passes
LEMMA NormalPassesMeet ==
    ASSUME NEW D \in SUBSET Devices, NEW N \in SUBSET DiskNames, NEW h \in HostsOn(D, N),
           NEW disks, SameMounts(disks, h.disks), NEW normal, NEW mount, Unalike(normal, mount),
           NEW vbs, vbs = ToSet(normal) \cup ToSet(mount), NEW bound \in Nat
    PROVE  PassesMeet(GetNormalPasses(h, normal, mount, bound), vbs, disks)
<1> DEFINE V == {s \in PassesOn(D, N) : PassesMeet(s, vbs, disks)}
           first == [failed |-> FALSE, host |-> h, plans |-> <<>>]
<1>1. first \in V
  <2>1. first \in PassesOn(D, N)
    BY DEF PassesOn
  <2>2. AllMeet(<<>>, vbs, disks)
    BY DEF AllMeet
  <2>3. PassesMeet(first, vbs, disks)
    BY <2>2 DEF PassesMeet
  <2> QED
    BY <2>1, <2>3
<1>2. \A s \in V : NormalPass(s, normal, mount) \in V
  BY NormalPassMeets, NormalPassStays DEF Unalike, AskedOnce
<1> HIDE DEF V
<1>3. PICK g : RunsPasses(g, V, h, normal, mount, bound)
  BY <1>1, <1>2, NormalPassesRun
<1>4. bound \in 0..bound
  OBVIOUS
<1>5. GetNormalPasses(h, normal, mount, bound) \in V
  BY <1>3, <1>4 DEF RunsPasses
<1> QED
  BY <1>5 DEF V

\* Charging the disks for passes leaves their mount points
LEMMA ChargedPassesKeepMounts ==
    ASSUME NEW D, NEW N, NEW h \in HostsOn(D, N), NEW mount, NEW names, NEW n, NEW disks,
           SameMounts(disks, h.disks)
    PROVE  SameMounts(disks, ChargePasses(h, mount, names, n).disks)
<1> DEFINE io(name) == [rate \in Rates |->
                          h.disks[name].io[rate] - n * QuotaOn(h, mount, name)[rate]]
           left(name) == IF name \notin names THEN h.disks[name]
                         ELSE [h.disks[name] EXCEPT !.io = io(name)]
           charged == [name \in DOMAIN h.disks |-> left(name)]
<1>1. h.disks \in [N -> DiskCapacity] /\ h = [free |-> h.free, used |-> h.used,
                                             unused |-> h.unused, disks |-> h.disks]
  BY DEF HostsOn
<1>2. ChargePasses(h, mount, names, n) = [h EXCEPT !.disks = charged]
  BY DEF ChargePasses
<1> HIDE DEF io
<1>3. \A name \in DOMAIN h.disks : left(name).mounts = h.disks[name].mounts
  BY <1>1 DEF DiskCapacity
<1> HIDE DEF left
<1>4. DOMAIN charged = DOMAIN h.disks /\ \A name \in DOMAIN h.disks : charged[name] = left(name)
  OBVIOUS
<1> HIDE DEF charged
<1>5. ChargePasses(h, mount, names, n).disks = charged
  BY <1>1, <1>2
<1> QED
  BY <1>3, <1>4, <1>5 DEF SameMounts

-----------------------------------------------------------------------------
(* What each kind of bindings is given                                       *)

\* Plans for mounts alone
LEMMA MountOnlyPlansMeet ==
    ASSUME NEW D \in SUBSET Devices, NEW N \in SUBSET DiskNames, NEW h \in HostsOn(D, N),
           NEW disks, SameMounts(disks, h.disks), NEW mount, Unalike(<<>>, mount),
           NEW bound \in Nat
    PROVE  PassesMeet(GetMountOnlyPlans(h, mount, bound), ToSet(mount), disks)
<1> DEFINE first == GetMountDiskPlan(Attempt(h), mount)
           n == MountPasses(first, mount, bound)
           charged == ChargePasses(first.host, mount, DOMAIN first.disks, n - 1)
           last == GetMountDiskPlan(Attempt(charged), mount)
           passes == ApplyMountPasses(h, mount, bound)
           p == [plan |-> EmptyPlan, disks |-> passes.disks]
           vbs == ToSet(mount)
<1>1. mount \in Seq(VolumeBinding) /\ {} \in Bindings /\ vbs \in Bindings
  <2>1. {} \in Bindings
    BY FS_EmptySet DEF Bindings
  <2> QED
    BY <2>1, UnalikeApart DEF Unalike, AskedOnce
<1>2. \A k \in HostsOn(D, N) : SameMounts(disks, k.disks)
        => /\ Met(GetMountDiskPlan(Attempt(k), mount), vbs, disks)
           /\ GetMountDiskPlan(Attempt(k), mount) \in AttemptsOn(D, N)
  <2> TAKE k \in HostsOn(D, N)
  <2> HAVE SameMounts(disks, k.disks)
  <2>1. Met(Attempt(k), {}, disks)
    BY AttemptIsGiven
  <2>2. Attempt(k) \in AttemptsOn(D, N)
    BY EmptyPlansStay
  <2>3. {} \cap vbs = {} /\ {} \cup vbs = vbs
    OBVIOUS
  <2>4. Met(GetMountDiskPlan(Attempt(k), mount), {} \cup vbs, disks)
    BY <1>1, <2>1, <2>2, <2>3, MountPlanMeets DEF Unalike
  <2> QED
    BY <1>1, <2>2, <2>3, <2>4, MountPassStays
<1>3. Met(first, vbs, disks) /\ first \in AttemptsOn(D, N)
  BY <1>2
<1>4. passes = IF ~first.ok \/ bound < 1
               THEN [host |-> first.host, capacity |-> 0, disks |-> NoDisks]
               ELSE [host |-> TrailingPass(charged, mount, n, bound),
                     capacity |-> n, disks |-> first.disks]
  BY DEF ApplyMountPasses
<1>5. GetMountOnlyPlans(h, mount, bound) =
        [host |-> passes.host, plans |-> Repeat(passes.capacity, p)]
  BY DEF GetMountOnlyPlans
<1>6. TrailingPass(charged, mount, n, bound) = IF n < bound THEN last.host ELSE charged
  BY DEF TrailingPass
<1>12. {k \in vbs : RequireSchedule(k)} = {}
  <2>1. DOMAIN mount = 1..Len(mount)
    BY <1>1, BindingList
  <2> QED
    BY <2>1 DEF ToSet, Unalike
<1> HIDE DEF vbs, first, passes
<1>7. first.host \in HostsOn(D, N) /\ first.disks \in DiskPlansOn(N)
      /\ SameMounts(disks, first.host.disks)
  BY <1>3 DEF AttemptsOn, Met
<1>8. n \in Int
  BY <1>1, <1>3, <1>7, DiskPlanParts, MountPassesIsInt
<1> HIDE DEF n
<1>9. charged \in HostsOn(D, N) /\ SameMounts(disks, charged.disks)
  <2>1. n - 1 \in Int
    BY <1>8
  <2> QED
    BY <1>1, <1>7, <2>1, ChargedPassesStay, ChargedPassesKeepMounts
<1> HIDE DEF charged
<1>10. SameMounts(disks, last.host.disks)
  <2>1. Met(last, vbs, disks)
    BY <1>2, <1>9 DEF vbs
  <2> HIDE DEF last
  <2> QED
    BY <2>1 DEF Met
<1> HIDE DEF last
<1>11. /\ SameMounts(disks, passes.host.disks) /\ passes.capacity \in Int
       /\ passes.disks \in DiskPlansOn(N)
       /\ passes.capacity >= 1 => first.ok /\ passes.disks = first.disks
  <2>1. NoDisks \in DiskPlansOn(N)
    BY EmptyPlansStay
  <2>2. CASE ~first.ok \/ bound < 1
    BY <1>4, <1>7, <2>1, <2>2
  <2>3. CASE ~(~first.ok \/ bound < 1)
    <3>1. passes = [host |-> IF n < bound THEN last.host ELSE charged,
                    capacity |-> n, disks |-> first.disks]
      BY <1>4, <1>6, <2>3
    <3> QED
      BY <1>7, <1>8, <1>9, <1>10, <2>3, <3>1
  <2> QED
    BY <2>2, <2>3
<1>13. passes.capacity >= 1 => Meets(p, vbs, disks)
  <2> SUFFICES ASSUME passes.capacity >= 1 PROVE Meets(p, vbs, disks)
    OBVIOUS
  <2>1. Meets(first, vbs, disks) /\ p.disks = first.disks /\ p.plan = EmptyPlan
    BY <1>3, <1>11 DEF Met
  <2>2. Scheduled(vbs) = {}
    BY <1>12 DEF Scheduled, vbs
  <2>3. DOMAIN EmptyPlan = {}
    BY DEF EmptyPlan
  <2>4. \A name : OnDisk(disks, EmptyPlan, vbs, name) = OnDisk(disks, first.plan, vbs, name)
    BY <2>2 DEF OnDisk, PathIn, Scheduled
  <2> HIDE DEF p
  <2>5. Matches(p, vbs, disks)
    BY <2>1, <2>4 DEF Meets, Matches
  <2>6. Together(p.plan)
    BY <2>1, <2>3, NoneTogether
  <2> QED
    BY <2>1, <2>2, <2>3, <2>5, <2>6 DEF Meets
<1> DEFINE all == Repeat(passes.capacity, p)
<1>14. AllMeet(all, vbs, disks)
  <2>1. p \in PlannedOn(D, N)
    BY <1>11, EmptyPlansStay DEF PlannedOn
  <2> HIDE DEF p
  <2> QED
    BY <1>11, <1>13, <2>1, RepeatMeets
<1> HIDE DEF all
<1>15. GetMountOnlyPlans(h, mount, bound) = [host |-> passes.host, plans |-> all]
  BY <1>5 DEF all
<1> QED
  BY <1>11, <1>14, <1>15 DEF PassesMeet, vbs

\* Normal plans, whatever way they are made
LEMMA NormalPlansMeet ==
    ASSUME NEW D \in SUBSET Devices, NEW N \in SUBSET DiskNames, NEW h \in HostsOn(D, N),
           NEW disks, SameMounts(disks, h.disks), NEW count \in Nat,
           NEW normal, NEW mount, Unalike(normal, mount),
           NEW vbs, vbs = ToSet(normal) \cup ToSet(mount), NEW bound \in Nat
    PROVE  PassesMeet(GetNormalPlans(h, count, normal, mount, bound), vbs, disks)
<1>1. CASE normal # <<>>
  BY <1>1, NormalPassesMeet DEF GetNormalPlans
<1>2. CASE normal = <<>>
  <2>1. vbs = ToSet(mount)
    BY <1>2 DEF ToSet
  <2>2. CASE AnyRequireIOPS(mount)
    BY <1>2, <2>1, <2>2, MountOnlyPlansMeet DEF GetNormalPlans
  <2>3. CASE ~AnyRequireIOPS(mount)
    <3>1. GetNormalPlans(h, count, normal, mount, bound) = [host |-> h, plans |-> Repeat(count, NoPlan)]
      BY <1>2, <2>3 DEF GetNormalPlans
    <3>2. vbs \in Bindings /\ mount \in Seq(VolumeBinding)
      BY <2>1, UnalikeApart DEF Unalike, AskedOnce
    <3>3. DOMAIN mount = 1..Len(mount) /\ \A k \in 1..Len(mount) : mount[k] \in VolumeBinding
      BY <3>2, BindingList
    <3>4. \A vb \in vbs : ~RequireSchedule(vb)
      BY <2>1, <3>3 DEF ToSet, Unalike
    <3>5. \A vb \in vbs : \A rate \in Rates : vb.io[rate] = 0
      <4> TAKE vb \in vbs
      <4> TAKE rate \in Rates
      <4>1. PICK k \in 1..Len(mount) : vb = mount[k]
        BY <2>1, <3>3 DEF ToSet
      <4>2. Covers(vb.io, NoIO) /\ ~RequireIOPS(vb) /\ vb.io \in IO
        BY <2>3, <3>3, <4>1, BindingParts DEF Unalike, AskedOnce, AnyRequireIOPS
      <4> QED
        BY <4>2 DEF Covers, NoIO, RequireIOPS, IO
    <3>6. NoPlan.plan = EmptyPlan /\ \A name : \A rate \in Rates : UsedOf(NoPlan.disks, name)[rate] = 0
      BY DEF NoPlan, UsedOf, NoDisks, NoIO
    <3>7. Meets(NoPlan, vbs, disks)
      BY <3>2, <3>4, <3>5, <3>6, NothingMeets
    <3>8. NoPlan \in PlannedOn(D, N)
      BY EmptyPlansStay
    <3>9. AllMeet(Repeat(count, NoPlan), vbs, disks)
      BY <3>7, <3>8, RepeatMeets
    <3> QED
      BY <3>1, <3>9 DEF PassesMeet
  <2> QED
    BY <2>2, <2>3
<1> QED
  BY <1>1, <1>2

\* The group asks for the rates its bindings ask for
LEMMA GroupTakesRates ==
    ASSUME NEW reqs, Grouped(reqs), NEW rate \in Rates
    PROVE  Group(reqs).io[rate] = SumOver(RateOf(rate), ToSet(reqs))
<1> DEFINE n == Len(reqs)
           V == VolumeBinding
           first == [reqs[1] EXCEPT !.size = 0, !.io = NoIO]
<1>1. /\ reqs \in Seq(VolumeBinding) /\ OnceEach(reqs) /\ n \in Nat /\ n >= 1 /\ DOMAIN reqs = 1..n
      /\ \A k \in 1..n : reqs[k] \in VolumeBinding /\ reqs[k].io \in IO
  <2>1. reqs \in Seq(VolumeBinding) /\ reqs # <<>> /\ OnceEach(reqs)
    BY DEF Grouped, Monopolies, OnceEach
  <2>2. n \in Nat /\ DOMAIN reqs = 1..n /\ n # 0
    BY <2>1, BindingList, EmptySeq
  <2> QED
    BY <2>1, <2>2, BindingList, BindingParts
<1>2. first \in V /\ first.io = NoIO
  <2> DEFINE io == NoIO
             size == 0
  <2>1. PICK vb \in VolumeBinding : vb = reqs[1]
    BY <1>1
  <2> DEFINE empty == [vb EXCEPT !.size = size, !.io = io]
  <2>2. first = empty
    BY <2>1
  <2>3. io \in IO /\ size \in Int
    BY DEF NoIO, IO
  <2>4. io = NoIO
    OBVIOUS
  <2> HIDE DEF io, size
  <2>5. empty \in VolumeBinding /\ empty.io = io
    BY <2>3 DEF VolumeBinding
  <2> HIDE DEF first, empty
  <2> QED
    BY <2>2, <2>4, <2>5
<1>3. \A vb \in V, k \in 1..n : AddQuota(vb, reqs[k]) \in V
  BY <1>1, QuotasAddUp
<1>10. \A vb \in V, k \in 1..n : AddQuota(vb, reqs[k]).io[rate] = vb.io[rate] + reqs[k].io[rate]
  BY DEF AddQuota, AddIO, VolumeBinding
<1> HIDE DEF n, V
<1>4. PICK g : RunsGroup(g, V, reqs, n)
  BY <1>1, <1>2, <1>3, GroupRuns
<1> HIDE DEF first
<1>5. /\ Group(reqs) = g[n] /\ g[0] = first /\ (\A k \in 0..n : g[k] \in V)
      /\ \A k \in 1..n : g[k] = AddQuota(g[k - 1], reqs[k])
  BY <1>4 DEF RunsGroup, first
<1> DEFINE Done(k) == g[k].io[rate] = SumOver(RateOf(rate), FirstOf(reqs, k))
           S == {k \in 0..n : Done(k)}
<1>6. 0 \in S
  <2>1. SumOver(RateOf(rate), FirstOf(reqs, 0)) = 0
    BY <1>1, OneMoreOf, SumOfNone
  <2>2. g[0].io[rate] = 0
    BY <1>2, <1>5 DEF NoIO
  <2> QED
    BY <1>1, <2>1, <2>2
<1>7. ASSUME NEW k \in 1..n, k - 1 \in S
      PROVE  k \in S
  <2> DEFINE F == FirstOf(reqs, k)
             before == SumOver(RateOf(rate), FirstOf(reqs, k - 1))
             all == SumOver(RateOf(rate), F)
  <2>1. k - 1 \in 0..n /\ k \in 0..n /\ g[k - 1].io[rate] = before
    BY <1>7
  <2>2. reqs[k] \in F /\ F \ {reqs[k]} = FirstOf(reqs, k - 1) /\ F \in Bindings
    BY <1>1, <2>1, OneMoreOf DEF n
  <2>3. Integral(RateOf(rate), F)
    BY <2>2, RatesAreIntegral
  <2>4. all = RateOf(rate)[reqs[k]] + before /\ before \in Int
    BY <2>2, <2>3, SumSplits
  <2>5. RateOf(rate)[reqs[k]] = reqs[k].io[rate] /\ reqs[k].io[rate] \in Int
    BY <1>1 DEF RateOf, IO
  <2>6. g[k].io[rate] = g[k - 1].io[rate] + reqs[k].io[rate]
    BY <1>5, <1>10, <2>1
  <2> HIDE DEF before, all
  <2>7. g[k].io[rate] = all
    BY <2>1, <2>4, <2>5, <2>6
  <2> QED
    BY <2>1, <2>7 DEF all
<1> HIDE DEF S
<1>8. n \in S
  BY <1>1, <1>6, <1>7, CountsUp
<1>9. FirstOf(reqs, n) = ToSet(reqs)
  BY <1>1, OneMoreOf DEF n
<1> QED
  BY <1>5, <1>8, <1>9 DEF S

\* Bindings that are planned on one volume
Lone(mono) == Grouped(mono) /\ \A k \in 1..Len(mono) : RequireScheduleMonopoly(mono[k])

\* A group that fits on a volume is planned on it
LEMMA GroupMeets ==
    ASSUME NEW D, NEW N \in SUBSET DiskNames, NEW h \in HostsOn(D, N),
           NEW disks, SameMounts(disks, h.disks), NEW mono, Lone(mono),
           NEW device \in D, NEW m, m = GetMonoPlan(h, mono, device), m.ok
    PROVE  /\ Meets(m, ToSet(mono), disks) /\ SameMounts(disks, m.host.disks)
           /\ \A vb \in DOMAIN m.plan : m.plan[vb].device = device
<1> DEFINE total == Group(mono)
           free == h.free[device]
           plan == MonoPlan(mono, total.size, device, free)
           quota == DiskQuota(h, device, total)
           host == [h EXCEPT !.free[device] = 0]
           S == ToSet(mono)
<1>1. /\ Grouped(mono) /\ mono \in Seq(VolumeBinding) /\ DOMAIN mono = 1..Len(mono)
      /\ S \in Bindings /\ S \in SUBSET S
  <2>1. mono \in Seq(VolumeBinding)
    BY DEF Lone, Grouped, Monopolies
  <2> QED
    BY <2>1, BindingList, MembersAreFinite DEF Lone, Bindings
<1>2. m.plan = plan /\ m.disks = quota /\ m.host = DecreaseIOPSQuota(host, device, total)
      /\ free >= total.size
  BY DEF GetMonoPlan
<1>3. total.size \in Int /\ total.size > 0 /\ total.io \in IO /\ Covers(total.io, NoIO) /\ free \in Int
  BY <1>1, GroupHasSize, GroupAddsUp DEF Grouped, HostsOn
<1>4. SameMounts(disks, m.host.disks)
  <2> DEFINE left == [h.free EXCEPT ![device] = 0]
  <2>1. host \in HostsOn(D, N) /\ host.disks = h.disks
    <3>1. left \in [D -> Int]
      BY DEF HostsOn
    <3>2. host = [h EXCEPT !.free = left]
      BY DEF HostsOn
    <3> HIDE DEF left, host
    <3> QED
      BY <3>1, <3>2 DEF HostsOn
  <2> HIDE DEF host, total, left
  <2> QED
    BY <1>2, <2>1, ChargesKeepMounts
<1>5. \A vb \in S : RequireScheduleMonopoly(vb) /\ RequireSchedule(vb)
  BY <1>1 DEF ToSet, Lone, RequireScheduleMonopoly
<1> HIDE DEF S, total, free
<1>6. free \in Nat
  BY <1>2, <1>3
<1>7. FilledWith(plan, S, device, free) /\ Suffices(plan, S)
  BY <1>1, <1>2, <1>6, SharesAddUp DEF total, S, free
<1> HIDE DEF plan
<1>8. DOMAIN plan = S /\ \A vb \in S : plan[vb].device = device
  BY <1>7 DEF FilledWith
<1>9. Scheduled(S) = S
  BY <1>5 DEF Scheduled
<1>10. Together(plan)
  <2>1. MonosOf(plan) = S /\ Placed(plan, device) = S
    BY <1>5, <1>8 DEF MonosOf, Placed
  <2>2. SumOver(SizesOf(plan), S) = free
    BY <1>7, <2>1 DEF FilledWith, Space
  <2>3. SumOver(Asking, S) = total.size
    BY <1>1, GroupAddsUp DEF total, S
  <2> QED
    BY <1>2, <1>8, <2>1, <2>2, <2>3 DEF Together
<1>12. \A vb \in S : plan[vb].size >= Due(vb)
  BY <1>5, <1>7 DEF Suffices, Due
<1>11. Matches(m, S, disks)
  <2> SUFFICES ASSUME NEW name \in DOMAIN disks, NEW rate \in Rates
               PROVE  UsedOf(m.disks, name)[rate]
                        = SumOver(RateOf(rate), OnDisk(disks, m.plan, S, name))
    BY DEF Matches
  <2>1. UsedOf(quota, name)[rate] = IF GetDiskByPath(disks, device) = name THEN total.io[rate] ELSE 0
    BY <1>3, QuotaMatches
  <2>2. \A vb \in S : PathIn(plan, vb) = device
    BY <1>5, <1>8 DEF PathIn
  <2>3. CASE GetDiskByPath(disks, device) = name
    <3>1. OnDisk(disks, plan, S, name) = S
      BY <2>2, <2>3 DEF OnDisk
    <3>2. total.io[rate] = SumOver(RateOf(rate), S)
      BY <1>1, GroupTakesRates DEF total, S
    <3> QED
      BY <1>2, <2>1, <2>3, <3>1, <3>2
  <2>4. CASE GetDiskByPath(disks, device) # name
    <3>1. OnDisk(disks, plan, S, name) = {}
      BY <2>2, <2>4 DEF OnDisk
    <3>2. SumOver(RateOf(rate), {}) = 0
      BY SumOfNone
    <3> QED
      BY <1>2, <2>1, <2>4, <3>1, <3>2
  <2> QED
    BY <2>3, <2>4
<1> QED
  BY <1>2, <1>4, <1>8, <1>9, <1>10, <1>11, <1>12 DEF Meets, S

\* One more volume for the group
LEMMA TryVolumeMeets ==
    ASSUME NEW D, NEW N \in SUBSET DiskNames, NEW mono, Lone(mono), NEW bound,
           NEW s \in GroupsOn(D, N), NEW device \in D, NEW disks,
           PassesMeet(s, ToSet(mono), disks)
    PROVE  PassesMeet(TryVolume(s, mono, bound, device), ToSet(mono), disks)
<1> DEFINE P == PlannedOn(D, N)
           m == GetMonoPlan(s.host, mono, device)
           p == [plan |-> m.plan, disks |-> m.disks]
           next == TryVolume(s, mono, bound, device)
           vbs == ToSet(mono)
<1>1. /\ s.host \in HostsOn(D, N) /\ s.plans \in Seq(P)
      /\ SameMounts(disks, s.host.disks) /\ AllMeet(s.plans, vbs, disks)
  BY DEF GroupsOn, PassesMeet
<1>2. Monopolies(mono)
  BY DEF Lone, Grouped
<1>3. next = IF Len(s.plans) >= bound \/ ~m.ok THEN s
             ELSE [host |-> m.host, plans |-> Append(s.plans, p)]
  BY DEF TryVolume
<1>4. m.ok => m.plan \in PlansOn(D) /\ m.disks \in DiskPlansOn(N)
  BY <1>1, <1>2, GroupIsPlanned
<1>5. m.ok => Meets(m, vbs, disks) /\ SameMounts(disks, m.host.disks)
  BY <1>1, GroupMeets
<1> HIDE DEF m, next, vbs
<1>6. m.ok => p \in P
  BY <1>4 DEF PlannedOn
<1>7. m.ok => Meets(p, vbs, disks)
  BY <1>5 DEF Meets, Matches
<1> HIDE DEF p, P
<1>8. m.ok => AllMeet(Append(s.plans, p), vbs, disks)
  BY <1>1, <1>6, <1>7, OneMoreMeets
<1>9. PassesMeet(next, vbs, disks)
  BY <1>1, <1>3, <1>5, <1>8 DEF PassesMeet
<1> QED
  BY <1>9 DEF next, vbs

\* Monopoly plans
LEMMA MonoPlansMeet ==
    ASSUME NEW D, NEW N \in SUBSET DiskNames, NEW h \in HostsOn(D, N), NEW count \in Nat,
           NEW disks, SameMounts(disks, h.disks), NEW mono, Lone(mono) \/ mono = <<>>, NEW bound
    PROVE  AllMeet(GetMonoPlans(h, count, mono, bound).plans, ToSet(mono), disks)
<1>1. CASE mono = <<>>
  <2>1. GetMonoPlans(h, count, mono, bound).plans = Repeat(count, NoPlan)
    BY <1>1 DEF GetMonoPlans
  <2>2. ToSet(mono) = {} /\ {} \in Bindings
    BY <1>1, FS_EmptySet DEF ToSet, Bindings
  <2>3. NoPlan.plan = EmptyPlan /\ \A name : \A rate \in Rates : UsedOf(NoPlan.disks, name)[rate] = 0
    BY DEF NoPlan, UsedOf, NoDisks, NoIO
  <2>4. Meets(NoPlan, {}, disks)
    BY <2>2, <2>3, NothingMeets
  <2>5. NoPlan \in PlannedOn(D, N)
    BY EmptyPlansStay
  <2>6. AllMeet(Repeat(count, NoPlan), {}, disks)
    BY <2>4, <2>5, RepeatMeets
  <2> QED
    BY <2>1, <2>2, <2>6
<1>2. CASE mono # <<>>
  <2> DEFINE V == {s \in GroupsOn(D, N) : PassesMeet(s, ToSet(mono), disks)}
             first == [host |-> h, plans |-> <<>>]
             n == Len(h.unused)
  <2>1. h.unused \in Seq(D)
    BY DEF HostsOn
  <2>2. n \in Nat /\ DOMAIN h.unused = 1..n /\ n \in 0..n
    BY <2>1, MembersAreIn
  <2>3. first \in V
    <3>1. first \in GroupsOn(D, N)
      BY DEF GroupsOn
    <3>2. AllMeet(<<>>, ToSet(mono), disks)
      BY DEF AllMeet
    <3> QED
      BY <3>1, <3>2 DEF PassesMeet
  <2>4. ASSUME NEW s \in V, NEW k \in 1..n
        PROVE  TryVolume(s, mono, bound, h.unused[k]) \in V
    <3>1. h.unused[k] \in D
      BY <2>1, <2>2, MembersAreIn
    <3>2. TryVolume(s, mono, bound, h.unused[k]) \in GroupsOn(D, N)
      BY <1>1, <1>2, <3>1, TryVolumeStays DEF Lone, Grouped
    <3> QED
      BY <1>2, <3>1, <3>2, TryVolumeMeets
  <2> HIDE DEF V, n
  <2>5. PICK g : RunsVolumes(g, V, h, count, mono, bound, n)
    BY <1>2, <2>2, <2>3, <2>4, MonoPlansRun
  <2>6. GetMonoPlans(h, count, mono, bound) \in V
    BY <2>2, <2>5 DEF RunsVolumes
  <2> QED
    BY <2>6 DEF V, PassesMeet
<1> QED
  BY <1>1, <1>2

\* Unlimited bindings have the space and the rates they ask for, which are none
LEMMA UnlimitedMeets ==
    ASSUME NEW h, NEW plans, NEW unlimited \in Bindings, \A vb \in unlimited : IsUnlimited(vb),
           NEW disks, NEW p, p.plan = GetUnlimitedPlan(h, plans, unlimited), p.disks = NoDisks
    PROVE  Meets(p, unlimited, disks)
<1> DEFINE device == Largest(LeftBy(h.free, plans), h.used \o h.unused)
<1>1. /\ \A vb \in unlimited : RequireSchedule(vb) /\ ~RequireScheduleMonopoly(vb) /\ vb.io = NoIO
      /\ Scheduled(unlimited) = unlimited
  BY DEF IsUnlimited, RequireScheduleUnlimitedQuota, Scheduled
<1>2. DOMAIN p.plan = unlimited /\ \A vb \in unlimited : p.plan[vb].size = vb.size
  <2>1. CASE unlimited = {}
    BY <2>1 DEF GetUnlimitedPlan, EmptyPlan
  <2>2. CASE unlimited # {}
    <3>1. p.plan = [vb \in unlimited |-> [device |-> device, size |-> vb.size]]
      BY <2>2 DEF GetUnlimitedPlan
    <3> HIDE DEF device
    <3> QED
      BY <3>1
  <2> QED
    BY <2>1, <2>2
<1>3. \A vb \in unlimited : p.plan[vb].size >= Due(vb)
  <2>1. \A vb \in unlimited : vb.size \in Int
    BY BindingParts DEF Bindings
  <2> QED
    BY <1>2, <2>1 DEF Due
<1>4. Together(p.plan)
  BY <1>1, <1>2, NoneTogether DEF IsUnlimited
<1>5. Matches(p, unlimited, disks)
  <2> SUFFICES ASSUME NEW name \in DOMAIN disks, NEW rate \in Rates
               PROVE  UsedOf(p.disks, name)[rate]
                        = SumOver(RateOf(rate), OnDisk(disks, p.plan, unlimited, name))
    BY DEF Matches
  <2> DEFINE T == OnDisk(disks, p.plan, unlimited, name)
  <2>1. T \in SUBSET unlimited
    BY DEF OnDisk
  <2> HIDE DEF T
  <2>2. IsFiniteSet(T) /\ T \in SUBSET VolumeBinding
    BY <2>1, FS_Subset DEF Bindings
  <2>3. \A vb \in T : RateOf(rate)[vb] = 0
    BY <1>1, <2>1, <2>2 DEF RateOf, NoIO
  <2>4. SumOver(RateOf(rate), T) = 0
    BY <2>2, <2>3, SumOfZeros
  <2>5. UsedOf(p.disks, name)[rate] = 0
    BY DEF UsedOf, NoDisks, NoIO
  <2> QED
    BY <2>4, <2>5 DEF T
<1> QED
  BY <1>1, <1>2, <1>3, <1>4, <1>5 DEF Meets

-----------------------------------------------------------------------------
(* What a whole request is given, its bindings sorted by their kinds.        *)

\* The bindings to be placed have destinations of their own
Destined(vbs) ==
    \A vb \in Scheduled(vbs) : \A vb1 \in Scheduled(vbs) : vb.dest = vb1.dest => vb = vb1

MountsIn(vbs) == {vb \in vbs : ~RequireSchedule(vb)}

\* All bindings of the request by their kind
KindsOf(classes, vbs) ==
    /\ ClassesOk(classes) /\ Unalike(classes.normal, classes.mount)
    /\ Lone(classes.mono) \/ classes.mono = <<>>
    /\ ToSet(classes.normal) = NormalsIn(vbs) /\ ToSet(classes.mount) = MountsIn(vbs)
    /\ ToSet(classes.mono) = MonosIn(vbs) /\ classes.unlimited = UnlimitedIn(vbs)

\* A list of some bindings of a request
LEMMA ListsAskOnce ==
    ASSUME NEW vbs, RequestOk(vbs), NEW S \in SUBSET vbs, NEW s, Lists(s, S)
    PROVE  AskedOnce(s) /\ ToSet(s) = S /\ \A k \in 1..Len(s) : s[k] \in S
<1>1. S \in SUBSET VolumeBinding /\ s \in Seq(S)
  BY DEF RequestOk, Bindings, Lists
<1>2. \A k \in 1..Len(s) : s[k] \in S
  BY <1>1
<1>3. s \in Seq(VolumeBinding)
  BY <1>1
<1>4. DOMAIN s = 1..Len(s)
  BY <1>3, BindingList
<1>5. ToSet(s) = S
  BY <1>2, <1>4 DEF ToSet, Lists
<1>6. \A k \in 1..Len(s) : Covers(s[k].io, NoIO)
  BY <1>2 DEF RequestOk, ValidBindings
<1> QED
  BY <1>2, <1>3, <1>5, <1>6 DEF AskedOnce, OnceEach, Lists

\* The kinds of a request are all of it
LEMMA KindsAreAll ==
    ASSUME NEW vbs, RequestOk(vbs), NEW classes, classes = ClassifyVolumeBindings(vbs)
    PROVE  KindsOf(classes, vbs)
<1>1. ClassesOk(classes) /\ Classified(vbs, classes)
  BY ClassesAreOk
<1> HIDE DEF RequestOk
<1>2. /\ NormalsIn(vbs) \in SUBSET vbs /\ Lists(classes.normal, NormalsIn(vbs))
      /\ MountsIn(vbs) \in SUBSET vbs /\ Lists(classes.mount, MountsIn(vbs))
      /\ MonosIn(vbs) \in SUBSET vbs /\ Lists(classes.mono, MonosIn(vbs))
      /\ classes.unlimited = UnlimitedIn(vbs)
  BY <1>1 DEF Classified, NormalsIn, MountsIn, MonosIn, UnlimitedIn
<1>3. /\ AskedOnce(classes.normal) /\ ToSet(classes.normal) = NormalsIn(vbs)
      /\ \A k \in 1..Len(classes.normal) : classes.normal[k] \in NormalsIn(vbs)
  BY <1>2, ListsAskOnce
<1>4. /\ AskedOnce(classes.mount) /\ ToSet(classes.mount) = MountsIn(vbs)
      /\ \A k \in 1..Len(classes.mount) : classes.mount[k] \in MountsIn(vbs)
  BY <1>2, ListsAskOnce
<1>5. /\ AskedOnce(classes.mono) /\ ToSet(classes.mono) = MonosIn(vbs)
      /\ \A k \in 1..Len(classes.mono) : classes.mono[k] \in MonosIn(vbs)
  BY <1>2, ListsAskOnce
<1>6. Unalike(classes.normal, classes.mount)
  BY <1>3, <1>4 DEF Unalike, NormalsIn, MountsIn
<1>7. classes.mono # <<>> => Lone(classes.mono)
  BY <1>1, <1>5 DEF Lone, Grouped, AskedOnce, OnceEach, ClassesOk, MonosIn
<1> QED
  BY <1>1, <1>2, <1>3, <1>4, <1>5, <1>6, <1>7 DEF KindsOf

\* They have nothing in common
LEMMA KindsAreApart ==
    ASSUME NEW vbs \in Bindings
    PROVE  /\ vbs = ((NormalsIn(vbs) \cup MountsIn(vbs)) \cup MonosIn(vbs)) \cup UnlimitedIn(vbs)
           /\ (NormalsIn(vbs) \cup MountsIn(vbs)) \cap MonosIn(vbs) = {}
           /\ ((NormalsIn(vbs) \cup MountsIn(vbs)) \cup MonosIn(vbs)) \cap UnlimitedIn(vbs) = {}
           /\ NoMonos(NormalsIn(vbs) \cup MountsIn(vbs)) /\ NoMonos(UnlimitedIn(vbs))
           /\ NormalsIn(vbs) \cup MountsIn(vbs) \in Bindings
           /\ MonosIn(vbs) \in Bindings /\ UnlimitedIn(vbs) \in Bindings
           /\ (NormalsIn(vbs) \cup MountsIn(vbs)) \cup MonosIn(vbs) \in Bindings
<1>1. \A S \in SUBSET vbs : S \in Bindings
  BY FS_Subset DEF Bindings
<1>2. /\ NormalsIn(vbs) \subseteq vbs /\ MountsIn(vbs) \subseteq vbs
      /\ MonosIn(vbs) \subseteq vbs /\ UnlimitedIn(vbs) \subseteq vbs
  BY DEF NormalsIn, MountsIn, MonosIn, UnlimitedIn
<1>3. \A vb \in vbs : \/ IsNormal(vb) \/ ~RequireSchedule(vb)
                      \/ RequireScheduleMonopoly(vb) \/ IsUnlimited(vb)
  BY DEF IsNormal, IsUnlimited
<1>4. \A vb \in vbs : /\ IsNormal(vb) \/ ~RequireSchedule(vb) => ~RequireScheduleMonopoly(vb)
                                                               /\ ~IsUnlimited(vb)
                      /\ ~(RequireScheduleMonopoly(vb) /\ IsUnlimited(vb))
  BY DEF IsNormal, IsUnlimited, RequireScheduleMonopoly, RequireScheduleUnlimitedQuota
<1>5. NoMonos(NormalsIn(vbs) \cup MountsIn(vbs)) /\ NoMonos(UnlimitedIn(vbs))
  BY <1>4 DEF NoMonos, NormalsIn, MountsIn, UnlimitedIn, IsUnlimited
<1>6. vbs = ((NormalsIn(vbs) \cup MountsIn(vbs)) \cup MonosIn(vbs)) \cup UnlimitedIn(vbs)
  BY <1>3 DEF NormalsIn, MountsIn, MonosIn, UnlimitedIn
<1>7. /\ (NormalsIn(vbs) \cup MountsIn(vbs)) \cap MonosIn(vbs) = {}
      /\ ((NormalsIn(vbs) \cup MountsIn(vbs)) \cup MonosIn(vbs)) \cap UnlimitedIn(vbs) = {}
  BY <1>4 DEF NormalsIn, MountsIn, MonosIn, UnlimitedIn
<1> QED
  BY <1>1, <1>2, <1>5, <1>6, <1>7

\* Plans for bindings with other destinations join
LEMMA PlansJoin ==
    ASSUME NEW S, NEW S1, S \cap S1 = {}, Destined(S \cup S1),
           NEW plan, DOMAIN plan = Scheduled(S), NEW plan1, DOMAIN plan1 = Scheduled(S1)
    PROVE  Joins(MergePlans(plan, plan1), plan, plan1)
<1>1. Apart(plan, plan1)
  <2> SUFFICES ASSUME NEW vb \in Scheduled(S), NEW vb1 \in Scheduled(S1)
               PROVE  vb.dest # vb1.dest
    BY DEF Apart
  <2>1. vb \in Scheduled(S \cup S1) /\ vb1 \in Scheduled(S \cup S1) /\ vb # vb1
    BY DEF Scheduled
  <2> QED
    BY <2>1 DEF Destined
<1>2. /\ DOMAIN MergePlans(plan, plan1) = DOMAIN plan \cup DOMAIN plan1
      /\ \A vb \in DOMAIN plan : MergePlans(plan, plan1)[vb] = plan[vb]
      /\ \A vb \in DOMAIN plan1 : MergePlans(plan, plan1)[vb] = plan1[vb]
  BY <1>1, ApartMerge
<1> QED
  BY <1>2 DEF Joins

\* And so they are met together
LEMMA MergedMeet ==
    ASSUME NEW S \in Bindings, NEW S1 \in Bindings, S \cap S1 = {}, NoMonos(S) \/ NoMonos(S1),
           Destined(S \cup S1), NEW disks, NEW p, Meets(p, S, disks), NEW p1, Meets(p1, S1, disks),
           NEW q, q.plan = MergePlans(p.plan, p1.plan),
           \A name \in DOMAIN disks : \A rate \in Rates :
              UsedOf(q.disks, name)[rate] = UsedOf(p.disks, name)[rate] + UsedOf(p1.disks, name)[rate]
    PROVE  Meets(q, S \cup S1, disks) /\ Joins(q.plan, p.plan, p1.plan)
<1>1. DOMAIN p.plan = Scheduled(S) /\ DOMAIN p1.plan = Scheduled(S1)
  BY DEF Meets
<1>2. Joins(q.plan, p.plan, p1.plan)
  <2>1. PICK plan : plan = p.plan
    OBVIOUS
  <2>2. PICK plan1 : plan1 = p1.plan
    OBVIOUS
  <2>3. Joins(MergePlans(plan, plan1), plan, plan1)
    BY <1>1, <2>1, <2>2, PlansJoin
  <2> QED
    BY <2>1, <2>2, <2>3
<1>3. AddsUp(q, p, p1, disks)
  BY <1>2 DEF AddsUp
<1> QED
  BY <1>2, <1>3, MeetsBoth

\* The plans of all kinds, joined
LEMMA JoinedMeet ==
    ASSUME NEW D, NEW N, NEW vbs \in Bindings, Destined(vbs), NEW disks, NEW h, NEW before,
           NEW normals \in Seq(PlannedOn(D, N)), NEW monos \in Seq(PlannedOn(D, N)),
           AllMeet(normals, NormalsIn(vbs) \cup MountsIn(vbs), disks),
           AllMeet(monos, MonosIn(vbs), disks),
           NEW n \in Int, n <= Len(normals), n <= Len(monos), NEW i \in 1..n
    PROVE  Meets(JoinPlans(n, normals, monos, GetUnlimitedPlan(h, before, UnlimitedIn(vbs)))[i],
                 vbs, disks)
<1> DEFINE A == NormalsIn(vbs) \cup MountsIn(vbs)
           B == MonosIn(vbs)
           C == UnlimitedIn(vbs)
           plan == MergePlans(normals[i].plan, monos[i].plan)
           all == AddDisks(normals[i].disks, monos[i].disks)
           p == [plan |-> plan, disks |-> all]
           unlimited == GetUnlimitedPlan(h, before, C)
           p1 == [plan |-> unlimited, disks |-> NoDisks]
           q == [plan |-> MergePlans(plan, unlimited), disks |-> all]
<1>1. i \in 1..Len(normals) /\ i \in 1..Len(monos)
  <2>1. Len(normals) \in Nat /\ Len(monos) \in Nat
    OBVIOUS
  <2> QED
    BY <2>1
<1>2. normals[i].disks \in DiskPlansOn(N) /\ monos[i].disks \in DiskPlansOn(N)
  <2>1. normals[i] \in PlannedOn(D, N) /\ monos[i] \in PlannedOn(D, N)
    BY <1>1, MembersAreIn
  <2> QED
    BY <2>1 DEF PlannedOn
<1>3. Meets(normals[i], A, disks) /\ Meets(monos[i], B, disks)
  BY <1>1 DEF AllMeet
<1>4. /\ A \cap B = {} /\ NoMonos(A) /\ A \in Bindings /\ B \in Bindings /\ A \cup B \in Bindings
      /\ vbs = (A \cup B) \cup C /\ (A \cup B) \cap C = {} /\ NoMonos(C) /\ C \in Bindings
  BY KindsAreApart
<1>5. \A vb \in C : IsUnlimited(vb)
  BY DEF UnlimitedIn
<1> HIDE DEF A, B, C
<1>6. Destined(A \cup B)
  BY <1>4 DEF Destined, Scheduled
<1>7. Destined((A \cup B) \cup C)
  BY <1>4
<1>8. \A name \in DOMAIN disks : \A rate \in Rates :
         /\ UsedOf(all, name)[rate] = UsedOf(normals[i].disks, name)[rate] + UsedOf(monos[i].disks, name)[rate]
         /\ UsedOf(all, name)[rate] \in Int
  <2> TAKE name \in DOMAIN disks
  <2> TAKE rate \in Rates
  <2> HIDE DEF all
  <2>1. /\ UsedOf(normals[i].disks, name)[rate] \in Int /\ UsedOf(monos[i].disks, name)[rate] \in Int
        /\ UsedOf(all, name)[rate] = UsedOf(normals[i].disks, name)[rate] + UsedOf(monos[i].disks, name)[rate]
    BY <1>2, UsesAddUp DEF all
  <2> QED
    BY <2>1
<1>9. p.plan = plan /\ p.disks = all /\ q.plan = MergePlans(p.plan, p1.plan) /\ q.disks = p.disks
      /\ p1.plan = unlimited /\ p1.disks = NoDisks
  OBVIOUS
<1>10. JoinPlans(n, normals, monos, unlimited)[i] = q
  BY DEF JoinPlans
<1> HIDE DEF p, q, p1, unlimited, plan, all
<1>11. Meets(p, A \cup B, disks)
  BY <1>3, <1>4, <1>6, <1>8, <1>9, MergedMeet DEF plan
<1>12. Meets(p1, C, disks)
  BY <1>4, <1>5, <1>9, UnlimitedMeets DEF unlimited
<1>13. \A name \in DOMAIN disks : \A rate \in Rates :
          UsedOf(q.disks, name)[rate] = UsedOf(p.disks, name)[rate] + UsedOf(p1.disks, name)[rate]
  <2>1. \A name : \A rate \in Rates : UsedOf(p1.disks, name)[rate] = 0
    BY <1>9 DEF UsedOf, NoDisks, NoIO
  <2> QED
    BY <1>8, <1>9, <2>1
<1>14. Meets(q, (A \cup B) \cup C, disks)
  BY <1>4, <1>7, <1>9, <1>11, <1>12, <1>13, MergedMeet
<1> QED
  BY <1>4, <1>10, <1>14 DEF unlimited, C

\* What is planned for the bindings of a request
MeetingEvaluations(D, N, vbs, disks) ==
    {best \in EvaluationsOn(D, N) : /\ AllMeet(best.normals, NormalsIn(vbs) \cup MountsIn(vbs), disks)
                                    /\ AllMeet(best.monos, MonosIn(vbs), disks)}
LikeHosts(D, N, disks) == {h \in HostsOn(D, N) : SameMounts(disks, h.disks)}

LEMMA EvaluationMeets ==
    ASSUME NEW D \in SUBSET Devices, NEW N \in SUBSET DiskNames, NEW h, NEW vbs, NEW classes,
           KindsOf(classes, vbs), NEW count \in Nat, NEW disks, NEW host \in LikeHosts(D, N, disks),
           Len(h.unused) \in Nat
    PROVE  EvaluatePlans(h, classes, count, host) \in MeetingEvaluations(D, N, vbs, disks)
<1> DEFINE P == PlannedOn(D, N)
           bound == NormalBound(h, count, classes)
           normal == GetNormalPlans(host, count, classes.normal, classes.mount, bound)
           limit == IF classes.unlimited = {} THEN Larger(count, Len(normal.plans) + 1) ELSE MaxInt
           monos == GetMonoPlans(normal.host, count, classes.mono, limit).plans
           best == EvaluatePlans(h, classes, count, host)
<1>1. bound \in Nat
  BY MaxIntAssumption DEF NormalBound, Larger
<1>2. host \in HostsOn(D, N) /\ SameMounts(disks, host.disks) /\ ClassesOk(classes)
  BY DEF LikeHosts, KindsOf
<1>3. best \in EvaluationsOn(D, N)
  BY <1>2, EvaluationIsOn
<1>4. best.normals = normal.plans /\ best.monos = monos
  BY DEF EvaluatePlans
<1> HIDE DEF bound, best
<1>5. Unalike(classes.normal, classes.mount) /\ (Lone(classes.mono) \/ classes.mono = <<>>)
      /\ ToSet(classes.normal) \cup ToSet(classes.mount) = NormalsIn(vbs) \cup MountsIn(vbs)
      /\ ToSet(classes.mono) = MonosIn(vbs)
  BY DEF KindsOf
<1>6. PassesMeet(normal, NormalsIn(vbs) \cup MountsIn(vbs), disks)
  BY <1>1, <1>2, <1>5, NormalPlansMeet
<1>7. normal.host \in HostsOn(D, N)
  BY <1>1, <1>2, NormalPlansAreOn DEF ClassesOk
<1> HIDE DEF normal, limit
<1>8. SameMounts(disks, normal.host.disks) /\ AllMeet(normal.plans, NormalsIn(vbs) \cup MountsIn(vbs), disks)
  BY <1>6 DEF PassesMeet
<1>9. AllMeet(monos, MonosIn(vbs), disks)
  BY <1>5, <1>7, <1>8, MonoPlansMeet
<1> HIDE DEF monos
<1> QED
  BY <1>3, <1>4, <1>8, <1>9 DEF MeetingEvaluations, best

\* The best of it
LEMMA ClassesPlansMeet ==
    ASSUME NEW D \in SUBSET Devices, NEW N \in SUBSET DiskNames, NEW disks,
           NEW h \in LikeHosts(D, N, disks), NEW vbs \in Bindings, Destined(vbs),
           NEW classes, KindsOf(classes, vbs), NEW count \in Nat,
           NEW plans, plans = PlansOfClasses(h, classes, count)
    PROVE  AllMeet(plans, vbs, disks)
<1> DEFINE H == LikeHosts(D, N, disks)
           E == MeetingEvaluations(D, N, vbs, disks)
           V == [host : H, best : E]
           first == [host |-> h, best |-> EvaluatePlans(h, classes, count, h)]
           last == Promoted(h, classes, count)
           both == last.best.normals \o last.best.monos
           n == Min({last.best.normal, last.best.mono, count})
<1>1. CASE NoVolumes(h, classes)
  <2>1. plans = <<>>
    BY <1>1 DEF PlansOfClasses
  <2> QED
    BY <2>1 DEF AllMeet
<1>2. CASE ~NoVolumes(h, classes)
  <2>1. plans = JoinPlans(n, last.best.normals, last.best.monos,
                          GetUnlimitedPlan(last.host, both, classes.unlimited))
    BY <1>2 DEF PlansOfClasses, BestPlans, Promoted
  <2>2. Len(h.unused) \in Nat
    <3>1. h.unused \in Seq(D)
      BY DEF HostsOn, LikeHosts
    <3> QED
      BY <3>1
  <2>3. \A host \in H : EvaluatePlans(h, classes, count, host) \in E
    BY <2>2, EvaluationMeets
  <2> HIDE DEF E
  <2>4. first \in V
    BY <2>3
  <2>5. ASSUME NEW s \in V
        PROVE  Opening(s, h, classes, count) \in V
    <3> DEFINE p == Candidate(s.host, classes.normal)
               host == Open(s.host, p)
               best == EvaluatePlans(h, classes, count, host)
               opened == [host |-> host, best |-> best]
    <3>1. Opening(s, h, classes, count) =
            IF WorthOpening(s.best, count) /\ p \in DOMAIN s.host.unused THEN opened ELSE s
      BY DEF Opening, PromoteOne
    <3> HIDE DEF p
    <3>2. s.host \in HostsOn(D, N) /\ SameMounts(disks, s.host.disks)
      BY DEF LikeHosts
    <3>3. p \in DOMAIN s.host.unused => opened \in V
      <4>1. SUFFICES ASSUME p \in DOMAIN s.host.unused
                     PROVE  opened \in V
        OBVIOUS
      <4>2. host \in HostsOn(D, N)
        BY <3>2, <4>1, OpenedStays
      <4>3. host.disks = s.host.disks
        BY <3>2 DEF Open, HostsOn
      <4> HIDE DEF host
      <4>4. host \in H
        BY <3>2, <4>2, <4>3 DEF LikeHosts
      <4>5. best \in E
        BY <2>3, <4>4
      <4> HIDE DEF best, H
      <4> QED
        BY <4>4, <4>5
    <3> HIDE DEF opened, V
    <3> QED
      BY <3>1, <3>3
  <2> HIDE DEF V
  <2>6. last \in V
    <3>1. Len(h.unused) \in 0..Len(h.unused)
      BY <2>2
    <3> QED
      BY <2>2, <2>4, <2>5, <3>1, PromotionsRun DEF RunsPromotions
  <2> HIDE DEF last
  <2>7. last.best \in E
    BY <2>6 DEF V
  <2>8. /\ last.best.normals \in Seq(PlannedOn(D, N)) /\ last.best.monos \in Seq(PlannedOn(D, N))
        /\ last.best.normal = Len(last.best.normals) /\ last.best.mono = Len(last.best.monos)
        /\ last.best.normal \in Nat /\ last.best.mono \in Nat
        /\ AllMeet(last.best.normals, NormalsIn(vbs) \cup MountsIn(vbs), disks)
        /\ AllMeet(last.best.monos, MonosIn(vbs), disks)
    BY <2>7 DEF E, MeetingEvaluations, EvaluationsOn
  <2>9. n \in Int /\ n <= Len(last.best.normals) /\ n <= Len(last.best.monos)
    <3>1. count \in Int /\ last.best.normal \in Int /\ last.best.mono \in Int
      BY <2>8
    <3>2. n \in Int /\ n <= last.best.normal /\ n <= last.best.mono
      BY <3>1, LeastOfThree
    <3> QED
      BY <2>8, <3>2
  <2> HIDE DEF n, both
  <2>10. classes.unlimited = UnlimitedIn(vbs)
    BY DEF KindsOf
  <2>11. \A i \in 1..n : Meets(plans[i], vbs, disks)
    <3> TAKE i \in 1..n
    <3>1. Meets(JoinPlans(n, last.best.normals, last.best.monos,
                          GetUnlimitedPlan(last.host, both, UnlimitedIn(vbs)))[i], vbs, disks)
      BY <2>8, <2>9, JoinedMeet
    <3> QED
      BY <2>1, <2>10, <3>1
  <2>12. 1..Len(plans) = 1..n
    <3>1. ClassesOk(classes) /\ h \in HostsOn(D, N)
      BY DEF KindsOf, LikeHosts
    <3>2. plans \in Seq(PlannedOn(D, N))
      BY <3>1, ClassesPlansAreOn
    <3>3. DOMAIN plans = 1..Len(plans) /\ Len(plans) \in Nat
      BY <3>2, MembersAreIn
    <3>4. DOMAIN plans = 1..n
      BY <2>1 DEF JoinPlans
    <3> QED
      BY <3>3, <3>4
  <2> QED
    BY <2>11, <2>12 DEF AllMeet
<1> QED
  BY <1>1, <1>2

\* Volume plans
LEMMA VolumePlansMeet ==
    ASSUME NEW D \in SUBSET Devices, NEW N \in SUBSET DiskNames, NEW disks,
           NEW h \in LikeHosts(D, N, disks), NEW vbs, RequestOk(vbs), Destined(vbs),
           NEW count \in Nat, NEW plans, plans = VolumePlansOn(h, vbs, count)
    PROVE  AllMeet(plans, vbs, disks)
<1>1. vbs \in Bindings
  BY DEF RequestOk
<1>2. CASE NeedSchedule(vbs)
  <2>1. KindsOf(ClassifyVolumeBindings(vbs), vbs)
    BY KindsAreAll
  <2>2. plans = PlansOfClasses(h, ClassifyVolumeBindings(vbs), count)
    BY <1>2 DEF VolumePlansOn
  <2> QED
    BY <1>1, <2>1, <2>2, ClassesPlansMeet
<1>3. CASE ~NeedSchedule(vbs)
  <2>1. plans = Repeat(count, NoPlan)
    BY <1>3 DEF VolumePlansOn
  <2>2. \A vb \in vbs : ~RequireSchedule(vb) /\ ~RequireIOPS(vb) /\ Covers(vb.io, NoIO) /\ vb.io \in IO
    BY <1>1, <1>3, BindingParts DEF NeedSchedule, RequestOk, ValidBindings, Bindings
  <2>3. \A vb \in vbs : \A rate \in Rates : vb.io[rate] = 0
    BY <2>2 DEF RequireIOPS, Covers, NoIO, IO
  <2>4. NoPlan.plan = EmptyPlan /\ \A name : \A rate \in Rates : UsedOf(NoPlan.disks, name)[rate] = 0
    BY DEF NoPlan, UsedOf, NoDisks, NoIO
  <2>5. Meets(NoPlan, vbs, disks)
    BY <1>1, <2>2, <2>3, <2>4, NothingMeets
  <2>6. NoPlan \in PlannedOn(D, N)
    BY EmptyPlansStay
  <2> QED
    BY <2>1, <2>5, <2>6, RepeatMeets
<1> QED
  BY <1>2, <1>3

-----------------------------------------------------------------------------
(* Planned again, bindings alike to old ones are where those were. *)

Stays(plan, old) ==
    \A vb \in DOMAIN plan : \A vb1 \in DOMAIN old :
        GetMapKey(vb) = GetMapKey(vb1) => plan[vb].device = old[vb1].device

\* The attempt has a place for these bindings, none of them away from its old one
Keeping(a, vbs, old, disks) == Met(a, vbs, disks) /\ (a.ok => Stays(a.plan, old))

\* What is joined of plans that stay stays
LEMMA JoinedStay ==
    ASSUME NEW plan, NEW plan1, NEW plan2, Joins(plan, plan1, plan2), NEW old,
           Stays(plan1, old), Stays(plan2, old)
    PROVE  Stays(plan, old)
BY DEF Joins, Stays

\* A binding is kept on the device of the old ones alike to it, or the attempt fails
LEMMA KeepOnMeets ==
    ASSUME NEW D, NEW N \in SUBSET DiskNames, NEW a \in AttemptsOn(D, N), NEW disks,
           NEW S \in Bindings, NEW old, Keeping(a, S, old, disks), NEW req \in VolumeBinding,
           req \notin S, Destined(S \cup {req}), Covers(req.io, NoIO), RequireSchedule(req),
           ~RequireScheduleMonopoly(req), NEW device \in D,
           \A vb1 \in DOMAIN old : GetMapKey(req) = GetMapKey(vb1) => old[vb1].device = device
    PROVE  Keeping(KeepOn(a, req, device), S \cup {req}, old, disks)
<1> DEFINE taken == TakeSpace(a.host, device, req.size)
           next == KeepOn(a, req, device)
           quota == DiskQuota(a.host, device, req)
           placed == Placing(EmptyPlan, req, device, req.size)
           p1 == [plan |-> placed, disks |-> quota]
           refused == \/ ~a.ok \/ req.size > a.host.free[device]
                      \/ (RequireIOPS(req) /\ ~Qualified(a.host, device, req))
<1>1. /\ a.host \in HostsOn(D, N) /\ a.plan \in PlansOn(D) /\ a.disks \in DiskPlansOn(N)
      /\ a = [ok |-> a.ok, host |-> a.host, plan |-> a.plan, disks |-> a.disks]
  BY DEF AttemptsOn
<1>2. CASE refused
  <2>1. next.host = a.host /\ ~next.ok
    BY <1>1, <1>2 DEF KeepOn
  <2> QED
    BY <2>1 DEF Keeping, Met
<1>3. CASE ~refused
  <2>1. /\ next.host = DecreaseIOPSQuota(taken, device, req)
        /\ next.plan = MergePlans(a.plan, placed)
        /\ next.disks = AddDisks(a.disks, quota)
    BY <1>1, <1>3 DEF KeepOn
  <2>2. a.ok /\ (RequireIOPS(req) => Qualified(a.host, device, req))
    BY <1>3
  <2> HIDE DEF next, refused
  <2>3. SameMounts(disks, next.host.disks)
    <3>1. req.size \in Int
      BY BindingParts
    <3>2. taken \in HostsOn(D, N) /\ taken.disks = a.host.disks
      BY <1>1, <3>1, TakenStays
    <3> HIDE DEF taken
    <3> QED
      BY <2>1, <3>2, ChargesKeepMounts DEF Keeping, Met
  <2>4. quota \in DiskPlansOn(N)
    BY <1>1, <2>2, BindingParts, ChargesStay
  <2>5. Meets(p1, {req}, disks)
    BY OneMeets DEF Keeping, Met
  <2>6. {req} \in Bindings /\ S \cap {req} = {} /\ NoMonos({req})
    BY FS_Singleton DEF Bindings, NoMonos
  <2>7. Meets(a, S, disks) /\ Stays(a.plan, old)
    BY <2>2 DEF Keeping, Met
  <2>8. p1.plan = placed /\ p1.disks = quota
    OBVIOUS
  <2>9. Stays(placed, old)
    <3>1. DOMAIN placed = {req} /\ placed[req].device = device
      BY DEF Placing, EmptyPlan
    <3> HIDE DEF placed
    <3> QED
      BY <3>1 DEF Stays
  <2> HIDE DEF placed, quota
  <2>10. \A name \in DOMAIN disks : \A rate \in Rates :
            UsedOf(next.disks, name)[rate] = UsedOf(a.disks, name)[rate] + UsedOf(p1.disks, name)[rate]
    BY <1>1, <2>1, <2>4, <2>8, UsesAddUp
  <2> HIDE DEF p1
  <2>11. Meets(next, S \cup {req}, disks) /\ Joins(next.plan, a.plan, p1.plan)
    BY <2>1, <2>5, <2>6, <2>7, <2>8, <2>10, MergedMeet
  <2>12. Stays(next.plan, old)
    BY <2>7, <2>8, <2>9, <2>11, JoinedStay
  <2> QED
    BY <2>3, <2>11, <2>12 DEF Keeping, Met, next
<1> HIDE DEF next, refused
<1> QED
  BY <1>2, <1>3 DEF next

\* Wherever a binding was, the attempt goes on
LEMMA KeptPlaceStays ==
    ASSUME NEW D, NEW N \in SUBSET DiskNames, NEW a \in AttemptsOn(D, N),
           NEW req \in VolumeBinding, NEW old \in PlansOn(D)
    PROVE  KeepPlace(a, req, old) \in AttemptsOn(D, N)
<1> DEFINE alike == Affinity(req, old)
           vb == CHOOSE vb \in alike : TRUE
<1>1. CASE alike = {}
  BY <1>1 DEF KeepPlace
<1>2. CASE alike # {}
  <2>1. vb \in alike /\ alike \in SUBSET DOMAIN old
    BY <1>2 DEF Affinity
  <2>2. KeepPlace(a, req, old) = KeepOn(a, req, old[vb].device)
    BY <1>2 DEF KeepPlace
  <2> HIDE DEF vb, alike
  <2>3. old[vb].device \in D
    BY <2>1, PlanParts
  <2> QED
    BY <2>2, <2>3, KeptOnStays
<1> QED
  BY <1>1, <1>2

\* The bindings that have a place to keep
Staying(vbs, old) == {vb \in vbs : Affinity(vb, old) # {}}

\* A binding keeps its place if it has one
LEMMA KeepPlaceMeets ==
    ASSUME NEW D, NEW N \in SUBSET DiskNames, NEW a \in AttemptsOn(D, N), NEW disks,
           NEW S \in Bindings, NEW old \in PlansOn(D), Distinct(DOMAIN old),
           Keeping(a, S, old, disks), NEW req \in VolumeBinding,
           req \notin S, Destined(S \cup {req}), Covers(req.io, NoIO), RequireSchedule(req),
           ~RequireScheduleMonopoly(req)
    PROVE  Keeping(KeepPlace(a, req, old), S \cup Staying({req}, old), old, disks)
<1> DEFINE alike == Affinity(req, old)
           vb == CHOOSE vb \in alike : TRUE
<1>1. CASE alike = {}
  <2>1. KeepPlace(a, req, old) = a
    BY <1>1 DEF KeepPlace
  <2>2. S \cup Staying({req}, old) = S
    BY <1>1 DEF Staying
  <2> QED
    BY <2>1, <2>2
<1>2. CASE alike # {}
  <2>1. vb \in alike
    BY <1>2
  <2>2. KeepPlace(a, req, old) = KeepOn(a, req, old[vb].device)
    BY <1>2 DEF KeepPlace
  <2>3. Staying({req}, old) = {req}
    BY <1>2 DEF Staying
  <2> HIDE DEF vb
  <2>4. vb \in DOMAIN old /\ GetMapKey(vb) = GetMapKey(req)
    BY <2>1 DEF Affinity
  <2>5. \A vb1 \in DOMAIN old : GetMapKey(req) = GetMapKey(vb1) => vb1 = vb
    BY <2>4 DEF Distinct
  <2>6. old[vb].device \in D
    BY <2>4, PlanParts
  <2>7. \A vb1 \in DOMAIN old : GetMapKey(req) = GetMapKey(vb1)
                                  => old[vb1].device = old[vb].device
    BY <2>5
  <2>8. PICK device \in D : device = old[vb].device
    BY <2>6
  <2>9. Keeping(KeepOn(a, req, device), S \cup {req}, old, disks)
    BY <2>7, <2>8, KeepOnMeets
  <2> QED
    BY <2>2, <2>3, <2>8, <2>9
<1> QED
  BY <1>1, <1>2

\* One after the other
LEMMA KeepPlacesMeet ==
    ASSUME NEW D, NEW N \in SUBSET DiskNames, NEW a \in AttemptsOn(D, N), NEW disks,
           NEW vbs \in Bindings, NEW old \in PlansOn(D), Distinct(DOMAIN old),
           Keeping(a, vbs, old, disks), NEW reqs, AskedOnce(reqs),
           \A k \in 1..Len(reqs) : RequireSchedule(reqs[k]) /\ ~RequireScheduleMonopoly(reqs[k]),
           vbs \cap ToSet(reqs) = {}, Destined(vbs \cup ToSet(reqs))
    PROVE  Keeping(KeepPlaces(a, reqs, old), vbs \cup Staying(ToSet(reqs), old), old, disks)
<1> DEFINE n == Len(reqs)
           V == AttemptsOn(D, N)
<1>1. n \in Nat /\ DOMAIN reqs = 1..n /\ \A k \in 1..n : reqs[k] \in VolumeBinding
  BY BindingList DEF AskedOnce
<1>2. a \in V
  OBVIOUS
<1>3. \A b \in V, k \in 1..n : KeepPlace(b, reqs[k], old) \in V
  BY <1>1, KeptPlaceStays
<1> HIDE DEF V
<1>4. PICK g : RunsKept(g, V, a, reqs, old, n)
  BY <1>1, <1>2, <1>3, KeptPlacesRun
<1> DEFINE Done(k) == Keeping(g[k], vbs \cup Staying(FirstOf(reqs, k), old), old, disks)
           S == {k \in 0..n : Done(k)}
<1>5. FirstOf(reqs, 0) = {} /\ FirstOf(reqs, n) = ToSet(reqs)
  BY OneMoreOf DEF AskedOnce
<1>6. 0 \in S
  <2>1. g[0] = a
    BY <1>4 DEF RunsKept
  <2>2. vbs \cup Staying(FirstOf(reqs, 0), old) = vbs
    BY <1>5 DEF Staying
  <2>3. Done(0)
    BY <2>1, <2>2
  <2> QED
    BY <1>1, <2>3
<1>7. ASSUME NEW k \in 1..n, k - 1 \in S
      PROVE  k \in S
  <2> DEFINE F == Staying(FirstOf(reqs, k - 1), old)
             G == vbs \cup F
             req == reqs[k]
  <2>1. k - 1 \in 0..n /\ k \in 0..n /\ Keeping(g[k - 1], G, old, disks)
    BY <1>7
  <2>2. g[k - 1] \in AttemptsOn(D, N) /\ g[k] = KeepPlace(g[k - 1], req, old)
    BY <1>4, <2>1 DEF RunsKept, V
  <2>3. /\ FirstOf(reqs, k) = FirstOf(reqs, k - 1) \cup {req} /\ req \in ToSet(reqs)
        /\ req \notin FirstOf(reqs, k - 1) /\ FirstOf(reqs, k - 1) \in Bindings
        /\ FirstOf(reqs, k - 1) \subseteq ToSet(reqs)
    BY <2>1, OneMoreOf DEF AskedOnce
  <2>4. /\ req \in VolumeBinding /\ Covers(req.io, NoIO) /\ RequireSchedule(req)
        /\ ~RequireScheduleMonopoly(req)
    BY <1>1 DEF AskedOnce
  <2>5. F \subseteq FirstOf(reqs, k - 1)
    BY DEF Staying
  <2>6. F \in Bindings
    BY <2>3, <2>5, FS_Subset DEF Bindings
  <2>7. vbs \cup Staying(FirstOf(reqs, k), old) = G \cup Staying({req}, old)
    BY <2>3 DEF Staying
  <2> HIDE DEF F
  <2>8. G \in Bindings /\ req \notin G
    BY <2>3, <2>5, <2>6, FS_Union DEF Bindings
  <2>9. Destined(G \cup {req})
    <3>1. G \cup {req} \subseteq vbs \cup ToSet(reqs)
      BY <2>3, <2>5
    <3> QED
      BY <3>1 DEF Destined, Scheduled
  <2> HIDE DEF G, req
  <2>10. Keeping(KeepPlace(g[k - 1], req, old), G \cup Staying({req}, old), old, disks)
    BY <2>1, <2>2, <2>4, <2>8, <2>9, KeepPlaceMeets
  <2>11. Done(k)
    BY <2>2, <2>7, <2>10
  <2> QED
    BY <2>1, <2>11
<1> HIDE DEF S
<1>8. n \in S
  BY <1>1, <1>6, <1>7, CountsUp
<1>9. KeepPlaces(a, reqs, old) = g[n]
  BY <1>4 DEF RunsKept
<1> QED
  BY <1>5, <1>8, <1>9 DEF S

\* The whole group has a place to keep if one of it has
GroupStaying(mono, old) ==
    IF \E vb \in ToSet(mono) : Affinity(vb, old) # {} THEN ToSet(mono) ELSE {}

\* A group keeps the volume the old one had, or the attempt fails
LEMMA KeepGroupMeets ==
    ASSUME NEW D, NEW N \in SUBSET DiskNames, NEW a \in AttemptsOn(D, N), NEW disks,
           NEW vbs \in Bindings, NoMonos(vbs), NEW old \in PlansOn(D), Together(old),
           Keeping(a, vbs, old, disks), NEW mono, Lone(mono) \/ mono = <<>>,
           vbs \cap ToSet(mono) = {}, Destined(vbs \cup ToSet(mono))
    PROVE  Keeping(KeepGroup(a, mono, old), vbs \cup GroupStaying(mono, old), old, disks)
<1> DEFINE stay == UNION {Affinity(mono[i], old) : i \in DOMAIN mono}
           room == SumFunction([vb \in {vb1 \in DOMAIN old : RequireScheduleMonopoly(vb1)} |->
                                  old[vb].size])
           was == CHOOSE vb \in stay : TRUE
           device == old[was].device
           m == GetMonoPlan(a.host, mono, device)
           short == room < TotalSize(ToSet(mono))
           next == KeepGroup(a, mono, old)
<1>1. /\ a.host \in HostsOn(D, N) /\ a.plan \in PlansOn(D) /\ a.disks \in DiskPlansOn(N)
      /\ a = [ok |-> a.ok, host |-> a.host, plan |-> a.plan, disks |-> a.disks]
  BY DEF AttemptsOn
<1>2. GroupStaying(mono, old) = IF stay = {} THEN {} ELSE ToSet(mono)
  BY DEF GroupStaying, ToSet
<1>3. CASE stay = {}
  <2>1. next = a
    BY <1>3 DEF KeepGroup
  <2>2. vbs \cup GroupStaying(mono, old) = vbs
    BY <1>2, <1>3
  <2> QED
    BY <2>1, <2>2
<1>4. CASE stay # {} /\ (~a.ok \/ short \/ ~m.ok)
  <2>1. next.host = a.host /\ ~next.ok
    BY <1>1, <1>4 DEF KeepGroup
  <2> QED
    BY <2>1 DEF Keeping, Met
<1>5. CASE stay # {} /\ a.ok /\ ~short /\ m.ok
  <2>1. /\ next.host = m.host /\ next.plan = MergePlans(a.plan, m.plan)
        /\ next.disks = AddDisks(a.disks, m.disks)
    BY <1>1, <1>5 DEF KeepGroup
  <2>2. a.ok /\ m.ok
    BY <1>5
  <2>3. Lone(mono)
    <3>1. mono # <<>>
      BY <1>5
    <3> QED
      BY <3>1
  <2>4. mono \in Seq(VolumeBinding) /\ Monopolies(mono)
    BY <2>3 DEF Lone, Grouped, Monopolies
  <2>5. DOMAIN mono = 1..Len(mono) /\ \A k \in 1..Len(mono) : RequireScheduleMonopoly(mono[k])
    BY <2>3, <2>4, BindingList DEF Lone
  <2>6. \A vb \in ToSet(mono) : \A vb1 \in DOMAIN old :
           GetMapKey(vb) = GetMapKey(vb1) => vb1 \in stay
    BY <2>4 DEF ToSet, Affinity
  <2>7. \A vb1 \in stay : vb1 \in DOMAIN old /\ RequireScheduleMonopoly(vb1)
    BY <2>5 DEF Affinity, GetMapKey, RequireScheduleMonopoly, RequireSchedule
  <2>8. was \in stay
    BY <1>5
  <2> HIDE DEF stay, next, short, was
  <2>9. device \in D
    BY <2>7, <2>8, PlanParts
  <2>10. \A vb1 \in stay : old[vb1].device = device
    BY <2>7, <2>8 DEF Together
  <2> HIDE DEF device
  <2>11. /\ Meets(m, ToSet(mono), disks) /\ SameMounts(disks, m.host.disks)
         /\ \A vb \in DOMAIN m.plan : m.plan[vb].device = device
    BY <1>1, <2>2, <2>3, <2>9, GroupMeets DEF Keeping, Met
  <2>12. m.disks \in DiskPlansOn(N)
    BY <1>1, <2>2, <2>4, <2>9, GroupIsPlanned
  <2> HIDE DEF m
  <2>13. ToSet(mono) \in Bindings
    BY <2>4, MembersAreFinite DEF Bindings
  <2>14. DOMAIN m.plan \subseteq ToSet(mono)
    BY <2>11 DEF Meets, Scheduled
  <2>15. Stays(m.plan, old)
    BY <2>6, <2>10, <2>11, <2>14 DEF Stays
  <2>16. Meets(a, vbs, disks) /\ Stays(a.plan, old)
    BY <2>2 DEF Keeping, Met
  <2>17. \A name \in DOMAIN disks : \A rate \in Rates :
            UsedOf(next.disks, name)[rate] = UsedOf(a.disks, name)[rate] + UsedOf(m.disks, name)[rate]
    BY <1>1, <2>1, <2>12, UsesAddUp
  <2>18. Meets(next, vbs \cup ToSet(mono), disks) /\ Joins(next.plan, a.plan, m.plan)
    BY <2>1, <2>11, <2>13, <2>16, <2>17, MergedMeet
  <2>19. Stays(next.plan, old)
    BY <2>15, <2>16, <2>18, JoinedStay
  <2>20. GroupStaying(mono, old) = ToSet(mono)
    BY <1>2, <1>5
  <2> QED
    BY <2>1, <2>11, <2>18, <2>19, <2>20 DEF Keeping, Met, next
<1> HIDE DEF stay, next, m, short
<1> QED
  BY <1>3, <1>4, <1>5 DEF next

\* All bindings that have a place to keep, of a request of these kinds
Kept(vbs, mono, old) ==
    ((MountsIn(vbs) \cup Staying(NormalsIn(vbs), old)) \cup GroupStaying(mono, old))
        \cup Staying(UnlimitedIn(vbs), old)

\* They do, or the attempt fails
LEMMA KeepAllMeets ==
    ASSUME NEW D \in SUBSET Devices, NEW N \in SUBSET DiskNames, NEW a \in AttemptsOn(D, N),
           NEW disks, NEW vbs, RequestOk(vbs), Destined(vbs), NEW classes, KindsOf(classes, vbs),
           NEW old \in PlansOn(D), Distinct(DOMAIN old), Together(old), Met(a, {}, disks)
    PROVE  Keeping(KeepAll(a, classes, old), Kept(vbs, classes.mono, old), old, disks)
<1> DEFINE b == GetMountDiskPlan(a, classes.mount)
           c == KeepPlaces(b, classes.normal, old)
           d == KeepGroup(c, classes.mono, old)
           last == Ranked(classes.unlimited, CompareBinding)
           B == MountsIn(vbs)
           C == B \cup Staying(NormalsIn(vbs), old)
           E == C \cup GroupStaying(classes.mono, old)
<1>1. /\ ClassesOk(classes) /\ Unalike(classes.normal, classes.mount)
      /\ Lone(classes.mono) \/ classes.mono = <<>>
      /\ ToSet(classes.normal) = NormalsIn(vbs) /\ ToSet(classes.mount) = B
      /\ ToSet(classes.mono) = MonosIn(vbs) /\ classes.unlimited = UnlimitedIn(vbs)
  BY DEF KindsOf
<1>2. vbs \in Bindings /\ \A S \in SUBSET vbs : S \in Bindings /\ Destined(S)
  <2>1. vbs \in Bindings
    BY DEF RequestOk
  <2>2. \A S \in SUBSET vbs : S \in Bindings
    BY <2>1, FS_Subset DEF Bindings
  <2> QED
    BY <2>1, <2>2 DEF Destined, Scheduled
<1>3. /\ NormalsIn(vbs) \subseteq vbs /\ MountsIn(vbs) \subseteq vbs
      /\ MonosIn(vbs) \subseteq vbs /\ UnlimitedIn(vbs) \subseteq vbs
  BY DEF NormalsIn, MountsIn, MonosIn, UnlimitedIn
<1>4. /\ (NormalsIn(vbs) \cup MountsIn(vbs)) \cap MonosIn(vbs) = {}
      /\ ((NormalsIn(vbs) \cup MountsIn(vbs)) \cup MonosIn(vbs)) \cap UnlimitedIn(vbs) = {}
      /\ NoMonos(NormalsIn(vbs) \cup MountsIn(vbs)) /\ NoMonos(UnlimitedIn(vbs))
  BY <1>2, KindsAreApart
<1>5. MountsIn(vbs) \cap NormalsIn(vbs) = {}
  BY DEF MountsIn, NormalsIn, IsNormal
<1>6. /\ Staying(NormalsIn(vbs), old) \subseteq NormalsIn(vbs)
      /\ Staying(UnlimitedIn(vbs), old) \subseteq UnlimitedIn(vbs)
      /\ GroupStaying(classes.mono, old) \subseteq MonosIn(vbs)
  BY <1>1 DEF Staying, GroupStaying
<1>7. b \in AttemptsOn(D, N) /\ Keeping(b, B, old, disks)
  <2>1. b \in AttemptsOn(D, N)
    BY <1>1, MountPassStays DEF ClassesOk
  <2>2. {} \in Bindings /\ {} \cap ToSet(classes.mount) = {}
    BY <1>2
  <2>3. Met(b, {} \cup ToSet(classes.mount), disks)
    BY <1>1, <2>2, MountPlanMeets DEF Unalike
  <2> HIDE DEF b
  <2>4. Met(b, B, disks)
    BY <1>1, <2>3
  <2>5. Scheduled(B) = {}
    BY DEF Scheduled, MountsIn
  <2>6. b.ok => Stays(b.plan, old)
    BY <2>4, <2>5 DEF Met, Meets, Stays
  <2> QED
    BY <2>1, <2>4, <2>6 DEF Keeping
<1> HIDE DEF b, B
<1>8. B \subseteq vbs /\ B \cap NormalsIn(vbs) = {}
  BY <1>3, <1>5 DEF B
<1>9. c \in AttemptsOn(D, N) /\ Keeping(c, C, old, disks)
  <2>1. c \in AttemptsOn(D, N)
    BY <1>1, <1>7, KeptPlacesAreOn DEF ClassesOk
  <2>2. AskedOnce(classes.normal)
    BY <1>1 DEF Unalike
  <2>3. \A k \in 1..Len(classes.normal) :
           RequireSchedule(classes.normal[k]) /\ ~RequireScheduleMonopoly(classes.normal[k])
    BY <1>1 DEF Unalike, IsNormal
  <2>4. B \in Bindings /\ B \cap ToSet(classes.normal) = {} /\ Destined(B \cup ToSet(classes.normal))
    BY <1>1, <1>2, <1>3, <1>8
  <2>5. Keeping(c, B \cup Staying(ToSet(classes.normal), old), old, disks)
    BY <1>7, <2>2, <2>3, <2>4, KeepPlacesMeet
  <2> QED
    BY <1>1, <2>1, <2>5
<1> HIDE DEF c, C
<1>10. C \subseteq NormalsIn(vbs) \cup MountsIn(vbs) /\ C \subseteq vbs
  BY <1>3, <1>6 DEF C, B
<1>11. d \in AttemptsOn(D, N) /\ Keeping(d, E, old, disks)
  <2>1. d \in AttemptsOn(D, N)
    BY <1>1, <1>9, KeptGroupIsOn DEF ClassesOk
  <2>2. NoMonos(C)
    BY <1>4, <1>10 DEF NoMonos
  <2>3. C \in Bindings /\ C \cap ToSet(classes.mono) = {} /\ Destined(C \cup ToSet(classes.mono))
    BY <1>1, <1>2, <1>3, <1>4, <1>10
  <2> QED
    BY <1>1, <1>9, <2>1, <2>2, <2>3, KeepGroupMeets
<1> HIDE DEF d, E
<1>12. E \subseteq (NormalsIn(vbs) \cup MountsIn(vbs)) \cup MonosIn(vbs) /\ E \subseteq vbs
  BY <1>3, <1>6, <1>10 DEF E
<1>13. /\ AskedOnce(last) /\ ToSet(last) = UnlimitedIn(vbs)
       /\ \A k \in 1..Len(last) : last[k] \in UnlimitedIn(vbs)
  <2>1. Lists(last, classes.unlimited)
    BY <1>1, BindingsAreRanked DEF ClassesOk
  <2> HIDE DEF last
  <2> QED
    BY <1>1, <1>3, <2>1, ListsAskOnce
<1> HIDE DEF last
<1>14. \A k \in 1..Len(last) : RequireSchedule(last[k]) /\ ~RequireScheduleMonopoly(last[k])
  BY <1>4, <1>13 DEF NoMonos, UnlimitedIn, IsUnlimited, RequireScheduleUnlimitedQuota
<1>15. E \in Bindings /\ E \cap ToSet(last) = {} /\ Destined(E \cup ToSet(last))
  BY <1>2, <1>3, <1>4, <1>12, <1>13
<1>16. Keeping(KeepPlaces(d, last, old), E \cup Staying(ToSet(last), old), old, disks)
  BY <1>11, <1>13, <1>14, <1>15, KeepPlacesMeet
<1>17. KeepAll(a, classes, old) = KeepPlaces(d, last, old)
  BY DEF KeepAll, b, c, d, last
<1>18. Kept(vbs, classes.mono, old) = E \cup Staying(ToSet(last), old)
  BY <1>13 DEF Kept, B, C, E
<1> QED
  BY <1>16, <1>17, <1>18

\* What has no place to keep is all the rest
LEMMA RestHasNoPlace ==
    ASSUME NEW vbs \in Bindings, NEW classes, KindsOf(classes, vbs), NEW old,
           NEW rest, rest = NonAffinity(classes, old)
    PROVE  /\ vbs = Kept(vbs, classes.mono, old) \cup rest
           /\ Kept(vbs, classes.mono, old) \cap rest = {}
           /\ NoMonos(Kept(vbs, classes.mono, old)) \/ NoMonos(rest)
           /\ \A vb \in rest : Affinity(vb, old) = {}
<1> DEFINE K == Kept(vbs, classes.mono, old)
           G == GroupStaying(classes.mono, old)
           R == {vb \in MonosIn(vbs) : \A vb1 \in MonosIn(vbs) : Affinity(vb1, old) = {}}
           NS == Staying(NormalsIn(vbs), old)
           NR == {vb \in NormalsIn(vbs) : Affinity(vb, old) = {}}
           US == Staying(UnlimitedIn(vbs), old)
           UR == {vb \in UnlimitedIn(vbs) : Affinity(vb, old) = {}}
<1>1. /\ ToSet(classes.normal) = NormalsIn(vbs) /\ ToSet(classes.mono) = MonosIn(vbs)
      /\ classes.unlimited = UnlimitedIn(vbs)
  BY DEF KindsOf
<1>2. rest = (NR \cup UR) \cup R
  <2>1. \A vb \in MonosIn(vbs) : (\A i \in DOMAIN classes.mono : Affinity(classes.mono[i], old) = {})
                                 <=> (\A vb1 \in MonosIn(vbs) : Affinity(vb1, old) = {})
    BY <1>1 DEF ToSet
  <2> QED
    BY <1>1, <2>1 DEF NonAffinity
<1>3. K = ((MountsIn(vbs) \cup NS) \cup G) \cup US
  BY DEF Kept
<1>4. /\ vbs = ((NormalsIn(vbs) \cup MountsIn(vbs)) \cup MonosIn(vbs)) \cup UnlimitedIn(vbs)
      /\ (NormalsIn(vbs) \cup MountsIn(vbs)) \cap MonosIn(vbs) = {}
      /\ ((NormalsIn(vbs) \cup MountsIn(vbs)) \cup MonosIn(vbs)) \cap UnlimitedIn(vbs) = {}
      /\ NoMonos(NormalsIn(vbs) \cup MountsIn(vbs)) /\ NoMonos(UnlimitedIn(vbs))
  BY KindsAreApart
<1>5. MountsIn(vbs) \cap NormalsIn(vbs) = {}
  BY DEF MountsIn, NormalsIn, IsNormal
<1>6. /\ NormalsIn(vbs) = NS \cup NR /\ NS \cap NR = {}
      /\ UnlimitedIn(vbs) = US \cup UR /\ US \cap UR = {}
  BY DEF Staying
<1>7. \/ G = {} /\ R = MonosIn(vbs)
      \/ G = MonosIn(vbs) /\ R = {}
  BY <1>1 DEF GroupStaying
<1>8. \A vb \in rest : Affinity(vb, old) = {}
  BY <1>2
<1> HIDE DEF K, G, R, NS, NR, US, UR
<1>9. vbs = K \cup rest /\ K \cap rest = {}
  BY <1>2, <1>3, <1>4, <1>5, <1>6, <1>7
<1>10. NoMonos(K) \/ NoMonos(rest)
  BY <1>2, <1>3, <1>4, <1>6, <1>7 DEF NoMonos
<1> QED
  BY <1>8, <1>9, <1>10 DEF K

\* The rest is planned as well, and none of it has been anywhere
LEMMA RestMeets ==
    ASSUME NEW D \in SUBSET Devices, NEW N \in SUBSET DiskNames, NEW a \in AttemptsOn(D, N),
           NEW disks, NEW S \in Bindings, NEW old, Keeping(a, S, old, disks),
           NEW rest, RequestOk(rest), S \cap rest = {}, NoMonos(S) \/ NoMonos(rest),
           Destined(S \cup rest), \A vb \in rest : Affinity(vb, old) = {},
           NEW to, to = PlanRest(a, rest), to.ok
    PROVE  Meets(to, S \cup rest, disks) /\ Stays(to.plan, old)
<1> DEFINE plans == VolumePlansOn(a.host, rest, 1)
           p == plans[1]
           q == [ok |-> TRUE, plan |-> MergePlans(a.plan, p.plan), disks |-> AddDisks(a.disks, p.disks)]
           none == [ok |-> TRUE, plan |-> a.plan, disks |-> a.disks]
<1>1. a.host \in HostsOn(D, N) /\ a.plan \in PlansOn(D) /\ a.disks \in DiskPlansOn(N)
  BY DEF AttemptsOn
<1>2. to = IF ~a.ok THEN Refused ELSE IF rest = {} THEN none
           ELSE IF plans = <<>> THEN Refused ELSE q
  BY DEF PlanRest
<1>3. ~Refused.ok
  BY DEF Refused
<1>4. a.ok
  BY <1>2, <1>3
<1>5. Meets(a, S, disks) /\ Stays(a.plan, old) /\ SameMounts(disks, a.host.disks)
  BY <1>4 DEF Keeping, Met
<1>6. CASE rest = {}
  <2>1. to.plan = a.plan /\ to.disks = a.disks /\ S \cup rest = S
    BY <1>2, <1>4, <1>6
  <2>2. Meets(to, S, disks)
    BY <1>5, <2>1 DEF Meets, Matches
  <2> QED
    BY <1>5, <2>1, <2>2
<1>7. CASE rest # {}
  <2>1. to = q /\ plans # <<>>
    BY <1>2, <1>3, <1>4, <1>7
  <2>2. a.host \in LikeHosts(D, N, disks)
    BY <1>1, <1>5 DEF LikeHosts
  <2>3. Destined(rest)
    BY DEF Destined, Scheduled
  <2>4. plans \in Seq(PlannedOn(D, N))
    BY <1>1, VolumePlansAreOn
  <2>5. AllMeet(plans, rest, disks)
    BY <2>2, <2>3, VolumePlansMeet
  <2> HIDE DEF plans
  <2>6. Len(plans) \in Nat \ {0}
    BY <2>1, <2>4, EmptySeq
  <2>7. 1 \in 1..Len(plans) /\ DOMAIN plans = 1..Len(plans)
    BY <2>4, <2>6, MembersAreIn
  <2>8. p \in PlannedOn(D, N)
    BY <2>4, <2>7, MembersAreIn
  <2>9. Meets(p, rest, disks) /\ p.disks \in DiskPlansOn(N)
    BY <2>5, <2>7, <2>8 DEF AllMeet, PlannedOn
  <2> HIDE DEF p
  <2>10. to.plan = MergePlans(a.plan, p.plan) /\ to.disks = AddDisks(a.disks, p.disks)
    BY <2>1
  <2> HIDE DEF q
  <2>11. \A name \in DOMAIN disks : \A rate \in Rates :
            UsedOf(to.disks, name)[rate] = UsedOf(a.disks, name)[rate] + UsedOf(p.disks, name)[rate]
    BY <1>1, <2>9, <2>10, UsesAddUp
  <2>12. rest \in Bindings
    BY DEF RequestOk
  <2>13. Meets(to, S \cup rest, disks) /\ Joins(to.plan, a.plan, p.plan)
    <3>1. CASE NoMonos(S)
      BY <1>5, <2>9, <2>10, <2>11, <2>12, <3>1, MergedMeet
    <3>2. CASE NoMonos(rest)
      BY <1>5, <2>9, <2>10, <2>11, <2>12, <3>2, MergedMeet
    <3> QED
      BY <3>1, <3>2
  <2>14. Stays(p.plan, old)
    <3>1. DOMAIN p.plan \subseteq rest
      BY <2>9 DEF Meets, Scheduled
    <3> QED
      BY <3>1 DEF Stays, Affinity
  <2>15. Stays(to.plan, old)
    BY <1>5, <2>13, <2>14, JoinedStay
  <2> QED
    BY <2>13, <2>15
<1> QED
  BY <1>6, <1>7

\* A host to which something is given back has the disks it had
LEMMA GivenBackKeepsMounts ==
    ASSUME NEW h, NEW disks, SameMounts(disks, h.disks), NEW plan, NEW vbs, NEW D, NEW N,
           h \in HostsOn(D, N)
    PROVE  SameMounts(disks, GiveBack(h, plan, vbs).disks)
<1> DEFINE of(name) == {vb \in DOMAIN plan : GetDiskByPath(h.disks, plan[vb].device) = name}
           back(name) == [rate \in Rates |->
                             h.disks[name].io[rate]
                               + SumFunction([vb \in of(name) |-> vb.io[rate]])
                               + SumFunction([vb \in MountedOn(h, vbs, name) |-> vb.io[rate]])]
           left == [name \in DOMAIN h.disks |-> [h.disks[name] EXCEPT !.io = back(name)]]
           free == [device \in DOMAIN h.free |-> h.free[device] + PlannedVolumes(plan)[device]]
<1>1. GiveBack(h, plan, vbs) = [h EXCEPT !.free = free, !.disks = left]
  BY DEF GiveBack
<1> HIDE DEF back, free
<1>2. \A name \in DOMAIN h.disks : h.disks[name] \in DiskCapacity
  BY DEF HostsOn
<1>3. DOMAIN left = DOMAIN h.disks /\ \A name \in DOMAIN h.disks : left[name].mounts = h.disks[name].mounts
  BY <1>2 DEF DiskCapacity
<1> HIDE DEF left
<1>4. GiveBack(h, plan, vbs).disks = left
  BY <1>1 DEF HostsOn
<1> QED
  BY <1>3, <1>4 DEF SameMounts

\* A workload that is planned again
LEMMA AffinityPlanMeets ==
    ASSUME NEW D \in SUBSET Devices, NEW N \in SUBSET DiskNames, NEW disks,
           NEW h \in LikeHosts(D, N, disks), NEW vbs, RequestOk(vbs), Destined(vbs), NEW F,
           NEW old \in PlansOn(F), Distinct(DOMAIN old), Together(old), NEW was \in Bindings,
           NEW to, to = AffinityPlanOn(h, ClassifyVolumeBindings(vbs), old, was), to.ok
    PROVE  Meets(to, vbs, disks) /\ Stays(to.plan, old)
<1> DEFINE classes == ClassifyVolumeBindings(vbs)
           back == GiveBack(h, old, was)
           kept == KeepAll(Attempt(back), classes, old)
           rest == NonAffinity(classes, old)
           K == Kept(vbs, classes.mono, old)
<1>1. KindsOf(classes, vbs) /\ ClassesOk(classes)
  BY KindsAreAll DEF KindsOf
<1> HIDE DEF classes
<1>2. CanGiveBack(h, old, was)
  BY DEF AffinityPlanOn, Refused
<1>3. to = PlanRest(kept, rest)
  BY <1>2 DEF AffinityPlanOn, classes
<1>4. h \in HostsOn(D, N) /\ SameMounts(disks, h.disks)
  BY DEF LikeHosts
<1>5. old \in PlansOn(D)
  BY <1>2, <1>4, GivenBackIsOn
<1>6. back \in HostsOn(D, N)
  BY <1>4, GivenBackStays
<1>7. SameMounts(disks, back.disks)
  BY <1>4, GivenBackKeepsMounts
<1> HIDE DEF back
<1>8. Attempt(back) \in AttemptsOn(D, N) /\ Met(Attempt(back), {}, disks)
  BY <1>6, <1>7, EmptyPlansStay, AttemptIsGiven
<1>9. kept \in AttemptsOn(D, N) /\ Keeping(kept, K, old, disks)
  BY <1>1, <1>5, <1>8, KeptAllIsOn, KeepAllMeets
<1> HIDE DEF kept
<1>10. vbs \in Bindings
  BY DEF RequestOk
<1>11. /\ vbs = K \cup rest /\ K \cap rest = {}
       /\ NoMonos(K) \/ NoMonos(rest)
       /\ \A vb \in rest : Affinity(vb, old) = {}
  BY <1>1, <1>10, RestHasNoPlace
<1> HIDE DEF K, rest
<1>12. K \in Bindings /\ rest \in SUBSET vbs
  <2>1. K \in SUBSET vbs /\ rest \in SUBSET vbs
    BY <1>11
  <2> QED
    BY <1>10, <2>1, FS_Subset DEF Bindings
<1>13. RequestOk(rest)
  BY <1>12, LessIsRequest
<1>14. Destined(K \cup rest)
  BY <1>11
<1>15. Meets(to, K \cup rest, disks) /\ Stays(to.plan, old)
  BY <1>3, <1>9, <1>11, <1>12, <1>13, <1>14, RestMeets
<1> QED
  BY <1>11, <1>15

-----------------------------------------------------------------------------
(* After any operations *)

\* The rates some bindings ask for, added up in the one way and the other
LEMMA RatesAreSummed ==
    ASSUME NEW S \in Bindings, NEW rate \in Rates
    PROVE  MapThenSumSet(LAMBDA vb : vb.io[rate], S) = SumOver(RateOf(rate), S)
<1> DEFINE g == [vb \in S |-> vb.io[rate]]
           Turn(f, s) == IF s = {} THEN 0 ELSE (Pick(s)).io[rate] + f[s \ {Pick(s)}]
           Body(f) == [s \in SUBSET S |-> Turn(f, s)]
           it == CHOOSE f : f = Body(f)
<1>1. IsFiniteSet(S) /\ S \in SUBSET VolumeBinding /\ \A s \in SUBSET S : IsFiniteSet(s)
  BY FS_Subset DEF Bindings
<1>2. g \in [S -> Int]
  BY <1>1, BindingParts DEF IO
<1>3. MapThenSumSet(LAMBDA vb : vb.io[rate], S) = it[S]
  BY DEF MapThenSumSet, MapThenFoldSet, Pick
<1>4. SumFunction(g) = SumOver(RateOf(rate), S)
  <2>1. g = [vb \in S |-> RateOf(rate)[vb]]
    BY <1>1 DEF RateOf
  <2> QED
    BY <2>1 DEF SumOver
<1>5. PICK f : Sums(f, g, S)
  BY <1>1, <1>2, SumUnfolds
<1> DEFINE f1 == [s \in SUBSET S |-> f[s]]
<1>6. \A s \in SUBSET S : s # {} => Pick(s) \in s /\ g[Pick(s)] = (Pick(s)).io[rate]
  BY DEF Pick
<1>7. \A s \in SUBSET S : f[s] = IF s = {} THEN 0 ELSE (Pick(s)).io[rate] + f[s \ {Pick(s)}]
  <2> HIDE DEF g
  <2> QED
    BY <1>5, <1>6 DEF Sums
<1>8. f1 = Body(f1)
  <2>1. \A s \in SUBSET S : f1[s] = Turn(f1, s)
    BY <1>7
  <2> QED
    BY <2>1
<1>9. it = Body(it)
  <2> HIDE DEF f1
  <2> QED
    BY <1>8
<1> HIDE DEF it
<1>10. \A s \in SUBSET S : it[s] = Turn(it, s)
  BY <1>9
<1> DEFINE Good == {s \in SUBSET S : it[s] = f[s]}
<1>11. ASSUME NEW s \in SUBSET S,
              \A r \in SUBSET S : Cardinality(r) < Cardinality(s) => r \in Good
       PROVE  s \in Good
  <2>1. CASE s = {}
    BY <1>7, <1>10, <2>1
  <2>2. CASE s # {}
    <3> DEFINE r == s \ {Pick(s)}
    <3>1. Pick(s) \in s /\ r \in SUBSET S
      BY <1>6, <2>2
    <3>2. Cardinality(r) < Cardinality(s)
      <4>1. Cardinality(s) \in Nat /\ Cardinality(r) = Cardinality(s) - 1
        BY <1>1, <3>1, FS_CardinalityType, FS_RemoveElement
      <4> QED
        BY <4>1
    <3>3. it[r] = f[r]
      BY <1>11, <3>1, <3>2
    <3> QED
      BY <1>7, <1>10, <2>2, <3>3
  <2> QED
    BY <2>1, <2>2
<1> HIDE DEF Good
<1>12. S \in Good
  BY <1>1, <1>11, SubsetsClimb
<1>13. it[S] = f[S]
  BY <1>12 DEF Good
<1> HIDE DEF g
<1> QED
  BY <1>3, <1>4, <1>5, <1>13 DEF Sums

\* Some bindings merged into others: to each of these what is alike is added
Unlike(vbs1, vbs2) == {vb \in vbs1 : \A vb1 \in vbs2 : GetMapKey(vb1) # GetMapKey(vb)}

IsMerge(merged, vbs1, vbs2, g) ==
    /\ merged = {vb \in Unlike(vbs1, vbs2) \cup {g[vb] : vb \in vbs2} : vb.size >= 0}
    /\ \A vb \in vbs2 :
          /\ g[vb] \in VolumeBinding /\ GetMapKey(g[vb]) = GetMapKey(vb)
          /\ \/ g[vb] = vb
             \/ \E vb1 \in vbs1 : g[vb] = AddQuota(vb, vb1) /\ GetMapKey(vb1) = GetMapKey(vb)

LEMMA MergedParts ==
    ASSUME NEW vbs1 \in Bindings, Distinct(vbs1), NEW vbs2 \in Bindings
    PROVE  \E g : IsMerge(MergeVolumeBindings(vbs1, vbs2), vbs1, vbs2, g)
<1> DEFINE Same(vb) == {vb1 \in vbs1 : GetMapKey(vb1) = GetMapKey(vb)}
           To(vb) == IF Same(vb) = {} THEN vb ELSE AddQuota(vb, CHOOSE vb1 \in Same(vb) : TRUE)
           Fresh(vb) == IF Same(vb) = {} THEN {vb} ELSE {AddQuota(vb, vb1) : vb1 \in Same(vb)}
           g == [vb \in vbs2 |-> To(vb)]
           alone == {vb \in vbs1 : {vb1 \in vbs2 : GetMapKey(vb1) = GetMapKey(vb)} = {}}
           all == AddedBindings(vbs1, vbs2)
<1>1. vbs1 \in SUBSET VolumeBinding /\ vbs2 \in SUBSET VolumeBinding
  BY DEF Bindings
<1>2. \A vb \in vbs2 : Same(vb) = {} \/ Same(vb) = {CHOOSE vb1 \in Same(vb) : TRUE}
  BY DEF Distinct
<1>3. \A vb \in vbs2 : Fresh(vb) = {To(vb)}
  BY <1>2
<1>4. all = alone \cup UNION {Fresh(vb) : vb \in vbs2}
  BY DEF AddedBindings
<1>5. alone = Unlike(vbs1, vbs2)
  BY DEF Unlike
<1>6. \A vb \in vbs2 :
         /\ To(vb) \in VolumeBinding /\ GetMapKey(To(vb)) = GetMapKey(vb)
         /\ \/ To(vb) = vb
            \/ \E vb1 \in vbs1 : To(vb) = AddQuota(vb, vb1) /\ GetMapKey(vb1) = GetMapKey(vb)
  <2> TAKE vb \in vbs2
  <2>1. vb \in VolumeBinding
    BY <1>1
  <2>2. CASE Same(vb) = {}
    BY <2>1, <2>2
  <2>3. CASE Same(vb) # {}
    <3>1. PICK vb1 \in Same(vb) : To(vb) = AddQuota(vb, vb1)
      BY <2>3
    <3>2. vb1 \in VolumeBinding /\ vb1 \in vbs1 /\ GetMapKey(vb1) = GetMapKey(vb)
      BY <1>1
    <3> HIDE DEF To
    <3>3. AddQuota(vb, vb1) \in VolumeBinding
      BY <2>1, <3>2, QuotasAddUp
    <3>4. GetMapKey(AddQuota(vb, vb1)) = GetMapKey(vb)
      BY <2>1 DEF AddQuota, GetMapKey, VolumeBinding
    <3> QED
      BY <3>1, <3>2, <3>3, <3>4
  <2> QED
    BY <2>2, <2>3
<1> HIDE DEF To, Fresh, alone, all
<1>7. \A vb \in vbs2 : g[vb] = To(vb)
  OBVIOUS
<1> HIDE DEF g
<1>8. all = Unlike(vbs1, vbs2) \cup {g[vb] : vb \in vbs2}
  <2>1. UNION {Fresh(vb) : vb \in vbs2} = {g[vb] : vb \in vbs2}
    BY <1>3, <1>7
  <2> QED
    BY <1>4, <1>5, <2>1
<1>9. MergeVolumeBindings(vbs1, vbs2) = {vb \in all : vb.size >= 0}
  BY DEF MergeVolumeBindings, all
<1>10. \A vb \in vbs2 :
          /\ g[vb] \in VolumeBinding /\ GetMapKey(g[vb]) = GetMapKey(vb)
          /\ \/ g[vb] = vb
             \/ \E vb1 \in vbs1 : g[vb] = AddQuota(vb, vb1) /\ GetMapKey(vb1) = GetMapKey(vb)
  BY <1>6, <1>7
<1>11. IsMerge(MergeVolumeBindings(vbs1, vbs2), vbs1, vbs2, g)
  BY <1>8, <1>9, <1>10 DEF IsMerge
<1> QED
  BY <1>11

\* What is merged is alike to what was there or to what was asked for
LEMMA MergedKeys ==
    ASSUME NEW vbs1 \in Bindings, Distinct(vbs1), NEW vbs2 \in Bindings,
           NEW vb \in MergeVolumeBindings(vbs1, vbs2)
    PROVE  \E vb1 \in vbs1 \cup vbs2 : GetMapKey(vb1) = GetMapKey(vb)
<1>1. PICK g : IsMerge(MergeVolumeBindings(vbs1, vbs2), vbs1, vbs2, g)
  BY MergedParts
<1>2. vb \in vbs1 \/ \E vb1 \in vbs2 : vb = g[vb1]
  BY <1>1 DEF IsMerge, Unlike
<1> QED
  BY <1>1, <1>2 DEF IsMerge

\* A binding that is to be placed has a key that says so
LEMMA KeysDecide ==
    ASSUME NEW vb, NEW vb1, GetMapKey(vb) = GetMapKey(vb1)
    PROVE  /\ vb.source = vb1.source /\ vb.dest = vb1.dest /\ vb.mono = vb1.mono
           /\ RequireSchedule(vb) = RequireSchedule(vb1)
BY DEF GetMapKey, RequireSchedule

\* Mounts merged into bindings leave those that are placed alone
LEMMA MountsMerged ==
    ASSUME NEW vbs1 \in Bindings, Distinct(vbs1), \A vb \in vbs1 : ~RequireSchedule(vb),
           NEW vbs2 \in Bindings, Sizes(vbs2)
    PROVE  Scheduled(MergeVolumeBindings(vbs1, vbs2)) = Scheduled(vbs2)
<1> DEFINE merged == MergeVolumeBindings(vbs1, vbs2)
<1>1. PICK g : IsMerge(merged, vbs1, vbs2, g)
  BY MergedParts
<1>2. \A vb \in Scheduled(vbs2) : vb \in vbs2 /\ g[vb] = vb
  BY <1>1, KeysDecide DEF Scheduled, IsMerge
<1>3. \A vb \in vbs2 : RequireSchedule(g[vb]) => vb \in Scheduled(vbs2)
  BY <1>1, KeysDecide DEF Scheduled, IsMerge
<1>4. merged = {vb \in Unlike(vbs1, vbs2) \cup {g[vb] : vb \in vbs2} : vb.size >= 0}
  BY <1>1 DEF IsMerge
<1> HIDE DEF merged
<1>5. ASSUME NEW vb \in Scheduled(vbs2)
      PROVE  vb \in Scheduled(merged)
  <2>1. vb \in {g[vb1] : vb1 \in vbs2} /\ RequireSchedule(vb) /\ vb.size >= 0
    BY <1>2 DEF Scheduled, Sizes
  <2> QED
    BY <1>4, <2>1 DEF Scheduled
<1>6. ASSUME NEW vb \in Scheduled(merged)
      PROVE  vb \in Scheduled(vbs2)
  <2>1. RequireSchedule(vb) /\ vb \in Unlike(vbs1, vbs2) \cup {g[vb1] : vb1 \in vbs2}
    BY <1>4 DEF Scheduled
  <2>2. PICK vb1 \in vbs2 : vb = g[vb1]
    BY <2>1 DEF Unlike
  <2>3. vb1 \in Scheduled(vbs2)
    BY <1>3, <2>1, <2>2
  <2> QED
    BY <1>2, <2>2, <2>3
<1> QED
  BY <1>5, <1>6 DEF merged

\* If they bring no rates and take back nothing, the disks are asked for no more
\* and no less
LEMMA MountsBringNothing ==
    ASSUME NEW vbs1 \in Bindings, Distinct(vbs1),
           \A vb \in vbs1 : ~RequireSchedule(vb) /\ vb.io = NoIO /\ vb.size >= 0,
           NEW vbs2 \in Bindings, Distinct(vbs2), Sizes(vbs2), NEW disks, NEW p,
           Matches(p, vbs2, disks)
    PROVE  Matches(p, MergeVolumeBindings(vbs1, vbs2), disks)
<1> DEFINE merged == MergeVolumeBindings(vbs1, vbs2)
<1>1. PICK g : IsMerge(merged, vbs1, vbs2, g)
  BY MergedParts
<1>2. vbs1 \in SUBSET VolumeBinding /\ vbs2 \in SUBSET VolumeBinding /\ IsFiniteSet(vbs2)
  BY DEF Bindings
<1>3. \A vb \in vbs2 : /\ g[vb] \in VolumeBinding /\ GetMapKey(g[vb]) = GetMapKey(vb)
                       /\ g[vb].size >= 0 /\ g[vb].io = vb.io
                       /\ RequireSchedule(vb) => g[vb] = vb
  <2> TAKE vb \in vbs2
  <2>1. vb \in VolumeBinding /\ vb.io \in IO /\ vb.size \in Int /\ vb.size >= 0
    BY <1>2, BindingParts DEF Sizes
  <2>2. g[vb] \in VolumeBinding /\ GetMapKey(g[vb]) = GetMapKey(vb)
    BY <1>1 DEF IsMerge
  <2>3. CASE g[vb] = vb
    BY <2>1, <2>2, <2>3
  <2>4. CASE \E vb1 \in vbs1 : g[vb] = AddQuota(vb, vb1) /\ GetMapKey(vb1) = GetMapKey(vb)
    <3>1. PICK vb1 \in vbs1 : g[vb] = AddQuota(vb, vb1) /\ GetMapKey(vb1) = GetMapKey(vb)
      BY <2>4
    <3>2. vb1.size \in Int /\ vb1.size >= 0 /\ vb1.io = NoIO /\ ~RequireSchedule(vb1)
      BY <1>2, BindingParts
    <3>3. ~RequireSchedule(vb)
      BY <3>1, <3>2, KeysDecide
    <3>4. g[vb].size = vb.size + vb1.size /\ g[vb].io = AddIO(vb.io, NoIO)
      BY <2>1, <3>1, <3>2 DEF AddQuota, VolumeBinding
    <3>5. AddIO(vb.io, NoIO) = vb.io
      BY <2>1 DEF AddIO, NoIO, IO
    <3> QED
      BY <2>1, <2>2, <3>2, <3>3, <3>4, <3>5
  <2> QED
    BY <1>1, <2>3, <2>4 DEF IsMerge
<1>4. merged = Unlike(vbs1, vbs2) \cup {g[vb] : vb \in vbs2}
  <2>1. \A vb \in Unlike(vbs1, vbs2) \cup {g[vb1] : vb1 \in vbs2} : vb.size >= 0
    BY <1>3 DEF Unlike
  <2> QED
    BY <1>1, <2>1 DEF IsMerge
<1> HIDE DEF merged
<1> SUFFICES ASSUME NEW name \in DOMAIN disks, NEW rate \in Rates
             PROVE  UsedOf(p.disks, name)[rate]
                      = SumOver(RateOf(rate), OnDisk(disks, p.plan, merged, name))
  BY DEF Matches, merged
<1> DEFINE T == OnDisk(disks, p.plan, vbs2, name)
           T1 == OnDisk(disks, p.plan, Unlike(vbs1, vbs2), name)
           T2 == {g[vb] : vb \in T}
<1>5. \A vb \in vbs2 : PathIn(p.plan, g[vb]) = PathIn(p.plan, vb)
  BY <1>3, KeysDecide DEF PathIn
<1>6. OnDisk(disks, p.plan, merged, name) = T1 \cup T2
  BY <1>4, <1>5 DEF OnDisk
<1>7. T \in SUBSET vbs2 /\ IsFiniteSet(T) /\ T1 \in SUBSET vbs1
  <2>1. T \in SUBSET vbs2 /\ T1 \in SUBSET vbs1
    BY DEF OnDisk, Unlike
  <2> QED
    BY <1>2, <2>1, FS_Subset
<1>8. T1 \cap T2 = {}
  BY <1>3 DEF OnDisk, Unlike
<1> HIDE DEF T, T1
<1>9. \A x \in T : \A y \in T : g[x] = g[y] => x = y
  BY <1>3, <1>7 DEF Distinct
<1>10. \A x \in T : RateOf(rate)[g[x]] \in Int /\ RateOf(rate)[x] = RateOf(rate)[g[x]]
  <2> TAKE x \in T
  <2>1. /\ x \in VolumeBinding /\ x.io \in IO /\ g[x].io = x.io
        /\ g[x] \in VolumeBinding
    BY <1>2, <1>3, <1>7, BindingParts
  <2> QED
    BY <2>1 DEF RateOf, IO
<1>11. SumOver(RateOf(rate), T2) = SumOver(RateOf(rate), T)
  <2> HIDE DEF RateOf
  <2> QED
    BY <1>7, <1>9, <1>10, SumMoves
<1>12. IsFiniteSet(T1) /\ \A x \in T1 : RateOf(rate)[x] = 0
  <2>1. IsFiniteSet(T1)
    BY <1>7, FS_Subset DEF Bindings
  <2>2. \A x \in T1 : x \in VolumeBinding /\ x.io = NoIO
    BY <1>2, <1>7
  <2> QED
    BY <2>1, <2>2 DEF RateOf, NoIO
<1>13. SumOver(RateOf(rate), T1) = 0
  BY <1>12, SumOfZeros
<1>14. Integral(RateOf(rate), T1) /\ Integral(RateOf(rate), T2)
  <2>1. IsFiniteSet(T2)
    BY <1>7, ImageIsFinite
  <2> QED
    BY <1>10, <1>12, <2>1 DEF Integral
<1>15. SumOver(RateOf(rate), T1 \cup T2) = SumOver(RateOf(rate), T1) + SumOver(RateOf(rate), T2)
  BY <1>8, <1>14, SumJoins
<1>16. SumOver(RateOf(rate), T) \in Int
  BY <1>7, RatesAreIntegral
<1>17. UsedOf(p.disks, name)[rate] = SumOver(RateOf(rate), T)
  BY DEF Matches, T
<1> HIDE DEF T2
<1> QED
  BY <1>6, <1>11, <1>13, <1>15, <1>16, <1>17

\* Bindings that are placed because some request asked for them
Requested(vbs) ==
    \A vb \in Scheduled(vbs) :
        \E req \in DeployRequests \cup ReallocRequests :
            \E vb1 \in req.vbs : /\ RequireSchedule(vb1)
                                 /\ vb1.dest = vb.dest /\ vb1.mono = vb.mono

LEMMA RequestedAreDestined ==
    ASSUME KindsAgree, NEW vbs, Requested(vbs), Distinct(vbs)
    PROVE  Destined(vbs)
<1> SUFFICES ASSUME NEW vb \in Scheduled(vbs), NEW vb1 \in Scheduled(vbs), vb.dest = vb1.dest
             PROVE  vb = vb1
  BY DEF Destined
<1>1. PICK req \in DeployRequests \cup ReallocRequests : \E by \in req.vbs :
         RequireSchedule(by) /\ by.dest = vb.dest /\ by.mono = vb.mono
  BY DEF Requested
<1>2. PICK req1 \in DeployRequests \cup ReallocRequests : \E by1 \in req1.vbs :
         RequireSchedule(by1) /\ by1.dest = vb1.dest /\ by1.mono = vb1.mono
  BY DEF Requested
<1>3. vb.mono = vb1.mono
  <2>1. PICK by \in req.vbs : RequireSchedule(by) /\ by.dest = vb.dest /\ by.mono = vb.mono
    BY <1>1
  <2>2. PICK by1 \in req1.vbs : RequireSchedule(by1) /\ by1.dest = vb1.dest /\ by1.mono = vb1.mono
    BY <1>2
  <2> QED
    BY <2>1, <2>2 DEF KindsAgree
<1>4. GetMapKey(vb) = GetMapKey(vb1) /\ vb \in vbs /\ vb1 \in vbs
  BY <1>1, <1>2, <1>3 DEF GetMapKey, Scheduled, RequireSchedule
<1> QED
  BY <1>4 DEF Distinct

\* A workload whose bindings have been given what they asked for
WorkPlaced(work) ==
    /\ DOMAIN work.plan = Scheduled(work.vbs)
    /\ \A vb \in Scheduled(work.vbs) : work.plan[vb].size >= Due(vb)
    /\ Together(work.plan) /\ Requested(work.vbs)

WorksPlaced(works) == \A id \in Ids : works[id] = Nil \/ WorkPlaced(works[id])
WorkMatches(work, disks) ==
    Matches(work, work.vbs, disks) /\ work.disks \in DiskPlansOn(DOMAIN disks)
WorksMatch(works, disks) == \A id \in Ids : works[id] = Nil \/ WorkMatches(works[id], disks)

\* The host as it is made has the disks of the node
LEMMA NewHostIsLike ==
    ASSUME NEW inf, Sound(inf)
    PROVE  \E D \in SUBSET Devices, N \in SUBSET DiskNames :
              NewHost(inf) \in LikeHosts(D, N, inf.capacity.disks)
<1>1. PICK N \in SUBSET DiskNames, M \in SUBSET DiskNames :
         /\ DOMAIN inf.capacity.volumes \in SUBSET Devices
         /\ inf.capacity \in CapacitiesOn(DOMAIN inf.capacity.volumes, N) /\ inf.usage \in UsagesOn(M)
  BY RecordParts
<1>2. PICK D \in SUBSET Devices : D = DOMAIN inf.capacity.volumes
  BY <1>1
<1>3. NewHost(inf) \in HostsOn(D, N)
  BY <1>1, <1>2, NewHostIsOn
<1>4. \A name \in DOMAIN inf.capacity.disks : inf.capacity.disks[name] \in DiskCapacity
  BY <1>1 DEF CapacitiesOn
<1>5. SameMounts(inf.capacity.disks, NewHost(inf).disks)
  BY <1>4 DEF SameMounts, NewHost, DiskCapacity
<1> QED
  BY <1>3, <1>5 DEF LikeHosts

\* calculate-deploy gives every workload what is asked for
LEMMA DeployedArePlaced ==
    ASSUME NEW inf, Sound(inf), NEW req \in DeployRequests, NEW count \in Nat,
           NEW deployed, deployed = Deployed(inf, count, req), deployed.ok
    PROVE  \A i \in DOMAIN deployed.works :
              /\ WorkPlaced(deployed.works[i])
              /\ Matches(deployed.works[i], deployed.works[i].vbs, inf.capacity.disks)
<1> DEFINE plans == IF NeedSchedule(req.vbs) THEN GetVolumePlans(inf, req.vbs, count)
                    ELSE Repeat(count, NoPlan)
           storage == Folded(req).storage
           Work(p) == [vbs |-> req.vbs, plan |-> p.plan, disks |-> p.disks, storage |-> storage]
           works == [i \in DOMAIN plans |-> Work(plans[i])]
           enough == Len(plans) >= count
           disks == inf.capacity.disks
           vbs == req.vbs
<1>1. ValidRequest(req) /\ deployed = [ok |-> enough, works |-> works]
  BY DEF Deployed
<1>2. Wishes(req) /\ \A vb \in vbs, vb1 \in vbs : vb.dest = vb1.dest => vb = vb1
  BY RequestsAreWishes, BooksInputsAssumption
<1>3. RequestOk(vbs)
  BY <1>1, <1>2 DEF RequestOk, ValidRequest, Wishes
<1>4. Destined(vbs) /\ Requested(vbs)
  BY <1>2 DEF Destined, Requested, Scheduled
<1>5. PICK D \in SUBSET Devices, N \in SUBSET DiskNames : NewHost(inf) \in LikeHosts(D, N, disks)
  BY NewHostIsLike
<1>6. plans = VolumePlansOn(NewHost(inf), vbs, count)
  BY DEF GetVolumePlans, VolumePlansOn
<1> HIDE DEF plans, vbs, disks
<1>7. AllMeet(plans, vbs, disks)
  BY <1>3, <1>4, <1>5, <1>6, VolumePlansMeet
<1>8. DOMAIN plans = 1..Len(plans)
  <2>1. NewHost(inf) \in HostsOn(D, N)
    BY <1>5 DEF LikeHosts
  <2>2. plans \in Seq(PlannedOn(D, N))
    BY <1>3, <1>6, <2>1, VolumePlansAreOn
  <2> QED
    BY <2>2, MembersAreIn
<1>9. \A i \in DOMAIN plans : WorkPlaced(Work(plans[i])) /\ Matches(Work(plans[i]), vbs, disks)
  <2> TAKE i \in DOMAIN plans
  <2>1. Meets(plans[i], vbs, disks)
    BY <1>7, <1>8 DEF AllMeet
  <2>2. /\ Work(plans[i]).plan = plans[i].plan /\ Work(plans[i]).disks = plans[i].disks
        /\ Work(plans[i]).vbs = vbs
    BY DEF vbs
  <2> HIDE DEF Work
  <2> QED
    BY <1>4, <2>1, <2>2 DEF WorkPlaced, Meets, Matches
<1>10. \A i \in DOMAIN works : WorkPlaced(works[i]) /\ Matches(works[i], works[i].vbs, disks)
  <2>1. \A i \in DOMAIN works : works[i] = Work(plans[i]) /\ works[i].vbs = vbs
    BY DEF vbs
  <2> HIDE DEF Work
  <2>2. DOMAIN works = DOMAIN plans
    OBVIOUS
  <2> HIDE DEF works
  <2> QED
    BY <1>9, <2>1, <2>2
<1>11. deployed.works = works
  <2> HIDE DEF works, enough
  <2> QED
    BY <1>1
<1> HIDE DEF works
<1> QED
  BY <1>10, <1>11 DEF disks

\* What is merged is requested if what was there is
LEMMA MergedAreRequested ==
    ASSUME NEW work, work.vbs \in Bindings, Requested(work.vbs),
           NEW req \in ReallocRequests
    PROVE  Requested(MergeVolumeBindings(req.vbs, work.vbs))
<1> SUFFICES ASSUME NEW vb \in Scheduled(MergeVolumeBindings(req.vbs, work.vbs))
             PROVE  \E req1 \in DeployRequests \cup ReallocRequests : \E vb1 \in req1.vbs :
                       RequireSchedule(vb1) /\ vb1.dest = vb.dest /\ vb1.mono = vb.mono
  BY DEF Requested
<1>1. req.vbs \in Bindings /\ Distinct(req.vbs)
  BY RequestsAreWishes DEF Wishes
<1>2. PICK vb1 \in req.vbs \cup work.vbs : GetMapKey(vb1) = GetMapKey(vb)
  BY <1>1, MergedKeys DEF Scheduled
<1>3. RequireSchedule(vb1) /\ vb1.dest = vb.dest /\ vb1.mono = vb.mono
  BY <1>2, KeysDecide DEF Scheduled
<1>4. CASE vb1 \in req.vbs
  BY <1>3, <1>4
<1>5. CASE vb1 \in work.vbs
  <2>1. vb1 \in Scheduled(work.vbs)
    BY <1>3, <1>5 DEF Scheduled
  <2>2. PICK req1 \in DeployRequests \cup ReallocRequests : \E vb2 \in req1.vbs :
           RequireSchedule(vb2) /\ vb2.dest = vb1.dest /\ vb2.mono = vb1.mono
    BY <2>1 DEF Requested
  <2> QED
    BY <1>3, <2>2
<1> QED
  BY <1>2, <1>4, <1>5

\* calculate-realloc gives a workload what it asks for now, and every binding
\* it had the device it was on
LEMMA ReallocatedIsPlaced ==
    ASSUME KindsAgree, NEW inf, Sound(inf), NEW D, D = DOMAIN inf.capacity.volumes,
           NEW work, WorkOk(work), WorkSized(work, D), WorkPlaced(work),
           NEW req \in ReallocRequests, NEW target, target = Reallocated(inf, work, req), target.ok
    PROVE  /\ WorkPlaced(target.work) /\ Stays(target.work.plan, work.plan)
           /\ Matches(work, work.vbs, inf.capacity.disks) /\ MountsOnlyGrow
              => Matches(target.work, target.work.vbs, inf.capacity.disks)
<1> DEFINE merged == Merged(work, req)
           to == IF NeedSchedule(req.vbs)
                 THEN GetAffinityPlan(inf, merged.vbs, work.plan, work.vbs)
                 ELSE [ok |-> TRUE, plan |-> work.plan, disks |-> work.disks]
           disks == inf.capacity.disks
<1>1. /\ ValidRequest(merged)
      /\ target = [ok |-> to.ok, work |-> [vbs |-> merged.vbs, storage |-> merged.storage,
                                           plan |-> to.plan, disks |-> to.disks]]
  BY DEF Reallocated, Replanned
<1>2. PICK vbs : vbs = merged.vbs
  OBVIOUS
<1>3. vbs = MergeVolumeBindings(req.vbs, work.vbs)
  BY <1>2 DEF Merged
<1>4. Wishes(req) /\ req.vbs \in Bindings /\ Distinct(req.vbs)
  BY RequestsAreWishes DEF Wishes
<1>5. /\ work.vbs \in Bindings /\ Distinct(work.vbs) /\ Sizes(work.vbs)
      /\ Requested(work.vbs) /\ Together(work.plan)
      /\ DOMAIN work.plan = Scheduled(work.vbs) /\ work.plan \in PlansOn(D)
  BY DEF WorkOk, WorkSized, WorkPlaced
<1>6. vbs \in Bindings /\ Distinct(vbs) /\ Requested(vbs)
  BY <1>3, <1>4, <1>5, MergedBindingsStay, MergedAreRequested
<1>7. Distinct(DOMAIN work.plan)
  BY <1>5 DEF Distinct, Scheduled
<1>8. RequestOk(vbs)
  BY <1>1, <1>2, <1>6 DEF RequestOk, ValidRequest
<1>9. Destined(vbs)
  BY <1>6, RequestedAreDestined
<1>10. CASE NeedSchedule(req.vbs)
  <2>1. to = GetAffinityPlan(inf, vbs, work.plan, work.vbs) /\ to.ok
    BY <1>1, <1>2, <1>10
  <2> HIDE DEF to
  <2>2. Meets(to, vbs, disks) /\ Stays(to.plan, work.plan)
    <3>1. CASE NeedSchedule(vbs)
      <4>1. PICK E \in SUBSET Devices, N \in SUBSET DiskNames : NewHost(inf) \in LikeHosts(E, N, disks)
        BY NewHostIsLike
      <4>2. to = AffinityPlanOn(NewHost(inf), ClassifyVolumeBindings(vbs), work.plan, work.vbs)
        BY <2>1, <3>1 DEF GetAffinityPlan
      <4>3. PICK old \in PlansOn(D) : old = work.plan
        BY <1>5
      <4>4. PICK was \in Bindings : was = work.vbs
        BY <1>5
      <4>5. Distinct(DOMAIN old) /\ Together(old)
        BY <1>5, <1>7, <4>3
      <4>6. to = AffinityPlanOn(NewHost(inf), ClassifyVolumeBindings(vbs), old, was)
        BY <4>2, <4>3, <4>4
      <4> HIDE DEF disks
      <4>7. Meets(to, vbs, disks) /\ Stays(to.plan, old)
        BY <1>8, <1>9, <2>1, <4>1, <4>5, <4>6, AffinityPlanMeets
      <4> QED
        BY <4>3, <4>7
    <3>2. CASE ~NeedSchedule(vbs)
      <4>1. to.plan = EmptyPlan /\ to.disks = NoDisks
        BY <2>1, <3>2 DEF GetAffinityPlan, Refused
      <4>2. \A vb \in vbs : ~RequireSchedule(vb) /\ ~RequireIOPS(vb) /\ Covers(vb.io, NoIO) /\ vb.io \in IO
        BY <1>6, <1>8, <3>2, BindingParts DEF NeedSchedule, RequestOk, ValidBindings, Bindings
      <4>3. \A vb \in vbs : \A rate \in Rates : vb.io[rate] = 0
        BY <4>2 DEF RequireIOPS, Covers, NoIO, IO
      <4>4. \A name : \A rate \in Rates : UsedOf(to.disks, name)[rate] = 0
        BY <4>1 DEF UsedOf, NoDisks, NoIO
      <4>5. Meets(to, vbs, disks)
        BY <1>6, <4>1, <4>2, <4>3, <4>4, NothingMeets
      <4>6. Stays(to.plan, work.plan)
        BY <4>1 DEF Stays, EmptyPlan
      <4> QED
        BY <4>5, <4>6
    <3> QED
      BY <3>1, <3>2
  <2>3. target.work.vbs = vbs /\ target.work.plan = to.plan /\ target.work.disks = to.disks
    BY <1>1, <1>2
  <2>4. WorkPlaced(target.work)
    BY <1>6, <2>2, <2>3 DEF WorkPlaced, Meets
  <2>5. Matches(target.work, target.work.vbs, disks)
    BY <2>2, <2>3 DEF Meets, Matches
  <2> QED
    BY <2>2, <2>3, <2>4, <2>5
<1>11. CASE ~NeedSchedule(req.vbs)
  <2>1. target.work.vbs = vbs /\ target.work.plan = work.plan /\ target.work.disks = work.disks
    BY <1>1, <1>2, <1>11
  <2> HIDE DEF to
  <2>2. \A vb \in req.vbs : ~RequireSchedule(vb)
    BY <1>11 DEF NeedSchedule
  <2>3. Scheduled(vbs) = Scheduled(work.vbs)
    BY <1>3, <1>4, <1>5, <2>2, MountsMerged
  <2>4. WorkPlaced(target.work)
    BY <1>5, <1>6, <2>1, <2>3 DEF WorkPlaced
  <2>5. Stays(target.work.plan, work.plan)
    BY <1>7, <2>1 DEF Stays, Distinct
  <2>6. ASSUME Matches(work, work.vbs, disks), MountsOnlyGrow
        PROVE  Matches(target.work, target.work.vbs, disks)
    <3>1. \A vb \in req.vbs : ~RequireSchedule(vb) /\ vb.io = NoIO /\ vb.size >= 0
      BY <1>11, <2>2, <2>6 DEF MountsOnlyGrow
    <3>2. Matches(work, vbs, disks)
      <4>1. PICK vbs1 \in Bindings : vbs1 = req.vbs
        BY <1>4
      <4>2. PICK vbs2 \in Bindings : vbs2 = work.vbs
        BY <1>5
      <4> HIDE DEF disks
      <4>3. Matches(work, MergeVolumeBindings(vbs1, vbs2), disks)
        BY <1>4, <1>5, <2>6, <3>1, <4>1, <4>2, MountsBringNothing
      <4> QED
        BY <1>3, <4>1, <4>2, <4>3
    <3> QED
      BY <2>1, <3>2 DEF Matches
  <2> QED
    BY <2>4, <2>5, <2>6
<1> QED
  BY <1>10, <1>11

\* What an enrolled id holds, it held or was answered
Enrolls(next, works) ==
    \A id \in Ids : next[id] = workload[id] \/ \E i \in DOMAIN works : next[id] = works[i]

LEMMA EnrolledAre ==
    ASSUME NEW works, NEW size \in Nat, DOMAIN works = 1..size,
           NEW count \in Nat, count <= size, NEW next, next = Enrolled(works, count)
    PROVE  Enrolls(next, works)
<1> DEFINE ids == NewIds
<1> HIDE DEF ids
<1>1. next = [id \in Ids |-> IF \E i \in 1..count : ids[i] = id
                             THEN works[CHOOSE i \in 1..count : ids[i] = id]
                             ELSE workload[id]]
  BY DEF Enrolled, ids
<1> SUFFICES ASSUME NEW id \in Ids
             PROVE  next[id] = workload[id] \/ \E i \in DOMAIN works : next[id] = works[i]
  BY DEF Enrolls
<1>2. next[id] = IF \E i \in 1..count : ids[i] = id
                 THEN works[CHOOSE i \in 1..count : ids[i] = id]
                 ELSE workload[id]
  BY <1>1
<1>3. CASE \E i \in 1..count : ids[i] = id
  <2>1. PICK i \in 1..count : next[id] = works[i]
    BY <1>2, <1>3
  <2>2. i \in DOMAIN works
    BY <2>1
  <2> QED
    BY <2>1, <2>2
<1>4. CASE ~ \E i \in 1..count : ids[i] = id
  BY <1>2, <1>4
<1> QED
  BY <1>3, <1>4

\* Workloads whose bindings have what they asked for, on a node whose requests
\* agree; and workloads charged for the disks they are on as well
PInv == TInv /\ KindsAgree /\ WorksPlaced(workload)
MInv == PInv /\ MountsOnlyGrow /\ WorksMatch(workload, info.capacity.disks)

\* A deploy only adds such workloads
LEMMA DeployGives ==
    TInv /\ Deploy =>
        /\ info'.capacity = info.capacity
        /\ \A id \in Ids : \/ workload'[id] = workload[id]
                           \/ /\ WorkPlaced(workload'[id])
                              /\ WorkMatches(workload'[id], info.capacity.disks)
<1> DEFINE D == DOMAIN info.capacity.volumes
           disks == info.capacity.disks
<1> SUFFICES ASSUME TInv, Deploy
             PROVE  /\ info'.capacity = info.capacity
                    /\ \A id \in Ids : \/ workload'[id] = workload[id]
                                       \/ /\ WorkPlaced(workload'[id])
                                          /\ WorkMatches(workload'[id], disks)
  OBVIOUS
<1>1. PICK req \in DeployRequests, count \in 1..MaxWorkloads :
         /\ ops < MaxOps /\ ops' = ops + 1
         /\ LET deployed == Deployed(info, count, req)
            IN  /\ deployed.ok /\ Store(Book(info, HeldBy(deployed.works), TRUE))
                /\ workload' = Enrolled(deployed.works, count)
  BY DEF Deploy
<1>2. PICK deployed : deployed = Deployed(info, count, req)
  OBVIOUS
<1> DEFINE works == deployed.works
           taken == HeldBy(works)
           next == Enrolled(works, count)
           result == Book(info, taken, TRUE)
<1>3. deployed.ok /\ result.ok /\ info' = result.info /\ workload' = next
  BY <1>1, <1>2 DEF Store
<1>4. count \in Nat /\ Wishes(req) /\ IsInfo(info) /\ Sound(info) /\ Folded(req).storage >= 0
  <2>1. ValidRequest(req)
    BY <1>2, <1>3 DEF Deployed
  <2> QED
    BY <2>1, BooksBoundsAssumption, RequestsAreWishes, DeploysAskForSomething
    DEF TInv, IInv, Sound
<1>5. /\ Len(works) \in Nat /\ DOMAIN works = 1..Len(works) /\ count <= Len(works)
      /\ \A i \in DOMAIN works : WorkOk(works[i])
  BY <1>2, <1>3, <1>4, DeployedAreOk
<1>6. \A i \in DOMAIN works : WorkPlaced(works[i]) /\ WorkMatches(works[i], disks)
  BY <1>2, <1>3, <1>4, DeployedArePlaced, DeployedAreOnDisks DEF WorkMatches
<1> HIDE DEF works, disks
<1>7. AreTaken(taken)
  BY <1>5, HeldAreTaken
<1>8. Enrolls(next, works)
  <2>1. next = Enrolled(works, count)
    OBVIOUS
  <2>2. PICK size \in Nat : size = Len(works)
    BY <1>5
  <2>3. DOMAIN works = 1..size /\ count <= size /\ count \in Nat
    BY <1>4, <1>5, <2>2
  <2> HIDE DEF next
  <2> QED
    BY <2>1, <2>3, EnrolledAre
<1> HIDE DEF taken, next
<1>9. result.info.capacity = info.capacity
  BY <1>3, <1>4, <1>7, BookingStores
<1> HIDE DEF result
<1>10. ASSUME NEW id \in Ids
       PROVE  \/ workload'[id] = workload[id]
              \/ WorkPlaced(workload'[id]) /\ WorkMatches(workload'[id], disks)
  BY <1>3, <1>6, <1>8 DEF Enrolls
<1> QED
  BY <1>3, <1>9, <1>10

\* So does a realloc, if the workload it changes was one
LEMMA ReallocGives ==
    TInv /\ KindsAgree /\ WorksPlaced(workload) /\ Realloc =>
        /\ info'.capacity = info.capacity
        /\ WorksPlaced(workload')
        /\ MountsOnlyGrow /\ WorksMatch(workload, info.capacity.disks)
             => WorksMatch(workload', info.capacity.disks)
<1> DEFINE D == DOMAIN info.capacity.volumes
           disks == info.capacity.disks
<1> SUFFICES ASSUME TInv, KindsAgree, WorksPlaced(workload), Realloc
             PROVE  /\ info'.capacity = info.capacity
                    /\ WorksPlaced(workload')
                    /\ MountsOnlyGrow /\ WorksMatch(workload, disks) => WorksMatch(workload', disks)
  OBVIOUS
<1>1. PICK id \in Live, req \in ReallocRequests :
         /\ ops < MaxOps /\ ops' = ops + 1
         /\ LET target == Reallocated(info, workload[id], req)
            IN  /\ target.ok
                /\ Store(Book(info, <<ReallocDelta(workload[id], target.work)>>, TRUE))
                /\ workload' = [workload EXCEPT ![id] = target.work]
  BY DEF Realloc
<1>2. PICK target : target = Reallocated(info, workload[id], req)
  OBVIOUS
<1> DEFINE delta == ReallocDelta(workload[id], target.work)
           result == Book(info, <<delta>>, TRUE)
<1>3. target.ok /\ result.ok /\ info' = result.info /\ workload' = [workload EXCEPT ![id] = target.work]
  BY <1>1, <1>2 DEF Store
<1>4. /\ id \in Ids /\ workload[id] # Nil
      /\ WorkOk(workload[id]) /\ WorkSized(workload[id], D) /\ WorkPlaced(workload[id])
      /\ Wishes(req) /\ IsInfo(info) /\ Sound(info) /\ DOMAIN workload = Ids
  BY RequestsAreWishes DEF TInv, IInv, Live, WorksOk, WorksSized, WorksPlaced, Sound
<1>5. WorkOk(target.work)
  BY <1>2, <1>3, <1>4, ReallocatedIsOk
<1>6. /\ WorkPlaced(target.work)
      /\ WorkMatches(workload[id], disks) /\ MountsOnlyGrow => WorkMatches(target.work, disks)
  BY <1>2, <1>3, <1>4, ReallocatedIsPlaced, ReallocatedIsOnDisks DEF WorkMatches
<1>7. AreTaken(<<delta>>)
  <2>1. IsUsage(Held(target.work)) /\ IsUsage(Held(workload[id]))
    BY <1>4, <1>5, HeldIsUsage
  <2>2. IsUsage(delta)
    BY <2>1, TakeIsUsage DEF Take, ReallocDelta
  <2> QED
    BY <2>2, OneIsTaken
<1> HIDE DEF delta, disks, D
<1>8. result.info.capacity = info.capacity
  BY <1>3, <1>4, <1>7, BookingStores
<1> HIDE DEF result
<1>9. \A id1 \in Ids : workload'[id1] = IF id1 = id THEN target.work ELSE workload[id1]
  BY <1>3, <1>4
<1>10. WorksPlaced(workload')
  BY <1>6, <1>9 DEF WorksPlaced
<1>11. ASSUME MountsOnlyGrow, WorksMatch(workload, disks)
       PROVE  WorksMatch(workload', disks)
  BY <1>4, <1>6, <1>9, <1>11 DEF WorksMatch
<1> QED
  BY <1>3, <1>8, <1>10, <1>11

\* A workload that goes changes no other
LEMMA DiscardGives ==
    TInv /\ Discard =>
        /\ info'.capacity = info.capacity
        /\ \A id \in Ids : workload'[id] = workload[id] \/ workload'[id] = Nil
<1> SUFFICES ASSUME TInv, Discard
             PROVE  /\ info'.capacity = info.capacity
                    /\ \A id \in Ids : workload'[id] = workload[id] \/ workload'[id] = Nil
  OBVIOUS
<1>1. PICK id \in Live :
         /\ Store(Book(info, <<Held(workload[id])>>, FALSE))
         /\ workload' = [workload EXCEPT ![id] = Nil] /\ ops' = ops
  BY DEF Discard
<1> DEFINE held == Held(workload[id])
           result == Book(info, <<held>>, FALSE)
<1>2. result.ok /\ info' = result.info
  BY <1>1 DEF Store
<1>3. id \in Ids /\ WorkOk(workload[id]) /\ DOMAIN workload = Ids /\ Sound(info)
  BY DEF TInv, IInv, Live, WorksOk
<1>4. AreTaken(<<held>>)
  BY <1>3, HeldIsUsage, OneIsTaken
<1> HIDE DEF held
<1>5. result.info.capacity = info.capacity
  BY <1>2, <1>3, <1>4, BookingStores
<1> HIDE DEF result
<1>6. \A id1 \in Ids : workload'[id1] = workload[id1] \/ workload'[id1] = Nil
  BY <1>1, <1>3
<1> QED
  BY <1>2, <1>5, <1>6

\* No workload is there to begin with
LEMMA InitGives == Init => WorksPlaced(workload) /\ WorksMatch(workload, info.capacity.disks)
  BY DEF Init, WorksPlaced, WorksMatch

\* Every step keeps what the workloads were given
LEMMA NextKeepsPlaces == PInv /\ [Next]_vars => PInv'
<1> SUFFICES ASSUME PInv, [Next]_vars PROVE PInv'
  OBVIOUS
<1>1. TInv'
  BY NextKeepsTypes DEF PInv
<1>2. KindsAgree'
  BY DEF PInv, KindsAgree
<1>3. WorksPlaced(workload')
  <2>1. CASE Deploy
    BY <2>1, DeployGives DEF PInv, WorksPlaced
  <2>2. CASE Realloc
    BY <2>2, ReallocGives DEF PInv
  <2>3. CASE Discard
    BY <2>3, DiscardGives DEF PInv, WorksPlaced
  <2>4. CASE UNCHANGED vars
    BY <2>4 DEF PInv, vars
  <2> QED
    BY <2>1, <2>2, <2>3, <2>4 DEF Next
<1>4. WorksPlaced(workload)'
  BY <1>3 DEF WorksPlaced, WorkPlaced, Scheduled, Together, Requested, Ids
<1> QED
  BY <1>1, <1>2, <1>4 DEF PInv

\* And the disks they are charged for
LEMMA NextKeepsDisks == MInv /\ [Next]_vars => MInv'
<1> SUFFICES ASSUME MInv, [Next]_vars PROVE MInv'
  OBVIOUS
<1>1. PInv'
  BY NextKeepsPlaces DEF MInv
<1>2. MountsOnlyGrow'
  BY DEF MInv, MountsOnlyGrow
<1>3. WorksMatch(workload', info.capacity.disks) /\ info'.capacity = info.capacity
  <2>1. CASE Deploy
    BY <2>1, DeployGives DEF MInv, PInv, WorksMatch
  <2>2. CASE Realloc
    BY <2>2, ReallocGives DEF MInv, PInv
  <2>3. CASE Discard
    BY <2>3, DiscardGives DEF MInv, PInv, WorksMatch
  <2>4. CASE UNCHANGED vars
    BY <2>4 DEF MInv, vars
  <2> QED
    BY <2>1, <2>2, <2>3, <2>4 DEF Next
<1>4. WorksMatch(workload, info.capacity.disks)'
  BY <1>3 DEF WorksMatch, Ids
<1> QED
  BY <1>1, <1>2, <1>4 DEF MInv

\* After any deploys, reallocs and discards, every binding that is to be placed
\* is, with at least the size it asks for, of which a monopoly binding may lack a
\* byte though its group has all the sizes together, if the requests agree on
\* which destinations are monopolies: of two bindings a merge leaves for one
\* destination MergePlans would keep one plan.
THEOREM VolumesArePlaced == KindsAgree /\ Spec => []AllPlaced
<1>1. KindsAgree /\ Init => PInv
  BY InitIsTyped, InitGives DEF PInv
<1>2. PInv => AllPlaced
  <2> SUFFICES ASSUME PInv, NEW id \in Live, NEW work, work = workload[id]
               PROVE  LET mono == {vb \in DOMAIN work.plan : RequireScheduleMonopoly(vb)}
                      IN  /\ DOMAIN work.plan = {vb \in work.vbs : RequireSchedule(vb)}
                          /\ \A vb \in DOMAIN work.plan : work.plan[vb].size >= Due(vb)
                          /\ SumFunction([vb \in mono |-> work.plan[vb].size]) >= TotalSize(mono)
    BY DEF AllPlaced
  <2>1. WorkPlaced(work) /\ work.vbs \in SUBSET VolumeBinding
    BY DEF PInv, TInv, IInv, Live, WorksPlaced, WorksOk, WorkOk, Bindings
  <2> DEFINE mono == MonosOf(work.plan)
  <2>2. mono \in SUBSET VolumeBinding
    BY <2>1 DEF MonosOf, WorkPlaced, Scheduled
  <2>3. [vb \in mono |-> work.plan[vb].size] = [vb \in mono |-> SizesOf(work.plan)[vb]]
    BY DEF SizesOf, MonosOf
  <2>4. [vb \in mono |-> vb.size] = [vb \in mono |-> Asking[vb]]
    BY <2>2 DEF Asking
  <2>5. SumFunction([vb \in mono |-> work.plan[vb].size]) >= TotalSize(mono)
    BY <2>1, <2>3, <2>4 DEF WorkPlaced, Together, SumOver, TotalSize
  <2> QED
    BY <2>1, <2>5 DEF WorkPlaced, Scheduled, MonosOf
<1>3. KindsAgree /\ Init /\ [][Next]_vars => []AllPlaced
  BY <1>1, <1>2, NextKeepsPlaces, PTL
<1> QED
  BY <1>3, PTL DEF Spec

\* An accepted realloc leaves every binding that matches one placed before, by
\* source, destination and flags, on the device that one is on.
THEOREM DevicesAreKept == KindsAgree /\ Spec => []KeepsDevice
<1>1. KindsAgree /\ Init => PInv
  BY InitIsTyped, InitGives DEF PInv
<1>2. PInv => KeepsDevice
  <2> SUFFICES ASSUME PInv, NEW id \in Live, NEW req \in ReallocRequests,
                      Reallocated(info, workload[id], req).ok,
                      NEW vb \in Reallocated(info, workload[id], req).work.vbs,
                      NEW old \in DOMAIN workload[id].plan, GetMapKey(vb) = GetMapKey(old)
               PROVE  LET plan == Reallocated(info, workload[id], req).work.plan
                      IN  vb \in DOMAIN plan /\ plan[vb].device = workload[id].plan[old].device
    BY DEF KeepsDevice
  <2>1. PICK target : target = Reallocated(info, workload[id], req)
    OBVIOUS
  <2> DEFINE D == DOMAIN info.capacity.volumes
  <2>2. /\ WorkOk(workload[id]) /\ WorkSized(workload[id], D) /\ WorkPlaced(workload[id])
        /\ Sound(info) /\ KindsAgree
    BY DEF PInv, TInv, IInv, Live, WorksOk, WorksSized, WorksPlaced
  <2>3. WorkPlaced(target.work) /\ Stays(target.work.plan, workload[id].plan)
    BY <2>1, <2>2, ReallocatedIsPlaced
  <2>4. RequireSchedule(vb)
    BY <2>2, KeysDecide DEF WorkPlaced, Scheduled
  <2>5. vb \in DOMAIN target.work.plan
    BY <2>1, <2>3, <2>4 DEF WorkPlaced, Scheduled
  <2> QED
    BY <2>1, <2>3, <2>5 DEF Stays
<1>3. KindsAgree /\ Init /\ [][Next]_vars => []KeepsDevice
  BY <1>1, <1>2, NextKeepsPlaces, PTL
<1> QED
  BY <1>3, PTL DEF Spec

\* The rates a workload is charged for on each disk are, after any operations,
\* those its bindings on that disk ask for, the mounts at their paths and the
\* volumes at their devices; for requests that agree on monopolies, and
\* reallocs that ask no mounts for less without asking for a placement: of such
\* a one GetAffinityPlan is not called and the disks are carried over.
THEOREM DisksAreMatched == KindsAgree /\ MountsOnlyGrow /\ Spec => []DisksMatchPlan
<1>1. KindsAgree /\ MountsOnlyGrow /\ Init => MInv
  BY InitIsTyped, InitGives DEF PInv, MInv
<1>2. MInv => DisksMatchPlan
  <2> SUFFICES ASSUME MInv, NEW id \in Live,
                      NEW name \in DOMAIN info.capacity.disks, NEW rate \in Rates
               PROVE  LET work == workload[id]
                          PathOf(vb) == IF RequireSchedule(vb) THEN work.plan[vb].device ELSE vb.source
                          On(name1) == {vb \in work.vbs :
                                          GetDiskByPath(info.capacity.disks, PathOf(vb)) = name1}
                      IN  UsedOf(work.disks, name)[rate] = MapThenSumSet(LAMBDA vb : vb.io[rate], On(name))
    BY DEF DisksMatchPlan
  <2> DEFINE work == workload[id]
             On == OnDisk(info.capacity.disks, work.plan, work.vbs, name)
  <2>1. work.vbs \in Bindings /\ Matches(work, work.vbs, info.capacity.disks)
    BY DEF MInv, PInv, TInv, IInv, WorksOk, WorkOk, WorksMatch, WorkMatches, Live
  <2>2. UsedOf(work.disks, name)[rate] = SumOver(RateOf(rate), On)
    BY <2>1 DEF Matches
  <2>3. On \in Bindings
    <3>1. On \in SUBSET work.vbs
      BY DEF OnDisk
    <3> QED
      BY <2>1, <3>1, BindingParts, FS_Subset DEF Bindings
  <2>4. On = {vb \in work.vbs :
                 GetDiskByPath(info.capacity.disks,
                               IF RequireSchedule(vb) THEN work.plan[vb].device ELSE vb.source) = name}
    BY DEF OnDisk, PathIn
  <2> HIDE DEF On
  <2>5. UsedOf(work.disks, name)[rate] = MapThenSumSet(LAMBDA vb : vb.io[rate], On)
    BY <2>2, <2>3, RatesAreSummed
  <2> QED
    BY <2>4, <2>5
<1>3. KindsAgree /\ MountsOnlyGrow /\ Init /\ [][Next]_vars => []DisksMatchPlan
  BY <1>1, <1>2, NextKeepsDisks, PTL
<1> QED
  BY <1>3, PTL DEF Spec

-----------------------------------------------------------------------------
(* The books: what is used of a node is what its workloads hold.            *)

\* What the workloads hold, none where there is none
HeldIn(works, m) == [id \in Ids |-> IF works[id] = Nil THEN 0 ELSE Amount(Held(works[id]), m)]

\* Ids are finitely many, and what is held is an amount
LEMMA HeldInIsInt ==
    ASSUME NEW works, WorksOk(works), NEW m \in Measures
    PROVE  /\ IsFiniteSet(Ids) /\ \A id \in Ids : HeldIn(works, m)[id] \in Int
           /\ \A s \in SUBSET Ids : Integral(HeldIn(works, m), s)
<1>1. IsFiniteSet(Ids)
  BY BooksBoundsAssumption, FS_Interval DEF Ids
<1>2. ASSUME NEW id \in Ids
      PROVE  HeldIn(works, m)[id] \in Int
  <2>1. CASE works[id] = Nil
    BY <2>1 DEF HeldIn
  <2>2. CASE works[id] # Nil
    <3>1. IsUsage(Held(works[id]))
      BY <2>2, HeldIsUsage DEF WorksOk
    <3>2. Amount(Held(works[id]), m) \in Int
      BY <3>1, AmountsAdd
    <3> QED
      BY <2>2, <3>2 DEF HeldIn
  <2> QED
    BY <2>1, <2>2
<1>3. ASSUME NEW s \in SUBSET Ids
      PROVE  Integral(HeldIn(works, m), s)
  <2>1. IsFiniteSet(s)
    BY <1>1, FS_Subset
  <2> QED
    BY <1>2, <2>1 DEF Integral
<1> QED
  BY <1>1, <1>2, <1>3

\* One workload changes
LEMMA OneMoves ==
    ASSUME NEW works, WorksOk(works), NEW next, WorksOk(next), NEW id \in Ids,
           \A id1 \in Ids : id1 # id => next[id1] = works[id1], NEW m \in Measures
    PROVE  SumOver(HeldIn(next, m), Ids)
             = SumOver(HeldIn(works, m), Ids) - HeldIn(works, m)[id] + HeldIn(next, m)[id]
<1> DEFINE f == HeldIn(works, m)
           g == HeldIn(next, m)
           rest == Ids \ {id}
<1>1. \A id1 \in rest : f[id1] = g[id1]
  BY DEF HeldIn
<1>2. /\ Integral(f, Ids) /\ Integral(g, Ids) /\ Integral(f, rest)
      /\ f[id] \in Int /\ g[id] \in Int
  BY HeldInIsInt
<1> HIDE DEF f, g
<1>3. SumOver(f, Ids) = f[id] + SumOver(f, rest) /\ SumOver(g, Ids) = g[id] + SumOver(g, rest)
      /\ SumOver(f, rest) \in Int
  BY <1>2, SumSplits
<1> HIDE DEF rest
<1>4. SumOver(f, rest) = SumOver(g, rest)
  BY <1>1, SumSame
<1>5. SumOver(g, Ids) = SumOver(f, Ids) - f[id] + g[id]
  BY <1>2, <1>3, <1>4
<1> QED
  BY <1>5 DEF f, g

\* Core lists the ids that are free
LEMMA NewIdsAreListed == Lists(NewIds, Ids \ Live)
<1> DEFINE S == Ids \ Live
           lower == [x \in S |-> {y \in S : y < x}]
           r == NewIds
<1>1. IsFiniteSet(S) /\ S \subseteq Int
  <2>1. IsFiniteSet(Ids) /\ Ids \subseteq Int
    BY BooksBoundsAssumption, FS_Interval DEF Ids
  <2> QED
    BY <2>1, FS_Subset
<1>2. Orders(lower, S)
  <2>1. \A x \in S, y \in S : x = y \/ x < y \/ y < x
    BY <1>1
  <2>2. \A x \in S, y \in S : x < y => \A z \in S : z < x => z < y
    BY <1>1
  <2>3. \A x \in S : ~(x < x)
    BY <1>1
  <2> HIDE DEF S
  <2> QED
    BY <2>1, <2>2, <2>3 DEF Orders
<1>3. IsList(r, Cardinality(S))
  BY SMTT(30) DEF NewIds, Ranked, IsList
<1>4. \A i \in 1..Cardinality(S) : (\E x \in S : Cardinality(lower[x]) = i - 1)
         => r[i] \in S /\ Cardinality(lower[r[i]]) = i - 1
  <2> TAKE i \in 1..Cardinality(S)
  <2> HAVE \E x \in S : Cardinality(lower[x]) = i - 1
  <2>0. PICK x \in S : Cardinality(lower[x]) = i - 1
    OBVIOUS
  <2>1. Cardinality({y \in S : y < x}) = i - 1
    BY <2>0
  <2>2. r[i] = CHOOSE z \in S : Cardinality({y \in S : y < z}) = i - 1
    BY DEF NewIds, Ranked
  <2> HIDE DEF r, S
  <2>3. r[i] \in S /\ Cardinality({y \in S : y < r[i]}) = i - 1
    BY <2>1, <2>2
  <2> QED
    BY <2>3
<1> HIDE DEF lower, r, S
<1>5. Lists(r, S)
  BY <1>1, <1>2, <1>3, <1>4, OrderLists
<1> QED
  BY <1>5 DEF r, S

\* New workloads are added to what there was
LEMMA EnrolledMove ==
    ASSUME WorksOk(workload), NEW works, NEW count \in Nat, DOMAIN works = 1..count,
           \A i \in 1..count : WorkOk(works[i]) /\ works[i] # Nil, count <= Cardinality(Ids \ Live),
           NEW next, next = Enrolled(works, count), WorksOk(next), NEW m \in Measures
    PROVE  SumOver(HeldIn(next, m), Ids)
             = SumOver(HeldIn(workload, m), Ids) + SumOver(AmountIn(HeldBy(works), m), 1..count)
<1> DEFINE ids == NewIds
           T == {ids[i] : i \in 1..count}
           f == HeldIn(workload, m)
           g == HeldIn(next, m)
           k == AmountIn(HeldBy(works), m)
<1>1. /\ Len(ids) = Cardinality(Ids \ Live) /\ Len(ids) \in Nat
      /\ \A i \in 1..Len(ids), j \in 1..Len(ids) : ids[i] = ids[j] => i = j
      /\ \A i \in 1..Len(ids) : ids[i] \in Ids \ Live
  <2> DEFINE S == Ids \ Live
  <2>1. Lists(ids, S)
    BY NewIdsAreListed
  <2> HIDE DEF ids, S
  <2>2. ids \in Seq(S) /\ Len(ids) = Cardinality(S)
        /\ \A i \in 1..Len(ids), j \in 1..Len(ids) : ids[i] = ids[j] => i = j
    BY <2>1 DEF Lists
  <2>3. Len(ids) \in Nat /\ \A i \in 1..Len(ids) : ids[i] \in S
    BY <2>2
  <2> QED
    BY <2>2, <2>3 DEF S
<1>2. next = [id \in Ids |-> IF \E i \in 1..count : ids[i] = id
                             THEN works[CHOOSE i \in 1..count : ids[i] = id]
                             ELSE workload[id]]
  BY DEF Enrolled
<1> HIDE DEF ids
<1>0. \A i \in 1..count : i \in 1..Len(ids)
  BY <1>1
<1>3. \A i \in 1..count : ids[i] \in Ids \ Live
  BY <1>0, <1>1
<1>4. \A i \in 1..count : \A j \in 1..count : ids[i] = ids[j] => i = j
  BY <1>0, <1>1
<1>5. T \in SUBSET Ids /\ \A id \in T : workload[id] = Nil
  BY <1>3 DEF Live
<1>6. ASSUME NEW i \in 1..count
      PROVE  k[i] = g[ids[i]] /\ g[ids[i]] \in Int
  <2>1. next[ids[i]] = works[i]
    BY <1>2, <1>3, <1>4
  <2>2. g[ids[i]] = Amount(Held(works[i]), m)
    BY <1>3, <2>1 DEF HeldIn
  <2>3. k[i] = Amount(Held(works[i]), m)
    BY DEF AmountIn, HeldBy
  <2>4. \A id \in Ids : g[id] \in Int
    BY HeldInIsInt
  <2> HIDE DEF g
  <2> QED
    BY <1>3, <2>2, <2>3, <2>4
<1>7. \A id \in Ids \ T : g[id] = f[id]
  BY <1>2 DEF HeldIn
<1>8. \A id \in T : f[id] = 0
  BY <1>5 DEF HeldIn
<1>9. /\ IsFiniteSet(T) /\ Integral(f, T) /\ Integral(g, T)
      /\ Integral(f, Ids \ T) /\ Integral(g, Ids \ T)
  <2>1. IsFiniteSet(T)
    BY <1>5, HeldInIsInt, FS_Subset
  <2>2. Ids \ T \in SUBSET Ids
    OBVIOUS
  <2> HIDE DEF T
  <2> QED
    BY <1>5, <2>1, <2>2, HeldInIsInt
<1>10. SumOver(g, T) = SumOver(k, 1..count)
  <2> DEFINE S == 1..count
  <2>1. IsFiniteSet(S)
    BY FS_Interval
  <2>2. \A i \in S : \A j \in S : ids[i] = ids[j] => i = j
    BY <1>4
  <2>3. (\A i \in S : g[ids[i]] \in Int) /\ \A i \in S : k[i] = g[ids[i]]
    BY <1>6
  <2> HIDE DEF g, k, S
  <2>4. SumOver(g, {ids[i] : i \in S}) = SumOver(k, S)
    BY <2>1, <2>2, <2>3, SumMoves
  <2> QED
    BY <2>4 DEF S
<1> HIDE DEF f, g, k, T
<1>11. T \cup (Ids \ T) = Ids /\ T \cap (Ids \ T) = {}
  BY <1>5
<1> DEFINE U == Ids \ T
<1>12. /\ SumOver(g, T \cup U) = SumOver(g, T) + SumOver(g, U)
       /\ SumOver(f, T \cup U) = SumOver(f, T) + SumOver(f, U)
  BY <1>9, <1>11, SumJoins
<1>13. SumOver(f, T) = 0
  BY <1>8, <1>9, SumOfZeros
<1>14. SumOver(g, U) = SumOver(f, U)
  BY <1>7, SumSame
<1>15. SumOver(f, U) \in Int /\ SumOver(g, T) \in Int
  BY <1>9, SumSplits
<1>17. T \cup U = Ids
  BY <1>11
<1> HIDE DEF U
<1>18. SumOver(g, Ids) = SumOver(g, T \cup U) /\ SumOver(f, Ids) = SumOver(f, T \cup U)
  BY <1>17
<1>19. SumOver(g, Ids) = SumOver(g, T) + SumOver(g, U)
       /\ SumOver(f, Ids) = SumOver(f, T) + SumOver(f, U)
  BY <1>12, <1>18
<1>16. SumOver(g, Ids) = SumOver(f, Ids) + SumOver(k, 1..count)
  BY <1>10, <1>13, <1>14, <1>15, <1>19
<1> QED
  BY <1>16 DEF f, g, k

Balance == \A m \in Measures : Amount(info.usage, m) = SumOver(HeldIn(workload, m), Ids)

BInv == TInv /\ Nil \notin Workloads /\ Balance

\* A new node has no usage and no workload
LEMMA InitBalances == Init => Balance
<1> SUFFICES ASSUME Init, NEW m \in Measures
             PROVE  Amount(info.usage, m) = SumOver(HeldIn(workload, m), Ids)
  BY DEF Balance
<1>1. info.usage = NoUsage /\ workload = [id \in Ids |-> Nil]
  BY DEF Init
<1>2. Amount(NoUsage, m) = 0
  BY NothingAmounts
<1> DEFINE g == HeldIn(workload, m)
<1>3. \A id \in Ids : g[id] = 0
  BY <1>1 DEF HeldIn
<1>4. IsFiniteSet(Ids)
  BY BooksBoundsAssumption, FS_Interval DEF Ids
<1> HIDE DEF g
<1>5. SumOver(g, Ids) = 0
  BY <1>3, <1>4, SumOfZeros
<1> QED
  BY <1>1, <1>2, <1>5 DEF g

\* A deploy books what the workloads it enrolls hold
LEMMA DeployBalances == BInv /\ Deploy => Balance'
<1> SUFFICES ASSUME BInv, Deploy PROVE Balance'
  OBVIOUS
<1>1. PICK req \in DeployRequests, count \in 1..MaxWorkloads :
         /\ count <= Cardinality(Ids \ Live)
         /\ LET deployed == Deployed(info, count, req)
            IN  /\ deployed.ok /\ Store(Book(info, HeldBy(deployed.works), TRUE))
                /\ workload' = Enrolled(deployed.works, count)
  BY DEF Deploy
<1>2. PICK deployed : deployed = Deployed(info, count, req)
  OBVIOUS
<1>3. PICK set : set = Book(info, HeldBy(deployed.works), TRUE)
  OBVIOUS
<1>4. PICK works : works = deployed.works
  OBVIOUS
<1>5. PICK next : next = Enrolled(works, count)
  OBVIOUS
<1>6. deployed.ok /\ set.ok /\ info' = set.info /\ workload' = next
  BY <1>1, <1>2, <1>3, <1>4, <1>5 DEF Store
<1>7. /\ count \in Nat /\ count > 0 /\ Wishes(req) /\ IsInfo(info) /\ Sound(info)
      /\ Folded(req).storage >= 0
  <2>1. ValidRequest(req)
    BY <1>2, <1>6 DEF Deployed
  <2> QED
    BY <2>1, BooksBoundsAssumption, RequestsAreWishes, DeploysAskForSomething
    DEF BInv, TInv, IInv, Sound
<1>8. DOMAIN works = 1..count /\ \A i \in 1..count : WorkOk(works[i])
  <2>1. Fits(info, deployed, set, count)
    BY <1>2, <1>3, <1>6, <1>7, DeployedFits
  <2>2. Len(works) = count
    BY <1>4, <2>1 DEF Fits
  <2>3. DOMAIN works = 1..Len(works) /\ \A i \in DOMAIN works : WorkOk(works[i])
    BY <1>2, <1>4, <1>6, <1>7, DeployedAreOk
  <2> QED
    BY <2>2, <2>3
<1>9. \A i \in 1..count : works[i] # Nil
  <2>1. \A i \in DOMAIN deployed.works : deployed.works[i] \in Workloads
    BY <1>2, <1>4, <1>6, <1>8, DeployedAreWorkloads
  <2> QED
    BY <1>4, <1>8, <2>1 DEF BInv
<1>10. WorksOk(workload) /\ WorksOk(next)
  <2>1. IInv'
    BY DeployKeepsIInv DEF BInv, TInv
  <2> QED
    BY <1>6, <2>1 DEF IInv, BInv, TInv, WorksOk, WorkOk
<1>11. PICK taken : taken = HeldBy(works)
  OBVIOUS
<1>12. DOMAIN taken = 1..count /\ \A i \in 1..count : IsUsage(taken[i])
  BY <1>8, <1>11, HeldIsUsage DEF HeldBy
<1>13. set = Book(info, taken, TRUE)
  BY <1>3, <1>4, <1>11
<1>14. ASSUME NEW m \in Measures
       PROVE  Amount(set.info.usage, m) = SumOver(HeldIn(next, m), Ids)
  <2>1. Amount(set.info.usage, m) = Amount(info.usage, m) + SumOver(AmountIn(taken, m), 1..count)
    <3>1. Booked(info, taken, count, set)
      BY <1>6, <1>7, <1>12, <1>13 DEF Booked
    <3> QED
      BY <3>1, BookingAmounts
  <2>2. Amount(info.usage, m) = SumOver(HeldIn(workload, m), Ids)
    BY DEF BInv, Balance
  <2>3. SumOver(HeldIn(next, m), Ids)
          = SumOver(HeldIn(workload, m), Ids) + SumOver(AmountIn(HeldBy(works), m), 1..count)
    BY <1>1, <1>5, <1>7, <1>8, <1>9, <1>10, EnrolledMove
  <2> QED
    BY <1>11, <2>1, <2>2, <2>3
<1> QED
  BY <1>6, <1>14 DEF Balance, HeldIn, Ids

\* A realloc books what one workload holds more, a discard what it held
LEMMA ReallocBalances == BInv /\ Realloc => Balance'
<1> SUFFICES ASSUME BInv, Realloc PROVE Balance'
  OBVIOUS
<1>1. PICK id \in Live, req \in ReallocRequests :
         LET target == Reallocated(info, workload[id], req)
         IN  /\ target.ok
             /\ Store(Book(info, <<ReallocDelta(workload[id], target.work)>>, TRUE))
             /\ workload' = [workload EXCEPT ![id] = target.work]
  BY DEF Realloc
<1>2. PICK target : target = Reallocated(info, workload[id], req)
  OBVIOUS
<1>3. PICK delta : delta = ReallocDelta(workload[id], target.work)
  OBVIOUS
<1>4. PICK set : set = Book(info, <<delta>>, TRUE)
  OBVIOUS
<1>5. PICK next : next = [workload EXCEPT ![id] = target.work]
  OBVIOUS
<1>6. target.ok /\ set.ok /\ info' = set.info /\ workload' = next
  BY <1>1, <1>2, <1>3, <1>4, <1>5 DEF Store
<1>7. /\ id \in Ids /\ workload[id] # Nil /\ WorkOk(workload[id]) /\ WorksOk(workload)
      /\ Wishes(req) /\ IsInfo(info) /\ Sound(info)
  BY RequestsAreWishes DEF BInv, TInv, IInv, Live, WorksOk, Sound
<1>8. WorkOk(target.work)
  BY <1>2, <1>6, <1>7, ReallocatedIsOk
<1>9. target.work # Nil
  BY <1>2, <1>6, <1>8, ReallocatedIsWorkload DEF BInv
<1>10. /\ DOMAIN next = Ids /\ next[id] = target.work
       /\ \A id1 \in Ids : id1 # id => next[id1] = workload[id1]
  BY <1>5, <1>7 DEF WorksOk
<1>11. WorksOk(next)
  BY <1>7, <1>8, <1>10 DEF WorksOk
<1>12. /\ IsUsage(Held(target.work)) /\ IsUsage(Held(workload[id])) /\ IsUsage(info.usage)
       /\ IsUsage(delta) /\ delta = SubUsage(Held(target.work), Held(workload[id]))
  <2>1. IsUsage(Held(target.work)) /\ IsUsage(Held(workload[id]))
    BY <1>7, <1>8, HeldIsUsage
  <2>2. IsUsage(delta)
    BY <1>3, <2>1, TakeIsUsage DEF Take, ReallocDelta
  <2> QED
    BY <1>3, <1>7, <2>1, <2>2 DEF ReallocDelta, Sound, IsInfo
<1>13. ASSUME NEW m \in Measures
       PROVE  Amount(set.info.usage, m) = SumOver(HeldIn(next, m), Ids)
  <2>1. Amount(set.info.usage, m) = Amount(AddUsage(info.usage, delta), m)
    <3>1. PICK plus \in BOOLEAN : plus = TRUE
      OBVIOUS
    <3>2. set = Book(info, <<delta>>, plus) /\ Take(info.usage, delta, plus) = AddUsage(info.usage, delta)
      BY <1>4, <3>1 DEF Take
    <3>3. Amount(set.info.usage, m) = Amount(Take(info.usage, delta, plus), m)
      BY <1>6, <1>7, <1>12, <3>2, OneBooked
    <3> QED
      BY <3>2, <3>3
  <2>2. /\ Amount(AddUsage(info.usage, delta), m) = Amount(info.usage, m) + Amount(delta, m)
        /\ Amount(info.usage, m) \in Int
    BY <1>12, AmountsAdd
  <2>3. /\ Amount(delta, m) = Amount(Held(target.work), m) - Amount(Held(workload[id]), m)
        /\ Amount(Held(target.work), m) \in Int /\ Amount(Held(workload[id]), m) \in Int
    BY <1>12, AmountsAdd
  <2>4. Amount(info.usage, m) = SumOver(HeldIn(workload, m), Ids)
    BY DEF BInv, Balance
  <2>5. SumOver(HeldIn(next, m), Ids)
          = SumOver(HeldIn(workload, m), Ids) - HeldIn(workload, m)[id] + HeldIn(next, m)[id]
    BY <1>7, <1>10, <1>11, OneMoves
  <2>6. /\ HeldIn(workload, m)[id] = Amount(Held(workload[id]), m)
        /\ HeldIn(next, m)[id] = Amount(Held(target.work), m)
    BY <1>7, <1>9, <1>10 DEF HeldIn
  <2> QED
    BY <2>1, <2>2, <2>3, <2>4, <2>5, <2>6
<1> QED
  BY <1>6, <1>13 DEF Balance, HeldIn, Ids

LEMMA DiscardBalances == BInv /\ Discard => Balance'
<1> SUFFICES ASSUME BInv, Discard PROVE Balance'
  OBVIOUS
<1>1. PICK id \in Live :
         /\ Store(Book(info, <<Held(workload[id])>>, FALSE))
         /\ workload' = [workload EXCEPT ![id] = Nil]
  BY DEF Discard
<1>2. PICK held : held = Held(workload[id])
  OBVIOUS
<1>3. PICK set : set = Book(info, <<held>>, FALSE)
  OBVIOUS
<1>4. PICK next : next = [workload EXCEPT ![id] = Nil]
  OBVIOUS
<1>5. set.ok /\ info' = set.info /\ workload' = next
  BY <1>1, <1>2, <1>3, <1>4 DEF Store
<1>6. /\ id \in Ids /\ workload[id] # Nil /\ WorkOk(workload[id]) /\ WorksOk(workload)
      /\ Sound(info) /\ IsUsage(info.usage)
  BY DEF BInv, TInv, IInv, Live, WorksOk, Sound, IsInfo
<1>7. /\ DOMAIN next = Ids /\ next[id] = Nil
      /\ \A id1 \in Ids : id1 # id => next[id1] = workload[id1]
  BY <1>4, <1>6 DEF WorksOk
<1>8. WorksOk(next)
  BY <1>6, <1>7 DEF WorksOk
<1>9. IsUsage(held)
  BY <1>2, <1>6, HeldIsUsage
<1>10. ASSUME NEW m \in Measures
       PROVE  Amount(set.info.usage, m) = SumOver(HeldIn(next, m), Ids)
  <2>1. Amount(set.info.usage, m) = Amount(SubUsage(info.usage, held), m)
    <3>1. PICK plus \in BOOLEAN : plus = FALSE
      OBVIOUS
    <3>2. set = Book(info, <<held>>, plus) /\ Take(info.usage, held, plus) = SubUsage(info.usage, held)
      BY <1>3, <3>1 DEF Take
    <3>3. Amount(set.info.usage, m) = Amount(Take(info.usage, held, plus), m)
      BY <1>5, <1>6, <1>9, <3>2, OneBooked
    <3> QED
      BY <3>2, <3>3
  <2>2. /\ Amount(SubUsage(info.usage, held), m) = Amount(info.usage, m) - Amount(held, m)
        /\ Amount(info.usage, m) \in Int /\ Amount(held, m) \in Int
    BY <1>6, <1>9, AmountsAdd
  <2>3. Amount(info.usage, m) = SumOver(HeldIn(workload, m), Ids)
    BY DEF BInv, Balance
  <2>4. SumOver(HeldIn(next, m), Ids)
          = SumOver(HeldIn(workload, m), Ids) - HeldIn(workload, m)[id] + HeldIn(next, m)[id]
    BY <1>6, <1>7, <1>8, OneMoves
  <2>5. HeldIn(workload, m)[id] = Amount(held, m) /\ HeldIn(next, m)[id] = 0
    BY <1>2, <1>6, <1>7 DEF HeldIn
  <2> QED
    BY <2>1, <2>2, <2>3, <2>4, <2>5
<1> QED
  BY <1>5, <1>10 DEF Balance, HeldIn, Ids

LEMMA NextBalances == BInv /\ [Next]_vars => BInv'
<1> SUFFICES ASSUME BInv, [Next]_vars PROVE BInv'
  OBVIOUS
<1>1. TInv'
  BY NextKeepsTypes DEF BInv
<1>2. CASE UNCHANGED vars
  BY <1>1, <1>2 DEF vars, BInv, Balance, HeldIn, Ids
<1> QED
  BY <1>1, <1>2, DeployBalances, ReallocBalances, DiscardBalances DEF Next, BInv

\* What each workload takes, nothing in the place of one that is not there
Taken == [id \in Ids |-> IF workload[id] = Nil THEN NoUsage ELSE Held(workload[id])]

\* The usage of the record is that of its workloads
UsageIsHeld == Alike(info.usage, TakeAll(NoUsage, Taken, TRUE))

\* After any deploys, reallocs and discards the usage is what the workloads
\* hold, of the storage, each volume and each disk: what is planned for a new
\* workload, planned anew and given back by delta adds up (calculate-deploy,
\* calculate-realloc, SetNodeResourceUsage).
THEOREM BooksBalance == Nil \notin Workloads /\ Spec => []UsageIsHeld
<1>1. Nil \notin Workloads /\ Init => BInv
  BY InitIsTyped, InitBalances DEF BInv
<1>2. BInv /\ [Next]_vars => BInv'
  BY NextBalances
<1>3. BInv => UsageIsHeld
  <2> SUFFICES ASSUME BInv PROVE UsageIsHeld
    OBVIOUS
  <2> DEFINE sum == TakeAll(NoUsage, Taken, TRUE)
  <2>1. IsUsage(info.usage) /\ WorksOk(workload)
    BY DEF BInv, TInv, IInv, Sound, IsInfo
  <2>2. /\ MaxWorkloads \in Nat /\ DOMAIN Taken = 1..MaxWorkloads /\ IsUsage(NoUsage)
        /\ \A i \in 1..MaxWorkloads : IsUsage(Taken[i])
    <3>1. \A id \in Ids : workload[id] # Nil => IsUsage(Held(workload[id]))
      BY <2>1, HeldIsUsage DEF WorksOk
    <3> QED
      BY <3>1, BooksBoundsAssumption, EmptyInfoIsInfo DEF Taken, Ids
  <2>3. IsUsage(sum)
    BY <2>2, TakeAllIsUsage
  <2>4. ASSUME NEW m \in Measures
        PROVE  Amount(info.usage, m) = Amount(sum, m)
    <3> DEFINE f == AmountIn(Taken, m)
               g == HeldIn(workload, m)
    <3>1. Amount(sum, m) = Amount(NoUsage, m) + SumOver(f, 1..MaxWorkloads)
      <4> HIDE DEF f
      <4>1. Amount(sum, m) = Amount(NoUsage, m) + SumOver(AmountIn(Taken, m), 1..MaxWorkloads)
        BY ONLY <2>2, m \in Measures, AmountsTotal
      <4> QED
        BY <4>1 DEF f
    <3>2. Amount(NoUsage, m) = 0
      BY NothingAmounts
    <3>3. \A id \in Ids : f[id] = g[id]
      BY <3>2 DEF AmountIn, HeldIn, Taken
    <3>4. SumOver(g, Ids) \in Int
      BY <2>1, HeldInIsInt, SumSplits
    <3> HIDE DEF f, g, sum
    <3>5. SumOver(f, Ids) = SumOver(g, Ids)
      BY <3>3, SumSame
    <3>6. Amount(info.usage, m) = SumOver(g, Ids)
      BY DEF BInv, Balance, g
    <3>7. Ids = 1..MaxWorkloads
      BY DEF Ids
    <3> QED
      BY <3>1, <3>2, <3>4, <3>5, <3>6, <3>7
  <2> HIDE DEF sum
  <2>5. Alike(info.usage, sum)
    BY <2>1, <2>3, <2>4, AmountsDecide
  <2> QED
    BY <2>5 DEF UsageIsHeld, sum
<1> QED
  BY <1>1, <1>2, <1>3, PTL DEF Spec

-----------------------------------------------------------------------------
(* Giving back.  No workload holds less than nothing of anything, so what   *)
(* one holds is no more than what all do, and that is what is used.         *)

\* A workload holds no storage, no space and no rates less than nothing
LEMMA HeldIsNat ==
    ASSUME NEW D, NEW disks, NEW work, WorkOk(work), WorkSized(work, D), WorkMatches(work, disks),
           NEW m \in Measures
    PROVE  Amount(Held(work), m) \in Nat
<1> DEFINE held == Held(work)
<1>1. /\ held.storage = work.storage /\ held.volumes = PlannedVolumes(work.plan)
      /\ held.disks = work.disks
  BY DEF Held
<1> HIDE DEF held
<1>2. CASE m[1] = "storage"
  <2>1. Amount(held, m) = held.storage
    BY <1>2, MeasureKinds
  <2> QED
    BY <1>1, <2>1 DEF WorkOk, held
<1>3. CASE m[1] = "volume"
  <2>1. m[2] \in Devices /\ Amount(held, m) = held.volumes[m[2]]
    BY <1>3, MeasureKinds
  <2>2. held.volumes[m[2]] = Space(work.plan, m[2])
    BY <1>1, <2>1, SpaceIsPlanned
  <2> QED
    BY <2>1, <2>2, SpaceIsNat DEF WorkSized, held
<1>4. CASE m[1] = "disk"
  <2>1. PICK name \in DiskNames, rate \in Rates : Amount(held, m) = UsedOf(work.disks, name)[rate]
    BY <1>1, <1>4, MeasureKinds
  <2>2. CASE name \in DOMAIN disks
    <3> DEFINE On == OnDisk(disks, work.plan, work.vbs, name)
    <3>1. UsedOf(work.disks, name)[rate] = SumOver(RateOf(rate), On)
      BY <2>2 DEF WorkMatches, Matches
    <3>2. On \in SUBSET work.vbs
      BY DEF OnDisk
    <3> HIDE DEF On
    <3>3. IsFiniteSet(On) /\ On \in SUBSET VolumeBinding /\ \A vb \in On : Covers(vb.io, NoIO)
      BY <3>2, FS_Subset DEF WorkOk, WorkSized, Bindings
    <3>4. \A vb \in On : RateOf(rate)[vb] \in Nat
      <4>1. \A vb \in On : vb.io[rate] >= 0 /\ vb.io[rate] \in Int
        BY <3>3, BindingParts DEF Covers, NoIO, IO
      <4> QED
        BY <3>3, <4>1 DEF RateOf
    <3>5. SumOver(RateOf(rate), On) \in Nat
      BY <3>3, <3>4, SumIsNat
    <3> QED
      BY <2>1, <3>1, <3>5 DEF held
  <2>3. CASE name \notin DOMAIN disks
    <3>1. name \notin DOMAIN work.disks
      BY <2>3 DEF WorkMatches, DiskPlansOn
    <3> QED
      BY <2>1, <3>1 DEF UsedOf, NoIO, held
  <2> QED
    BY <2>2, <2>3
<1> QED
  BY <1>2, <1>3, <1>4, MeasureKinds DEF held

\* What a workload holds can be given back at any time
DiscardsFit == \A id \in Live : Book(info, <<Held(workload[id])>>, FALSE).ok

\* The usage is what the workloads hold, and none holds less than nothing
LInv == BInv /\ MInv

LEMMA HeldIsReturnable ==
    ASSUME LInv, NEW id \in Live
    PROVE  Returnable(Held(workload[id]), info.usage)
<1> SUFFICES ASSUME NEW m \in Measures
             PROVE  /\ Amount(Held(workload[id]), m) \in Nat
                    /\ Amount(Held(workload[id]), m) <= Amount(info.usage, m)
  BY DEF Returnable
<1> DEFINE g == HeldIn(workload, m)
<1>1. id \in Ids /\ g[id] = Amount(Held(workload[id]), m)
  BY DEF Live, HeldIn
<1>2. \A id1 \in Ids : g[id1] \in Nat
  <2> SUFFICES ASSUME NEW id1 \in Ids PROVE g[id1] \in Nat
    OBVIOUS
  <2>1. CASE workload[id1] = Nil
    BY <2>1 DEF HeldIn
  <2>2. CASE workload[id1] # Nil
    <3>1. /\ WorkOk(workload[id1]) /\ WorkSized(workload[id1], DOMAIN info.capacity.volumes)
          /\ WorkMatches(workload[id1], info.capacity.disks)
      BY <2>2 DEF LInv, MInv, PInv, TInv, IInv, WorksOk, WorksSized, WorksMatch
    <3>2. Amount(Held(workload[id1]), m) \in Nat
      BY <3>1, HeldIsNat
    <3> QED
      BY <2>2, <3>2 DEF HeldIn
  <2> QED
    BY <2>1, <2>2
<1>3. Amount(info.usage, m) = SumOver(g, Ids)
  BY DEF LInv, BInv, Balance
<1>4. IsFiniteSet(Ids)
  BY BooksBoundsAssumption, FS_Interval DEF Ids
<1> HIDE DEF g
<1>5. SumOver(g, Ids) = g[id] + SumOver(g, Ids \ {id}) /\ SumOver(g, Ids \ {id}) \in Nat
  <2>1. Integral(g, Ids)
    BY <1>2, <1>4 DEF Integral
  <2> QED
    BY <1>1, <1>2, <1>4, <2>1, SumIsNat, SumSplits
<1> QED
  BY <1>1, <1>2, <1>3, <1>5

\* Whatever deploys, reallocs and discards came before, what any workload holds
\* can be given back: SetNodeResourceUsage with Incr false is not refused, which
\* core's remove and rollback count on.  The requests agree on the monopolies of
\* a destination, and no realloc of mounts alone takes rates or sizes away.
THEOREM DiscardsAreAccepted ==
    KindsAgree /\ MountsOnlyGrow /\ Nil \notin Workloads /\ Spec => []DiscardsFit
<1>1. KindsAgree /\ MountsOnlyGrow /\ Nil \notin Workloads /\ Init => LInv
  BY InitIsTyped, InitGives, InitBalances DEF LInv, BInv, MInv, PInv
<1>2. LInv /\ [Next]_vars => LInv'
  BY NextBalances, NextKeepsDisks DEF LInv
<1>3. LInv => DiscardsFit
  <2> SUFFICES ASSUME LInv, NEW id \in Live
               PROVE  Book(info, <<Held(workload[id])>>, FALSE).ok
    BY DEF DiscardsFit
  <2>1. WorkOk(workload[id]) /\ Sound(info)
    BY DEF LInv, BInv, TInv, IInv, WorksOk, Live
  <2> QED
    BY <2>1, HeldIsUsage, HeldIsReturnable, GivenBackIsAccepted
<1> QED
  BY <1>1, <1>2, <1>3, PTL DEF Spec
=============================================================================
