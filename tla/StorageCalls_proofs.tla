------------------------- MODULE StorageCalls_proofs -------------------------
(***************************************************************************)
(* The verbs of the storage plugin that write, for every record and every  *)
(* request: they store nothing invalid, snapshots are put back verbatim,   *)
(* an absolute set may be repeated and a delta undone.                     *)
(***************************************************************************)
EXTENDS StorageCalls, StorageRecord_proofs

-----------------------------------------------------------------------------
(* What is stored *)

\* A set of a capacity with one of the edits
LEMMA SetCapacityStores ==
    ASSUME NEW info, Sound(info), NEW edit \in Edits, SetCapacity(info, edit).ok
    PROVE  /\ Sound(SetCapacity(info, edit).info)
           /\ SetCapacity(info, edit) = Put(info, [info EXCEPT !.capacity =
                 NextCapacity(@, edit.resource, edit.req, edit.delta, edit.incr)])
           /\ edit.req # Nil /\ edit.delta => edit.req.rm = {}
<1>1. Given(edit.resource, edit.req) /\ edit.delta \in BOOLEAN /\ edit.incr \in BOOLEAN
  BY CallInputsAssumption DEF Given
<1> QED
  BY <1>1, CapacitySetStores DEF SetCapacity

\* A call that succeeds leaves everything valid if what it stores is
LEMMA CallKeepsValid ==
    ASSUME StoredValid, NEW result, Call(result), Sound(result.info)
    PROVE  StoredValid'
BY CallBoundsAssumption DEF StoredValid, Call, Sound

\* Nothing invalid is ever stored, by no sequence of calls with any requests;
\* nor usage of a disk the node does not have
THEOREM StoredRecordsAreValid == Spec => []StoredValid
<1>1. Init => StoredValid
  BY EmptyInfoIsInfo, CallBoundsAssumption DEF Init, StoredValid
<1>2. StoredValid /\ [Next]_vars => StoredValid'
  <2> SUFFICES ASSUME StoredValid, [Next]_vars PROVE StoredValid'
    OBVIOUS
  <2>0. Sound(GetOrEmpty)
    BY EmptyInfoIsInfo DEF StoredValid, GetOrEmpty, Sound
  <2>1. CASE AddANode
    <3>1. PICK req \in NewNodes : Call(AddNode(req, EngineStorage))
      BY <2>1 DEF AddANode
    <3>2. IsCapacityRequest(req) /\ AddNode(req, EngineStorage).ok
      BY <3>1, CallInputsAssumption DEF Call
    <3> QED
      BY <3>1, <3>2, AddStores, CallKeepsValid, CallBoundsAssumption
  <2>2. CASE RemoveNode
    BY <2>2, CallBoundsAssumption DEF RemoveNode, StoredValid
  <2>3. CASE SetACapacity
    <3>1. PICK edit \in Edits : Call(SetCapacity(GetOrEmpty, edit))
      BY <2>3 DEF SetACapacity
    <3>2. SetCapacity(GetOrEmpty, edit).ok
      BY <3>1 DEF Call
    <3> QED
      BY <2>0, <3>1, <3>2, SetCapacityStores, CallKeepsValid
  <2>4. CASE SetAnInfo
    <3>1. PICK info \in NewInfos : Call(SetNodeResourceInfo(GetOrEmpty, info.capacity, info.usage))
      BY <2>4 DEF SetAnInfo
    <3>2. IsInfo(info) /\ SetNodeResourceInfo(GetOrEmpty, info.capacity, info.usage).ok
      BY <3>1, CallInputsAssumption DEF Call
    <3> QED
      BY <3>1, <3>2, SetInfoStores, CallKeepsValid
  <2>5. CASE SetAUsage
    <3>1. PICK delta \in BOOLEAN, incr \in BOOLEAN :
            \/ \E taken \in Bookings :
                  Call(SetNodeResourceUsage(GetOrEmpty, Nil, Nil, taken, delta, incr))
            \/ \E req \in UsageRequests :
                  Call(SetNodeResourceUsage(GetOrEmpty, Nil, req, <<>>, delta, incr))
      BY <2>5 DEF SetAUsage
    <3>2. ASSUME NEW req, req = Nil \/ IsCapacityRequest(req), NEW taken, AreTaken(taken),
                 Call(SetNodeResourceUsage(GetOrEmpty, Nil, req, taken, delta, incr))
          PROVE  StoredValid'
      <4>1. SetNodeResourceUsage(GetOrEmpty, Nil, req, taken, delta, incr).ok
        BY <3>2 DEF Call
      <4>2. Sound(SetNodeResourceUsage(GetOrEmpty, Nil, req, taken, delta, incr).info)
        BY <2>0, <3>2, <4>1, SetUsageStores
      <4> QED
        BY <3>2, <4>2, CallKeepsValid
    <3>3. \A taken \in Bookings : AreTaken(taken)
      BY CallInputsAssumption DEF AreTaken
    <3>4. AreTaken(<<>>)
      BY DEF AreTaken
    <3>5. \A req \in UsageRequests : IsCapacityRequest(req)
      BY CallInputsAssumption
    <3> QED
      BY <3>1, <3>2, <3>3, <3>4, <3>5
  <2>6. CASE FixANode
    <3>1. PICK taken \in Bookings : Call(FixNodeResource(etcd, taken))
      BY <2>6 DEF FixANode
    <3>2. AreTaken(taken) /\ FixNodeResource(etcd, taken).ok
      BY <3>1, CallInputsAssumption DEF Call, AreTaken
    <3>3. Sound(etcd)
      BY <2>6 DEF FixANode, StoredValid, Sound
    <3> QED
      BY <3>1, <3>2, <3>3, FixStores, CallKeepsValid
  <2>7. CASE UNCHANGED vars
    BY <2>7 DEF vars, StoredValid
  <2> QED
    BY <2>1, <2>2, <2>3, <2>4, <2>5, <2>6, <2>7 DEF Next
<1> QED
  BY <1>1, <1>2, PTL DEF Spec

-----------------------------------------------------------------------------
(* Snapshots *)

\* What was stored at any time is restored verbatim over what is stored now
THEOREM SnapshotsAreRestored == Spec => []SnapshotsRestore
<1>1. StoredValid => SnapshotsRestore
  <2> SUFFICES ASSUME StoredValid, NEW info \in snapshots
               PROVE  LET capacity == RestoreCapacity(GetOrEmpty, info.capacity)
                          usage == RestoreUsage(GetOrEmpty, info.usage)
                      IN  /\ capacity.ok => /\ capacity.info.capacity = info.capacity
                                            /\ Alike(capacity.info.usage, GetOrEmpty.usage)
                          /\ usage.ok => /\ usage.info.capacity = GetOrEmpty.capacity
                                         /\ Alike(usage.info.usage, info.usage)
    BY DEF SnapshotsRestore
  <2>1. Sound(info) /\ Sound(GetOrEmpty)
    BY EmptyInfoIsInfo DEF StoredValid, GetOrEmpty, Sound
  <2>2. PICK now : now = GetOrEmpty
    OBVIOUS
  <2>3. IsInfo(now) /\ IsInfo(info)
    BY <2>1, <2>2 DEF Sound
  <2> DEFINE next  == [capacity |-> info.capacity, usage |-> now.usage]
             next1 == [capacity |-> now.capacity, usage |-> info.usage]
  <2>4. /\ RestoreCapacity(now, info.capacity) = Put(now, next)
        /\ RestoreUsage(now, info.usage) = Put(now, next1)
    BY <2>1, <2>2, SnapshotsAreReplayed
  <2>5. IsInfo(next) /\ IsInfo(next1)
    BY <2>3 DEF IsInfo
  <2>6. next.usage = now.usage /\ next.capacity = info.capacity
         /\ next1.usage = info.usage /\ next1.capacity = now.capacity
    OBVIOUS
  <2> HIDE DEF next, next1
  <2>7. RestoreCapacity(now, info.capacity).ok =>
            /\ RestoreCapacity(now, info.capacity).info.capacity = info.capacity
            /\ Alike(RestoreCapacity(now, info.capacity).info.usage, now.usage)
    BY <2>4, <2>5, <2>6, PutKeepsUsage
  <2>8. RestoreUsage(now, info.usage).ok =>
            /\ RestoreUsage(now, info.usage).info.capacity = now.capacity
            /\ Alike(RestoreUsage(now, info.usage).info.usage, info.usage)
    BY <2>4, <2>5, <2>6, PutKeepsUsage
  <2> QED
    BY <2>2, <2>7, <2>8
<1> QED
  BY <1>1, StoredRecordsAreValid, PTL

-----------------------------------------------------------------------------
(* Absolute sets *)

\* Disks taken away are taken away once
LEMMA DisksGoOnce ==
    ASSUME NEW capacity, IsCapacity(capacity), NEW req, NEW left,
           left = WithoutDisks(capacity, req), NEW next, IsCapacity(next),
           next.disks = left.disks
    PROVE  WithoutDisks(next, req).disks = next.disks
<1>1. PICK names \in SUBSET DiskNames, devices \in SUBSET Devices :
         capacity \in CapacitiesOn(devices, names)
  BY DEF IsCapacity
<1>2. PICK names1 \in SUBSET DiskNames, devices1 \in SUBSET Devices :
         next \in CapacitiesOn(devices1, names1)
  BY DEF IsCapacity
<1> DEFINE disks == next.disks
<1>3. /\ next = [volumes |-> next.volumes, disks |-> disks, storage |-> next.storage]
      /\ disks = [name \in names1 |-> disks[name]]
  BY <1>2 DEF CapacitiesOn
<1>4. DOMAIN disks = DOMAIN capacity.disks \ req.rm
  <2>1. capacity = [volumes |-> capacity.volumes, disks |-> capacity.disks,
                    storage |-> capacity.storage]
    BY <1>1 DEF CapacitiesOn
  <2>2. left.disks = [name \in DOMAIN capacity.disks \ req.rm |-> capacity.disks[name]]
    BY <2>1 DEF WithoutDisks, Restrict
  <2> QED
    BY <2>2
<1>5. WithoutDisks(next, req).disks = [name \in names1 \ req.rm |-> disks[name]]
  BY <1>3 DEF WithoutDisks, Restrict
<1>6. names1 \ req.rm = names1
  BY <1>3, <1>4
<1> QED
  BY <1>3, <1>5, <1>6

\* What an absolute set asks for is the same when it has been set
LEMMA SkipEmptyOnce ==
    ASSUME NEW req, IsCapacityRequest(req), NEW capacity, IsCapacity(capacity),
           NEW next, next = SkipEmpty(req, WithoutDisks(capacity, req))
    PROVE  SkipEmpty(req, WithoutDisks(next, req)) = next
<1> DEFINE left == WithoutDisks(capacity, req)
           last == WithoutDisks(next, req)
<1>1. IsCapacity(left) /\ IsCapacity(next) /\ IsCapacity(last)
  <2>1. IsCapacity(left)
    BY LessIsCapacity
  <2>2. IsCapacity(next)
    BY <2>1, ParsedIsCapacity
  <2> QED
    BY <2>1, <2>2, LessIsCapacity
<1>2. /\ next.volumes = Or(req.volumes, left.volumes) /\ next.disks = Or(req.disks, left.disks)
      /\ next.storage = IF req.storage # Unset THEN Parsed(req).storage
                        ELSE IF req.volumes = Unset THEN left.storage
                        ELSE left.storage - TotalOf(left.volumes) + TotalOf(req.volumes)
      /\ next = [volumes |-> next.volumes, disks |-> next.disks, storage |-> next.storage]
  BY DEF SkipEmpty
<1>3. last.volumes = next.volumes /\ last.storage = next.storage
  <2>1. last = [volumes |-> next.volumes, storage |-> next.storage,
                disks |-> Restrict(next.disks, DOMAIN next.disks \ req.rm)]
    BY <1>2 DEF WithoutDisks
  <2> QED
    BY <2>1
<1>4. Or(req.volumes, last.volumes) = next.volumes
  BY <1>2, <1>3 DEF Or
<1>5. Or(req.disks, last.disks) = next.disks
  <2>1. CASE req.disks = Unset
    <3>1. next.disks = left.disks
      BY <1>2, <2>1 DEF Or
    <3>2. last.disks = next.disks
      BY <1>1, <3>1, DisksGoOnce
    <3> QED
      BY <2>1, <3>2 DEF Or
  <2>2. CASE req.disks # Unset
    BY <1>2, <2>2 DEF Or
  <2> QED
    BY <2>1, <2>2
<1>6. next.storage \in Int /\ TotalOf(next.volumes) \in Int
  <2>1. PICK devices \in SUBSET Devices : next.volumes \in [devices -> Int] /\ next.storage \in Int
    BY <1>1 DEF IsCapacity, CapacitiesOn
  <2> QED
    BY <2>1, TotalIsInt
<1> DEFINE stored == IF req.storage # Unset THEN Parsed(req).storage
                     ELSE IF req.volumes = Unset THEN last.storage
                     ELSE last.storage - TotalOf(last.volumes) + TotalOf(req.volumes)
<1>7. stored = next.storage
  <2>1. CASE req.storage # Unset
    BY <1>2, <2>1
  <2>2. CASE req.storage = Unset /\ req.volumes = Unset
    BY <1>3, <2>2
  <2>3. CASE req.storage = Unset /\ req.volumes # Unset
    <3>1. next.volumes = req.volumes
      BY <1>2, <2>3 DEF Or
    <3>2. stored = next.storage - TotalOf(next.volumes) + TotalOf(next.volumes)
      BY <1>3, <2>3, <3>1
    <3> HIDE DEF stored
    <3> QED
      BY <1>6, <3>2
  <2> QED
    BY <2>1, <2>2, <2>3
<1>8. SkipEmpty(req, last) = [volumes |-> Or(req.volumes, last.volumes),
                              disks |-> Or(req.disks, last.disks), storage |-> stored]
  BY DEF SkipEmpty
<1> HIDE DEF stored, last
<1> QED
  BY <1>2, <1>4, <1>5, <1>7, <1>8 DEF last

\* Once more, an absolute set leaves the capacity it has left before
Repeats(capacity, resource, req, incr) ==
    LET next == NextCapacity(capacity, resource, req, FALSE, incr)
    IN  NextCapacity(next, resource, req, FALSE, incr) = next

\* The capacity an absolute set leaves is the one it would leave again
LEMMA AbsoluteIsOnce ==
    ASSUME NEW capacity, IsCapacity(capacity), NEW resource, NEW req, Given(resource, req),
           NEW incr \in BOOLEAN
    PROVE  Repeats(capacity, resource, req, incr)
<1> SUFFICES ASSUME NEW next, next = NextCapacity(capacity, resource, req, FALSE, incr)
             PROVE  NextCapacity(next, resource, req, FALSE, incr) = next
  BY DEF Repeats
<1>1. \A c : NextCapacity(c, resource, req, FALSE, incr) =
                Changed(NoCapacity,
                        Asked(IF req = Nil THEN c ELSE WithoutDisks(c, req),
                              resource, req, FALSE, incr), 1)
  BY DEF NextCapacity, Rewritten
<1>2. CASE req = Nil \/ IsRollback(resource, req, FALSE, incr)
  <2>1. \A c, c1 : Asked(c, resource, req, FALSE, incr) = Asked(c1, resource, req, FALSE, incr)
    BY <1>2 DEF Asked
  <2> QED
    BY <1>1, <2>1
<1>3. CASE req # Nil /\ ~IsRollback(resource, req, FALSE, incr)
  <2>1. IsCapacityRequest(req)
    BY <1>3 DEF Given
  <2>2. \A c : Asked(c, resource, req, FALSE, incr) = SkipEmpty(req, c)
    BY <1>3 DEF Asked
  <2> DEFINE asked == SkipEmpty(req, WithoutDisks(capacity, req))
  <2>3. IsCapacity(asked)
    BY <2>1, LessIsCapacity, ParsedIsCapacity
  <2>4. next = Changed(NoCapacity, asked, 1)
    BY <1>1, <1>3, <2>2
  <2>5. next = asked
    <3> HIDE DEF asked
    <3> QED
      BY <2>3, <2>4, AddedToNothing
  <2>6. SkipEmpty(req, WithoutDisks(next, req)) = next
    BY <2>1, <2>5, SkipEmptyOnce
  <2>7. NextCapacity(next, resource, req, FALSE, incr) = Changed(NoCapacity, next, 1)
    BY <1>1, <1>3, <2>2, <2>6
  <2> QED
    BY <2>3, <2>5, <2>7, AddedToNothing
<1> QED
  BY <1>2, <1>3

\* An absolute set of a capacity that is sent twice is accepted the second time
\* and does then nothing
THEOREM RetriesAreHarmless == Spec => []RetryIsHarmless
<1>1. StoredValid => RetryIsHarmless
  <2> SUFFICES ASSUME StoredValid, NEW edit \in Edits, ~edit.delta,
                      SetCapacity(GetOrEmpty, edit).ok
               PROVE  LET first  == SetCapacity(GetOrEmpty, edit)
                          second == SetCapacity(first.info, edit)
                      IN  second.ok /\ second.info = first.info
    BY DEF RetryIsHarmless
  <2>1. Sound(GetOrEmpty)
    BY EmptyInfoIsInfo DEF StoredValid, GetOrEmpty, Sound
  <2>2. PICK now : now = GetOrEmpty
    OBVIOUS
  <2>3. PICK first : first = SetCapacity(now, edit)
    OBVIOUS
  <2> DEFINE next == NextCapacity(now.capacity, edit.resource, edit.req, edit.delta, edit.incr)
             put  == [now EXCEPT !.capacity =
                        NextCapacity(@, edit.resource, edit.req, edit.delta, edit.incr)]
  <2>4. Sound(first.info) /\ first = Put(now, put) /\ first.ok
    BY <2>1, <2>2, <2>3, SetCapacityStores
  <2>5. /\ Given(edit.resource, edit.req) /\ edit.delta = FALSE /\ edit.incr \in BOOLEAN
        /\ IsCapacity(now.capacity)
    BY <2>1, <2>2, CallInputsAssumption DEF Given, Sound, IsInfo
  <2>6. IsCapacity(next)
    BY <2>5, NextCapacityIsCapacity
  <2>7. put = [capacity |-> next, usage |-> now.usage]
    BY <2>1, <2>2 DEF Sound, IsInfo
  <2>8. IsInfo(put)
    <3> HIDE DEF next, put
    <3> QED
      BY <2>1, <2>2, <2>6, <2>7 DEF Sound, IsInfo
  <2>9. put.capacity = next
    BY <2>7
  <2>10. first.info.capacity = next
    <3>1. PICK record : record = first.info
      OBVIOUS
    <3> HIDE DEF put, next
    <3> QED
      BY <2>4, <2>8, <2>9, <3>1, PutKeepsUsage
  <2>11. NextCapacity(next, edit.resource, edit.req, edit.delta, edit.incr) = next
    <3>1. next = NextCapacity(now.capacity, edit.resource, edit.req, FALSE, edit.incr)
      BY <2>5
    <3> HIDE DEF next
    <3>2. Repeats(now.capacity, edit.resource, edit.req, edit.incr)
      BY <2>5, AbsoluteIsOnce
    <3>3. NextCapacity(next, edit.resource, edit.req, FALSE, edit.incr) = next
      BY <3>1, <3>2 DEF Repeats
    <3> QED
      BY <2>5, <3>3
  <2> HIDE DEF next, put
  <2>12. SetCapacity(first.info, edit) = Put(first.info, [first.info EXCEPT !.capacity = next])
    BY <2>5, <2>10, <2>11 DEF SetCapacity, SetNodeResourceCapacity
  <2>13. [first.info EXCEPT !.capacity = next] = first.info
    BY <2>4, <2>10 DEF Sound, IsInfo
  <2>14. SetCapacity(first.info, edit) = [ok |-> TRUE, info |-> first.info]
    BY <2>4, <2>12, <2>13, SoundIsKept
  <2> QED
    BY <2>2, <2>3, <2>14
<1> QED
  BY <1>1, StoredRecordsAreValid, PTL
-----------------------------------------------------------------------------
(* Deltas *)

\* Volumes without a size are as good as volumes that are not there
LEMMA RemoveEmptyKeeps ==
    ASSUME NEW capacity, IsCapacity(capacity), NEW kept, kept = RemoveEmpty(capacity)
    PROVE  /\ \A device : SizeOf(kept.volumes, device) = SizeOf(capacity.volumes, device)
           /\ \A device \in DOMAIN kept.volumes : SizeOf(kept.volumes, device) # 0
           /\ kept.disks = capacity.disks /\ kept.storage = capacity.storage
<1>1. PICK devices \in SUBSET Devices, names \in SUBSET DiskNames :
         capacity \in CapacitiesOn(devices, names)
  BY DEF IsCapacity
<1> DEFINE volumes == capacity.volumes
           sized   == {device \in DOMAIN volumes : volumes[device] # 0}
<1>2. kept = [volumes |-> [device \in sized |-> volumes[device]], disks |-> capacity.disks,
              storage |-> capacity.storage]
  <2>1. capacity = [volumes |-> capacity.volumes, disks |-> capacity.disks,
                    storage |-> capacity.storage]
    BY <1>1 DEF CapacitiesOn
  <2> QED
    BY <2>1 DEF RemoveEmpty, Restrict
<1>3. DOMAIN kept.volumes = sized /\ \A device \in sized : kept.volumes[device] = volumes[device]
  BY <1>2
<1> HIDE DEF volumes
<1>4. \A device : SizeOf(kept.volumes, device) = SizeOf(volumes, device)
  BY <1>3 DEF SizeOf
<1>5. \A device \in DOMAIN kept.volumes : SizeOf(kept.volumes, device) # 0
  BY <1>3 DEF SizeOf
<1> QED
  BY <1>2, <1>4, <1>5 DEF volumes

\* Every size, quota and storage changes by what is asked for, those of volumes
\* and disks that are not there, too, and no disk is dropped
ChangesBy(capacity, change, plus, new) ==
    /\ \A device : SizeOf(new.volumes, device) =
          SizeOf(capacity.volumes, device) + plus * SizeOf(change.volumes, device)
    /\ \A name : \A rate \in Rates : QuotaOf(new.disks, name)[rate] =
          QuotaOf(capacity.disks, name)[rate] + plus * QuotaOf(change.disks, name)[rate]
    /\ new.storage = capacity.storage + plus * change.storage
    /\ DOMAIN capacity.disks \subseteq DOMAIN new.disks

\* That is what Add and Sub do
LEMMA ChangedAdds ==
    ASSUME NEW capacity, IsCapacity(capacity), NEW change, IsCapacity(change),
           NEW plus \in {1, -1}, NEW new, new = Changed(capacity, change, plus)
    PROVE  ChangesBy(capacity, change, plus, new)
<1> DEFINE Plus(x, y) == x + plus * y
           volumes == DOMAIN capacity.volumes \cup DOMAIN change.volumes
           names   == DOMAIN capacity.disks \cup DOMAIN change.disks
           Io(name) == [rate \in Rates |-> Plus(QuotaOf(capacity.disks, name)[rate],
                                                QuotaOf(change.disks, name)[rate])]
<1>1. Plus(0, 0) = 0
  OBVIOUS
<1>2. /\ new.volumes = [device \in volumes |-> Plus(SizeOf(capacity.volumes, device),
                                                   SizeOf(change.volumes, device))]
      /\ new.storage = Plus(capacity.storage, change.storage)
  BY DEF Changed
<1>3. /\ DOMAIN new.disks = names
      /\ \A name \in names : new.disks[name].io = Io(name)
  BY DEF Changed
<1> HIDE DEF Plus
<1>4. \A device : SizeOf(new.volumes, device) =
                     Plus(SizeOf(capacity.volumes, device), SizeOf(change.volumes, device))
  BY <1>1, <1>2 DEF SizeOf
<1>5. \A name : \A rate \in Rates : QuotaOf(new.disks, name)[rate] =
                   Plus(QuotaOf(capacity.disks, name)[rate], QuotaOf(change.disks, name)[rate])
  <2> SUFFICES ASSUME NEW name, NEW rate \in Rates
               PROVE  QuotaOf(new.disks, name)[rate] =
                         Plus(QuotaOf(capacity.disks, name)[rate],
                              QuotaOf(change.disks, name)[rate])
    OBVIOUS
  <2>1. CASE name \in names
    BY <1>3, <2>1 DEF QuotaOf
  <2>2. CASE name \notin names
    BY <1>1, <1>3, <2>2 DEF QuotaOf, NoIO
  <2> QED
    BY <2>1, <2>2
<1> QED
  BY <1>2, <1>3, <1>4, <1>5 DEF Plus, ChangesBy

\* Capacities of the same sizes, quotas and storage
SameCapacity(was, is) ==
    /\ is.storage = was.storage
    /\ \A device : SizeOf(is.volumes, device) = SizeOf(was.volumes, device)
    /\ \A name : QuotaOf(is.disks, name) = QuotaOf(was.disks, name)

\* What is added and then subtracted leaves sizes, quotas and storage as they
\* were, no volume without a size, and every disk that was there
LEMMA UpAndDown ==
    ASSUME NEW capacity, IsCapacity(capacity), NEW change, IsCapacity(change),
           NEW up, up = RemoveEmpty(Changed(capacity, change, 1)),
           NEW down, down = RemoveEmpty(Changed(up, change, -1))
    PROVE  /\ IsCapacity(up) /\ IsCapacity(down)
           /\ SameCapacity(capacity, down)
           /\ \A device \in DOMAIN down.volumes : SizeOf(down.volumes, device) # 0
           /\ DOMAIN capacity.disks \subseteq DOMAIN up.disks
           /\ DOMAIN up.disks \subseteq DOMAIN down.disks
<1>1. PICK added : added = Changed(capacity, change, 1)
  OBVIOUS
<1>2. PICK taken : taken = Changed(up, change, -1)
  OBVIOUS
<1>3. IsCapacity(added)
  BY <1>1, CapacityChanges, ChangedIsCapacity
<1>4. IsCapacity(up)
  BY <1>1, <1>3, LessIsCapacity
<1>5. IsCapacity(taken)
  BY <1>2, <1>4, CapacityChanges, ChangedIsCapacity
<1>6. IsCapacity(down)
  BY <1>2, <1>5, LessIsCapacity
<1>7. /\ \A device : SizeOf(capacity.volumes, device) \in Int
      /\ \A device : SizeOf(change.volumes, device) \in Int
      /\ \A name : QuotaOf(capacity.disks, name) \in IO /\ QuotaOf(down.disks, name) \in IO
      /\ \A name : \A rate \in Rates : /\ QuotaOf(capacity.disks, name)[rate] \in Int
                                       /\ QuotaOf(change.disks, name)[rate] \in Int
  BY <1>6, CapacityChanges, ChangeHasInts
<1>8. capacity.storage \in Int /\ change.storage \in Int
  BY DEF IsCapacity, CapacitiesOn
<1>9. /\ \A device : SizeOf(up.volumes, device) = SizeOf(added.volumes, device)
      /\ up.disks = added.disks /\ up.storage = added.storage
  BY <1>1, <1>3, RemoveEmptyKeeps
<1>10. /\ \A device : SizeOf(down.volumes, device) = SizeOf(taken.volumes, device)
       /\ \A device \in DOMAIN down.volumes : SizeOf(down.volumes, device) # 0
       /\ down.disks = taken.disks /\ down.storage = taken.storage
  BY <1>2, <1>5, RemoveEmptyKeeps
<1>11. /\ \A device : SizeOf(added.volumes, device) =
             SizeOf(capacity.volumes, device) + 1 * SizeOf(change.volumes, device)
       /\ \A name : \A rate \in Rates : QuotaOf(added.disks, name)[rate] =
             QuotaOf(capacity.disks, name)[rate] + 1 * QuotaOf(change.disks, name)[rate]
       /\ added.storage = capacity.storage + 1 * change.storage
       /\ DOMAIN capacity.disks \subseteq DOMAIN added.disks
  <2>1. ChangesBy(capacity, change, 1, added)
    BY <1>1, ChangedAdds
  <2> QED
    BY <2>1 DEF ChangesBy
<1>12. /\ \A device : SizeOf(taken.volumes, device) =
             SizeOf(up.volumes, device) + (-1) * SizeOf(change.volumes, device)
       /\ \A name : \A rate \in Rates : QuotaOf(taken.disks, name)[rate] =
             QuotaOf(up.disks, name)[rate] + (-1) * QuotaOf(change.disks, name)[rate]
       /\ taken.storage = up.storage + (-1) * change.storage
       /\ DOMAIN up.disks \subseteq DOMAIN taken.disks
  <2>1. ChangesBy(up, change, -1, taken)
    BY <1>2, <1>4, ChangedAdds
  <2> QED
    BY <2>1 DEF ChangesBy
<1>13. \A device : SizeOf(down.volumes, device) = SizeOf(capacity.volumes, device)
  BY <1>7, <1>9, <1>10, <1>11, <1>12
<1>14. \A name : QuotaOf(down.disks, name) = QuotaOf(capacity.disks, name)
  <2> SUFFICES ASSUME NEW name PROVE QuotaOf(down.disks, name) = QuotaOf(capacity.disks, name)
    OBVIOUS
  <2>1. \A rate \in Rates : QuotaOf(down.disks, name)[rate] = QuotaOf(capacity.disks, name)[rate]
    BY <1>7, <1>9, <1>10, <1>11, <1>12
  <2> QED
    BY <1>7, <2>1 DEF IO
<1>15. down.storage = capacity.storage
  BY <1>8, <1>9, <1>10, <1>11, <1>12
<1> QED
  BY <1>4, <1>6, <1>9, <1>10, <1>11, <1>12, <1>13, <1>14, <1>15 DEF SameCapacity

\* What a delta asks for, whatever it is applied to
AskedFor(resource, req) ==
    IF req = Nil THEN IF resource = Nil THEN NoCapacity ELSE resource ELSE Parsed(req)

\* A delta that takes no disk away changes the capacity it finds by that
LEMMA DeltaChanges ==
    ASSUME NEW capacity, IsCapacity(capacity), NEW resource, NEW req, Given(resource, req),
           req # Nil => req.rm = {}, NEW change, change = AskedFor(resource, req)
    PROVE  /\ IsCapacity(change)
           /\ NextCapacity(capacity, resource, req, TRUE, TRUE) =
                 RemoveEmpty(Changed(capacity, change, 1))
           /\ NextCapacity(capacity, resource, req, TRUE, FALSE) =
                 RemoveEmpty(Changed(capacity, change, -1))
<1>1. IsCapacity(change)
  BY EmptyInfoIsInfo, ParsedIsCapacity DEF AskedFor, Given
<1> DEFINE origin == IF req = Nil THEN capacity ELSE WithoutDisks(capacity, req)
<1>2. origin = capacity
  <2>1. CASE req = Nil
    BY <2>1
  <2>2. CASE req # Nil
    <3>1. PICK devices \in SUBSET Devices, names \in SUBSET DiskNames :
             capacity \in CapacitiesOn(devices, names)
      BY DEF IsCapacity
    <3> DEFINE disks == capacity.disks
    <3>2. /\ capacity = [volumes |-> capacity.volumes, disks |-> disks,
                         storage |-> capacity.storage]
          /\ disks = [name \in names |-> disks[name]] /\ DOMAIN disks = names
      BY <3>1 DEF CapacitiesOn
    <3>3. DOMAIN disks \ req.rm = names
      BY <2>2, <3>2
    <3>4. Restrict(disks, DOMAIN disks \ req.rm) = disks
      <4> HIDE DEF disks
      <4> QED
        BY <3>2, <3>3 DEF Restrict
    <3>5. WithoutDisks(capacity, req) = [volumes |-> capacity.volumes,
             disks |-> Restrict(disks, DOMAIN disks \ req.rm), storage |-> capacity.storage]
      BY <3>2 DEF WithoutDisks
    <3> QED
      BY <2>2, <3>2, <3>4, <3>5
  <2> QED
    BY <2>1, <2>2
<1>3. \A incr \in BOOLEAN : Asked(capacity, resource, req, TRUE, incr) = change
  BY DEF Asked, AskedFor, IsRollback
<1>4. \A incr \in BOOLEAN : NextCapacity(capacity, resource, req, TRUE, incr) =
         RemoveEmpty(Rewritten(origin, Asked(origin, resource, req, TRUE, incr), TRUE, incr))
  BY DEF NextCapacity
<1> HIDE DEF origin
<1>5. \A incr \in BOOLEAN : NextCapacity(capacity, resource, req, TRUE, incr) =
         RemoveEmpty(Rewritten(capacity, change, TRUE, incr))
  BY <1>2, <1>3, <1>4
<1>6. /\ Rewritten(capacity, change, TRUE, TRUE) = Changed(capacity, change, 1)
      /\ Rewritten(capacity, change, TRUE, FALSE) = Changed(capacity, change, -1)
  BY DEF Rewritten
<1> QED
  BY <1>1, <1>5, <1>6

\* What is added to a stored record's capacity is taken away again: what is left
\* holds what the record says is used
LEMMA DeltaLeavesRoom ==
    ASSUME NEW now, Sound(now), NEW capacity, IsCapacity(capacity),
           SameCapacity(now.capacity, capacity),
           \A device \in DOMAIN capacity.volumes : SizeOf(capacity.volumes, device) # 0,
           DOMAIN now.capacity.disks \subseteq DOMAIN capacity.disks,
           NEW usage, usage.volumes = now.usage.volumes, usage.storage = now.usage.storage,
           DOMAIN usage.disks = DOMAIN now.usage.disks,
           \A name \in DOMAIN usage.disks : usage.disks[name] = now.usage.disks[name],
           NEW next, next = [capacity |-> capacity, usage |-> usage]
    PROVE  ValidInfo(next)
<1>1. next.capacity = capacity /\ next.usage = usage
  OBVIOUS
<1>2. ValidVolumes(next)
  <2> SUFFICES ASSUME NEW device \in DOMAIN capacity.volumes
               PROVE  usage.volumes[device] \in 0..capacity.volumes[device]
    BY <1>1 DEF ValidVolumes
  <2>1. /\ SizeOf(now.capacity.volumes, device) = capacity.volumes[device]
        /\ SizeOf(now.capacity.volumes, device) # 0
    BY DEF SameCapacity, SizeOf
  <2>2. /\ device \in DOMAIN now.capacity.volumes
        /\ now.capacity.volumes[device] = capacity.volumes[device]
    BY <2>1 DEF SizeOf
  <2> QED
    BY <2>2 DEF Sound, ValidInfo, ValidVolumes
<1>3. ValidStorage(next)
  BY <1>1 DEF Sound, ValidInfo, ValidStorage, SameCapacity
<1>4. ValidDisks(next)
  <2> DEFINE disks == capacity.disks
             old   == now.capacity.disks
             used  == usage.disks
  <2>1. /\ \A name \in DOMAIN old : Covers(old[name].io, NoIO)
        /\ \A name \in DOMAIN used : name \in DOMAIN old
        /\ \A name \in DOMAIN used : Covers(used[name], NoIO) /\ Covers(old[name].io, used[name])
    BY DEF Sound, ValidInfo, ValidDisks
  <2>2. \A name \in DOMAIN disks : disks[name].io = QuotaOf(old, name)
    BY DEF SameCapacity, QuotaOf
  <2>3. \A name \in DOMAIN disks : Covers(disks[name].io, NoIO)
    <3>1. Covers(NoIO, NoIO)
      BY DEF Covers, NoIO
    <3> HIDE DEF disks, old
    <3> QED
      BY <2>1, <2>2, <3>1 DEF QuotaOf
  <2>4. \A name \in DOMAIN used : name \in DOMAIN disks /\ disks[name].io = old[name].io
    <3>1. DOMAIN old \subseteq DOMAIN disks
      OBVIOUS
    <3> HIDE DEF disks, old, used
    <3> QED
      BY <2>1, <2>2, <3>1 DEF QuotaOf
  <2>5. next.capacity.disks = disks /\ next.usage.disks = used
    BY <1>1
  <2> HIDE DEF disks, old, used
  <2> QED
    BY <2>1, <2>3, <2>4, <2>5 DEF ValidDisks
<1> QED
  BY <1>2, <1>3, <1>4 DEF ValidInfo

\* A capacity that was added by delta is taken away by the same request: it is
\* accepted, and every size, quota and storage is what it was
THEOREM DeltasAreUndone == Spec => []DeltaIsUndone
<1>1. StoredValid => DeltaIsUndone
  <2> SUFFICES ASSUME StoredValid, NEW edit \in Edits, edit.delta, edit.incr,
                      SetCapacity(GetOrEmpty, edit).ok,
                      NEW less, less = SetCapacity(SetCapacity(GetOrEmpty, edit).info,
                                                   [edit EXCEPT !.incr = FALSE])
               PROVE  less.ok /\ SameCapacity(GetOrEmpty.capacity, less.info.capacity)
    BY DEF DeltaIsUndone, SameCapacity
  <2>1. Sound(GetOrEmpty)
    BY EmptyInfoIsInfo DEF StoredValid, GetOrEmpty, Sound
  <2>2. PICK now : now = GetOrEmpty
    OBVIOUS
  <2>3. PICK more, record : more = SetCapacity(now, edit) /\ record = more.info
    OBVIOUS
  <2> DEFINE resource == edit.resource
             req      == edit.req
  <2>4. /\ edit = [resource |-> resource, req |-> req, delta |-> TRUE, incr |-> TRUE]
        /\ Given(resource, req) /\ edit.delta = TRUE /\ edit.incr = TRUE
        /\ Sound(now) /\ IsInfo(now) /\ IsCapacity(now.capacity)
    BY <2>1, <2>2, CallInputsAssumption DEF Given, Sound, IsInfo
  <2>5. /\ Sound(record) /\ more.ok
        /\ more = Put(now, [now EXCEPT !.capacity =
                     NextCapacity(@, resource, req, edit.delta, edit.incr)])
        /\ req # Nil => req.rm = {}
    BY <2>1, <2>2, <2>3, <2>4, SetCapacityStores
  <2> HIDE DEF resource, req
  <2>6. PICK up : up = NextCapacity(now.capacity, resource, req, TRUE, TRUE)
    OBVIOUS
  <2>7. PICK down : down = NextCapacity(up, resource, req, TRUE, FALSE)
    OBVIOUS
  <2> DEFINE put  == [capacity |-> up, usage |-> now.usage]
             next == [capacity |-> down, usage |-> record.usage]
  <2>8. PICK change : change = AskedFor(resource, req)
    OBVIOUS
  <2>9. /\ IsCapacity(change)
        /\ up = RemoveEmpty(Changed(now.capacity, change, 1))
    <3>1. PICK capacity : capacity = now.capacity
      OBVIOUS
    <3>2. IsCapacity(capacity) /\ Given(resource, req) /\ (req # Nil => req.rm = {})
      BY <2>4, <2>5, <3>1
    <3>3. /\ IsCapacity(change)
          /\ NextCapacity(capacity, resource, req, TRUE, TRUE) =
                RemoveEmpty(Changed(capacity, change, 1))
      BY <2>8, <3>2, DeltaChanges
    <3> QED
      BY <2>6, <3>1, <3>3
  <2>10. IsCapacity(up)
    BY <2>4, <2>6, NextCapacityIsCapacity
  <2>11. down = RemoveEmpty(Changed(up, change, -1))
    BY <2>4, <2>5, <2>8, <2>10, <2>7, DeltaChanges
  <2>12. /\ IsCapacity(down) /\ SameCapacity(now.capacity, down)
         /\ \A device \in DOMAIN down.volumes : SizeOf(down.volumes, device) # 0
         /\ DOMAIN now.capacity.disks \subseteq DOMAIN up.disks
         /\ DOMAIN up.disks \subseteq DOMAIN down.disks
    BY <2>4, <2>9, <2>11, UpAndDown
  <2>13. more = Put(now, put)
    <3>1. \A x : [now EXCEPT !.capacity = x] = [capacity |-> x, usage |-> now.usage]
      BY <2>4 DEF IsInfo
    <3> QED
      BY <2>4, <2>5, <3>1, <2>6
  <2>14. IsInfo(put) /\ put.capacity = up /\ put.usage = now.usage
    BY <2>4, <2>10 DEF IsInfo
  <2> HIDE DEF put
  <2>15. /\ record.capacity = up
         /\ record.usage.volumes = now.usage.volumes
         /\ record.usage.storage = now.usage.storage
         /\ DOMAIN record.usage.disks = DOMAIN now.usage.disks \cap DOMAIN up.disks
         /\ \A name \in DOMAIN record.usage.disks :
               record.usage.disks[name] = now.usage.disks[name]
    <3>1. PICK put1 : put1 = put
      OBVIOUS
    <3>2. IsInfo(put1) /\ Put(now, put1).ok /\ record = Put(now, put1).info
      BY <2>3, <2>5, <2>13, <2>14, <3>1
    <3>3. /\ record.capacity = put1.capacity
          /\ record.usage.volumes = put1.usage.volumes
          /\ record.usage.storage = put1.usage.storage
          /\ DOMAIN record.usage.disks = DOMAIN put1.usage.disks \cap DOMAIN put1.capacity.disks
          /\ \A name \in DOMAIN record.usage.disks :
                record.usage.disks[name] = put1.usage.disks[name]
      BY <3>2, PutStores
    <3> QED
      BY <2>14, <3>1, <3>3
  <2>16. DOMAIN record.usage.disks = DOMAIN now.usage.disks
    <3>1. DOMAIN now.usage.disks \subseteq DOMAIN up.disks
      BY <2>4, <2>12 DEF Sound
    <3> QED
      BY <2>15, <3>1
  <2>17. ValidInfo(next)
    <3>1. PICK usage, next1 : usage = record.usage /\ next1 = next
      OBVIOUS
    <3>2. DOMAIN now.capacity.disks \subseteq DOMAIN down.disks
      BY <2>12
    <3>3. next1 = [capacity |-> down, usage |-> usage]
      BY <3>1
    <3> HIDE DEF next
    <3>4. ValidInfo(next1)
      BY <2>4, <2>12, <2>15, <2>16, <3>1, <3>2, <3>3, DeltaLeavesRoom
    <3> QED
      BY <3>1, <3>4
  <2>18. less = Put(record, next)
    <3>1. PICK edit1 : edit1 = [edit EXCEPT !.incr = FALSE]
      OBVIOUS
    <3>2. edit1 = [resource |-> resource, req |-> req, delta |-> TRUE, incr |-> FALSE]
      BY <2>4, <3>1
    <3>3. less = SetNodeResourceCapacity(record, resource, req, TRUE, FALSE)
      <4>1. less = SetCapacity(record, edit1)
        BY <2>2, <2>3, <3>1
      <4>2. /\ edit1.resource = resource /\ edit1.req = req
            /\ edit1.delta = TRUE /\ edit1.incr = FALSE
        BY <3>2
      <4> QED
        BY <4>1, <4>2 DEF SetCapacity
    <3>4. \A x : [record EXCEPT !.capacity = x] = [capacity |-> x, usage |-> record.usage]
      BY <2>5 DEF Sound, IsInfo
    <3>5. SetNodeResourceCapacity(record, resource, req, TRUE, FALSE) =
             Put(record, [record EXCEPT !.capacity =
                NextCapacity(record.capacity, resource, req, TRUE, FALSE)])
      BY <2>5 DEF SetNodeResourceCapacity
    <3> QED
      BY <2>15, <3>3, <3>4, <3>5, <2>7
  <2>19. less.ok /\ less.info.capacity = down
    <3>1. next.capacity = down
      OBVIOUS
    <3> HIDE DEF next
    <3>2. less = [ok |-> TRUE, info |-> Normalized(next)]
      BY <2>17, <2>18 DEF Put
    <3>3. Normalized(next).capacity = down
      BY <3>1 DEF Normalized
    <3> QED
      BY <3>2, <3>3
  <2> QED
    BY <2>2, <2>12, <2>19
<1> QED
  BY <1>1, StoredRecordsAreValid, PTL
=============================================================================
