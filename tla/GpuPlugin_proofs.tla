-------------------------- MODULE GpuPlugin_proofs --------------------------
(***************************************************************************)
(* Facts about maps of counts, for every set of products; what the verbs   *)
(* compute from a record, for every record and request; and what every     *)
(* step of a plugin process preserves, whoever makes the calls: the types, *)
(* and the validity of every stored record.  GpuCalls and GpuCluster take  *)
(* their inductive invariants from here.                                   *)
(***************************************************************************)
EXTENDS GpuPlugin, FiniteSetTheorems, TLAPS

-----------------------------------------------------------------------------
(* Maps of counts *)

\* The maps stay maps: what Add, Sub and MergeFromResource return is one
LEMMA NoCardsIsMap == NoCards \in CountMaps
BY DEF NoCards, CountMaps

LEMMA CountOfIsInt ==
    ASSUME NEW m \in CountMaps, NEW prod \in Products
    PROVE  CountOf(m, prod) \in Int
BY DEF CountMaps, CountOf, Keys

LEMMA AddIsMap ==
    ASSUME NEW m \in CountMaps, NEW d \in CountMaps
    PROVE  Add(m, d) \in CountMaps
BY DEF CountMaps, Add, CountOf, Keys, Entry

LEMMA SubIsMap ==
    ASSUME NEW m \in CountMaps, NEW d \in CountMaps
    PROVE  Sub(m, d) \in CountMaps
BY DEF CountMaps, Sub, CountOf, Keys, Entry

LEMMA MergeIsMap ==
    ASSUME NEW m \in CountMaps, NEW d \in CountMaps
    PROVE  Merge(m, d) \in CountMaps
<1>1. Add(m, d) \in CountMaps
  BY AddIsMap
<1> QED
  BY <1>1 DEF CountMaps, Merge, CountOf, Keys

\* Adding a valid map to nothing gives that map: an absolute set writes
\* what it was given
LEMMA AddToNothing ==
    ASSUME NEW m \in CountMaps, Validate(m)
    PROVE  Add(NoCards, m) = m
BY NoEntryAssumption DEF CountMaps, Validate, Add, NoCards, CountOf, Keys, Entry

\* A release undoes the booking of the same cards, entry by entry
LEMMA SubUndoesAdd ==
    ASSUME NEW m \in CountMaps, NEW d \in CountMaps, Validate(m)
    PROVE  Sub(Add(m, d), d) = m
BY NoEntryAssumption DEF CountMaps, Validate, Add, Sub, CountOf, Keys, Entry

\* Booking cards on a valid map leaves a valid map
LEMMA AddStaysValid ==
    ASSUME NEW m \in CountMaps, NEW d \in CountMaps, Validate(m), Validate(d)
    PROVE  Validate(Add(m, d))
BY NoEntryAssumption DEF CountMaps, Validate, ValidateProd, Add, CountOf, Keys, Entry

\* What a realloc merges into a request is valid when no product is blank
LEMMA MergeIsValid ==
    ASSUME NEW m \in CountMaps, NEW d \in CountMaps, ValidateProd(m), ValidateProd(d)
    PROVE  Validate(Merge(m, d))
<1>1. Add(m, d) \in CountMaps
  BY AddIsMap
<1>2. \A prod \in Keys(Merge(m, d)) : prod \in Keys(Add(m, d)) /\ Merge(m, d)[prod] > 0
  BY <1>1, NoEntryAssumption DEF CountMaps, Merge, CountOf, Keys
<1>3. \A prod \in Keys(Add(m, d)) : prod \in Keys(m) \cup Keys(d)
  BY DEF CountMaps, Add, Keys
<1> QED
  BY <1>2, <1>3 DEF Validate, ValidateProd

-----------------------------------------------------------------------------
(* A map without a zero entry is known by its counts.  Every operation       *)
(* keeps a map so, and adds or subtracts the counts.                         *)

Tight(pcm) == \A prod \in Keys(pcm) : pcm[prod] # 0

LEMMA TightMapsAreCounts ==
    ASSUME NEW m \in CountMaps, NEW d \in CountMaps, Tight(m), Tight(d),
           \A prod \in Products : CountOf(m, prod) = CountOf(d, prod)
    PROVE  m = d
<1>1. \A prod \in Products : m[prod] = d[prod]
  BY DEF CountMaps, CountOf, Keys, Tight
<1> QED
  BY <1>1 DEF CountMaps

LEMMA AddCounts ==
    ASSUME NEW m \in CountMaps, NEW d \in CountMaps, NEW prod \in Products
    PROVE  CountOf(Add(m, d), prod) = CountOf(m, prod) + CountOf(d, prod)
BY NoEntryAssumption DEF CountMaps, CountOf, Keys, Add, Entry

LEMMA SubCounts ==
    ASSUME NEW m \in CountMaps, NEW d \in CountMaps, NEW prod \in Products
    PROVE  CountOf(Sub(m, d), prod) = CountOf(m, prod) - CountOf(d, prod)
BY NoEntryAssumption DEF CountMaps, CountOf, Keys, Sub, Entry

LEMMA AddIsTight ==
    ASSUME NEW m \in CountMaps, NEW d \in CountMaps, Tight(m)
    PROVE  Tight(Add(m, d))
BY NoEntryAssumption DEF CountMaps, CountOf, Keys, Add, Entry, Tight

LEMMA SubIsTight ==
    ASSUME NEW m \in CountMaps, NEW d \in CountMaps, Tight(m)
    PROVE  Tight(Sub(m, d))
BY NoEntryAssumption DEF CountMaps, CountOf, Keys, Sub, Entry, Tight

LEMMA MergeIsTight ==
    ASSUME NEW m \in CountMaps, NEW d \in CountMaps
    PROVE  Tight(Merge(m, d))
BY NoEntryAssumption DEF CountMaps, CountOf, Keys, Merge, Tight

LEMMA ValidIsTight ==
    ASSUME NEW m \in CountMaps, Validate(m)
    PROVE  Tight(m) /\ \A prod \in Products : CountOf(m, prod) >= 0
BY NoEntryAssumption DEF CountMaps, CountOf, Keys, Validate, Tight

LEMMA TightIsValid ==
    ASSUME NEW m \in CountMaps, Tight(m), Keys(m) \cap Blank = {},
           \A prod \in Products : CountOf(m, prod) >= 0
    PROVE  Validate(m)
BY NoEntryAssumption DEF CountMaps, CountOf, Keys, Validate, ValidateProd, Tight

-----------------------------------------------------------------------------
(* The loops over the workloads.  Totals is a recursive function, so it     *)
(* satisfies its recursion once some function does; that one exists for     *)
(* every prefix of the works by a least-counterexample argument.            *)

LEMMA LeastNatural ==
    ASSUME NEW T, T \subseteq Nat, T # {}
    PROVE  \E x \in T : \A y \in T : x <= y
<1>1. IsWellFoundedOn(OpToRel(<, Nat), Nat)
  BY NatLessThanWellFounded
<1>2. PICK x \in T : \A y \in T : ~ (<<y, x>> \in OpToRel(<, Nat))
  BY <1>1, WFMin
<1>3. \A y \in T : ~ (y < x)
  BY <1>2 DEF OpToRel
<1> QED
  BY <1>3

LEMMA ApplyIsMap ==
    ASSUME NEW m \in CountMaps, NEW d \in CountMaps, NEW plus
    PROVE  Apply(m, d, plus) \in CountMaps
BY AddIsMap, SubIsMap DEF Apply

LEMMA TotalsRecursion ==
    ASSUME NEW start \in CountMaps, NEW works \in Seq(CountMaps), NEW plus
    PROVE  /\ Totals(start, works, plus) \in [0..Len(works) -> CountMaps]
           /\ Totals(start, works, plus)[0] = start
           /\ \A i \in 1..Len(works) :
                 Totals(start, works, plus)[i]
                   = Apply(Totals(start, works, plus)[i - 1], works[i], plus)
<1> DEFINE Next(f, i) == IF i = 0 THEN start ELSE Apply(f[i - 1], works[i], plus)
           Good(n) == \E f \in [0..n -> CountMaps] : \A i \in 0..n : f[i] = Next(f, i)
<1>1. Len(works) \in Nat
  OBVIOUS
<1>2. Good(0)
  <2> DEFINE f == [i \in 0..0 |-> start]
  <2>1. f \in [0..0 -> CountMaps] /\ \A i \in 0..0 : f[i] = Next(f, i)
    OBVIOUS
  <2> QED
    BY <2>1
<1>3. ASSUME NEW n \in 1..Len(works), Good(n - 1)
      PROVE  Good(n)
  <2>1. PICK f \in [0..(n - 1) -> CountMaps] : \A i \in 0..(n - 1) : f[i] = Next(f, i)
    BY <1>3
  <2> DEFINE g == [i \in 0..n |-> IF i = n THEN Apply(f[n - 1], works[n], plus) ELSE f[i]]
  <2>2. /\ works[n] \in CountMaps
        /\ n \in Nat
        /\ n - 1 \in 0..(n - 1)
    OBVIOUS
  <2>3. Apply(f[n - 1], works[n], plus) \in CountMaps
    BY <2>2, ApplyIsMap
  <2>4. g \in [0..n -> CountMaps]
    BY <2>2, <2>3
  <2>5. ASSUME NEW i \in 0..n
        PROVE  g[i] = Next(g, i)
    <3>1. CASE i = n
      BY <3>1, <2>2
    <3>2. CASE i # n
      <4>1. i \in 0..(n - 1) /\ (i # 0 => i - 1 \in 0..(n - 1))
        BY <3>2
      <4>2. g[i] = f[i] /\ (i # 0 => g[i - 1] = f[i - 1])
        BY <4>1, <3>2
      <4> QED
        BY <4>1, <4>2, <2>1
    <3> QED
      BY <3>1, <3>2
  <2> QED
    BY <2>4, <2>5
<1>4. Good(Len(works))
  <2> DEFINE Bad == {n \in 0..Len(works) : ~Good(n)}
  <2>1. SUFFICES ASSUME Bad # {}
                 PROVE  FALSE
    BY <1>1
  <2>2. PICK n \in Bad : \A m \in Bad : n <= m
    <3>1. Bad \subseteq Nat
      OBVIOUS
    <3> QED
      BY <2>1, <3>1, LeastNatural
  <2>3. n # 0
    BY <1>2
  <2>4. n \in 1..Len(works) /\ n - 1 \in 0..Len(works) /\ ~(n <= n - 1)
    BY <2>3, <1>1
  <2>5. Good(n - 1)
    BY <2>2, <2>4
  <2> QED
    BY <2>4, <2>5, <1>3
<1>5. PICK f \in [0..Len(works) -> CountMaps] : \A i \in 0..Len(works) : f[i] = Next(f, i)
  BY <1>4
<1>6. f = [i \in 0..Len(works) |-> Next(f, i)]
  BY <1>5
<1> DEFINE t == Totals(start, works, plus)
<1>7. t = CHOOSE g : g = [i \in 0..Len(works) |-> Next(g, i)]
  BY DEF Totals
<1>8. t = [i \in 0..Len(works) |-> Next(t, i)]
  BY <1>6, <1>7
<1> HIDE DEF t
<1>9. \A i \in 0..Len(works) : t[i] = Next(t, i)
  BY <1>8
<1>10. \A n \in 0..Len(works) : t[n] \in CountMaps
  <2> DEFINE Bad == {n \in 0..Len(works) : t[n] \notin CountMaps}
  <2>1. SUFFICES ASSUME Bad # {}
                 PROVE  FALSE
    OBVIOUS
  <2>2. PICK n \in Bad : \A m \in Bad : n <= m
    <3>1. Bad \subseteq Nat
      OBVIOUS
    <3> QED
      BY <2>1, <3>1, LeastNatural
  <2>3. n # 0
    BY <1>1, <1>9
  <2>4. n \in 1..Len(works) /\ n - 1 \in 0..Len(works) /\ ~(n <= n - 1)
    BY <2>3, <1>1
  <2>5. t[n - 1] \in CountMaps /\ works[n] \in CountMaps
    BY <2>2, <2>4
  <2>6. t[n] = Apply(t[n - 1], works[n], plus)
    BY <1>9, <2>3
  <2> QED
    BY <2>5, <2>6, ApplyIsMap
<1>11. t \in [0..Len(works) -> CountMaps]
  BY <1>8, <1>10
<1>12. t[0] = start
  BY <1>1, <1>9
<1>13. \A i \in 1..Len(works) : t[i] = Apply(t[i - 1], works[i], plus)
  BY <1>1, <1>9
<1> QED
  BY <1>11, <1>12, <1>13 DEF t

LEMMA ApplyAllIsMap ==
    ASSUME NEW start \in CountMaps, NEW works \in Seq(CountMaps), NEW plus
    PROVE  ApplyAll(start, works, plus) \in CountMaps
<1>1. Len(works) \in 0..Len(works)
  OBVIOUS
<1> QED
  BY <1>1, TotalsRecursion DEF ApplyAll

-----------------------------------------------------------------------------
(* The records the verbs write *)

LEMMA CalculatedIsMap ==
    ASSUME NEW req \in CountMaps \cup {Nil}, NEW resource \in CountMaps \cup {Nil},
           NEW origin \in CountMaps, NEW works \in Seq(CountMaps),
           NEW delta \in BOOLEAN, NEW incr \in BOOLEAN
    PROVE  CalculateNodeResource(req, resource, origin, works, delta, incr) \in CountMaps
<1> DEFINE start == IF delta THEN origin ELSE NoCards
           plus  == incr \/ ~delta
<1>1. start \in CountMaps
  BY NoCardsIsMap
<1>2. ApplyAll(start, works, plus) \in CountMaps
  BY <1>1, ApplyAllIsMap
<1>3. req # Nil => Apply(start, req, plus) \in CountMaps
  BY <1>1, ApplyIsMap
<1>4. resource # Nil => Apply(start, resource, plus) \in CountMaps
  BY <1>1, ApplyIsMap
<1> QED
  BY <1>2, <1>3, <1>4 DEF CalculateNodeResource

LEMMA NextCapacityIsMap ==
    ASSUME NEW info \in Infos, NEW resource \in CountMaps \cup {Nil},
           NEW req \in CountMaps \cup {Nil, Keyless},
           NEW delta \in BOOLEAN, NEW incr \in BOOLEAN
    PROVE  NextCapacity(info, resource, req, delta, incr) \in CountMaps
<1> DEFINE asked == IF req = Nil THEN Nil
                    ELSE IF delta THEN ParsedRequest(req)
                    ELSE LoadFromOrigin(req, info.capacity)
<1>1. info.capacity \in CountMaps
  BY DEF Infos
<1>2. asked \in CountMaps \cup {Nil}
  BY <1>1, NoCardsIsMap DEF ParsedRequest, LoadFromOrigin
<1>3. <<>> \in Seq(CountMaps)
  OBVIOUS
<1> QED
  BY <1>1, <1>2, <1>3, CalculatedIsMap DEF NextCapacity

LEMMA NextUsageIsMap ==
    ASSUME NEW info \in Infos, NEW resource \in CountMaps \cup {Nil},
           NEW req \in CountMaps \cup {Nil, Keyless}, NEW works \in Seq(CountMaps),
           NEW delta \in BOOLEAN, NEW incr \in BOOLEAN
    PROVE  NextUsage(info, resource, req, works, delta, incr) \in CountMaps
<1> DEFINE asked == IF req = Nil THEN Nil ELSE ParsedRequest(req)
<1>1. info.usage \in CountMaps
  BY DEF Infos
<1>2. asked \in CountMaps \cup {Nil}
  BY NoCardsIsMap DEF ParsedRequest
<1> QED
  BY <1>1, <1>2, CalculatedIsMap DEF NextUsage

LEMMA EmptyInfoIsInfo == EmptyInfo \in Infos /\ ValidInfo(EmptyInfo)
BY NoCardsIsMap DEF EmptyInfo, Infos, ValidInfo, Validate, ValidateProd, NoCards, Keys

\* A snapshot that passed Validate is put back verbatim by an absolute set,
\* a capacity through the request and a usage through the resource
LEMMA SnapshotIsRestored ==
    ASSUME NEW info, NEW before \in CountMaps, Validate(before), NEW incr
    PROVE  /\ NextCapacity(info, Nil, before, FALSE, incr) = before
           /\ NextUsage(info, before, Nil, <<>>, FALSE, incr) = before
<1>1. before # Nil /\ before # Keyless
  BY NilAssumption, KeylessAssumption
<1> QED
  BY <1>1, AddToNothing
     DEF NextCapacity, NextUsage, CalculateNodeResource, LoadFromOrigin, Apply

-----------------------------------------------------------------------------
(* Count adds the entries up in the order of a CHOOSE.  Its recursion, over *)
(* the sets of products, is well founded because they are finite.           *)

Pick(s) == CHOOSE x \in s : TRUE

LEMMA CountUnfolds ==
    ASSUME NEW pcm \in CountMaps
    PROVE  \E it \in [SUBSET Products -> Int] :
             /\ Count(pcm) = it[Products]
             /\ \A s \in SUBSET Products :
                   it[s] = IF s = {} THEN 0 ELSE CountOf(pcm, Pick(s)) + it[s \ {Pick(s)}]
<1> DEFINE Next(f, s) == IF s = {} THEN 0 ELSE CountOf(pcm, Pick(s)) + f[s \ {Pick(s)}]
           Small(n) == {s \in SUBSET Products : Cardinality(s) <= n}
           Good(n) == \E f \in [Small(n) -> Int] : \A s \in Small(n) : f[s] = Next(f, s)
           N == Cardinality(Products)
<1>1. \A s \in SUBSET Products : IsFiniteSet(s) /\ Cardinality(s) \in Nat /\ Cardinality(s) <= N
  BY ProductsAssumption, FS_Subset, FS_CardinalityType
<1>2. \A s \in SUBSET Products : s # {} => /\ Pick(s) \in s
                                         /\ s \ {Pick(s)} \in SUBSET Products
                                         /\ Cardinality(s \ {Pick(s)}) = Cardinality(s) - 1
  BY <1>1, FS_RemoveElement DEF Pick
<1>3. \A s \in SUBSET Products : s # {} => CountOf(pcm, Pick(s)) \in Int
  BY <1>2, CountOfIsInt
<1>4. Good(0)
  <2>1. \A s \in Small(0) : s = {}
    BY <1>1, FS_EmptySet
  <2> DEFINE f == [s \in Small(0) |-> 0]
  <2>2. f \in [Small(0) -> Int] /\ \A s \in Small(0) : f[s] = Next(f, s)
    BY <2>1
  <2> QED
    BY <2>2
<1>5. ASSUME NEW n \in Nat \ {0}, Good(n - 1)
      PROVE  Good(n)
  <2>1. PICK f \in [Small(n - 1) -> Int] : \A s \in Small(n - 1) : f[s] = Next(f, s)
    BY <1>5
  <2> DEFINE g == [s \in Small(n) |-> IF s = {} THEN 0 ELSE CountOf(pcm, Pick(s)) + f[s \ {Pick(s)}]]
  <2>2. \A s \in Small(n) : s # {} => s \ {Pick(s)} \in Small(n - 1)
    BY <1>1, <1>2
  <2>3. g \in [Small(n) -> Int]
    BY <1>3, <2>2
  <2>4. Small(n - 1) \subseteq Small(n)
    BY <1>1
  <2>5. \A s \in Small(n - 1) : g[s] = f[s]
    BY <2>1, <2>4
  <2>6. \A s \in Small(n) : g[s] = Next(g, s)
    BY <2>2, <2>5
  <2> QED
    BY <2>3, <2>6
<1>6. \A n \in Nat : Good(n)
  <2> DEFINE Bad == {n \in Nat : ~Good(n)}
  <2>1. SUFFICES ASSUME Bad # {}
                 PROVE  FALSE
    OBVIOUS
  <2>2. PICK n \in Bad : \A m \in Bad : n <= m
    BY <2>1, LeastNatural
  <2>3. n # 0
    BY <1>4
  <2>4. n - 1 \in Nat /\ ~(n <= n - 1) /\ n \in Nat \ {0}
    BY <2>3
  <2>5. Good(n - 1)
    BY <2>2, <2>4
  <2> QED
    BY <2>4, <2>5, <1>5
<1>7. Small(N) = SUBSET Products /\ N \in Nat
  BY <1>1
<1>8. PICK f \in [SUBSET Products -> Int] : \A s \in SUBSET Products : f[s] = Next(f, s)
  BY <1>6, <1>7
<1> DEFINE Body(g) == [s \in SUBSET Products |-> Next(g, s)]
           it == CHOOSE g : g = Body(g)
<1>9. f = Body(f)
  BY <1>8
<1>10. it = Body(it)
  BY <1>9
<1>11. Count(pcm) = it[Products]
  BY DEF Count, MapThenSumSet, MapThenFoldSet, Pick
<1> HIDE DEF it
<1>12. \A s \in SUBSET Products : it[s] = Next(it, s)
  BY <1>10
<1>13. \A s \in SUBSET Products : it[s] \in Int
  <2> DEFINE Bad == {n \in Nat : \E s \in SUBSET Products : Cardinality(s) = n /\ it[s] \notin Int}
  <2>1. SUFFICES ASSUME Bad # {}
                 PROVE  FALSE
    BY <1>1
  <2>2. PICK n \in Bad : \A m \in Bad : n <= m
    BY <2>1, LeastNatural
  <2>3. PICK s \in SUBSET Products : Cardinality(s) = n /\ it[s] \notin Int
    BY <2>2
  <2>4. it[s] = Next(it, s)
    BY <1>12
  <2>5. s # {}
    BY <2>3, <2>4
  <2> DEFINE r == s \ {Pick(s)}
  <2>6. r \in SUBSET Products /\ Cardinality(r) = Cardinality(s) - 1 /\ Cardinality(r) \in Nat
    BY <1>1, <1>2, <2>5
  <2> HIDE DEF r
  <2>7. Cardinality(r) < n /\ Cardinality(r) \in Nat
    BY <2>3, <2>6, <1>1
  <2>8. it[r] \in Int
    BY <2>2, <2>6, <2>7
  <2> QED
    BY <2>3, <2>4, <2>5, <2>8, <1>3 DEF r
<1>14. it \in [SUBSET Products -> Int]
  BY <1>10, <1>13
<1> QED
  BY <1>11, <1>12, <1>14

(***************************************************************************)
(* Of two maps, the one with at least as many cards of every product has   *)
(* the greater total, strictly so once it has more of one of them.         *)
(***************************************************************************)
LEMMA CountIsMonotone ==
    ASSUME NEW m \in CountMaps, NEW d \in CountMaps,
           \A prod \in Products : CountOf(m, prod) <= CountOf(d, prod)
    PROVE  /\ Count(m) \in Int
           /\ Count(d) \in Int
           /\ Count(m) <= Count(d)
           /\ (\E prod \in Products : CountOf(m, prod) < CountOf(d, prod))
                => Count(m) < Count(d)
<1>1. PICK f \in [SUBSET Products -> Int] :
         /\ Count(m) = f[Products]
         /\ \A s \in SUBSET Products :
               f[s] = IF s = {} THEN 0 ELSE CountOf(m, Pick(s)) + f[s \ {Pick(s)}]
  BY CountUnfolds
<1>2. PICK g \in [SUBSET Products -> Int] :
         /\ Count(d) = g[Products]
         /\ \A s \in SUBSET Products :
               g[s] = IF s = {} THEN 0 ELSE CountOf(d, Pick(s)) + g[s \ {Pick(s)}]
  BY CountUnfolds
<1> DEFINE More(s) == \E prod \in s : CountOf(m, prod) < CountOf(d, prod)
           Holds(s) == f[s] <= g[s] /\ (More(s) => f[s] < g[s])
           Bad == {n \in Nat : \E s \in SUBSET Products : Cardinality(s) = n /\ ~Holds(s)}
<1>3. \A s \in SUBSET Products : IsFiniteSet(s) /\ Cardinality(s) \in Nat
  BY ProductsAssumption, FS_Subset, FS_CardinalityType
<1>4. ASSUME Bad # {}
      PROVE  FALSE
  <2>1. PICK n \in Bad : \A k \in Bad : n <= k
    BY <1>4, LeastNatural
  <2>2. PICK s \in SUBSET Products : Cardinality(s) = n /\ ~Holds(s)
    BY <2>1
  <2>3. s # {}
    <3>1. {} \in SUBSET Products /\ ~More({})
      OBVIOUS
    <3>2. f[{}] = 0 /\ g[{}] = 0
      BY <1>1, <1>2, <3>1
    <3> QED
      BY <2>2, <3>1, <3>2
  <2> DEFINE x == Pick(s)
             r == s \ {x}
  <2>4. x \in s /\ x \in Products /\ r \in SUBSET Products
    BY <2>3 DEF Pick
  <2>5. Cardinality(r) = n - 1
    BY <2>2, <2>4, <1>3, FS_RemoveElement
  <2>6. Holds(r)
    <3>1. n - 1 \in Nat /\ n - 1 \notin Bad
      BY <2>1, <2>4, <2>5, <1>3
    <3> QED
      BY <3>1, <2>4, <2>5
  <2>7. f[s] = CountOf(m, x) + f[r] /\ g[s] = CountOf(d, x) + g[r]
    BY <1>1, <1>2, <2>3
  <2>8. CountOf(m, x) \in Int /\ CountOf(d, x) \in Int /\ CountOf(m, x) <= CountOf(d, x)
    BY <2>4, CountOfIsInt
  <2>9. f[r] \in Int /\ g[r] \in Int
    BY <2>4
  <2>10. More(s) => CountOf(m, x) < CountOf(d, x) \/ More(r)
    BY <2>4
  <2> HIDE DEF x, r, More
  <2> QED
    BY <2>2, <2>6, <2>7, <2>8, <2>9, <2>10
<1>5. Holds(Products)
  BY <1>3, <1>4
<1> QED
  BY <1>1, <1>2, <1>5

\* A request without entries asks for nothing, every other valid one for something
LEMMA CountOfValid ==
    ASSUME NEW m \in CountMaps, Validate(m)
    PROVE  /\ Keys(m) = {} => Count(m) = 0
           /\ Keys(m) # {} => Count(m) > 0
<1>1. Count(NoCards) = 0
  <2>1. PICK f \in [SUBSET Products -> Int] :
           /\ Count(NoCards) = f[Products]
           /\ \A s \in SUBSET Products :
                 f[s] = IF s = {} THEN 0 ELSE CountOf(NoCards, Pick(s)) + f[s \ {Pick(s)}]
    BY CountUnfolds, NoCardsIsMap
  <2>2. \A s \in SUBSET Products : IsFiniteSet(s) /\ Cardinality(s) \in Nat
    BY ProductsAssumption, FS_Subset, FS_CardinalityType
  <2>3. \A prod \in Products : CountOf(NoCards, prod) = 0
    BY DEF CountOf, Keys, NoCards
  <2> DEFINE Bad == {n \in Nat : \E s \in SUBSET Products : Cardinality(s) = n /\ f[s] # 0}
  <2>4. ASSUME Bad # {}
        PROVE  FALSE
    <3>1. PICK n \in Bad : \A k \in Bad : n <= k
      BY <2>4, LeastNatural
    <3>2. PICK s \in SUBSET Products : Cardinality(s) = n /\ f[s] # 0
      BY <3>1
    <3>3. s # {}
      BY <3>2, <2>1
    <3>4. Pick(s) \in s /\ Pick(s) \in Products
      BY <3>3 DEF Pick
    <3>5. Cardinality(s \ {Pick(s)}) = n - 1 /\ n - 1 \in Nat
      BY <3>2, <3>4, <2>2, FS_RemoveElement
    <3>6. f[s \ {Pick(s)}] = 0
      BY <3>1, <3>5
    <3> QED
      BY <3>2, <3>3, <3>4, <3>6, <2>1, <2>3
  <2> QED
    BY <2>1, <2>2, <2>4
<1>2. \A prod \in Products : /\ CountOf(NoCards, prod) = 0
                             /\ CountOf(NoCards, prod) <= CountOf(m, prod)
                             /\ prod \in Keys(m) => CountOf(m, prod) > 0
  BY NoEntryAssumption DEF CountOf, Keys, NoCards, Validate, CountMaps
<1>3. CASE Keys(m) = {}
  <2>1. m = NoCards
    BY <1>3 DEF Keys, NoCards, CountMaps
  <2> QED
    BY <1>1, <1>3, <2>1
<1>4. CASE Keys(m) # {}
  <2>1. \E prod \in Products : CountOf(NoCards, prod) < CountOf(m, prod)
    BY <1>2, <1>4 DEF Keys
  <2> QED
    BY <1>1, <1>2, <1>4, <2>1, CountIsMonotone, NoCardsIsMap
<1> QED
  BY <1>3, <1>4

-----------------------------------------------------------------------------
(* Deploy capacity *)

LEMMA MinOfFinite ==
    ASSUME NEW S \in SUBSET Int, IsFiniteSet(S), S # {}
    PROVE  Min(S) \in S /\ \A x \in S : Min(S) <= x
<1> DEFINE HasMin(T) == \E x \in T : \A y \in T : x <= y
           Bad == {n \in Nat : \E T \in SUBSET S :
                                  T # {} /\ Cardinality(T) = n /\ ~HasMin(T)}
<1>1. ASSUME Bad # {}
      PROVE  FALSE
  <2>1. PICK n \in Bad : \A m \in Bad : n <= m
    <3>1. Bad \subseteq Nat
      OBVIOUS
    <3> QED
      BY <1>1, <3>1, LeastNatural
  <2>2. PICK T \in SUBSET S : T # {} /\ Cardinality(T) = n /\ ~HasMin(T)
    BY <2>1
  <2>3. PICK x \in T : TRUE
    BY <2>2
  <2>4. IsFiniteSet(T)
    BY FS_Subset
  <2>5. /\ IsFiniteSet(T \ {x})
        /\ Cardinality(T \ {x}) = n - 1
        /\ Cardinality(T \ {x}) \in Nat
    BY <2>2, <2>3, <2>4, FS_RemoveElement, FS_CardinalityType
  <2>6. n - 1 \notin Bad /\ n - 1 \in Nat
    BY <2>1, <2>5
  <2>7. T \ {x} = {} \/ HasMin(T \ {x})
    BY <2>5, <2>6
  <2>8. CASE T \ {x} = {}
    BY <2>2, <2>3, <2>8
  <2>9. CASE HasMin(T \ {x})
    <3>1. PICK m \in T \ {x} : \A y \in T \ {x} : m <= y
      BY <2>9
    <3>2. m \in Int /\ x \in Int
      BY <3>1, <2>3
    <3>3. CASE m <= x
      BY <3>1, <3>3, <2>2
    <3>4. CASE ~(m <= x)
      <4>1. \A y \in T : x <= y
        BY <3>1, <3>2, <3>4
      <4> QED
        BY <4>1, <2>2, <2>3
    <3> QED
      BY <3>3, <3>4
  <2> QED
    BY <2>7, <2>8, <2>9
<1>2. HasMin(S)
  BY <1>1, FS_CardinalityType
<1> QED
  BY <1>2 DEF Min

LEMMA QuotientIsInt ==
    ASSUME NEW x \in Int, NEW y \in Nat \ {0}
    PROVE  Quotient(x, y) \in Int
BY DEF Quotient

\* The quotient of doGetNodeDeployCapacity counts the whole requests that fit
LEMMA QuotientCounts ==
    ASSUME NEW x \in Int, NEW y \in Nat \ {0}, NEW k \in Nat \ {0}
    PROVE  k <= Quotient(x, y) <=> k * y <= x
<1>1. CASE x >= 0
  <2> DEFINE q == x \div y
             r == x % y
  <2>1. q \in Nat /\ r \in 0..(y - 1) /\ x = y * q + r
    BY <1>1
  <2> HIDE DEF q, r
  <2>2. ASSUME k <= q PROVE k * y <= x
    <3>1. k * y <= q * y
      BY <2>1, <2>2
    <3> QED
      BY <3>1, <2>1
  <2>3. ASSUME ~(k <= q) PROVE ~(k * y <= x)
    <3>1. k >= q + 1
      BY <2>1, <2>3
    <3>2. k * y >= (q + 1) * y
      BY <2>1, <3>1
    <3>3. (q + 1) * y = y * q + y
      BY <2>1
    <3>4. k * y \in Int /\ y * q \in Int
      BY <2>1
    <3> QED
      BY <3>2, <3>3, <3>4, <2>1
  <2> QED
    BY <2>2, <2>3, <1>1 DEF Quotient, q
<1>2. CASE x < 0
  <2>1. (-x) \div y \in Nat
    BY <1>2
  <2>2. k * y > 0
    OBVIOUS
  <2> QED
    BY <2>1, <2>2, <1>2 DEF Quotient
<1> QED
  BY <1>1, <1>2

\* The quotients are finitely many, so the smallest of them exists
LEMMA DeployCapacityIsMin ==
    ASSUME NEW info \in Infos, NEW req \in CountMaps, Validate(req), Count(req) > 0
    PROVE  LET quotients == {Quotient(CountOf(AvailableResource(info), prod), req[prod]) :
                                prod \in Keys(req)}
           IN  /\ DeployCapacity(info, req) \in quotients \cup {MaxCapacity}
               /\ quotients \cup {MaxCapacity} \in SUBSET Int
               /\ \A q \in quotients \cup {MaxCapacity} : DeployCapacity(info, req) <= q
<1> DEFINE av == AvailableResource(info)
           Q(prod) == Quotient(CountOf(av, prod), req[prod])
           quotients == {Q(prod) : prod \in Keys(req)}
           f == [prod \in Keys(req) |-> Q(prod)]
<1>1. av \in CountMaps
  BY SubIsMap DEF AvailableResource, Infos
<1>2. \A prod \in Keys(req) : req[prod] \in Nat \ {0} /\ prod \in Products
  BY NoEntryAssumption DEF Validate, CountMaps, Keys
<1>3. \A prod \in Keys(req) : Q(prod) \in Int
  BY <1>1, <1>2, CountOfIsInt, QuotientIsInt
<1>4. IsFiniteSet(Keys(req))
  BY ProductsAssumption, FS_Subset DEF Keys
<1> HIDE DEF av, Q
<1>5. f \in Surjection(Keys(req), quotients)
  BY DEF Surjection
<1>6. IsFiniteSet(quotients)
  BY <1>4, <1>5, FS_Surjection
<1>7. /\ quotients \cup {MaxCapacity} \in SUBSET Int
      /\ quotients \cup {MaxCapacity} # {}
      /\ IsFiniteSet(quotients \cup {MaxCapacity})
  BY <1>3, <1>6, FS_AddElement, MaxCapacityAssumption
<1>8. DeployCapacity(info, req) = Min(quotients \cup {MaxCapacity})
  <2>1. DeployCapacity(info, req) = Min({MaxCapacity} \cup quotients)
    BY DEF DeployCapacity, av, Q
  <2>2. {MaxCapacity} \cup quotients = quotients \cup {MaxCapacity}
    OBVIOUS
  <2> QED
    BY <2>1, <2>2
<1> QED
  BY <1>7, <1>8, MinOfFinite DEF Q, av

LEMMA ListedCapacityIsNat ==
    ASSUME NEW info \in Infos, NEW req \in CountMaps, Validate(req)
    PROVE  ListedCapacity(info, req) \in Nat
<1>1. CASE Count(req) > 0
  <2>1. DeployCapacity(info, req) \in Int
    BY <1>1, DeployCapacityIsMin
  <2> QED
    BY <2>1 DEF ListedCapacity
<1>2. CASE ~(Count(req) > 0)
  BY <1>2, MaxCapacityAssumption DEF ListedCapacity, DeployCapacity
<1> QED
  BY <1>1, <1>2

(***************************************************************************)
(* The capacity doGetNodeDeployCapacity answers for a valid request that   *)
(* asks for something is exactly how many workloads doAlloc places, up to  *)
(* maxCapacity: for every record, one whose usage exceeds its capacity     *)
(* included.                                                               *)
(***************************************************************************)
THEOREM DeployCapacityIsExact ==
    ASSUME NEW info \in Infos, NEW req \in CountMaps, Validate(req), Count(req) > 0,
           NEW k \in Nat \ {0}
    PROVE  /\ k <= DeployCapacity(info, req) => DoAllocFits(info, k, req)
           /\ DoAllocFits(info, k, req) /\ k <= MaxCapacity
                => k <= DeployCapacity(info, req)
<1> DEFINE av == AvailableResource(info)
           Q(prod) == Quotient(CountOf(av, prod), req[prod])
<1>1. av \in CountMaps
  BY SubIsMap DEF AvailableResource, Infos
<1>2. \A prod \in Keys(req) : req[prod] \in Nat \ {0} /\ prod \in Products
  BY NoEntryAssumption DEF Validate, CountMaps, Keys
<1>3. \A prod \in Keys(req) : CountOf(av, prod) \in Int
  BY <1>1, <1>2, CountOfIsInt
<1>4. DoAllocFits(info, k, req) <=> \A prod \in Keys(req) : k * req[prod] <= CountOf(av, prod)
  <2>1. ASSUME NEW prod \in Keys(req), k * req[prod] <= CountOf(av, prod),
               NEW i \in 1..k
        PROVE  prod \in Keys(av) /\ av[prod] - (i - 1) * req[prod] >= req[prod]
    <3>1. k * req[prod] > 0 /\ k * req[prod] \in Int
      BY <1>2
    <3>2. prod \in Keys(av) /\ CountOf(av, prod) = av[prod]
      BY <2>1, <3>1, <1>3 DEF CountOf
    <3>3. i * req[prod] <= k * req[prod]
      BY <1>2
    <3>4. (i - 1) * req[prod] = i * req[prod] - req[prod] /\ i * req[prod] \in Int
      BY <1>2
    <3> QED
      BY <3>1, <3>2, <3>3, <3>4, <2>1, <1>2, <1>3
  <2>2. ASSUME NEW prod \in Keys(req),
               prod \in Keys(av), av[prod] - (k - 1) * req[prod] >= req[prod]
        PROVE  k * req[prod] <= CountOf(av, prod)
    <3>1. CountOf(av, prod) = av[prod]
      BY <2>2 DEF CountOf
    <3>2. (k - 1) * req[prod] = k * req[prod] - req[prod] /\ k * req[prod] \in Int
      BY <1>2
    <3> QED
      BY <3>1, <3>2, <2>2, <1>2, <1>3
  <2>3. k \in 1..k
    OBVIOUS
  <2> HIDE DEF av
  <2>4. DoAllocFits(info, k, req) <=>
            \A i \in 1..k : \A prod \in Keys(req) :
               prod \in Keys(av) /\ av[prod] - (i - 1) * req[prod] >= req[prod]
    BY DEF DoAllocFits, av
  <2> QED
    BY <2>1, <2>2, <2>3, <2>4
<1>5. \A prod \in Keys(req) : k * req[prod] <= CountOf(av, prod) <=> k <= Q(prod)
  BY <1>2, <1>3, QuotientCounts
<1>6. \A prod \in Keys(req) : Q(prod) \in Int
  BY <1>2, <1>3, QuotientIsInt
<1> DEFINE quotients == {Q(prod) : prod \in Keys(req)}
<1>7. /\ DeployCapacity(info, req) \in quotients \cup {MaxCapacity}
      /\ \A q \in quotients \cup {MaxCapacity} : DeployCapacity(info, req) <= q
  BY DeployCapacityIsMin
<1> HIDE DEF av, Q
<1>8. DeployCapacity(info, req) \in Int
  BY <1>6, <1>7, MaxCapacityAssumption
<1>9. DoAllocFits(info, k, req) <=> \A prod \in Keys(req) : k <= Q(prod)
  BY <1>4, <1>5
<1> QED
  BY <1>6, <1>7, <1>8, <1>9, MaxCapacityAssumption

(***************************************************************************)
(* The diffs of getNodeResourceInfo are complete: when there are none, a   *)
(* stored usage that passed Validate is, entry by entry, the sum of the    *)
(* workloads.  The products the workloads do not hold are compared through *)
(* the total alone, and positive counts make that enough.                  *)
(***************************************************************************)
THEOREM DiffsAreCompleteFor ==
    ASSUME NEW info \in Infos, NEW actual \in CountMaps,
           Validate(info.usage), Validate(actual)
    PROVE  NoDiffs(Diffs(info, actual)) <=> info.usage = actual
<1> DEFINE usage == info.usage
<1>1. usage \in CountMaps
  BY DEF Infos
<1>2. ASSUME NoDiffs(Diffs(info, actual))
      PROVE  usage = actual
  <2>1. /\ Count(actual) = Count(usage)
        /\ Keys(actual) \subseteq Keys(usage)
        /\ \A prod \in Keys(actual) : actual[prod] = usage[prod]
    BY <1>2 DEF NoDiffs, Diffs
  <2>2. \A prod \in Products : CountOf(actual, prod) <= CountOf(usage, prod)
    BY <2>1, <1>1, NoEntryAssumption DEF CountOf, Keys, Validate, CountMaps
  <2>3. \A prod \in Products : ~(CountOf(actual, prod) < CountOf(usage, prod))
    BY <2>1, <2>2, <1>1, CountIsMonotone
  <2>4. \A prod \in Products : actual[prod] = usage[prod]
    <3> SUFFICES ASSUME NEW prod \in Products
                 PROVE  actual[prod] = usage[prod]
      OBVIOUS
    <3>1. CASE prod \in Keys(actual)
      BY <3>1, <2>1
    <3>2. CASE prod \notin Keys(actual)
      <4>1. prod \notin Keys(usage)
        BY <3>2, <2>3, <1>1, NoEntryAssumption DEF CountOf, Keys, Validate, CountMaps
      <4> QED
        BY <3>2, <4>1 DEF Keys
    <3> QED
      BY <3>1, <3>2
  <2> QED
    BY <2>4, <1>1 DEF CountMaps
<1>3. ASSUME usage = actual
      PROVE  NoDiffs(Diffs(info, actual))
  BY <1>3 DEF NoDiffs, Diffs
<1> QED
  BY <1>2, <1>3

-----------------------------------------------------------------------------
(* Realloc *)

\* Core books one change on top of the stored usage
LEMMA OneChangeIsAdded ==
    ASSUME NEW info \in Infos, NEW change \in CountMaps
    PROVE  NextUsage(info, Nil, Nil, <<change>>, TRUE, TRUE) = Add(info.usage, change)
<1> DEFINE works == <<change>>
<1>1. works \in Seq(CountMaps) /\ Len(works) = 1 /\ works[1] = change
  OBVIOUS
<1>2. info.usage \in CountMaps
  BY DEF Infos
<1> HIDE DEF works
<1>3. /\ Totals(info.usage, works, TRUE)[0] = info.usage
      /\ Totals(info.usage, works, TRUE)[1]
           = Apply(Totals(info.usage, works, TRUE)[1 - 1], works[1], TRUE)
  BY <1>1, <1>2, TotalsRecursion
<1>4. ApplyAll(info.usage, works, TRUE) = Totals(info.usage, works, TRUE)[1]
  BY <1>1 DEF ApplyAll
<1>5. Totals(info.usage, works, TRUE)[1 - 1] = info.usage
  <2> DEFINE total == Totals(info.usage, works, TRUE)
  <2>1. total[0] = info.usage
    BY <1>3
  <2> HIDE DEF total
  <2>2. total[1 - 1] = info.usage
    BY <2>1
  <2> QED
    BY <2>2 DEF total
<1>6. NextUsage(info, Nil, Nil, works, TRUE, TRUE) = ApplyAll(info.usage, works, TRUE)
  BY DEF NextUsage, CalculateNodeResource
<1> QED
  BY <1>1, <1>3, <1>4, <1>5, <1>6 DEF works, Apply

\* One deploy that fits takes no more than is available
LEMMA OneDeployFits ==
    ASSUME NEW info \in Infos, NEW req \in CountMaps, DoAllocFits(info, 1, req),
           NEW prod \in Keys(req)
    PROVE  req[prod] <= CountOf(AvailableResource(info), prod)
<1>1. AvailableResource(info) \in CountMaps
  BY SubIsMap DEF AvailableResource, Infos
<1>2. /\ prod \in Keys(AvailableResource(info))
      /\ AvailableResource(info)[prod] - (1 - 1) * req[prod] >= req[prod]
  BY DEF DoAllocFits
<1>3. req[prod] \in Int /\ AvailableResource(info)[prod] \in Int
  BY <1>1, <1>2 DEF CountMaps, Keys
<1> QED
  BY <1>2, <1>3 DEF CountOf

(***************************************************************************)
(* The delta CalculateRealloc answers, booked by SetNodeResourceUsage on a *)
(* node that counts the workload, replaces the workload's cards by the new *)
(* ones, leaves a valid usage and overdraws no product the workload holds. *)
(***************************************************************************)
THEOREM ReallocKeepsBooksFor ==
    ASSUME NEW info \in Infos, NEW old \in CountMaps, NEW req \in CountMaps,
           Validate(info.usage), Validate(old), ValidateProd(req),
           ReallocFits(info, old, req),
           \A prod \in Keys(old) : CountOf(info.usage, prod) >= old[prod]
    PROVE  LET new    == Merge(req, old)
               booked == Add(info.usage, ReallocDelta(old, req))
           IN  /\ booked = Add(Sub(info.usage, old), new)
               /\ Validate(booked)
               /\ \A prod \in Keys(new) : booked[prod] <= CountOf(info.capacity, prod)
<1> DEFINE usage  == info.usage
           new    == Merge(req, old)
           delta  == ReallocDelta(old, req)
           booked == Add(usage, delta)
           other  == Sub(usage, old)
           free   == WithoutWorkload(info, old)
<1>1. usage \in CountMaps /\ info.capacity \in CountMaps
  BY DEF Infos
<1>2. new \in CountMaps /\ Tight(new) /\ Validate(new)
  BY MergeIsMap, MergeIsTight, MergeIsValid DEF Validate
<1>3. delta \in CountMaps /\ delta = Sub(new, old)
  BY <1>2, SubIsMap DEF ReallocDelta
<1>4. booked \in CountMaps /\ Tight(booked)
  BY <1>1, <1>3, AddIsMap, AddIsTight, ValidIsTight
<1>5. other \in CountMaps /\ Tight(other)
  BY <1>1, SubIsMap, SubIsTight, ValidIsTight
<1>6. Add(other, new) \in CountMaps /\ Tight(Add(other, new))
  BY <1>2, <1>5, AddIsMap, AddIsTight
<1>7. \A prod \in Products :
         /\ CountOf(usage, prod) \in Int
         /\ CountOf(old, prod) \in Int
         /\ CountOf(new, prod) \in Int
         /\ CountOf(booked, prod) = CountOf(usage, prod) + (CountOf(new, prod) - CountOf(old, prod))
         /\ CountOf(other, prod) = CountOf(usage, prod) - CountOf(old, prod)
  <2> TAKE prod \in Products
  <2> HIDE DEF usage, new, delta
  <2>1. CountOf(delta, prod) = CountOf(new, prod) - CountOf(old, prod)
    BY <1>2, <1>3, SubCounts
  <2> QED
    BY <2>1, <1>1, <1>2, <1>3, AddCounts, SubCounts, CountOfIsInt
<1>8. booked = Add(other, new)
  <2>1. \A prod \in Products : CountOf(booked, prod) = CountOf(Add(other, new), prod)
    <3> TAKE prod \in Products
    <3>1. CountOf(Add(other, new), prod) = CountOf(other, prod) + CountOf(new, prod)
      BY <1>2, <1>5, AddCounts
    <3> HIDE DEF booked, other, new, usage
    <3> QED
      BY <3>1, <1>7
  <2> HIDE DEF booked, other, new
  <2> QED
    BY <2>1, <1>4, <1>6, TightMapsAreCounts
<1>9. Validate(booked)
  <2>1. \A prod \in Products : CountOf(booked, prod) >= 0
    <3> TAKE prod \in Products
    <3>1. CountOf(usage, prod) >= 0 /\ CountOf(new, prod) >= 0
      BY <1>1, <1>2, ValidIsTight
    <3>2. CountOf(usage, prod) >= CountOf(old, prod)
      BY <3>1 DEF CountOf
    <3> HIDE DEF booked, usage, new
    <3> QED
      BY <3>1, <3>2, <1>7
  <2>2. Keys(booked) \subseteq Keys(usage) \cup Keys(delta)
    BY DEF Add, Keys
  <2>3. Keys(delta) \subseteq Keys(new) \cup Keys(old)
    BY <1>3 DEF Sub, Keys
  <2>4. Keys(booked) \cap Blank = {}
    BY <2>2, <2>3, <1>2 DEF Validate, ValidateProd
  <2> HIDE DEF booked
  <2> QED
    BY <2>1, <2>4, <1>4, TightIsValid
<1>10. ASSUME NEW prod \in Keys(new)
       PROVE  booked[prod] <= CountOf(info.capacity, prod)
  <2>1. prod \in Products
    BY DEF Keys
  <2>2. free \in Infos /\ free.capacity = info.capacity /\ free.usage = other
    BY <1>1, <1>5 DEF WithoutWorkload, Infos
  <2>3. DoAllocFits(free, 1, new)
    BY DEF ReallocFits
  <2>4. new[prod] <= CountOf(AvailableResource(free), prod)
    <3> HIDE DEF free, new
    <3> QED
      BY <2>2, <2>3, <1>2, <1>10, OneDeployFits
  <2>5. CountOf(AvailableResource(free), prod) = CountOf(info.capacity, prod) - CountOf(other, prod)
    BY <2>1, <2>2, <1>1, <1>5, SubCounts DEF AvailableResource
  <2>6. CountOf(new, prod) = new[prod]
    BY <1>10 DEF CountOf
  <2>7. CountOf(info.capacity, prod) \in Int
    BY <2>1, <1>1, CountOfIsInt
  <2>8. CountOf(booked, prod) <= CountOf(info.capacity, prod)
    <3> HIDE DEF booked, other, new, free, usage
    <3> QED
      BY <2>1, <2>4, <2>5, <2>6, <2>7, <1>7
  <2>9. CountOf(booked, prod) # 0 => booked[prod] = CountOf(booked, prod)
    BY DEF CountOf
  <2>10. CountOf(booked, prod) # 0
    <3>1. new[prod] > 0
      BY <1>2, <1>10 DEF Validate
    <3>2. CountOf(other, prod) >= 0
      <4>1. CountOf(usage, prod) >= CountOf(old, prod)
        BY <2>1, <1>1, ValidIsTight DEF CountOf
      <4> HIDE DEF other, usage
      <4> QED
        BY <2>1, <4>1, <1>7
    <3> HIDE DEF booked, other, new, usage
    <3> QED
      BY <3>1, <3>2, <2>1, <2>6, <1>7
  <2> HIDE DEF booked
  <2> QED
    BY <2>8, <2>9, <2>10
<1> HIDE DEF booked, new, other, delta
<1>11. /\ booked = Add(other, new)
       /\ Validate(booked)
       /\ \A prod \in Keys(new) : booked[prod] <= CountOf(info.capacity, prod)
  BY <1>8, <1>9, <1>10
<1> QED
  BY <1>11 DEF booked, new, other, delta

-----------------------------------------------------------------------------
(* Sums over the works, a list in which some hold nothing *)

\* The running sum counts each product by itself
LEMMA TotalsCount ==
    ASSUME NEW start \in CountMaps, NEW works \in Seq(CountMaps),
           NEW i \in 1..Len(works), NEW prod \in Products
    PROVE  CountOf(Totals(start, works, TRUE)[i], prod)
             = CountOf(Totals(start, works, TRUE)[i - 1], prod) + CountOf(works[i], prod)
<1> DEFINE t == Totals(start, works, TRUE)
<1>1. works[i] \in CountMaps /\ i - 1 \in 0..Len(works)
  OBVIOUS
<1>2. t \in [0..Len(works) -> CountMaps] /\ t[i] = Apply(t[i - 1], works[i], TRUE)
  BY TotalsRecursion, ZenonT(60)
<1> HIDE DEF t
<1>3. t[i - 1] \in CountMaps /\ t[i] = Add(t[i - 1], works[i])
  BY <1>1, <1>2 DEF Apply
<1>4. CountOf(t[i], prod) = CountOf(t[i - 1], prod) + CountOf(works[i], prod)
  BY <1>1, <1>3, AddCounts
<1> QED
  BY <1>4 DEF t

\* What the workloads of a node hold passes Validate, if each of them does
LEMMA SumOfValidIsValid ==
    ASSUME NEW works \in Seq(CountMaps), \A i \in 1..Len(works) : Validate(works[i])
    PROVE  WorkloadsUsage(works) \in CountMaps /\ Validate(WorkloadsUsage(works))
<1> DEFINE t   == Totals(NoCards, works, TRUE)
           Bad == {i \in 0..Len(works) : ~Validate(t[i])}
<1>1. t \in [0..Len(works) -> CountMaps] /\ t[0] = NoCards
  BY TotalsRecursion, NoCardsIsMap
<1>2. \A i \in 1..Len(works) : t[i] = Add(t[i - 1], works[i])
  BY TotalsRecursion, NoCardsIsMap DEF Apply
<1> HIDE DEF t
<1>3. Validate(t[0])
  BY <1>1 DEF Validate, ValidateProd, NoCards, Keys
<1>4. ASSUME Bad # {} PROVE FALSE
  <2>1. PICK i \in Bad : \A j \in Bad : i <= j
    <3>1. Bad \subseteq Nat
      OBVIOUS
    <3> QED
      BY <1>4, <3>1, LeastNatural
  <2>2. i \in 1..Len(works) /\ i - 1 \in 0..Len(works) /\ ~(i <= i - 1)
    BY <2>1, <1>3
  <2>3. Validate(t[i - 1]) /\ t[i - 1] \in CountMaps
    BY <2>1, <2>2, <1>1
  <2>4. works[i] \in CountMaps /\ Validate(works[i])
    BY <2>2
  <2>5. Validate(t[i])
    BY <2>2, <2>3, <2>4, <1>2, AddStaysValid
  <2> QED
    BY <2>1, <2>5
<1>5. Len(works) \in 0..Len(works)
  OBVIOUS
<1>6. WorkloadsUsage(works) = t[Len(works)]
  BY DEF WorkloadsUsage, ApplyAll, t
<1> QED
  BY <1>1, <1>4, <1>5, <1>6

\* When the works of some places each change by k cards of a product, the sum
\* changes by k for each of these places
LEMMA SumFollowsItsParts ==
    ASSUME NEW works \in Seq(CountMaps), NEW works1 \in Seq(CountMaps),
           Len(works1) = Len(works), NEW prod \in Products,
           NEW places \in SUBSET (1..Len(works)), NEW k \in Int,
           \A i \in 1..Len(works) :
              CountOf(works1[i], prod)
                = CountOf(works[i], prod) + (IF i \in places THEN k ELSE 0)
    PROVE  CountOf(WorkloadsUsage(works1), prod)
             = CountOf(WorkloadsUsage(works), prod) + Cardinality(places) * k
<1> DEFINE t       == Totals(NoCards, works, TRUE)
           t1      == Totals(NoCards, works1, TRUE)
           Upto(i) == places \cap (1..i)
           Good(i) == CountOf(t1[i], prod)
                        = CountOf(t[i], prod) + Cardinality(Upto(i)) * k
           Bad     == {i \in 0..Len(works) : ~Good(i)}
<1>1. /\ t \in [0..Len(works) -> CountMaps] /\ t[0] = NoCards
      /\ t1 \in [0..Len(works) -> CountMaps] /\ t1[0] = NoCards
  BY TotalsRecursion, NoCardsIsMap
<1>2. \A i \in 1..Len(works) :
         /\ CountOf(t[i], prod) = CountOf(t[i - 1], prod) + CountOf(works[i], prod)
         /\ CountOf(t1[i], prod) = CountOf(t1[i - 1], prod) + CountOf(works1[i], prod)
  BY TotalsCount, NoCardsIsMap, ZenonT(60)
<1> HIDE DEF t, t1
<1>3. Good(0)
  <2>1. Upto(0) = {}
    OBVIOUS
  <2>2. Cardinality(Upto(0)) = 0
    BY <2>1, FS_EmptySet
  <2>3. CountOf(NoCards, prod) = 0
    BY DEF CountOf, Keys, NoCards
  <2> QED
    BY <2>2, <2>3, <1>1
<1>4. ASSUME NEW i \in 1..Len(works), Good(i - 1)
      PROVE  Good(i)
  <2>1. /\ IsFiniteSet(Upto(i - 1))
        /\ Cardinality(Upto(i - 1)) \in Nat
    <3>1. IsFiniteSet(1..(i - 1))
      BY FS_Interval
    <3> QED
      BY <3>1, FS_Subset, FS_CardinalityType
  <2>2. Cardinality(Upto(i)) = Cardinality(Upto(i - 1)) + (IF i \in places THEN 1 ELSE 0)
    <3>1. CASE i \in places
      <4>1. Upto(i) = Upto(i - 1) \cup {i} /\ i \notin Upto(i - 1)
        BY <3>1
      <4> HIDE DEF Upto
      <4> QED
        BY <3>1, <4>1, <2>1, FS_AddElement
    <3>2. CASE i \notin places
      <4>1. Upto(i) = Upto(i - 1)
        BY <3>2
      <4> HIDE DEF Upto
      <4> QED
        BY <3>2, <4>1, <2>1
    <3> QED
      BY <3>1, <3>2
  <2>3. /\ works[i] \in CountMaps /\ works1[i] \in CountMaps
        /\ t[i - 1] \in CountMaps /\ t1[i - 1] \in CountMaps
    BY <1>1
  <2>4. /\ CountOf(works[i], prod) \in Int /\ CountOf(works1[i], prod) \in Int
        /\ CountOf(t[i - 1], prod) \in Int /\ CountOf(t1[i - 1], prod) \in Int
    BY <2>3, CountOfIsInt
  <2>5. /\ CountOf(t[i], prod) = CountOf(t[i - 1], prod) + CountOf(works[i], prod)
        /\ CountOf(t1[i], prod) = CountOf(t1[i - 1], prod) + CountOf(works1[i], prod)
        /\ CountOf(works1[i], prod)
             = CountOf(works[i], prod) + (IF i \in places THEN k ELSE 0)
    BY <1>2
  <2> DEFINE m == Cardinality(Upto(i - 1))
  <2>6. CountOf(t1[i - 1], prod) = CountOf(t[i - 1], prod) + m * k /\ m \in Nat
    BY <1>4, <2>1
  <2>7. Cardinality(Upto(i)) = m + (IF i \in places THEN 1 ELSE 0)
    BY <2>2
  <2> HIDE DEF m, Upto
  <2>8. (m + 1) * k = m * k + k /\ (m + 0) * k = m * k /\ m * k \in Int
    BY <2>6
  <2>9. CASE i \in places
    BY <2>4, <2>5, <2>6, <2>7, <2>8, <2>9
  <2>10. CASE i \notin places
    BY <2>4, <2>5, <2>6, <2>7, <2>8, <2>10
  <2> QED
    BY <2>9, <2>10
<1>5. Good(Len(works))
  <2> HIDE DEF Good
  <2>0. Len(works) \in 0..Len(works)
    OBVIOUS
  <2>1. SUFFICES ASSUME Bad # {} PROVE FALSE
    BY <2>0
  <2>2. PICK i \in Bad : \A j \in Bad : i <= j
    <3>1. Bad \subseteq Nat
      OBVIOUS
    <3> QED
      BY <2>1, <3>1, LeastNatural
  <2>3. i \in 1..Len(works) /\ i - 1 \in 0..Len(works) /\ ~(i <= i - 1)
    BY <2>2, <1>3
  <2> QED
    BY <2>2, <2>3, <1>4
<1>6. Upto(Len(works)) = places
  OBVIOUS
<1>7. /\ WorkloadsUsage(works) = t[Len(works)]
      /\ WorkloadsUsage(works1) = t1[Len(works)]
  BY DEF WorkloadsUsage, ApplyAll, t, t1
<1> QED
  BY <1>5, <1>6, <1>7

\* Booking a list of equal works adds the cards of one as often as it is long
LEMMA CopiesAreCounted ==
    ASSUME NEW start \in CountMaps, NEW n \in Nat, NEW m \in CountMaps,
           NEW prod \in Products
    PROVE  CountOf(ApplyAll(start, [i \in 1..n |-> m], TRUE), prod)
             = CountOf(start, prod) + n * CountOf(m, prod)
<1> DEFINE works   == [i \in 1..n |-> m]
           t       == Totals(start, works, TRUE)
           k       == CountOf(m, prod)
           Good(i) == CountOf(t[i], prod) = CountOf(start, prod) + i * k
           Bad     == {i \in 0..n : ~Good(i)}
<1>1. works \in Seq(CountMaps) /\ Len(works) = n /\ \A i \in 1..n : works[i] = m
  OBVIOUS
<1>2. k \in Int /\ CountOf(start, prod) \in Int
  BY CountOfIsInt
<1> HIDE DEF works, k
<1>3. t \in [0..n -> CountMaps] /\ t[0] = start
  BY <1>1, TotalsRecursion
<1>4. \A i \in 1..n : CountOf(t[i], prod) = CountOf(t[i - 1], prod) + k
  BY <1>1, TotalsCount, ZenonT(60) DEF k
<1> HIDE DEF t
<1>5. Good(0)
  BY <1>2, <1>3
<1>6. ASSUME NEW i \in 1..n, Good(i - 1)
      PROVE  Good(i)
  <2>1. (i - 1) * k = i * k - k /\ i * k \in Int
    BY <1>2
  <2>2. /\ CountOf(t[i], prod) = CountOf(t[i - 1], prod) + k
        /\ CountOf(t[i - 1], prod) = CountOf(start, prod) + (i - 1) * k
    BY <1>4, <1>6
  <2> QED
    BY <1>2, <2>1, <2>2
<1>7. Good(n)
  <2>1. SUFFICES ASSUME Bad # {} PROVE FALSE
    OBVIOUS
  <2>2. PICK i \in Bad : \A j \in Bad : i <= j
    <3>1. Bad \subseteq Nat
      OBVIOUS
    <3> QED
      BY <2>1, <3>1, LeastNatural
  <2>3. i \in 1..n /\ i - 1 \in 0..n /\ ~(i <= i - 1)
    BY <2>2, <1>5
  <2> HIDE DEF Good
  <2> QED
    BY <2>2, <2>3, <1>6
<1>8. ApplyAll(start, works, TRUE) = t[n]
  BY <1>1 DEF ApplyAll, t
<1> QED
  BY <1>7, <1>8 DEF works, k

\* A release takes one workload's cards off the stored usage
LEMMA OneChangeIsSubtracted ==
    ASSUME NEW info \in Infos, NEW change \in CountMaps
    PROVE  NextUsage(info, Nil, Nil, <<change>>, TRUE, FALSE) = Sub(info.usage, change)
<1> DEFINE works == <<change>>
<1>1. works \in Seq(CountMaps) /\ Len(works) = 1 /\ works[1] = change
  OBVIOUS
<1>2. info.usage \in CountMaps
  BY DEF Infos
<1> HIDE DEF works
<1>3. /\ Totals(info.usage, works, FALSE)[0] = info.usage
      /\ Totals(info.usage, works, FALSE)[1]
           = Apply(Totals(info.usage, works, FALSE)[1 - 1], works[1], FALSE)
  BY <1>1, <1>2, TotalsRecursion
<1>4. ApplyAll(info.usage, works, FALSE) = Totals(info.usage, works, FALSE)[1]
  BY <1>1 DEF ApplyAll
<1> DEFINE total == Totals(info.usage, works, FALSE)
<1>5. total[0] = info.usage /\ total[1] = Sub(total[1 - 1], change)
  BY <1>1, <1>3 DEF Apply
<1> HIDE DEF total
<1>6. total[1] = Sub(info.usage, change)
  BY <1>5
<1>7. NextUsage(info, Nil, Nil, works, TRUE, FALSE) = ApplyAll(info.usage, works, FALSE)
  BY DEF NextUsage, CalculateNodeResource
<1> QED
  BY <1>4, <1>6, <1>7 DEF works, total

-----------------------------------------------------------------------------
(* Steps of a plugin process *)

\* What a handler reads is a record
LEMMA ReadIsInfo ==
    ASSUME PluginTypeOK, NEW n \in Nodes
    PROVE  GetOrEmpty(n) \in Infos
BY EmptyInfoIsInfo DEF PluginTypeOK, GetOrEmpty

LEMMA RunningRequest ==
    ASSUME PluginTypeOK, NEW c \in Callers, NEW verb, Running(c, verb)
    PROVE  /\ request[c] \in Requests
           /\ request[c].verb = verb
           /\ phase[c] = "running"
BY DEF PluginTypeOK, Running

LEMMA InitType == PluginInit => PluginTypeOK /\ StoredValid
BY AbsentAssumption, MaxFaultsAssumption DEF PluginInit, PluginTypeOK, Phases, StoredValid

-----------------------------------------------------------------------------
(* The building blocks of the actions *)

LEMMA StartType ==
    ASSUME PluginTypeOK, NEW c \in Callers, NEW r \in Requests, Start(c, r)
    PROVE  PluginTypeOK'
BY NilIsNoValueAssumption DEF PluginTypeOK, Start, Phases

LEMMA StartNextType ==
    ASSUME PluginTypeOK, NEW c \in Callers, NEW r \in Requests, StartNext(c, r)
    PROVE  PluginTypeOK'
BY NilIsNoValueAssumption DEF PluginTypeOK, StartNext, Phases

LEMMA CollectType ==
    ASSUME PluginTypeOK, NEW c \in Callers, Collect(c)
    PROVE  PluginTypeOK'
BY DEF PluginTypeOK, Collect, Phases

LEMMA ReplyType ==
    ASSUME PluginTypeOK, NEW c \in Callers, phase[c] = "running",
           NEW a \in Answers, Reply(c, a)
    PROVE  PluginTypeOK'
BY NilIsNoValueAssumption DEF PluginTypeOK, Reply, Phases

LEMMA StoreType ==
    ASSUME PluginTypeOK, NEW c \in Callers, phase[c] = "running",
           NEW info \in Infos, NEW a \in Answers, Store(c, info, a)
    PROVE  PluginTypeOK'
BY NilIsNoValueAssumption DEF PluginTypeOK, Store, Phases

LEMMA FailedIsAnswer == Failed \in Answers /\ Done \in Answers
BY DEF Failed, Done, Answers

LEMMA SetAnswer ==
    ASSUME NEW before \in CountMaps, NEW after \in CountMaps
    PROVE  [ok |-> TRUE, before |-> before, after |-> after] \in Answers
BY DEF Answers

LEMMA InfoAnswer ==
    ASSUME NEW info \in Infos
    PROVE  [ok |-> TRUE, info |-> info] \in Answers
BY DEF Answers

LEMMA DiffAnswer ==
    ASSUME NEW info \in Infos, NEW diffs \in Diff
    PROVE  [ok |-> TRUE, info |-> info, diffs |-> diffs] \in Answers
BY DEF Answers

LEMMA DiffsIsDiff ==
    ASSUME NEW info, NEW actual
    PROVE  Diffs(info, actual) \in Diff
<1>1. (Count(actual) # Count(info.usage)) \in BOOLEAN
  OBVIOUS
<1> QED
  BY <1>1 DEF Diffs, Diff, Keys

-----------------------------------------------------------------------------
(* The handlers *)

LEMMA AddNodeType ==
    ASSUME PluginTypeOK, NEW c \in Callers, AddNode(c)
    PROVE  PluginTypeOK'
<1> DEFINE r    == request[c]
           req  == ParsedRequest(r.resource)
           info == [capacity |-> req, usage |-> NoCards]
<1>1. r \in Requests /\ r.verb = "add-node" /\ phase[c] = "running"
  BY RunningRequest DEF AddNode
<1>2. r.resource \in CountMaps \cup {Keyless}
  BY <1>1 DEF Requests
<1>3. info \in Infos
  BY <1>2, NoCardsIsMap DEF ParsedRequest, Infos
<1> HIDE DEF info
<1>4. [ok |-> TRUE, info |-> info] \in Answers
  BY <1>3, InfoAnswer
<1>5. Store(c, info, [ok |-> TRUE, info |-> info]) \/ Reply(c, Failed)
  BY DEF AddNode, info
<1> QED
  BY <1>1, <1>3, <1>4, <1>5, StoreType, ReplyType, FailedIsAnswer

LEMMA SetNodeResourceCapacityType ==
    ASSUME PluginTypeOK, NEW c \in Callers, SetNodeResourceCapacity(c)
    PROVE  PluginTypeOK'
<1> DEFINE r    == request[c]
           info == GetOrEmpty(r.node)
           next == NextCapacity(info, r.resource, r.request, r.delta, r.incr)
           stored == [info EXCEPT !.capacity = next]
<1>1. r \in Requests /\ r.verb = "set-capacity" /\ phase[c] = "running"
  BY RunningRequest DEF SetNodeResourceCapacity
<1>2. /\ r.node \in Nodes
      /\ r.resource \in CountMaps \cup {Nil}
      /\ r.request \in CountMaps \cup {Nil, Keyless}
      /\ r.delta \in BOOLEAN
      /\ r.incr \in BOOLEAN
  BY <1>1 DEF Requests
<1>3. info \in Infos
  BY <1>2, ReadIsInfo
<1>4. next \in CountMaps
  BY <1>2, <1>3, NextCapacityIsMap
<1> HIDE DEF next, info
<1>5. stored \in Infos /\ info.capacity \in CountMaps
  BY <1>3, <1>4 DEF Infos
<1>6. [ok |-> TRUE, before |-> info.capacity, after |-> next] \in Answers
  BY <1>4, <1>5, SetAnswer
<1>7. Store(c, stored, [ok |-> TRUE, before |-> info.capacity, after |-> next])
  BY DEF SetNodeResourceCapacity, next, info
<1> QED
  BY <1>1, <1>5, <1>6, <1>7, StoreType

LEMMA SetNodeResourceUsageType ==
    ASSUME PluginTypeOK, NEW c \in Callers, SetNodeResourceUsage(c)
    PROVE  PluginTypeOK'
<1> DEFINE r    == request[c]
           info == GetOrEmpty(r.node)
           next == NextUsage(info, r.resource, r.request, r.works, r.delta, r.incr)
           stored == [info EXCEPT !.usage = next]
<1>1. r \in Requests /\ r.verb = "set-usage" /\ phase[c] = "running"
  BY RunningRequest DEF SetNodeResourceUsage
<1>2. /\ r.node \in Nodes
      /\ r.resource \in CountMaps \cup {Nil}
      /\ r.request \in CountMaps \cup {Nil, Keyless}
      /\ r.works \in Seq(CountMaps)
      /\ r.delta \in BOOLEAN
      /\ r.incr \in BOOLEAN
  BY <1>1 DEF Requests, Works
<1>3. info \in Infos
  BY <1>2, ReadIsInfo
<1>4. next \in CountMaps
  BY <1>2, <1>3, NextUsageIsMap
<1> HIDE DEF next, info
<1>5. stored \in Infos /\ info.usage \in CountMaps
  BY <1>3, <1>4 DEF Infos
<1>6. [ok |-> TRUE, before |-> info.usage, after |-> next] \in Answers
  BY <1>4, <1>5, SetAnswer
<1>7. Store(c, stored, [ok |-> TRUE, before |-> info.usage, after |-> next])
  BY DEF SetNodeResourceUsage, next, info
<1> QED
  BY <1>1, <1>5, <1>6, <1>7, StoreType

LEMMA SetNodeResourceInfoType ==
    ASSUME PluginTypeOK, NEW c \in Callers, SetNodeResourceInfo(c)
    PROVE  PluginTypeOK'
<1> DEFINE info == [capacity |-> request[c].capacity, usage |-> request[c].usage]
<1>1. /\ request[c] \in Requests
      /\ request[c].verb = "set-info"
      /\ phase[c] = "running"
  BY RunningRequest DEF SetNodeResourceInfo
<1>2. request[c].capacity \in CountMaps /\ request[c].usage \in CountMaps
  BY <1>1 DEF Requests
<1>3. info \in Infos
  BY <1>2 DEF Infos
<1>4. Store(c, info, Done)
  BY DEF SetNodeResourceInfo
<1> HIDE DEF info
<1> QED
  BY <1>1, <1>3, <1>4, StoreType, FailedIsAnswer

LEMMA FixNodeResourceType ==
    ASSUME PluginTypeOK, NEW c \in Callers, FixNodeResource(c)
    PROVE  PluginTypeOK'
<1> DEFINE r      == request[c]
           info   == etcd[r.node]
           actual == WorkloadsUsage(r.works)
           diffs  == Diffs(info, actual)
           fixed  == FixedInfo(info, actual)
<1>1. r \in Requests /\ r.verb = "fix-node" /\ phase[c] = "running"
  BY RunningRequest DEF FixNodeResource
<1>2. r.node \in Nodes /\ r.works \in Seq(CountMaps)
  BY <1>1 DEF Requests, Works
<1>3. actual \in CountMaps
  BY <1>2, NoCardsIsMap, ApplyAllIsMap DEF WorkloadsUsage
<1>4. diffs \in Diff
  BY DiffsIsDiff
<1>5. info = Absent \/ info \in Infos
  BY <1>2 DEF PluginTypeOK
<1>6. \/ info = Absent /\ Reply(c, Failed)
      \/ info # Absent /\ Reply(c, [ok |-> TRUE, info |-> info, diffs |-> diffs])
      \/ info # Absent /\ Store(c, fixed, [ok |-> TRUE, info |-> fixed, diffs |-> diffs])
  BY DEF FixNodeResource
<1> HIDE DEF actual, diffs
<1>7. info # Absent => fixed \in Infos
  BY <1>3, <1>5 DEF FixedInfo, Infos
<1> HIDE DEF fixed, info
<1>8. CASE info = Absent /\ Reply(c, Failed)
  BY <1>1, <1>8, ReplyType, FailedIsAnswer
<1>9. CASE info # Absent /\ Reply(c, [ok |-> TRUE, info |-> info, diffs |-> diffs])
  BY <1>1, <1>4, <1>5, <1>9, ReplyType, DiffAnswer
<1>10. CASE info # Absent /\ Store(c, fixed, [ok |-> TRUE, info |-> fixed, diffs |-> diffs])
  BY <1>1, <1>4, <1>7, <1>10, StoreType, DiffAnswer
<1> QED
  BY <1>6, <1>8, <1>9, <1>10

-----------------------------------------------------------------------------
(* The readers *)

LEMMA GetNodeResourceInfoType ==
    ASSUME PluginTypeOK, NEW c \in Callers, GetNodeResourceInfo(c)
    PROVE  PluginTypeOK'
<1> DEFINE r     == request[c]
           info  == GetOrEmpty(r.node)
           known == Diffs(info, WorkloadsUsage(r.works))
           none  == [total |-> FALSE, missing |-> {}, mismatch |-> {}]
           diffs == IF etcd[r.node] = Absent THEN none ELSE known
<1>1. r \in Requests /\ r.verb = "get-node" /\ phase[c] = "running"
  BY RunningRequest DEF GetNodeResourceInfo
<1>2. r.node \in Nodes
  BY <1>1 DEF Requests
<1>3. known \in Diff
  BY DiffsIsDiff
<1>4. none \in Diff
  BY DEF Diff
<1>5. info \in Infos
  BY <1>2, ReadIsInfo
<1> HIDE DEF known, none, info
<1>6. [ok |-> TRUE, info |-> info, diffs |-> diffs] \in Answers
  BY <1>3, <1>4, <1>5, DiffAnswer
<1>7. Reply(c, [ok |-> TRUE, info |-> info, diffs |-> diffs])
  BY DEF GetNodeResourceInfo, known, none, info
<1> QED
  BY <1>1, <1>6, <1>7, ReplyType

LEMMA GetNodesResourceInfoType ==
    ASSUME PluginTypeOK, NEW c \in Callers, GetNodesResourceInfo(c)
    PROVE  PluginTypeOK'
<1> DEFINE infos == GetMulti(request[c].nodes)
<1>1. phase[c] = "running"
  BY RunningRequest DEF GetNodesResourceInfo
<1>2. infos \in [Nodes -> Infos \cup {Nil}]
  BY ReadIsInfo DEF GetMulti
<1> HIDE DEF infos
<1>3. [ok |-> TRUE, infos |-> infos] \in Answers
  BY <1>2 DEF Answers
<1>4. Reply(c, Failed) \/ Reply(c, [ok |-> TRUE, infos |-> infos])
  BY DEF GetNodesResourceInfo, infos
<1> QED
  BY <1>1, <1>3, <1>4, ReplyType, FailedIsAnswer

LEMMA GetNodesDeployCapacityType ==
    ASSUME PluginTypeOK, NEW c \in Callers, GetNodesDeployCapacity(c)
    PROVE  PluginTypeOK'
<1> DEFINE r          == request[c]
           infos      == GetMulti(r.nodes)
           capacities == [n \in Nodes |-> IF n \in r.nodes
                                          THEN ListedCapacity(infos[n], r.req) ELSE 0]
<1>1. r \in Requests /\ r.verb = "deploy-capacity" /\ phase[c] = "running"
  BY RunningRequest DEF GetNodesDeployCapacity
<1>2. r.req \in CountMaps
  BY <1>1 DEF Requests
<1>3. \A n \in Nodes : n \in r.nodes => infos[n] \in Infos
  BY ReadIsInfo DEF GetMulti
<1> HIDE DEF infos
<1>4. Validate(r.req) => capacities \in [Nodes -> Nat]
  BY <1>2, <1>3, ListedCapacityIsNat
<1>5. \/ Reply(c, Failed)
      \/ Validate(r.req) /\ Reply(c, [ok |-> TRUE, capacities |-> capacities])
  BY DEF GetNodesDeployCapacity, infos
<1> HIDE DEF capacities
<1>6. Validate(r.req) => [ok |-> TRUE, capacities |-> capacities] \in Answers
  BY <1>4 DEF Answers
<1> QED
  BY <1>1, <1>5, <1>6, ReplyType, FailedIsAnswer

LEMMA CalculateDeployType ==
    ASSUME PluginTypeOK, NEW c \in Callers, CalculateDeploy(c)
    PROVE  PluginTypeOK'
<1> DEFINE r     == request[c]
           works == [i \in 1..r.count |-> r.req]
<1>1. r \in Requests /\ r.verb = "calculate-deploy" /\ phase[c] = "running"
  BY RunningRequest DEF CalculateDeploy
<1>2. r.req \in CountMaps /\ r.count \in Nat
  BY <1>1 DEF Requests
<1>3. works \in Seq(CountMaps)
  BY <1>2
<1>4. Reply(c, Failed) \/ Reply(c, [ok |-> TRUE, works |-> works])
  BY DEF CalculateDeploy
<1> HIDE DEF works
<1>5. [ok |-> TRUE, works |-> works] \in Answers
  BY <1>3 DEF Answers, Works
<1> QED
  BY <1>1, <1>4, <1>5, ReplyType, FailedIsAnswer

LEMMA CalculateReallocType ==
    ASSUME PluginTypeOK, NEW c \in Callers, CalculateRealloc(c)
    PROVE  PluginTypeOK'
<1> DEFINE r     == request[c]
           new   == Merge(r.req, r.workload)
           delta == ReallocDelta(r.workload, r.req)
<1>1. r \in Requests /\ r.verb = "calculate-realloc" /\ phase[c] = "running"
  BY RunningRequest DEF CalculateRealloc
<1>2. r.req \in CountMaps /\ r.workload \in CountMaps
  BY <1>1 DEF Requests
<1>3. new \in CountMaps
  BY <1>2, MergeIsMap
<1>4. delta \in CountMaps
  BY <1>2, <1>3, SubIsMap DEF ReallocDelta
<1>5. Reply(c, Failed) \/ Reply(c, [ok |-> TRUE, workload |-> new, delta |-> delta])
  BY DEF CalculateRealloc
<1> HIDE DEF new, delta
<1>6. [ok |-> TRUE, workload |-> new, delta |-> delta] \in Answers
  BY <1>3, <1>4 DEF Answers
<1> QED
  BY <1>1, <1>5, <1>6, ReplyType, FailedIsAnswer

-----------------------------------------------------------------------------
(* The writes *)

LEMMA PutType ==
    ASSUME PluginTypeOK, NEW c \in Callers, Put(c)
    PROVE  PluginTypeOK'
<1>1. pending[c] \in Infos /\ answer[c] # Nil /\ request[c] # Nil
  BY DEF PluginTypeOK, Put
<1>2. etcd' \in [Nodes -> Infos \cup {Absent}]
  BY <1>1 DEF PluginTypeOK, Put
<1>3. answer' \in [Callers -> Answers \cup {Nil}] /\ answer'[c] # Nil
  BY <1>1, FailedIsAnswer, NilIsNoValueAssumption DEF PluginTypeOK, Put
<1>4. \A d \in Callers \ {c} : answer'[d] = answer[d]
  BY DEF PluginTypeOK, Put
<1> QED
  BY <1>1, <1>2, <1>3, <1>4 DEF PluginTypeOK, Put, Phases

LEMMA RemoveNodeType ==
    ASSUME PluginTypeOK, NEW c \in Callers, RemoveNode(c)
    PROVE  PluginTypeOK'
<1>1. etcd' \in [Nodes -> Infos \cup {Absent}]
  BY DEF PluginTypeOK, RemoveNode
<1> QED
  BY <1>1, FailedIsAnswer, NilIsNoValueAssumption DEF PluginTypeOK, RemoveNode, Running, Phases

LEMMA BreakType ==
    ASSUME PluginTypeOK, NEW c \in Callers, Break(c)
    PROVE  PluginTypeOK'
<1>1. Fault(c) /\ request[c] # Nil
  BY DEF Break, FailBeforeWrite, FailAfterWrite, Running, PluginTypeOK
<1>2. etcd' \in [Nodes -> Infos \cup {Absent}]
  BY DEF Break, FailBeforeWrite, FailAfterWrite, PluginTypeOK
<1>3. faults' \in 0..MaxFaults
  BY <1>1, MaxFaultsAssumption DEF Fault, PluginTypeOK
<1> QED
  BY <1>1, <1>2, <1>3, FailedIsAnswer, NilIsNoValueAssumption DEF PluginTypeOK, Fault, Phases

LEMMA ServeType ==
    ASSUME PluginTypeOK, NEW c \in Callers, Serve(c)
    PROVE  PluginTypeOK'
BY AddNodeType, SetNodeResourceCapacityType, SetNodeResourceUsageType,
   SetNodeResourceInfoType, FixNodeResourceType, PutType, RemoveNodeType,
   GetNodeResourceInfoType, GetNodesResourceInfoType, GetNodesDeployCapacityType,
   CalculateDeployType, CalculateReallocType DEF Serve

-----------------------------------------------------------------------------
(* What a step does to the records *)

\* All verbs but remove-node leave etcd alone until they Put
LEMMA OnlyWritesWrite ==
    ASSUME PluginTypeOK, NEW c \in Callers, Serve(c) \/ Break(c)
    PROVE  \/ etcd' = etcd
           \/ /\ phase[c] = "storing"
              /\ ValidInfo(pending[c])
              /\ etcd' = [etcd EXCEPT ![request[c].node] = pending[c]]
           \/ /\ Running(c, "remove-node")
              /\ etcd' = [etcd EXCEPT ![request[c].node] = Absent]
<1>1. CASE Put(c)
  BY <1>1 DEF Put
<1>2. CASE RemoveNode(c)
  BY <1>2 DEF RemoveNode
<1>3. CASE Break(c)
  BY <1>3 DEF Break, FailBeforeWrite, FailAfterWrite
<1>4. CASE AddNode(c) \/ FixNodeResource(c)
  BY <1>4 DEF AddNode, FixNodeResource, Store, Reply
<1>5. CASE SetNodeResourceCapacity(c) \/ SetNodeResourceUsage(c) \/ SetNodeResourceInfo(c)
  BY <1>5 DEF SetNodeResourceCapacity, SetNodeResourceUsage, SetNodeResourceInfo, Store
<1>6. CASE \/ GetNodeResourceInfo(c) \/ GetNodesResourceInfo(c)
           \/ GetNodesDeployCapacity(c) \/ CalculateDeploy(c) \/ CalculateRealloc(c)
  BY <1>6 DEF GetNodeResourceInfo, GetNodesResourceInfo, GetNodesDeployCapacity,
              CalculateDeploy, CalculateRealloc, Reply
<1> QED
  BY <1>1, <1>2, <1>3, <1>4, <1>5, <1>6 DEF Serve

LEMMA StoredStaysValid ==
    ASSUME PluginTypeOK, StoredValid, NEW c \in Callers, Serve(c) \/ Break(c)
    PROVE  StoredValid'
<1>1. \A n \in Nodes : \/ etcd'[n] = etcd[n]
                       \/ etcd'[n] = Absent
                       \/ etcd'[n] = pending[c] /\ ValidInfo(pending[c])
  BY OnlyWritesWrite DEF PluginTypeOK
<1> QED
  BY <1>1 DEF StoredValid

-----------------------------------------------------------------------------
(* One call on one node, told by what the verb makes of the record it read *)

NodeVerbs == {"add-node", "remove-node", "set-capacity", "set-usage", "fix-node",
              "calculate-deploy", "calculate-realloc"}

\* The record the verb leaves if it succeeds, having read info.  A node whose
\* record is not empty is not added.
Result(r, info) ==
    CASE r.verb = "add-node" /\ info = EmptyInfo ->
            [capacity |-> ParsedRequest(r.resource), usage |-> NoCards]
      [] r.verb = "remove-node" -> EmptyInfo
      [] r.verb = "set-capacity" ->
            [info EXCEPT !.capacity =
                NextCapacity(info, r.resource, r.request, r.delta, r.incr)]
      [] r.verb = "set-usage" ->
            [info EXCEPT !.usage =
                NextUsage(info, r.resource, r.request, r.works, r.delta, r.incr)]
      [] r.verb = "fix-node" -> FixedInfo(info, WorkloadsUsage(r.works))
      [] OTHER -> info

\* What is known when the verb answers a without an error, having read info
Success(r, info, a) ==
    /\ a.ok
    /\ r.verb = "add-node" => info = EmptyInfo
    /\ r.verb = "set-capacity" => a.before = info.capacity
    /\ r.verb = "set-usage" => a.before = info.usage
    /\ r.verb = "calculate-deploy" =>
          /\ Validate(r.req)
          /\ DoAllocFits(info, r.count, r.req)
          /\ a.works = [i \in 1..r.count |-> r.req]
    /\ r.verb = "calculate-realloc" =>
          /\ ValidateProd(r.req)
          /\ ReallocFits(info, r.workload, r.req)
          /\ a.workload = Merge(r.req, r.workload)
          /\ a.delta = ReallocDelta(r.workload, r.req)

\* A call that is about to write computed it from what is stored now
Fresh(c) ==
    phase[c] = "storing" =>
        LET n == request[c].node
        IN  /\ pending[c] = Result(request[c], GetOrEmpty(n))
            /\ Success(request[c], GetOrEmpty(n), answer[c])
            /\ request[c].verb = "add-node" => etcd[n] = Absent

\* What is read, whether there is a record or not, has passed Validate
LEMMA ReadIsValid ==
    ASSUME PluginTypeOK, StoredValid, NEW n \in Nodes
    PROVE  GetOrEmpty(n) \in Infos /\ ValidInfo(GetOrEmpty(n))
BY EmptyInfoIsInfo DEF PluginTypeOK, StoredValid, GetOrEmpty

\* A call does not touch the state of the others
LEMMA CallsAreApart ==
    ASSUME PluginTypeOK, NEW c \in Callers, Serve(c) \/ Break(c)
    PROVE  /\ phase[c] \in {"running", "storing"}
           /\ request' = request
           /\ \A d \in Callers \ {c} : /\ phase'[d] = phase[d]
                                       /\ pending'[d] = pending[d]
                                       /\ answer'[d] = answer[d]
           /\ \A m \in Nodes : m # request[c].node => etcd'[m] = etcd[m]
<1> USE DEF PluginTypeOK
<1>1. CASE Put(c)
  BY <1>1 DEF Put
<1>2. CASE RemoveNode(c)
  BY <1>2 DEF RemoveNode, Running
<1>3. CASE Break(c)
  BY <1>3 DEF Break, FailBeforeWrite, FailAfterWrite, Fault, Running
<1>4. CASE AddNode(c) \/ FixNodeResource(c)
  BY <1>4 DEF AddNode, FixNodeResource, Store, Reply, Running
<1>5. CASE SetNodeResourceCapacity(c) \/ SetNodeResourceUsage(c) \/ SetNodeResourceInfo(c)
  BY <1>5 DEF SetNodeResourceCapacity, SetNodeResourceUsage, SetNodeResourceInfo, Store,
              Running
<1>6. CASE \/ GetNodeResourceInfo(c) \/ GetNodesResourceInfo(c)
           \/ GetNodesDeployCapacity(c) \/ CalculateDeploy(c) \/ CalculateRealloc(c)
  BY <1>6 DEF GetNodeResourceInfo, GetNodesResourceInfo, GetNodesDeployCapacity,
              CalculateDeploy, CalculateRealloc, Reply, Running
<1> QED
  BY <1>1, <1>2, <1>3, <1>4, <1>5, <1>6 DEF Serve

\* The caller's step: it goes on to write what it computed from the record, or
\* answers with the record as it was or as the verb leaves it; and when it
\* answers without an error the verb has done all it had to.
Called(c, n, info) ==
    \/ phase'[c] = "storing" /\ etcd' = etcd /\ Fresh(c)'
    \/ /\ phase'[c] = "answered"
       /\ GetOrEmpty(n)' \in {info, Result(request[c], info)}
       /\ answer'[c].ok => /\ GetOrEmpty(n)' = Result(request[c], info)
                           /\ Success(request[c], info, answer'[c])

\* A call that answers with an error and left the record alone
LEMMA FailedCall ==
    ASSUME NEW c \in Callers, NEW n \in Nodes, etcd' = etcd,
           phase'[c] = "answered", answer'[c] = Failed
    PROVE  Called(c, n, GetOrEmpty(n))
BY DEF Called, GetOrEmpty, Failed

\* A verb that answers without writing
LEMMA ReplyCall ==
    ASSUME PluginTypeOK, NEW c \in Callers, NEW n \in Nodes, NEW a, Reply(c, a),
           a.ok => /\ Result(request[c], GetOrEmpty(n)) = GetOrEmpty(n)
                   /\ Success(request[c], GetOrEmpty(n), a)
    PROVE  Called(c, n, GetOrEmpty(n))
<1>1. phase'[c] = "answered" /\ answer'[c] = a /\ etcd' = etcd
  BY DEF Reply, PluginTypeOK
<1>2. GetOrEmpty(n)' = GetOrEmpty(n)
  BY <1>1 DEF GetOrEmpty
<1> QED
  BY <1>1, <1>2 DEF Called

\* A verb that is going to write what it computed from the record there is
LEMMA StoreCall ==
    ASSUME PluginTypeOK, NEW c \in Callers, NEW n \in Nodes, request[c].node = n,
           NEW a, Store(c, Result(request[c], GetOrEmpty(n)), a),
           Success(request[c], GetOrEmpty(n), a),
           request[c].verb = "add-node" => etcd[n] = Absent
    PROVE  Called(c, n, GetOrEmpty(n))
<1>1. /\ phase'[c] = "storing" /\ etcd' = etcd /\ request' = request
      /\ answer'[c] = a /\ pending'[c] = Result(request[c], GetOrEmpty(n))
  BY DEF Store, PluginTypeOK
<1>2. GetOrEmpty(n)' = GetOrEmpty(n)
  BY <1>1 DEF GetOrEmpty
<1>3. Fresh(c)'
  BY <1>1, <1>2 DEF Fresh, Result, Success
<1> QED
  BY <1>1, <1>3 DEF Called

\* A write of what was computed leaves the verb's record
LEMMA WriteCall ==
    ASSUME PluginTypeOK, NEW c \in Callers, NEW n \in Nodes, request[c].node = n,
           phase[c] = "storing", Fresh(c), Put(c) \/ Break(c)
    PROVE  Called(c, n, GetOrEmpty(n))
<1> DEFINE info == GetOrEmpty(n)
<1>1. pending[c] = Result(request[c], info) /\ Success(request[c], info, answer[c])
  BY DEF Fresh
<1>2. pending[c] \in Infos
  BY DEF PluginTypeOK
<1>3. phase'[c] = "answered"
  BY DEF Put, Break, FailBeforeWrite, FailAfterWrite, Fault, PluginTypeOK
<1>4. \/ etcd' = etcd /\ answer'[c] = Failed
      \/ etcd'[n] = pending[c] /\ answer'[c] = Failed
      \/ etcd'[n] = pending[c] /\ answer'[c] = answer[c]
  BY DEF Put, Break, FailBeforeWrite, FailAfterWrite, Fault, Running, PluginTypeOK
<1>5. CASE etcd' = etcd /\ answer'[c] = Failed
  BY <1>3, <1>5, FailedCall
<1>6. CASE etcd'[n] = pending[c]
  <2>1. GetOrEmpty(n)' = Result(request[c], info)
    BY <1>1, <1>2, <1>6, AbsentAssumption DEF GetOrEmpty
  <2> HIDE DEF info
  <2>2. answer'[c].ok => Success(request[c], info, answer'[c])
    BY <1>1, <1>4, <1>5 DEF Failed
  <2>3. Called(c, n, info)
    BY <1>3, <2>1, <2>2 DEF Called
  <2> QED
    BY <2>3 DEF info
<1> QED
  BY <1>4, <1>5, <1>6

\* Removing a record, in time or killed right after
LEMMA RemoveCall ==
    ASSUME PluginTypeOK, NEW c \in Callers, NEW n \in Nodes, request[c].node = n,
           Running(c, "remove-node"), etcd' = [etcd EXCEPT ![n] = Absent],
           phase'[c] = "answered", answer'[c] \in {Done, Failed}
    PROVE  Called(c, n, GetOrEmpty(n))
<1>1. GetOrEmpty(n)' = EmptyInfo
  BY DEF GetOrEmpty, PluginTypeOK
<1>2. Result(request[c], GetOrEmpty(n)) = EmptyInfo
  BY DEF Result, Running
<1>3. answer'[c].ok => Success(request[c], GetOrEmpty(n), answer'[c])
  BY DEF Success, Running, Done, Failed
<1> QED
  BY <1>1, <1>2, <1>3 DEF Called

\* A repair that finds no difference has nothing to write
LEMMA FixCall ==
    ASSUME PluginTypeOK, StoredValid, NEW c \in Callers, NEW n \in Nodes,
           request[c].node = n, FixNodeResource(c),
           WorkloadsUsage(request[c].works) \in CountMaps,
           Validate(WorkloadsUsage(request[c].works))
    PROVE  Called(c, n, GetOrEmpty(n))
<1> DEFINE r      == request[c]
           info   == GetOrEmpty(n)
           actual == WorkloadsUsage(r.works)
           diffs  == Diffs(info, actual)
           a      == [ok |-> TRUE, info |-> info, diffs |-> diffs]
           fixed  == FixedInfo(info, actual)
           b      == [ok |-> TRUE, info |-> fixed, diffs |-> diffs]
<1>1. r.verb = "fix-node"
  BY DEF FixNodeResource, Running
<1>2. \/ Reply(c, Failed)
      \/ NoDiffs(diffs) /\ Reply(c, a)
      \/ Store(c, fixed, b)
  BY DEF FixNodeResource, GetOrEmpty
<1>3. info \in Infos /\ ValidInfo(info)
  BY ReadIsValid
<1>4. Result(r, info) = fixed
  BY <1>1 DEF Result
<1>5. Success(r, info, a) /\ Success(r, info, b)
  BY <1>1 DEF Success
<1>6. NoDiffs(diffs) => fixed = info
  <2> HIDE DEF info, actual
  <2>1. NoDiffs(diffs) => info.usage = actual
    BY <1>3, DiffsAreCompleteFor DEF ValidInfo, actual
  <2> QED
    BY <2>1, <1>3 DEF FixedInfo, Infos
<1> HIDE DEF info, actual, diffs, fixed
<1>7. CASE Reply(c, Failed)
  BY <1>7, ReplyCall DEF Failed
<1>8. CASE NoDiffs(diffs) /\ Reply(c, a)
  BY <1>4, <1>5, <1>6, <1>8, ReplyCall DEF info
<1>9. CASE Store(c, fixed, b)
  BY <1>1, <1>4, <1>5, <1>9, StoreCall DEF info
<1> QED
  BY <1>2, <1>7, <1>8, <1>9

\* A step of a process is the next of a call's: it answers, is going to write, or has
\* written what its verb makes of the record, and does nothing to other nodes
LEMMA CallStep ==
    ASSUME PluginTypeOK, StoredValid, NEW c \in Callers, Serve(c) \/ Break(c),
           NEW n \in Nodes, request[c].node = n, request[c].verb \in NodeVerbs, Fresh(c),
           request[c].verb = "fix-node" =>
              /\ WorkloadsUsage(request[c].works) \in CountMaps
              /\ Validate(WorkloadsUsage(request[c].works))
    PROVE  Called(c, n, GetOrEmpty(n))
<1> DEFINE r    == request[c]
           info == GetOrEmpty(n)
<1>1. CASE Put(c)
  BY <1>1, WriteCall DEF Put
<1>2. CASE RemoveNode(c)
  BY <1>2, RemoveCall DEF RemoveNode, PluginTypeOK
<1>3. CASE Break(c)
  <2>1. CASE phase[c] = "storing"
    BY <1>3, <2>1, WriteCall
  <2>2. CASE phase[c] # "storing"
    <3>1. phase'[c] = "answered" /\ answer'[c] = Failed
      BY <1>3 DEF Break, FailBeforeWrite, FailAfterWrite, Fault, PluginTypeOK
    <3>2. \/ etcd' = etcd
          \/ Running(c, "remove-node") /\ etcd' = [etcd EXCEPT ![n] = Absent]
      BY <1>3, <2>2 DEF Break, FailBeforeWrite, FailAfterWrite
    <3> QED
      BY <3>1, <3>2, FailedCall, RemoveCall
  <2> QED
    BY <2>1, <2>2
<1>4. CASE AddNode(c)
  <2> DEFINE new == [capacity |-> ParsedRequest(r.resource), usage |-> NoCards]
  <2>1. r.verb = "add-node"
    BY <1>4 DEF AddNode, Running
  <2>2. CASE etcd[n] = Absent /\ Store(c, new, [ok |-> TRUE, info |-> new])
    <3>1. info = EmptyInfo
      BY <2>2 DEF GetOrEmpty
    <3>2. Result(r, info) = new
      BY <2>1, <3>1 DEF Result
    <3>3. Success(r, info, [ok |-> TRUE, info |-> new])
      BY <2>1, <3>1 DEF Success
    <3> HIDE DEF new
    <3> QED
      BY <2>1, <2>2, <3>2, <3>3, StoreCall
  <2>3. CASE Reply(c, Failed)
    BY <2>3, ReplyCall DEF Failed
  <2> QED
    BY <1>4, <2>2, <2>3 DEF AddNode
<1>5. CASE SetNodeResourceCapacity(c)
  <2> DEFINE next == NextCapacity(info, r.resource, r.request, r.delta, r.incr)
             a == [ok |-> TRUE, before |-> info.capacity, after |-> next]
  <2>1. r.verb = "set-capacity"
    BY <1>5 DEF SetNodeResourceCapacity, Running
  <2>2. Result(r, info) = [info EXCEPT !.capacity = next]
    BY <2>1 DEF Result
  <2>3. Success(r, info, a)
    BY <2>1 DEF Success
  <2>4. Store(c, [info EXCEPT !.capacity = next], a)
    BY <1>5 DEF SetNodeResourceCapacity
  <2> HIDE DEF a, next
  <2> QED
    BY <2>1, <2>2, <2>3, <2>4, StoreCall
<1>6. CASE SetNodeResourceUsage(c)
  <2> DEFINE next == NextUsage(info, r.resource, r.request, r.works, r.delta, r.incr)
             a == [ok |-> TRUE, before |-> info.usage, after |-> next]
  <2>1. r.verb = "set-usage"
    BY <1>6 DEF SetNodeResourceUsage, Running
  <2>2. Result(r, info) = [info EXCEPT !.usage = next]
    BY <2>1 DEF Result
  <2>3. Success(r, info, a)
    BY <2>1 DEF Success
  <2>4. Store(c, [info EXCEPT !.usage = next], a)
    BY <1>6 DEF SetNodeResourceUsage
  <2> HIDE DEF a, next
  <2> QED
    BY <2>1, <2>2, <2>3, <2>4, StoreCall
<1>7. CASE FixNodeResource(c)
  BY <1>7, FixCall DEF FixNodeResource, Running
<1>8. CASE CalculateDeploy(c)
  <2> DEFINE a == [ok |-> TRUE, works |-> [i \in 1..r.count |-> r.req]]
  <2>1. r.verb = "calculate-deploy"
    BY <1>8 DEF CalculateDeploy, Running
  <2>2. Result(r, info) = info
    BY <2>1 DEF Result
  <2>3. CASE Validate(r.req) /\ DoAllocFits(info, r.count, r.req) /\ Reply(c, a)
    <3>1. Success(r, info, a)
      BY <2>1, <2>3 DEF Success
    <3> HIDE DEF a
    <3> QED
      BY <2>2, <2>3, <3>1, ReplyCall
  <2>4. CASE Reply(c, Failed)
    BY <2>4, ReplyCall DEF Failed
  <2> QED
    BY <1>8, <2>3, <2>4 DEF CalculateDeploy
<1>9. CASE CalculateRealloc(c)
  <2> DEFINE a == [ok |-> TRUE, workload |-> Merge(r.req, r.workload),
                   delta |-> ReallocDelta(r.workload, r.req)]
  <2>1. r.verb = "calculate-realloc"
    BY <1>9 DEF CalculateRealloc, Running
  <2>2. Result(r, info) = info
    BY <2>1 DEF Result
  <2>3. CASE /\ ValidateProd(r.req) /\ ReallocFits(info, r.workload, r.req)
             /\ Reply(c, a)
    <3>1. Success(r, info, a)
      BY <2>1, <2>3 DEF Success
    <3> HIDE DEF a
    <3> QED
      BY <2>2, <2>3, <3>1, ReplyCall
  <2>4. CASE Reply(c, Failed)
    BY <2>4, ReplyCall DEF Failed
  <2> QED
    BY <1>9, <2>3, <2>4 DEF CalculateRealloc
<1>10. CASE SetNodeResourceInfo(c) \/ GetNodeResourceInfo(c) \/ GetNodesResourceInfo(c)
            \/ GetNodesDeployCapacity(c)
  BY <1>10 DEF SetNodeResourceInfo, GetNodeResourceInfo, GetNodesResourceInfo,
               GetNodesDeployCapacity, Running, NodeVerbs
<1> QED
  BY <1>1, <1>2, <1>3, <1>4, <1>5, <1>6, <1>7, <1>8, <1>9, <1>10 DEF Serve
=============================================================================
