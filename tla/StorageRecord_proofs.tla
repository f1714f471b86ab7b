------------------------ MODULE StorageRecord_proofs ------------------------
(***************************************************************************)
(* Facts about what the storage plugin computes, for any devices, disks    *)
(* and rates: that the scheduler answers plans on what the node has; that  *)
(* every verb that writes stores a sound record, or refuses; what a        *)
(* snapshot put back restores; and that the capacity query counts the      *)
(* plans the scheduler makes.                                              *)
(***************************************************************************)
EXTENDS StorageRecord, FiniteSetTheorems, SequenceTheorems, TLAPS

-----------------------------------------------------------------------------
(* Loops.  A fold is a recursive function, on the subsets of a finite set  *)
(* for the folds of the community modules.  It satisfies its recursion     *)
(* once some function does; that one exists for the subsets of every size  *)
(* by a least-counterexample argument.                                     *)

\* A set of naturals that is not empty has a least member
LEMMA LeastNatural ==
    ASSUME NEW T, T \subseteq Nat, T # {}
    PROVE  \E x \in T : \A y \in T : x <= y
<1>1. IsWellFoundedOn(OpToRel(<, Nat), Nat)
  BY NatLessThanWellFounded
<1>2. PICK x \in T : \A y \in T : ~ (<<y, x>> \in OpToRel(<, Nat))
  BY <1>1, WFMin
<1>3. \A y \in T : ~ (y < x)
  BY <1>2 DEF OpToRel
<1> QED
  BY <1>3

\* The member a fold takes first
Pick(s) == CHOOSE x \in s : TRUE

\* What holds of a set once it holds of all smaller ones holds of every subset
LEMMA SubsetsClimb ==
    ASSUME NEW S, IsFiniteSet(S), NEW Good,
           \A s \in SUBSET S :
              (\A r \in SUBSET S : Cardinality(r) < Cardinality(s) => r \in Good) => s \in Good
    PROVE  \A s \in SUBSET S : s \in Good
<1> DEFINE Bad == {n \in Nat : \E s \in SUBSET S : Cardinality(s) = n /\ s \notin Good}
<1>1. \A s \in SUBSET S : Cardinality(s) \in Nat
  BY FS_Subset, FS_CardinalityType
<1>2. SUFFICES ASSUME Bad # {}
               PROVE  FALSE
  BY <1>1
<1>3. PICK n \in Bad : \A m \in Bad : n <= m
  BY <1>2, LeastNatural
<1>4. PICK s \in SUBSET S : Cardinality(s) = n /\ s \notin Good
  BY <1>3
<1>5. \A r \in SUBSET S : Cardinality(r) < Cardinality(s) => r \in Good
  <2> TAKE r \in SUBSET S
  <2>1. SUFFICES ASSUME Cardinality(r) < n, r \notin Good
                 PROVE  FALSE
    BY <1>4
  <2>2. Cardinality(r) \in Bad
    BY <1>1, <2>1
  <2>3. n <= Cardinality(r) /\ n \in Nat /\ Cardinality(r) \in Nat
    BY <1>1, <1>3, <2>2
  <2> QED
    BY <2>1, <2>3
<1> QED
  BY <1>4, <1>5

\* The sum of g as a recursion on the subsets of S
Sums(it, g, S) ==
    /\ SumFunction(g) = it[S]
    /\ \A s \in SUBSET S : it[s] = IF s = {} THEN 0 ELSE g[Pick(s)] + it[s \ {Pick(s)}]
    /\ \A s \in SUBSET S : it[s] \in Int

LEMMA SumUnfolds ==
    ASSUME NEW S, IsFiniteSet(S), NEW g \in [S -> Int]
    PROVE  \E it : Sums(it, g, S)
<1> DEFINE Turn(f, s) == IF s = {} THEN 0 ELSE g[Pick(s)] + f[s \ {Pick(s)}]
           Small(n) == {s \in SUBSET S : Cardinality(s) <= n}
           Good(n) == \E f \in [Small(n) -> Int] : \A s \in Small(n) : f[s] = Turn(f, s)
           N == Cardinality(S)
<1>1. \A s \in SUBSET S : IsFiniteSet(s) /\ Cardinality(s) \in Nat /\ Cardinality(s) <= N
  BY FS_Subset, FS_CardinalityType
<1>2. \A s \in SUBSET S : s # {} => /\ Pick(s) \in s
                                    /\ s \ {Pick(s)} \in SUBSET S
                                    /\ Cardinality(s \ {Pick(s)}) = Cardinality(s) - 1
  BY <1>1, FS_RemoveElement DEF Pick
<1>3. Good(0)
  <2>1. \A s \in Small(0) : s = {}
    BY <1>1, FS_EmptySet
  <2> DEFINE f == [s \in Small(0) |-> 0]
  <2>2. f \in [Small(0) -> Int] /\ \A s \in Small(0) : f[s] = Turn(f, s)
    BY <2>1
  <2> QED
    BY <2>2
<1>4. ASSUME NEW n \in Nat \ {0}, Good(n - 1)
      PROVE  Good(n)
  <2>1. PICK f \in [Small(n - 1) -> Int] : \A s \in Small(n - 1) : f[s] = Turn(f, s)
    BY <1>4
  <2> DEFINE h == [s \in Small(n) |-> Turn(f, s)]
  <2>2. \A s \in Small(n) : s # {} => s \ {Pick(s)} \in Small(n - 1) /\ g[Pick(s)] \in Int
    BY <1>1, <1>2
  <2>3. h \in [Small(n) -> Int]
    BY <2>2
  <2>4. Small(n - 1) \subseteq Small(n)
    BY <1>1
  <2>5. \A s \in Small(n - 1) : h[s] = f[s]
    BY <2>1, <2>4
  <2>6. \A s \in Small(n) : h[s] = Turn(h, s)
    BY <2>2, <2>5
  <2> QED
    BY <2>3, <2>6
<1>5. \A n \in Nat : Good(n)
  <2> DEFINE Bad == {n \in Nat : ~Good(n)}
  <2>1. SUFFICES ASSUME Bad # {}
                 PROVE  FALSE
    OBVIOUS
  <2>2. PICK n \in Bad : \A m \in Bad : n <= m
    BY <2>1, LeastNatural
  <2>3. n # 0
    BY <1>3
  <2>4. n - 1 \in Nat /\ ~(n <= n - 1) /\ n \in Nat \ {0}
    BY <2>3
  <2>5. Good(n - 1)
    BY <2>2, <2>4
  <2> QED
    BY <2>4, <2>5, <1>4
<1>6. Small(N) = SUBSET S /\ N \in Nat
  BY <1>1
<1>7. PICK f \in [SUBSET S -> Int] : \A s \in SUBSET S : f[s] = Turn(f, s)
  BY <1>5, <1>6
<1> DEFINE Body(h) == [s \in SUBSET S |-> Turn(h, s)]
           it == CHOOSE h : h = Body(h)
<1>8. f = Body(f)
  BY <1>7
<1>9. it = Body(it)
  BY <1>8
<1>10. SumFunction(g) = it[S]
  BY DEF SumFunction, SumFunctionOnSet, FoldFunctionOnSet, MapThenFoldSet, Pick
<1> HIDE DEF it
<1>11. \A s \in SUBSET S : it[s] = Turn(it, s)
  BY <1>9
<1> DEFINE Whole == {s \in SUBSET S : it[s] \in Int}
<1>12. ASSUME NEW s \in SUBSET S,
              \A r \in SUBSET S : Cardinality(r) < Cardinality(s) => r \in Whole
       PROVE  s \in Whole
  <2>1. it[s] = Turn(it, s)
    BY <1>11
  <2>2. CASE s = {}
    BY <2>1, <2>2
  <2>3. CASE s # {}
    <3> DEFINE r == s \ {Pick(s)}
    <3>1. r \in SUBSET S /\ Cardinality(r) < Cardinality(s)
      BY <1>1, <1>2, <2>3
    <3>2. it[r] \in Int
      <4> HIDE DEF r
      <4> QED
        BY <1>12, <3>1
    <3>3. g[Pick(s)] \in Int
      BY <1>2, <2>3
    <3> QED
      BY <2>1, <2>3, <3>2, <3>3
  <2> QED
    BY <2>2, <2>3
<1> HIDE DEF Whole
<1>13. \A s \in SUBSET S : s \in Whole
  BY <1>12, SubsetsClimb
<1> QED
  BY <1>10, <1>11, <1>13 DEF Whole, Sums

\* The sum of finitely many integers is an integer
LEMMA SumIsInt ==
    ASSUME NEW S, IsFiniteSet(S), NEW g \in [S -> Int]
    PROVE  SumFunction(g) \in Int
<1>1. PICK it : Sums(it, g, S)
  BY SumUnfolds
<1> QED
  BY <1>1 DEF Sums

\* The sum of a part of g
SumOver(g, s) == SumFunction([x \in s |-> g[x]])

\* g gives each member of the finite set S an integer
Integral(g, S) == IsFiniteSet(S) /\ \A x \in S : g[x] \in Int

\* The sums of all parts, by recursion
Parted(it, g, S) ==
    \A s \in SUBSET S :
        /\ SumOver(g, s) = it[s] /\ it[s] \in Int
        /\ it[s] = IF s = {} THEN 0 ELSE g[Pick(s)] + it[s \ {Pick(s)}]

\* The recursion of the sum gives the sums of the parts
LEMMA PartsUnfold ==
    ASSUME NEW S, NEW g, Integral(g, S)
    PROVE  \E it : Parted(it, g, S)
<1> DEFINE f == [x \in S |-> g[x]]
<1>1. IsFiniteSet(S) /\ f \in [S -> Int] /\ \A x \in S : f[x] = g[x]
  BY DEF Integral
<1>2. PICK it : Sums(it, f, S)
  <2> HIDE DEF f
  <2> QED
    BY <1>1, SumUnfolds
<1>3. \A s \in SUBSET S : s # {} => Pick(s) \in s /\ s \ {Pick(s)} \in SUBSET S
  BY DEF Pick
<1>4. \A s \in SUBSET S : /\ it[s] \in Int
                          /\ it[s] = IF s = {} THEN 0 ELSE g[Pick(s)] + it[s \ {Pick(s)}]
  <2> HIDE DEF f
  <2> QED
    BY <1>1, <1>2, <1>3 DEF Sums
<1>5. ASSUME NEW s \in SUBSET S
      PROVE  SumOver(g, s) = it[s]
  <2> DEFINE e == [x \in s |-> g[x]]
  <2>1. IsFiniteSet(s)
    BY <1>1, FS_Subset
  <2>2. e \in [s -> Int] /\ \A x \in s : e[x] = g[x]
    BY <1>1
  <2>3. SumOver(g, s) = SumFunction(e)
    BY DEF SumOver
  <2> HIDE DEF e
  <2>4. PICK it1 : Sums(it1, e, s)
    BY <2>1, <2>2, SumUnfolds
  <2> DEFINE Same == {r \in SUBSET s : it1[r] = it[r]}
  <2>5. ASSUME NEW r \in SUBSET s,
               \A q \in SUBSET s : Cardinality(q) < Cardinality(r) => q \in Same
        PROVE  r \in Same
    <3>1. it1[r] = IF r = {} THEN 0 ELSE e[Pick(r)] + it1[r \ {Pick(r)}]
      BY <2>4 DEF Sums
    <3>2. r \in SUBSET S
      OBVIOUS
    <3>3. it[r] = IF r = {} THEN 0 ELSE g[Pick(r)] + it[r \ {Pick(r)}]
      BY <1>4, <3>2
    <3>4. CASE r = {}
      BY <3>1, <3>3, <3>4
    <3>5. CASE r # {}
      <4> DEFINE q == r \ {Pick(r)}
      <4>1. Pick(r) \in r /\ IsFiniteSet(r) /\ q \in SUBSET s
        BY <1>3, <2>1, <3>2, <3>5, FS_Subset
      <4>2. Cardinality(q) < Cardinality(r)
        <5>1. Cardinality(r) \in Nat
          BY <4>1, FS_CardinalityType
        <5>2. Cardinality(q) = Cardinality(r) - 1
          BY <4>1, FS_RemoveElement
        <5> QED
          BY <5>1, <5>2
      <4> HIDE DEF q
      <4>3. it1[q] = it[q]
        BY <2>5, <4>1, <4>2
      <4>4. e[Pick(r)] = g[Pick(r)]
        BY <2>2, <4>1
      <4> QED
        BY <3>1, <3>3, <3>5, <4>3, <4>4 DEF q
    <3> QED
      BY <3>4, <3>5
  <2> HIDE DEF Same
  <2>6. s \in Same
    BY <2>1, <2>5, SubsetsClimb
  <2> QED
    BY <2>3, <2>4, <2>6 DEF Same, Sums
<1> QED
  BY <1>4, <1>5 DEF Parted

LEMMA SumOfWhole ==
    ASSUME NEW S, NEW g \in [S -> Int]
    PROVE  SumFunction(g) = SumOver(g, S)
BY DEF SumOver

LEMMA SumOfNone ==
    ASSUME NEW g
    PROVE  SumOver(g, {}) = 0
<1>0. Integral(g, {})
  BY FS_EmptySet DEF Integral
<1>1. PICK it : Parted(it, g, {})
  BY <1>0, PartsUnfold
<1> QED
  BY <1>1 DEF Parted

\* A sum is a member's amount and the sum of the others, whatever the member
LEMMA SumSplits ==
    ASSUME NEW S, NEW g, Integral(g, S)
    PROVE  \A s \in SUBSET S : /\ SumOver(g, s) \in Int
                               /\ \A x \in s : SumOver(g, s) = g[x] + SumOver(g, s \ {x})
<1>0. PICK it : Parted(it, g, S)
  BY PartsUnfold
<1>1. \A s \in SUBSET S :
              /\ SumOver(g, s) = it[s] /\ it[s] \in Int
              /\ it[s] = IF s = {} THEN 0 ELSE g[Pick(s)] + it[s \ {Pick(s)}]
  BY <1>0 DEF Parted
<1> DEFINE Good == {s \in SUBSET S : \A x \in s : it[s] = g[x] + it[s \ {x}]}
<1>2. ASSUME NEW s \in SUBSET S,
             \A r \in SUBSET S : Cardinality(r) < Cardinality(s) => r \in Good
      PROVE  s \in Good
  <2> SUFFICES ASSUME NEW x \in s
               PROVE  it[s] = g[x] + it[s \ {x}]
    OBVIOUS
  <2> DEFINE p == Pick(s)
             a == s \ {p}
             b == s \ {x}
             c == a \ {x}
  <2>1. p \in s /\ it[s] = g[p] + it[a]
    BY <1>1 DEF Pick
  <2>2. CASE p = x
    BY <2>1, <2>2
  <2>3. CASE p # x
    <3>1. IsFiniteSet(s)
      BY FS_Subset DEF Integral
    <3>2. /\ a \in SUBSET S /\ b \in SUBSET S /\ c \in SUBSET S /\ c = b \ {p}
          /\ x \in a /\ p \in b
      BY <2>1, <2>3
    <3>3. Cardinality(a) < Cardinality(s) /\ Cardinality(b) < Cardinality(s)
      <4>1. Cardinality(s) \in Nat
        BY <3>1, FS_CardinalityType
      <4>2. Cardinality(a) = Cardinality(s) - 1 /\ Cardinality(b) = Cardinality(s) - 1
        BY <2>1, <3>1, FS_RemoveElement
      <4> QED
        BY <4>1, <4>2
    <3> HIDE DEF a, b, p
    <3>4. it[a] = g[x] + it[a \ {x}]
      BY <1>2, <3>2, <3>3
    <3>5. it[b] = g[p] + it[b \ {p}]
      BY <1>2, <3>2, <3>3
    <3>6. it[c] \in Int /\ g[x] \in Int /\ g[p] \in Int
      BY <1>1, <2>1, <3>2 DEF Integral
    <3>7. it[a] = g[x] + it[c] /\ it[b] = g[p] + it[c]
      BY <3>2, <3>4, <3>5
    <3> HIDE DEF c
    <3>8. it[s] = g[x] + it[b]
      BY <2>1, <3>6, <3>7
    <3> QED
      BY <3>8 DEF b
  <2> QED
    BY <2>2, <2>3
<1>3. IsFiniteSet(S)
  BY DEF Integral
<1> HIDE DEF Good
<1>4. \A s \in SUBSET S : s \in Good
  BY <1>2, <1>3, SubsetsClimb
<1> QED
  BY <1>1, <1>4 DEF Good

\* What is no less part by part is no less in the sum
LEMMA SumGrows ==
    ASSUME NEW S, NEW g, NEW h, Integral(g, S), Integral(h, S),
           \A x \in S : g[x] <= h[x]
    PROVE  SumOver(g, S) <= SumOver(h, S)
<1> DEFINE Good == {s \in SUBSET S : SumOver(g, s) <= SumOver(h, s)}
<1>1. IsFiniteSet(S)
  BY DEF Integral
<1>2. ASSUME NEW s \in SUBSET S,
             \A r \in SUBSET S : Cardinality(r) < Cardinality(s) => r \in Good
      PROVE  s \in Good
  <2>1. CASE s = {}
    BY <2>1, SumOfNone
  <2>2. CASE s # {}
    <3>1. PICK x : x \in s
      BY <2>2
    <3> DEFINE r == s \ {x}
    <3>2. Cardinality(r) < Cardinality(s) /\ r \in SUBSET S
      <4>1. IsFiniteSet(s)
        BY <1>1, FS_Subset
      <4>2. Cardinality(s) \in Nat
        BY <4>1, FS_CardinalityType
      <4>3. Cardinality(r) = Cardinality(s) - 1
        BY <3>1, <4>1, FS_RemoveElement
      <4> QED
        BY <4>2, <4>3
    <3>3. SumOver(g, s) = g[x] + SumOver(g, r) /\ SumOver(h, s) = h[x] + SumOver(h, r)
      BY <3>1, SumSplits
    <3> HIDE DEF r
    <3>4. SumOver(g, r) \in Int /\ SumOver(h, r) \in Int
      BY <3>2, SumSplits
    <3>5. SumOver(g, r) <= SumOver(h, r)
      BY <1>2, <3>2
    <3>6. g[x] \in Int /\ h[x] \in Int /\ g[x] <= h[x]
      BY <3>1 DEF Integral
    <3>7. SumOver(g, s) <= SumOver(h, s)
      BY <3>3, <3>4, <3>5, <3>6
    <3> QED
      BY <3>7
  <2> QED
    BY <2>1, <2>2
<1> HIDE DEF Good
<1>3. \A s \in SUBSET S : s \in Good
  BY <1>1, <1>2, SubsetsClimb
<1> QED
  BY <1>3 DEF Good

\* The sum of parts that do not overlap
LEMMA SumJoins ==
    ASSUME NEW S, NEW T, NEW g, Integral(g, S), Integral(g, T), S \cap T = {}
    PROVE  SumOver(g, S \cup T) = SumOver(g, S) + SumOver(g, T)
<1> DEFINE Good == {s \in SUBSET S : SumOver(g, s \cup T) = SumOver(g, s) + SumOver(g, T)}
<1>1. IsFiniteSet(S) /\ Integral(g, S \cup T)
  BY FS_Union DEF Integral
<1>2. ASSUME NEW s \in SUBSET S,
             \A r \in SUBSET S : Cardinality(r) < Cardinality(s) => r \in Good
      PROVE  s \in Good
  <2>0. SumOver(g, T) \in Int
    BY SumSplits
  <2>1. CASE s = {}
    <3>1. s \cup T = T
      BY <2>1
    <3> QED
      BY <2>0, <2>1, <3>1, SumOfNone
  <2>2. CASE s # {}
    <3>1. PICK x : x \in s
      BY <2>2
    <3> DEFINE r == s \ {x}
               u == s \cup T
               v == r \cup T
    <3>2. Cardinality(r) < Cardinality(s) /\ r \in SUBSET S
      <4>1. IsFiniteSet(s)
        BY <1>1, FS_Subset
      <4>2. Cardinality(s) \in Nat
        BY <4>1, FS_CardinalityType
      <4>3. Cardinality(r) = Cardinality(s) - 1
        BY <3>1, <4>1, FS_RemoveElement
      <4> QED
        BY <4>2, <4>3
    <3>3. SumOver(g, s) = g[x] + SumOver(g, r)
      BY <3>1, SumSplits
    <3>4. x \in u /\ u \in SUBSET (S \cup T) /\ u \ {x} = v
      BY <3>1
    <3>5. SumOver(g, u) = g[x] + SumOver(g, v)
      <4> HIDE DEF u, v
      <4>1. SumOver(g, u) = g[x] + SumOver(g, u \ {x})
        BY <1>1, <3>4, SumSplits
      <4> QED
        BY <3>4, <4>1
    <3> HIDE DEF r
    <3>6. SumOver(g, v) = SumOver(g, r) + SumOver(g, T) /\ SumOver(g, r) \in Int
      BY <1>2, <3>2, SumSplits
    <3>7. g[x] \in Int
      BY <3>1 DEF Integral
    <3> HIDE DEF u, v
    <3>8. SumOver(g, u) = SumOver(g, s) + SumOver(g, T)
      BY <2>0, <3>3, <3>5, <3>6, <3>7
    <3> QED
      BY <3>8 DEF u
  <2> QED
    BY <2>1, <2>2
<1> HIDE DEF Good
<1>3. \A s \in SUBSET S : s \in Good
  BY <1>1, <1>2, SubsetsClimb
<1> QED
  BY <1>3 DEF Good

\* A sum of nothing but zeros
LEMMA SumOfZeros ==
    ASSUME NEW S, NEW g, IsFiniteSet(S), \A x \in S : g[x] = 0
    PROVE  SumOver(g, S) = 0
<1> DEFINE Good == {s \in SUBSET S : SumOver(g, s) = 0}
<1>1. Integral(g, S)
  BY DEF Integral
<1>2. ASSUME NEW s \in SUBSET S,
             \A r \in SUBSET S : Cardinality(r) < Cardinality(s) => r \in Good
      PROVE  s \in Good
  <2>1. CASE s = {}
    BY <2>1, SumOfNone
  <2>2. CASE s # {}
    <3>1. PICK x : x \in s
      BY <2>2
    <3> DEFINE r == s \ {x}
    <3>2. Cardinality(r) < Cardinality(s) /\ r \in SUBSET S
      <4>1. IsFiniteSet(s)
        BY FS_Subset
      <4>2. Cardinality(s) \in Nat
        BY <4>1, FS_CardinalityType
      <4>3. Cardinality(r) = Cardinality(s) - 1
        BY <3>1, <4>1, FS_RemoveElement
      <4> QED
        BY <4>2, <4>3
    <3>3. SumOver(g, s) = g[x] + SumOver(g, r)
      BY <1>1, <3>1, SumSplits
    <3> HIDE DEF r
    <3> QED
      BY <1>2, <3>1, <3>2, <3>3
  <2> QED
    BY <2>1, <2>2
<1> HIDE DEF Good
<1>3. \A s \in SUBSET S : s \in Good
  BY <1>2, SubsetsClimb
<1> QED
  BY <1>3 DEF Good

\* A sum of what is not less than nothing is not, and is no less than a part
LEMMA SumIsNat ==
    ASSUME NEW S, NEW g, IsFiniteSet(S), \A x \in S : g[x] \in Nat
    PROVE  /\ SumOver(g, S) \in Nat
           /\ \A s \in SUBSET S : SumOver(g, s) \in Nat /\ SumOver(g, s) <= SumOver(g, S)
<1> DEFINE zero == [x \in S |-> 0]
<1>1. Integral(g, S) /\ Integral(zero, S)
  BY DEF Integral
<1>2. \A s \in SUBSET S : IsFiniteSet(s) /\ Integral(g, s) /\ Integral(zero, s)
  BY FS_Subset DEF Integral
<1>3. \A s \in SUBSET S : SumOver(zero, s) = 0
  BY <1>2, SumOfZeros
<1>4. ASSUME NEW s \in SUBSET S
      PROVE  SumOver(g, s) \in Nat
  <2>1. \A x \in s : zero[x] <= g[x]
    OBVIOUS
  <2> HIDE DEF zero
  <2>2. SumOver(zero, s) <= SumOver(g, s)
    BY <1>2, <2>1, SumGrows
  <2> QED
    BY <1>1, <1>3, <2>2, SumSplits
<1>5. ASSUME NEW s \in SUBSET S
      PROVE  SumOver(g, s) <= SumOver(g, S)
  <2> DEFINE t == S \ s
  <2>1. s \cup t = S /\ s \cap t = {} /\ t \in SUBSET S
    OBVIOUS
  <2> HIDE DEF t
  <2>2. SumOver(g, s \cup t) = SumOver(g, s) + SumOver(g, t)
    BY <1>2, <2>1, SumJoins
  <2>3. SumOver(g, t) \in Nat /\ SumOver(g, s) \in Nat
    BY <1>4, <2>1
  <2>4. SumOver(g, S) = SumOver(g, s) + SumOver(g, t)
    BY <2>1, <2>2
  <2> QED
    BY <2>3, <2>4
<1> QED
  BY <1>4, <1>5

\* The sum of what is added part by part
LEMMA SumAdds ==
    ASSUME NEW S, NEW g, NEW h, NEW k, Integral(g, S), Integral(h, S),
           \A x \in S : k[x] = g[x] + h[x]
    PROVE  SumOver(k, S) = SumOver(g, S) + SumOver(h, S)
<1> DEFINE Good == {s \in SUBSET S : SumOver(k, s) = SumOver(g, s) + SumOver(h, s)}
<1>1. IsFiniteSet(S) /\ Integral(k, S)
  BY DEF Integral
<1>2. ASSUME NEW s \in SUBSET S,
             \A r \in SUBSET S : Cardinality(r) < Cardinality(s) => r \in Good
      PROVE  s \in Good
  <2>1. CASE s = {}
    BY <2>1, SumOfNone
  <2>2. CASE s # {}
    <3>1. PICK x : x \in s
      BY <2>2
    <3> DEFINE r == s \ {x}
    <3>2. Cardinality(r) < Cardinality(s) /\ r \in SUBSET S
      <4>1. IsFiniteSet(s)
        BY <1>1, FS_Subset
      <4>2. Cardinality(s) \in Nat
        BY <4>1, FS_CardinalityType
      <4>3. Cardinality(r) = Cardinality(s) - 1
        BY <3>1, <4>1, FS_RemoveElement
      <4> QED
        BY <4>2, <4>3
    <3>3. /\ SumOver(g, s) = g[x] + SumOver(g, r) /\ SumOver(h, s) = h[x] + SumOver(h, r)
          /\ SumOver(k, s) = k[x] + SumOver(k, r)
      BY <1>1, <3>1, SumSplits
    <3> HIDE DEF r
    <3>4. SumOver(g, r) \in Int /\ SumOver(h, r) \in Int
      BY <3>2, SumSplits
    <3>5. SumOver(k, r) = SumOver(g, r) + SumOver(h, r)
      BY <1>2, <3>2
    <3>6. g[x] \in Int /\ h[x] \in Int /\ k[x] = g[x] + h[x]
      BY <3>1 DEF Integral
    <3>7. SumOver(k, s) = SumOver(g, s) + SumOver(h, s)
      BY <3>3, <3>4, <3>5, <3>6
    <3> QED
      BY <3>7
  <2> QED
    BY <2>1, <2>2
<1> HIDE DEF Good
<1>3. \A s \in SUBSET S : s \in Good
  BY <1>1, <1>2, SubsetsClimb
<1> QED
  BY <1>3 DEF Good

\* The position a loop comes to last
LastOf(s) == CHOOSE x \in s : \A y \in s : x >= y

\* A set of positions that is not empty has a last one
LEMMA LastIsThere ==
    ASSUME NEW N \in Nat, NEW s \in SUBSET (1..N), s # {}
    PROVE  LastOf(s) \in s
<1> DEFINE T == {N - x : x \in s}
<1>1. \A x \in s : x \in Int /\ N - x \in Nat
  OBVIOUS
<1>2. T \subseteq Nat /\ T # {}
  BY <1>1
<1>3. PICK t \in T : \A y \in T : t <= y
  BY <1>2, LeastNatural
<1>4. PICK x \in s : t = N - x
  OBVIOUS
<1>5. \A y \in s : t <= N - y
  BY <1>3
<1>6. \A y \in s : x >= y
  BY <1>1, <1>4, <1>5
<1> QED
  BY <1>6 DEF LastOf

\* The least of finitely many integers is one of them
LEMMA MinOfFinite ==
    ASSUME NEW S \in SUBSET Int, IsFiniteSet(S), S # {}
    PROVE  Min(S) \in S /\ \A x \in S : Min(S) <= x
<1> DEFINE HasMin(T) == \E x \in T : \A y \in T : x <= y
           Bad == {n \in Nat : \E T \in SUBSET S :
                                  T # {} /\ Cardinality(T) = n /\ ~HasMin(T)}
<1>1. ASSUME Bad # {}
      PROVE  FALSE
  <2>1. PICK n \in Bad : \A m \in Bad : n <= m
    <3>1. Bad \subseteq Nat
      OBVIOUS
    <3> QED
      BY <1>1, <3>1, LeastNatural
  <2>2. PICK T \in SUBSET S : T # {} /\ Cardinality(T) = n /\ ~HasMin(T)
    BY <2>1
  <2>3. PICK x \in T : TRUE
    BY <2>2
  <2>4. IsFiniteSet(T)
    BY FS_Subset
  <2>5. /\ IsFiniteSet(T \ {x})
        /\ Cardinality(T \ {x}) = n - 1
        /\ Cardinality(T \ {x}) \in Nat
    BY <2>2, <2>3, <2>4, FS_RemoveElement, FS_CardinalityType
  <2>6. n - 1 \notin Bad /\ n - 1 \in Nat
    BY <2>1, <2>5
  <2>7. T \ {x} = {} \/ HasMin(T \ {x})
    BY <2>5, <2>6
  <2>8. CASE T \ {x} = {}
    BY <2>2, <2>3, <2>8
  <2>9. CASE HasMin(T \ {x})
    <3>1. PICK m \in T \ {x} : \A y \in T \ {x} : m <= y
      BY <2>9
    <3>2. m \in Int /\ x \in Int
      BY <3>1, <2>3
    <3>3. CASE m <= x
      BY <3>1, <3>3, <2>2
    <3>4. CASE ~(m <= x)
      <4>1. \A y \in T : x <= y
        BY <3>1, <3>2, <3>4
      <4> QED
        BY <4>1, <2>2, <2>3
    <3> QED
      BY <3>3, <3>4
  <2> QED
    BY <2>7, <2>8, <2>9
<1>2. HasMin(S)
  BY <1>1, FS_CardinalityType
<1> QED
  BY <1>2 DEF Min

-----------------------------------------------------------------------------
(* Iteration *)

\* What holds at first and is kept by each step holds at every step
LEMMA Climbs ==
    ASSUME NEW n \in Nat, NEW V, NEW f, f[0] \in V,
           \A i \in 1..n : f[i - 1] \in V => f[i] \in V
    PROVE  \A i \in 0..n : f[i] \in V
<1> DEFINE Bad == {i \in 0..n : f[i] \notin V}
<1>1. SUFFICES ASSUME Bad # {}
               PROVE  FALSE
  OBVIOUS
<1>2. PICK i \in Bad : \A j \in Bad : i <= j
  <2>1. Bad \subseteq Nat
    OBVIOUS
  <2> HIDE DEF Bad
  <2> QED
    BY <1>1, <2>1, LeastNatural
<1>3. i \in 1..n /\ i - 1 \in 0..n /\ ~(i <= i - 1)
  BY <1>2
<1>4. f[i - 1] \in V
  BY <1>2, <1>3
<1> QED
  BY <1>2, <1>3, <1>4

\* The same for a set of numbers
LEMMA CountsUp ==
    ASSUME NEW n \in Nat, NEW S, 0 \in S, \A i \in 1..n : i - 1 \in S => i \in S
    PROVE  n \in S
<1> DEFINE f == [i \in 0..n |-> i]
<1>1. f[0] = 0 /\ f[n] = n /\ n \in 0..n
  OBVIOUS
<1>2. \A i \in 1..n : f[i - 1] = i - 1 /\ f[i] = i
  <2> TAKE i \in 1..n
  <2>1. i \in 0..n /\ i - 1 \in 0..n
    OBVIOUS
  <2> QED
    BY <2>1
<1> HIDE DEF f
<1>3. \A i \in 0..n : f[i] \in S
  BY <1>1, <1>2, Climbs
<1> QED
  BY <1>1, <1>3

\* n steps within V, from x
Steps(f, n, V, x, step) ==
    f \in [0..n -> V] /\ f = [i \in 0..n |-> IF i = 0 THEN x ELSE step[f[i - 1]]]

\* Steps can be taken one after the other
LEMMA StepsExist ==
    ASSUME NEW n \in Nat, NEW V, NEW x \in V, NEW step \in [V -> V]
    PROVE  \E f : Steps(f, n, V, x, step)
<1> DEFINE Good(k) == \E f \in [0..k -> V] :
                        f = [i \in 0..k |-> IF i = 0 THEN x ELSE step[f[i - 1]]]
<1>1. Good(0)
  <2> DEFINE f == [i \in 0..0 |-> x]
  <2>1. f \in [0..0 -> V] /\ f = [i \in 0..0 |-> IF i = 0 THEN x ELSE step[f[i - 1]]]
    OBVIOUS
  <2> QED
    BY <2>1
<1>2. ASSUME NEW k \in Nat \ {0}, Good(k - 1)
      PROVE  Good(k)
  <2>1. PICK f \in [0..(k - 1) -> V] :
          f = [i \in 0..(k - 1) |-> IF i = 0 THEN x ELSE step[f[i - 1]]]
    BY <1>2
  <2> DEFINE h == [i \in 0..k |-> IF i = 0 THEN x ELSE step[f[i - 1]]]
  <2>2. \A i \in 1..k : i - 1 \in 0..(k - 1)
    OBVIOUS
  <2>3. h \in [0..k -> V]
    BY <2>2
  <2>4. \A i \in 0..(k - 1) : f[i] = h[i]
    BY <2>1
  <2>5. \A i \in 0..k : h[i] = IF i = 0 THEN x ELSE step[h[i - 1]]
    BY <2>2, <2>4
  <2>6. h = [i \in 0..k |-> IF i = 0 THEN x ELSE step[h[i - 1]]]
    BY <2>5
  <2> QED
    BY <2>3, <2>6
<1>3. \A k \in Nat : Good(k)
  <2> DEFINE Bad == {k \in Nat : ~Good(k)}
  <2>1. SUFFICES ASSUME Bad # {}
                 PROVE  FALSE
    OBVIOUS
  <2>2. PICK k \in Bad : \A m \in Bad : k <= m
    BY <2>1, LeastNatural
  <2>3. k # 0
    BY <1>1
  <2>4. k - 1 \in Nat /\ ~(k <= k - 1) /\ k \in Nat \ {0}
    BY <2>3
  <2>5. Good(k - 1)
    BY <2>2, <2>4
  <2> QED
    BY <2>4, <2>5, <1>2
<1> QED
  BY <1>3 DEF Steps

\* A fold over 1..N, the last position last, within V
Folds(f, N, V, base, step) ==
    /\ f \in [SUBSET (1..N) -> V]
    /\ f = [s \in SUBSET (1..N) |->
              IF s = {} THEN base ELSE step[<<f[s \ {LastOf(s)}], LastOf(s)>>]]

\* The same for a loop over the sets of positions
LEMMA FoldExists ==
    ASSUME NEW N \in Nat, NEW V, NEW base \in V, NEW step \in [V \X (1..N) -> V]
    PROVE  \E f : Folds(f, N, V, base, step)
<1> DEFINE S == 1..N
           Turn(f, s) == IF s = {} THEN base ELSE step[<<f[s \ {LastOf(s)}], LastOf(s)>>]
           Small(n) == {s \in SUBSET S : Cardinality(s) <= n}
           Good(n) == \E f \in [Small(n) -> V] : f = [s \in Small(n) |-> Turn(f, s)]
<1>1. IsFiniteSet(S) /\ Cardinality(S) = N
  BY FS_Interval
<1>2. \A s \in SUBSET S : IsFiniteSet(s) /\ Cardinality(s) \in Nat /\ Cardinality(s) <= N
  <2> TAKE s \in SUBSET S
  <2>1. IsFiniteSet(s) /\ Cardinality(s) <= Cardinality(S)
    BY <1>1, FS_Subset
  <2>2. Cardinality(s) \in Nat
    BY <2>1, FS_CardinalityType
  <2> QED
    BY <1>1, <2>1, <2>2
<1>3. \A s \in SUBSET S : s # {} => LastOf(s) \in s
  BY LastIsThere
<1>4. \A s \in SUBSET S : s # {} => /\ s \ {LastOf(s)} \in SUBSET S
                                    /\ Cardinality(s \ {LastOf(s)}) = Cardinality(s) - 1
  BY <1>2, <1>3, FS_RemoveElement
<1>5. Good(0)
  <2>1. \A s \in Small(0) : s = {}
    BY <1>2, FS_EmptySet
  <2> DEFINE f == [s \in Small(0) |-> base]
  <2>2. f \in [Small(0) -> V] /\ f = [s \in Small(0) |-> Turn(f, s)]
    BY <2>1
  <2> QED
    BY <2>2
<1>6. ASSUME NEW n \in Nat \ {0}, Good(n - 1)
      PROVE  Good(n)
  <2>1. PICK f \in [Small(n - 1) -> V] : f = [s \in Small(n - 1) |-> Turn(f, s)]
    BY <1>6
  <2> DEFINE h == [s \in Small(n) |-> Turn(f, s)]
  <2>2. \A s \in Small(n) : s # {} => /\ s \ {LastOf(s)} \in Small(n - 1)
                                      /\ LastOf(s) \in S
    <3> TAKE s \in Small(n)
    <3>1. s \in SUBSET S /\ Cardinality(s) <= n /\ Cardinality(s) \in Nat
      BY <1>2
    <3>2. s # {} => /\ LastOf(s) \in s /\ s \ {LastOf(s)} \in SUBSET S
                    /\ Cardinality(s \ {LastOf(s)}) <= n - 1
      BY <1>3, <1>4, <3>1
    <3> QED
      BY <3>1, <3>2
  <2>3. Small(n - 1) \subseteq Small(n)
    BY <1>2
  <2>4. \A s \in Small(n - 1) : h[s] = f[s]
    BY <2>1, <2>3
  <2>5. \A s \in Small(n) : Turn(f, s) = Turn(h, s)
    BY <2>2, <2>4
  <2>6. \A s \in Small(n) : Turn(f, s) \in V
    BY <2>2
  <2>7. h = [s \in Small(n) |-> Turn(h, s)] /\ h \in [Small(n) -> V]
    BY <2>5, <2>6
  <2> QED
    BY <2>7
<1>7. \A n \in Nat : Good(n)
  <2> DEFINE Bad == {n \in Nat : ~Good(n)}
  <2>1. SUFFICES ASSUME Bad # {}
                 PROVE  FALSE
    OBVIOUS
  <2>2. PICK n \in Bad : \A m \in Bad : n <= m
    BY <2>1, LeastNatural
  <2>3. n # 0
    <3> HIDE DEF Good
    <3> QED
      BY <1>5
  <2>4. n - 1 \in Nat /\ ~(n <= n - 1) /\ n \in Nat \ {0}
    BY <2>3
  <2>5. Good(n - 1)
    BY <2>2, <2>4
  <2> QED
    BY <2>4, <2>5, <1>6
<1>8. Small(N) = SUBSET S
  BY <1>2
<1> QED
  BY <1>7, <1>8 DEF Folds

\* A function that is a fold as far as it stays within V
Follows(it, N, V, base, step) ==
    /\ it[{}] = base
    /\ \A s \in SUBSET (1..N) : s # {} /\ it[s \ {LastOf(s)}] \in V
          => it[s] = step[<<it[s \ {LastOf(s)}], LastOf(s)>>]

\* A loop over the positions, position by position
Turns(g, N, V, base, step, last) ==
    /\ g[0] = base /\ g[N] = last
    /\ \A k \in 0..N : g[k] \in V
    /\ \A k \in 1..N : g[k] = step[<<g[k - 1], k>>]

\* It takes one position after the other
LEMMA FoldTurns ==
    ASSUME NEW N \in Nat, NEW V, NEW base \in V, NEW step \in [V \X (1..N) -> V], NEW it,
           Follows(it, N, V, base, step)
    PROVE  \E g : Turns(g, N, V, base, step, it[1..N])
<1> DEFINE f == [k \in 0..N |-> it[1..k]]
<1>1. \A k \in 1..N : /\ 1..k \in SUBSET (1..N) /\ 1..k # {}
                      /\ LastOf(1..k) = k
                      /\ (1..k) \ {k} = 1..(k - 1)
  <2> TAKE k \in 1..N
  <2>1. 1..k \in SUBSET (1..N) /\ 1..k # {} /\ (1..k) \ {k} = 1..(k - 1)
    <3>1. \A x \in 1..k : x \in 1..N
      OBVIOUS
    <3>2. \A x : x \in (1..k) \ {k} <=> x \in 1..(k - 1)
      OBVIOUS
    <3>3. k \in 1..k
      OBVIOUS
    <3> QED
      BY <3>1, <3>2, <3>3
  <2>2. k \in 1..k /\ \A y \in 1..k : k >= y
    OBVIOUS
  <2>3. \A x \in 1..k : (\A y \in 1..k : x >= y) => x = k
    BY <2>2
  <2>4. LastOf(1..k) = k
    BY <2>2, <2>3 DEF LastOf
  <2> QED
    BY <2>1, <2>4
<1>2. f[0] = base
  <2>1. 1..0 = {}
    OBVIOUS
  <2> QED
    BY <2>1 DEF Follows
<1>3. \A k \in 1..N : f[k - 1] \in V => f[k] = step[<<f[k - 1], k>>] /\ f[k] \in V
  <2> TAKE k \in 1..N
  <2>1. k - 1 \in 0..N /\ k \in 0..N
    OBVIOUS
  <2>2. f[k - 1] = it[1..(k - 1)] /\ f[k] = it[1..k]
    BY <2>1
  <2> DEFINE a == f[k - 1]
             b == f[k]
             s == 1..k
  <2>3. /\ a = it[s \ {LastOf(s)}] /\ b = it[s] /\ LastOf(s) = k /\ s # {}
        /\ s \in SUBSET (1..N)
    BY <1>1, <2>2
  <2> HIDE DEF f, a, b, s
  <2>4. a \in V => b = step[<<a, k>>] /\ b \in V
    BY <2>3 DEF Follows
  <2> QED
    BY <2>4 DEF a, b
<1>4. \A k \in 0..N : f[k] \in V
  <2>1. \A k \in 1..N : f[k - 1] \in V => f[k] \in V
    BY <1>3
  <2>2. f[0] \in V
    BY <1>2
  <2> HIDE DEF f
  <2> QED
    BY <2>1, <2>2, Climbs
<1>5. f[N] = it[1..N] /\ N \in 0..N
  OBVIOUS
<1>6. \A k \in 1..N : f[k] = step[<<f[k - 1], k>>]
  <2> TAKE k \in 1..N
  <2>1. k - 1 \in 0..N
    OBVIOUS
  <2> HIDE DEF f
  <2> QED
    BY <1>3, <1>4, <2>1
<1> HIDE DEF f
<1>7. Turns(f, N, V, base, step, it[1..N])
  BY <1>2, <1>4, <1>5, <1>6 DEF Turns
<1> QED
  BY <1>7

\* A loop over the positions stays where its steps stay
LEMMA FoldStays ==
    ASSUME NEW N \in Nat, NEW V, NEW base \in V, NEW step \in [V \X (1..N) -> V], NEW it,
           Follows(it, N, V, base, step)
    PROVE  it[1..N] \in V
<1>1. PICK g : Turns(g, N, V, base, step, it[1..N])
  BY FoldTurns
<1>2. N \in 0..N
  OBVIOUS
<1> QED
  BY <1>1, <1>2 DEF Turns

-----------------------------------------------------------------------------
(* Orders *)

\* The image of a finite set is finite
LEMMA ImageIsFinite ==
    ASSUME NEW S, IsFiniteSet(S), NEW f
    PROVE  IsFiniteSet({f[x] : x \in S})
<1> DEFINE g == [x \in S |-> f[x]]
           T == {f[x] : x \in S}
<1>1. g \in Surjection(S, T)
  BY DEF Surjection
<1> QED
  BY <1>1, FS_Surjection

\* lower[x] is what comes before x: a strict order of all of S
Orders(lower, S) ==
    /\ lower \in [S -> SUBSET S]
    /\ \A x \in S : x \notin lower[x]
    /\ \A x \in S, y \in S :
          \/ x = y
          \/ x \in lower[y] /\ lower[x] \subseteq lower[y]
          \/ y \in lower[x] /\ lower[y] \subseteq lower[x]

\* In a finite order every place is taken, by one member
LEMMA RanksExist ==
    ASSUME NEW S, IsFiniteSet(S), NEW lower, Orders(lower, S)
    PROVE  /\ Cardinality(S) \in Nat
           /\ \A i \in 1..Cardinality(S) : \E x \in S : Cardinality(lower[x]) = i - 1
           /\ \A x \in S, y \in S : Cardinality(lower[x]) = Cardinality(lower[y]) => x = y
           /\ \A x \in S : Cardinality(lower[x]) + 1 \in 1..Cardinality(S)
<1> DEFINE n == Cardinality(S)
           rank == [x \in S |-> Cardinality(lower[x])]
           T == 0..(n - 1)
<1>1. n \in Nat
  BY FS_CardinalityType
<1>2. \A x \in S : /\ IsFiniteSet(lower[x]) /\ Cardinality(lower[x]) \in Nat
                   /\ Cardinality(lower[x]) < n
  <2> TAKE x \in S
  <2>1. lower[x] \in SUBSET S /\ x \notin lower[x]
    BY DEF Orders
  <2>2. /\ IsFiniteSet(lower[x]) /\ Cardinality(lower[x]) <= n
        /\ n = Cardinality(lower[x]) => S = lower[x]
    BY <2>1, FS_Subset
  <2>3. Cardinality(lower[x]) \in Nat
    BY <2>2, FS_CardinalityType
  <2> QED
    BY <1>1, <2>1, <2>2, <2>3
<1>3. ASSUME NEW x \in S, NEW y \in S, x \in lower[y], lower[x] \subseteq lower[y]
      PROVE  Cardinality(lower[x]) # Cardinality(lower[y])
  <2>1. x \notin lower[x]
    BY DEF Orders
  <2>2. lower[x] \in SUBSET lower[y] /\ lower[x] # lower[y]
    BY <1>3, <2>1
  <2> QED
    BY <1>2, <2>2, FS_Subset
<1>4. \A x \in S, y \in S : Cardinality(lower[x]) = Cardinality(lower[y]) => x = y
  BY <1>3 DEF Orders
<1>5. rank \in Injection(S, T)
  <2>1. rank \in [S -> T]
    BY <1>1, <1>2
  <2>2. \A x \in S, y \in S : rank[x] = rank[y] => x = y
    BY <1>4
  <2> HIDE DEF rank
  <2> QED
    BY <2>1, <2>2 DEF Injection, IsInjective
<1>6. IsFiniteSet(T) /\ Cardinality(T) = n
  BY <1>1, FS_Interval
<1>7. rank \in Surjection(S, T)
  BY <1>5, <1>6, FS_Injection
<1>8. \A i \in 1..n : \E x \in S : Cardinality(lower[x]) = i - 1
  <2> TAKE i \in 1..n
  <2>1. i - 1 \in T
    BY <1>1
  <2>2. PICK x \in S : rank[x] = i - 1
    BY <1>7, <2>1 DEF Surjection
  <2> QED
    BY <2>2
<1>9. \A x \in S : Cardinality(lower[x]) + 1 \in 1..n
  BY <1>1, <1>2
<1> QED
  BY <1>1, <1>4, <1>8, <1>9

\* The order has a first member, which comes before all the others
LEMMA FirstExists ==
    ASSUME NEW S, IsFiniteSet(S), S # {}, NEW lower, Orders(lower, S)
    PROVE  \E x \in S : lower[x] = {} /\ \A y \in S \ {x} : x \in lower[y]
<1>1. Cardinality(S) \in Nat /\ Cardinality(S) # 0
  BY FS_CardinalityType, FS_EmptySet
<1>2. PICK x \in S : Cardinality(lower[x]) = 1 - 1
  BY <1>1, RanksExist
<1>3. lower[x] \in SUBSET S
  BY DEF Orders
<1>4. lower[x] = {}
  BY <1>2, <1>3, FS_Subset, FS_EmptySet
<1> QED
  BY <1>4 DEF Orders

\* The members of a set, each once
Lists(r, S) ==
    /\ r \in Seq(S) /\ Len(r) = Cardinality(S)
    /\ \A x \in S : \E i \in 1..Len(r) : r[i] = x
    /\ \A i \in 1..Len(r), j \in 1..Len(r) : r[i] = r[j] => i = j

\* A function on the first n positions
IsList(r, n) == r = [i \in 1..n |-> r[i]]

\* A finite set is listed in its order
LEMMA OrderLists ==
    ASSUME NEW S, IsFiniteSet(S), NEW lower, Orders(lower, S), NEW r,
           IsList(r, Cardinality(S)),
           \A i \in 1..Cardinality(S) : (\E x \in S : Cardinality(lower[x]) = i - 1)
               => r[i] \in S /\ Cardinality(lower[r[i]]) = i - 1
    PROVE  Lists(r, S)
<1> DEFINE n == Cardinality(S)
<1>1. /\ n \in Nat
      /\ \A i \in 1..n : \E x \in S : Cardinality(lower[x]) = i - 1
      /\ \A x \in S, y \in S : Cardinality(lower[x]) = Cardinality(lower[y]) => x = y
      /\ \A x \in S : Cardinality(lower[x]) + 1 \in 1..n
  BY RanksExist
<1>2. \A i \in 1..n : r[i] \in S /\ Cardinality(lower[r[i]]) = i - 1
  BY <1>1
<1>3. r \in [1..n -> S] /\ DOMAIN r = 1..n
  BY <1>2 DEF IsList
<1>4. r \in Seq(S) /\ Len(r) = n
  <2> HIDE DEF n
  <2> QED
    BY <1>1, <1>3
<1>5. \A x \in S : \E i \in 1..n : r[i] = x
  <2> TAKE x \in S
  <2>1. PICK i \in 1..n : i = Cardinality(lower[x]) + 1
    BY <1>1
  <2>2. Cardinality(lower[x]) = i - 1
    <3>1. IsFiniteSet(lower[x])
      BY FS_Subset DEF Orders
    <3>2. Cardinality(lower[x]) \in Nat
      BY <3>1, FS_CardinalityType
    <3> QED
      BY <3>2, <2>1
  <2>3. Cardinality(lower[r[i]]) = Cardinality(lower[x]) /\ r[i] \in S
    BY <1>2, <2>1, <2>2
  <2> QED
    BY <1>1, <2>1, <2>3
<1>6. \A i \in 1..n, j \in 1..n : r[i] = r[j] => i = j
  <2> TAKE i \in 1..n, j \in 1..n
  <2>1. Cardinality(lower[r[i]]) = i - 1 /\ Cardinality(lower[r[j]]) = j - 1
    BY <1>2
  <2> QED
    BY <2>1, <1>1
<1> QED
  BY <1>4, <1>5, <1>6 DEF Lists

\* Two bindings of a request differ in source, destination or flags
Distinct(vbs) == \A vb \in vbs, vb1 \in vbs : GetMapKey(vb) = GetMapKey(vb1) => vb = vb1

\* The parts of a binding
LEMMA BindingParts ==
    ASSUME NEW vb \in VolumeBinding
    PROVE  /\ vb.source \in Paths \cup {AUTO} /\ vb.dest \in Int /\ vb.mono \in BOOLEAN
           /\ vb.size \in Int /\ vb.io \in IO
           /\ ~RequireSchedule(vb) => vb.source \in Paths /\ vb.source \in Int
<1>1. /\ vb.source \in Paths \cup {AUTO} /\ vb.dest \in Dests /\ vb.mono \in BOOLEAN
      /\ vb.size \in Int /\ vb.io \in IO
  BY DEF VolumeBinding
<1>2. vb.dest \in Int
  <2>1. vb.dest \in Dests
    BY <1>1
  <2>2. \A x \in Dests : x \in Int
    BY DestsAssumption
  <2> QED
    BY <2>1, <2>2
<1>3. ~RequireSchedule(vb) => vb.source \in Paths
  BY <1>1 DEF RequireSchedule
<1>4. Paths \subseteq Int
  BY PathsAssumption
<1> QED
  BY <1>1, <1>2, <1>3, <1>4

\* Volumes are finitely many and in order
LEMMA VolumesAreFinite ==
    ASSUME NEW S \in SUBSET Devices
    PROVE  IsFiniteSet(S) /\ S \subseteq Int
<1>1. S \in SUBSET Paths
  BY PathsAssumption
<1>2. IsFiniteSet(S)
  BY <1>1, PathsAssumption, FS_Subset
<1> QED
  BY <1>1, <1>2, PathsAssumption

\* Volumes by their free size
RankedVolumes(free, S) == Ranked(S, LAMBDA a, b : CompareVolume(free, a, b))

\* They are listed
LEMMA VolumesAreRanked ==
    ASSUME NEW S \in SUBSET Devices, NEW free, \A device \in S : free[device] \in Int
    PROVE  Lists(RankedVolumes(free, S), S)
<1> DEFINE lower == [x \in S |-> {y \in S : CompareVolume(free, y, x)}]
           r == RankedVolumes(free, S)
<1>1. IsFiniteSet(S) /\ S \subseteq Int
  BY VolumesAreFinite
<1>2. Orders(lower, S)
  <2>1. \A x \in S, y \in S : x = y \/ CompareVolume(free, x, y) \/ CompareVolume(free, y, x)
    BY <1>1 DEF CompareVolume
  <2>2. \A x \in S, y \in S : CompareVolume(free, x, y) =>
           \A z \in S : CompareVolume(free, z, x) => CompareVolume(free, z, y)
    BY <1>1 DEF CompareVolume
  <2>3. \A x \in S : ~CompareVolume(free, x, x)
    BY <1>1 DEF CompareVolume
  <2> QED
    BY <2>1, <2>2, <2>3 DEF Orders
<1>3. IsList(r, Cardinality(S))
  BY DEF RankedVolumes, Ranked, IsList
<1>4. \A i \in 1..Cardinality(S) : (\E x \in S : Cardinality(lower[x]) = i - 1)
         => r[i] \in S /\ Cardinality(lower[r[i]]) = i - 1
  <2> TAKE i \in 1..Cardinality(S)
  <2> HAVE \E x \in S : Cardinality(lower[x]) = i - 1
  <2>0. PICK x \in S : Cardinality(lower[x]) = i - 1
    OBVIOUS
  <2>1. Cardinality({y \in S : CompareVolume(free, y, x)}) = i - 1
    BY <2>0
  <2>2. r[i] = CHOOSE z \in S : Cardinality({y \in S : CompareVolume(free, y, z)}) = i - 1
    BY DEF RankedVolumes, Ranked
  <2> HIDE DEF r
  <2>3. r[i] \in S /\ Cardinality({y \in S : CompareVolume(free, y, r[i])}) = i - 1
    BY <2>1, <2>2
  <2> QED
    BY <2>3
<1> HIDE DEF lower, r
<1>5. Lists(r, S)
  BY <1>1, <1>2, <1>3, <1>4, OrderLists
<1> QED
  BY <1>5 DEF r

\* As a function, a ranking is on positions
LEMMA RankingIsList ==
    ASSUME NEW S
    PROVE  /\ IsList(Ranked(S, CompareBinding), Cardinality(S))
           /\ IsList(Ranked(S, CompareMount), Cardinality(S))
<1>1. IsList(Ranked(S, CompareBinding), Cardinality(S))
  BY DEF Ranked, IsList
<1>2. IsList(Ranked(S, CompareMount), Cardinality(S))
  BY SMTT(30) DEF Ranked, IsList
<1> QED
  BY <1>1, <1>2

\* Bindings to be placed are listed by their size
LEMMA BindingsAreRanked ==
    ASSUME NEW S \in SUBSET VolumeBinding, IsFiniteSet(S),
           \A vb \in S, vb1 \in S : vb.dest = vb1.dest => vb = vb1
    PROVE  Lists(Ranked(S, CompareBinding), S)
<1> DEFINE lower == [x \in S |-> {y \in S : CompareBinding(y, x)}]
           r == Ranked(S, CompareBinding)
<1>1. \A x \in S : x.size \in Int /\ x.dest \in Int
  BY BindingParts
<1>2. Orders(lower, S)
  BY <1>1 DEF Orders, CompareBinding
<1>3. IsList(r, Cardinality(S))
  BY RankingIsList
<1>4. \A i \in 1..Cardinality(S) : (\E x \in S : Cardinality(lower[x]) = i - 1)
         => r[i] \in S /\ Cardinality(lower[r[i]]) = i - 1
  <2> TAKE i \in 1..Cardinality(S)
  <2> HAVE \E x \in S : Cardinality(lower[x]) = i - 1
  <2>0. PICK x \in S : Cardinality(lower[x]) = i - 1
    OBVIOUS
  <2>1. Cardinality({y \in S : CompareBinding(y, x)}) = i - 1
    BY <2>0
  <2>2. r[i] = CHOOSE z \in S : Cardinality({y \in S : CompareBinding(y, z)}) = i - 1
    BY DEF Ranked
  <2> HIDE DEF r
  <2>3. r[i] \in S /\ Cardinality({y \in S : CompareBinding(y, r[i])}) = i - 1
    BY <2>1, <2>2
  <2> QED
    BY <2>3
<1> HIDE DEF lower, r
<1>5. Lists(r, S)
  BY <1>2, <1>3, <1>4, OrderLists
<1> QED
  BY <1>5 DEF r

\* Mounts are listed by their sources
LEMMA MountsAreRanked ==
    ASSUME NEW S \in SUBSET VolumeBinding, IsFiniteSet(S), Distinct(S),
           \A vb \in S : ~RequireSchedule(vb)
    PROVE  Lists(Ranked(S, CompareMount), S)
<1> DEFINE lower == [x \in S |-> {y \in S : CompareMount(y, x)}]
           r == Ranked(S, CompareMount)
<1>1. \A x \in S : x.source \in Int /\ x.dest \in Int /\ x.mono \in BOOLEAN
  BY BindingParts
<1>2. \A x \in S, y \in S : x.source = y.source /\ x.dest = y.dest /\ x.mono = y.mono => x = y
  BY DEF Distinct, GetMapKey
<1>3. \A x \in S, y \in S : x = y \/ CompareMount(x, y) \/ CompareMount(y, x)
  BY <1>1, <1>2 DEF CompareMount
<1>4. \A x \in S, y \in S : CompareMount(x, y) =>
         \A z \in S : CompareMount(z, x) => CompareMount(z, y)
  BY <1>1 DEF CompareMount
<1>5. \A x \in S : ~CompareMount(x, x)
  BY <1>1 DEF CompareMount
<1>6. Orders(lower, S)
  BY <1>3, <1>4, <1>5 DEF Orders
<1>7. IsList(r, Cardinality(S))
  BY RankingIsList
<1>8. \A i \in 1..Cardinality(S) : (\E x \in S : Cardinality(lower[x]) = i - 1)
         => r[i] \in S /\ Cardinality(lower[r[i]]) = i - 1
  <2> TAKE i \in 1..Cardinality(S)
  <2> HAVE \E x \in S : Cardinality(lower[x]) = i - 1
  <2>0. PICK x \in S : Cardinality(lower[x]) = i - 1
    OBVIOUS
  <2>1. Cardinality({y \in S : CompareMount(y, x)}) = i - 1
    BY <2>0
  <2>2. r[i] = CHOOSE z \in S : Cardinality({y \in S : CompareMount(y, z)}) = i - 1
    BY DEF Ranked
  <2> HIDE DEF r
  <2>3. r[i] \in S /\ Cardinality({y \in S : CompareMount(y, r[i])}) = i - 1
    BY <2>1, <2>2
  <2> QED
    BY <2>3
<1> HIDE DEF lower, r
<1>9. Lists(r, S)
  BY <1>6, <1>7, <1>8, OrderLists
<1> QED
  BY <1>9 DEF r

\* Of volumes the one with the least free size is one of them
LEMMA LeastIsThere ==
    ASSUME NEW S \in SUBSET Devices, S # {}, NEW free, \A device \in S : free[device] \in Int
    PROVE  Least(free, S) \in S
<1> DEFINE lower == [x \in S |-> {y \in S : CompareVolume(free, y, x)}]
<1>1. IsFiniteSet(S) /\ S \subseteq Int
  BY VolumesAreFinite
<1>2. Orders(lower, S)
  <2>1. \A x \in S, y \in S : x = y \/ CompareVolume(free, x, y) \/ CompareVolume(free, y, x)
    BY <1>1 DEF CompareVolume
  <2>2. \A x \in S, y \in S : CompareVolume(free, x, y) =>
           \A z \in S : CompareVolume(free, z, x) => CompareVolume(free, z, y)
    BY <1>1 DEF CompareVolume
  <2>3. \A x \in S : ~CompareVolume(free, x, x)
    BY <1>1 DEF CompareVolume
  <2> QED
    BY <2>1, <2>2, <2>3 DEF Orders
<1> HIDE DEF lower
<1>3. PICK x \in S : lower[x] = {} /\ \A y \in S \ {x} : x \in lower[y]
  BY <1>1, <1>2, FirstExists
<1>4. \A y \in S \ {x} : CompareVolume(free, x, y)
  BY <1>3 DEF lower
<1> QED
  BY <1>4 DEF Least

\* Of a list of volumes the first of those with the most left is one of them
LEMMA LargestIsThere ==
    ASSUME NEW D, NEW devices \in Seq(D), devices # <<>>, NEW left \in [D -> Int]
    PROVE  Largest(left, devices) \in D
<1> DEFINE S == DOMAIN devices
           lower == [i \in S |-> {j \in S : \/ left[devices[j]] > left[devices[i]]
                                            \/ left[devices[j]] = left[devices[i]] /\ j < i}]
           Most(i) == \A j \in S : \/ left[devices[i]] > left[devices[j]]
                                   \/ left[devices[i]] = left[devices[j]] /\ i <= j
<1>1. /\ Len(devices) \in Nat /\ S = 1..Len(devices) /\ S # {}
      /\ \A i \in S : devices[i] \in D /\ left[devices[i]] \in Int
  <2>1. Len(devices) \in Nat \ {0}
    BY EmptySeq
  <2>2. devices \in [1..Len(devices) -> D]
    BY <2>1
  <2>3. S = 1..Len(devices)
    BY <2>2
  <2>4. 1 \in S
    BY <2>1, <2>3
  <2>5. \A i \in S : devices[i] \in D
    BY <2>2, <2>3
  <2> HIDE DEF S
  <2> QED
    BY <2>1, <2>3, <2>4, <2>5
<1>2. IsFiniteSet(S)
  BY <1>1, FS_Interval
<1>3. Orders(lower, S)
  <2> DEFINE size == [i \in S |-> left[devices[i]]]
  <2>1. \A i \in S : size[i] \in Int /\ size[i] = left[devices[i]] /\ i \in Int
    BY <1>1
  <2> HIDE DEF size, S
  <2>2. \A i \in S : lower[i] = {j \in S : size[j] > size[i] \/ (size[j] = size[i] /\ j < i)}
    BY <2>1
  <2>3. lower \in [S -> SUBSET S]
    OBVIOUS
  <2> HIDE DEF lower
  <2> QED
    BY <2>1, <2>2, <2>3 DEF Orders
<1>4. PICK i \in S : lower[i] = {} /\ \A j \in S \ {i} : i \in lower[j]
  <2> HIDE DEF lower, S
  <2> QED
    BY <1>1, <1>2, <1>3, FirstExists
<1>5. Most(i)
  <2> SUFFICES ASSUME NEW j \in S
               PROVE  \/ left[devices[i]] > left[devices[j]]
                      \/ left[devices[i]] = left[devices[j]] /\ i <= j
    OBVIOUS
  <2>1. CASE i = j
    BY <2>1, <1>1
  <2>2. CASE i # j
    <3>1. i \in lower[j]
      BY <2>2, <1>4
    <3> QED
      BY <3>1, <1>1
  <2> QED
    BY <2>1, <2>2
<1>6. (CHOOSE k \in S : Most(k)) \in S
  BY <1>5
<1>7. Largest(left, devices) = devices[CHOOSE k \in S : Most(k)]
  BY DEF Largest
<1> QED
  BY <1>1, <1>6, <1>7

-----------------------------------------------------------------------------
(* Hosts and plans of a node with the volumes D and the disks N *)

HostsOn(D, N) == [free : [D -> Int], used : Seq(D), unused : Seq(D), disks : [N -> DiskCapacity]]

Bindings == {vbs \in SUBSET VolumeBinding : IsFiniteSet(vbs)}
PlansOn(D) == UNION {[vbs -> [device : D, size : Int]] : vbs \in Bindings}
DiskPlansOn(N) == UNION {[names -> IO] : names \in SUBSET N}
PlannedOn(D, N) == [plan : PlansOn(D), disks : DiskPlansOn(N)]
AttemptsOn(D, N) == [ok : BOOLEAN, host : HostsOn(D, N), plan : PlansOn(D), disks : DiskPlansOn(N)]

\* Of disks with mount points above a path the deepest is one of them
LEMMA DeepestIsThere ==
    ASSUME NEW N \in SUBSET DiskNames, NEW L, IsFiniteSet(L), L \subseteq Int,
           NEW covering \in SUBSET (L \X N)
    PROVE  Deepest(covering) \in N \cup {NoDisk}
<1> DEFINE Above(a, b) == a[1] > b[1] \/ (a[1] = b[1] /\ a[2] >= b[2])
           lower == [b \in covering |-> {a \in covering : a # b /\ Above(a, b)}]
<1>1. CASE covering = {}
  BY <1>1 DEF Deepest
<1>2. CASE covering # {}
  <2>1. IsFiniteSet(N) /\ N \subseteq Int
    <3>1. IsFiniteSet(DiskNames)
      BY DisksAssumption
    <3>2. \A name \in DiskNames : name \in Int
      BY DisksAssumption
    <3>3. IsFiniteSet(N)
      BY <3>1, FS_Subset
    <3> QED
      BY <3>2, <3>3
  <2>2. IsFiniteSet(covering)
    <3>1. IsFiniteSet(L \X N)
      BY <2>1, FS_Product
    <3> QED
      BY <3>1, FS_Subset
  <2>3. \A a \in covering : a[1] \in Int /\ a[2] \in Int /\ a[2] \in N /\ a = <<a[1], a[2]>>
    <3> TAKE a \in covering
    <3>1. a \in L \X N
      OBVIOUS
    <3>2. a[1] \in L /\ a[2] \in N /\ a = <<a[1], a[2]>>
      BY <3>1
    <3> QED
      BY <2>1, <3>2
  <2>4. \A a \in covering, b \in covering : a = b \/ Above(a, b) \/ Above(b, a)
    BY <2>3
  <2>5. \A a \in covering, b \in covering : a # b /\ Above(a, b) => ~Above(b, a)
    BY <2>3
  <2>6. \A a \in covering, b \in covering, c \in covering :
           Above(a, b) /\ Above(b, c) => Above(a, c)
    BY <2>3
  <2>7. Orders(lower, covering)
    <3> HIDE DEF Above
    <3>1. lower \in [covering -> SUBSET covering]
      OBVIOUS
    <3>2. \A a \in covering : a \notin lower[a]
      OBVIOUS
    <3>3. ASSUME NEW a \in covering, NEW b \in covering, a # b, Above(a, b)
          PROVE  a \in lower[b] /\ lower[a] \subseteq lower[b]
      BY <2>5, <2>6, <3>3
    <3> HIDE DEF lower
    <3> QED
      BY <2>4, <3>1, <3>2, <3>3 DEF Orders
  <2>8. PICK a \in covering : lower[a] = {} /\ \A b \in covering \ {a} : a \in lower[b]
    <3> HIDE DEF lower
    <3> QED
      BY <1>2, <2>2, <2>7, FirstExists
  <2>9. \A b \in covering : Above(a, b)
    BY <2>3, <2>8
  <2>10. (CHOOSE c \in covering : \A b \in covering : Above(c, b)) \in covering
    <3> HIDE DEF Above
    <3> QED
      BY <2>9
  <2>11. Deepest(covering) = (CHOOSE c \in covering : \A b \in covering : Above(c, b))[2]
    BY <1>2 DEF Deepest
  <2> QED
    BY <2>3, <2>10, <2>11
<1> QED
  BY <1>1, <1>2

\* The disk of a path is one of the disks, or none
LEMMA DiskIsThere ==
    ASSUME NEW N \in SUBSET DiskNames, NEW disks \in [N -> DiskCapacity], NEW path
    PROVE  GetDiskByPath(disks, path) \in N \cup {NoDisk}
<1> DEFINE f == [mount \in Paths |-> Len(Parts[mount])]
           L == {f[mount] : mount \in Paths}
           Covering(mounts) == {m \in mounts : IsPrefix(Parts[m], Parts[path])}
           covering == UNION {{<<Len(Parts[mount]), name>> :
                                  mount \in Covering(disks[name].mounts)} : name \in DOMAIN disks}
<1>1. IsFiniteSet(L)
  BY PathsAssumption, ImageIsFinite
<1>2. \A mount \in Paths : Len(Parts[mount]) \in L /\ Len(Parts[mount]) \in Int
  BY PartsAssumption
<1>3. L \subseteq Int
  BY <1>2
<1>4. \A name \in N : disks[name].mounts \subseteq Paths
  BY DEF DiskCapacity
<1>5. covering \subseteq L \X N
  <2> HIDE DEF L
  <2> QED
    BY <1>2, <1>4
<1>6. GetDiskByPath(disks, path) = Deepest(covering)
  BY DEF GetDiskByPath
<1> HIDE DEF covering, L
<1> QED
  BY <1>1, <1>3, <1>5, <1>6, DeepestIsThere

\* A disk that is qualified for rates is one of the disks
LEMMA QualifiedIsThere ==
    ASSUME NEW D, NEW N \in SUBSET DiskNames, NEW h \in HostsOn(D, N), NEW path, NEW vb,
           Qualified(h, path, vb), RequireIOPS(vb)
    PROVE  GetDiskByPath(h.disks, path) \in N
<1>1. h.disks \in [N -> DiskCapacity]
  BY DEF HostsOn
<1>2. GetDiskByPath(h.disks, path) # NoDisk
  BY DEF Qualified, IsDiskIOPSQuotaQualified
<1> QED
  BY <1>1, <1>2, DiskIsThere

\* Charges are made to disks that are there
LEMMA ChargesStay ==
    ASSUME NEW D, NEW N \in SUBSET DiskNames, NEW h \in HostsOn(D, N), NEW path,
           NEW vb, vb.io \in IO, RequireIOPS(vb) => Qualified(h, path, vb)
    PROVE  /\ DiskQuota(h, path, vb) \in DiskPlansOn(N)
           /\ DecreaseIOPSQuota(h, path, vb) \in HostsOn(D, N)
<1> DEFINE name == GetDiskByPath(h.disks, path)
           io == vb.io
           none == [x \in {} |-> io]
           quota == [x \in {name} |-> io]
<1>1. CASE ~RequireIOPS(vb)
  <2>1. none \in [{} -> IO] /\ {} \in SUBSET N
    OBVIOUS
  <2>2. DiskQuota(h, path, vb) = none
    BY <1>1 DEF DiskQuota
  <2>3. DiskQuota(h, path, vb) \in DiskPlansOn(N)
    BY <2>1, <2>2 DEF DiskPlansOn
  <2> QED
    BY <1>1, <2>3 DEF DecreaseIOPSQuota
<1>2. CASE RequireIOPS(vb)
  <2>1. name \in N
    BY <1>2, QualifiedIsThere
  <2>2. DiskQuota(h, path, vb) = quota
    BY <1>2 DEF DiskQuota
  <2>3. io \in IO
    OBVIOUS
  <2> HIDE DEF name, io
  <2>4. quota \in [{name} -> IO] /\ {name} \in SUBSET N
    BY <2>1, <2>3
  <2>5. DecreaseIOPSQuota(h, path, vb) = [h EXCEPT !.disks[name].io = SubIO(@, vb.io)]
    BY <1>2 DEF DecreaseIOPSQuota, name
  <2>6. SubIO(h.disks[name].io, vb.io) \in IO
    BY <2>1 DEF SubIO, IO, HostsOn, DiskCapacity
  <2>7. DecreaseIOPSQuota(h, path, vb) \in HostsOn(D, N)
    <3> DEFINE left == SubIO(h.disks[name].io, vb.io)
               disk == [h.disks[name] EXCEPT !.io = left]
               disks == [h.disks EXCEPT ![name] = disk]
    <3>1. left \in IO
      BY <2>6
    <3> HIDE DEF left
    <3>2. h.disks \in [N -> DiskCapacity] /\ h.disks[name] \in DiskCapacity
      BY <2>1 DEF HostsOn
    <3>3. disk \in DiskCapacity
      BY <3>1, <3>2 DEF DiskCapacity
    <3>4. disks \in [N -> DiskCapacity]
      BY <3>2, <3>3
    <3>5. DecreaseIOPSQuota(h, path, vb) = [h EXCEPT !.disks = disks]
      BY <2>5 DEF HostsOn, left
    <3> HIDE DEF disk, disks
    <3> QED
      BY <3>4, <3>5 DEF HostsOn
  <2>8. DiskQuota(h, path, vb) \in DiskPlansOn(N)
    <3> HIDE DEF quota
    <3> QED
      BY <2>2, <2>4 DEF DiskPlansOn
  <2> QED
    BY <2>7, <2>8
<1> QED
  BY <1>1, <1>2

\* Disk plans add up to a disk plan
LEMMA AddedDisksStay ==
    ASSUME NEW N, NEW disks \in DiskPlansOn(N), NEW disks1 \in DiskPlansOn(N)
    PROVE  AddDisks(disks, disks1) \in DiskPlansOn(N)
<1>1. PICK names \in SUBSET N : disks \in [names -> IO]
  BY DEF DiskPlansOn
<1>2. PICK names1 \in SUBSET N : disks1 \in [names1 -> IO]
  BY DEF DiskPlansOn
<1>3. \A name : UsedOf(disks, name) \in IO /\ UsedOf(disks1, name) \in IO
  BY <1>1, <1>2 DEF UsedOf, NoIO, IO
<1>4. \A name : AddIO(UsedOf(disks, name), UsedOf(disks1, name)) \in IO
  BY <1>3 DEF AddIO, IO
<1>5. AddDisks(disks, disks1) \in [names \cup names1 -> IO]
  BY <1>1, <1>2, <1>4 DEF AddDisks
<1> QED
  BY <1>5 DEF DiskPlansOn

\* Bindings add up to a binding
LEMMA QuotasAddUp ==
    ASSUME NEW vb \in VolumeBinding, NEW vb1 \in VolumeBinding
    PROVE  AddQuota(vb, vb1) \in VolumeBinding
<1>1. AddIO(vb.io, vb1.io) \in IO
  BY DEF VolumeBinding, AddIO, IO
<1>2. vb.size + vb1.size \in Int
  BY DEF VolumeBinding
<1> DEFINE io == AddIO(vb.io, vb1.io)
<1>3. AddQuota(vb, vb1) = [vb EXCEPT !.size = vb.size + vb1.size, !.io = io]
  BY DEF AddQuota, VolumeBinding
<1> HIDE DEF io
<1>4. io \in IO
  BY <1>1 DEF io
<1> QED
  BY <1>2, <1>3, <1>4 DEF VolumeBinding

\* A plan over some bindings
LEMMA PlanParts ==
    ASSUME NEW D, NEW plan \in PlansOn(D)
    PROVE  /\ DOMAIN plan \in SUBSET VolumeBinding /\ IsFiniteSet(DOMAIN plan)
           /\ \A vb \in DOMAIN plan : /\ plan[vb] \in [device : D, size : Int]
                                      /\ plan[vb].device \in D /\ plan[vb].size \in Int
<1>1. PICK vbs \in Bindings : plan \in [vbs -> [device : D, size : Int]]
  BY DEF PlansOn
<1> QED
  BY <1>1 DEF Bindings

\* What a plan is
LEMMA IsPlan ==
    ASSUME NEW D, NEW vbs \in SUBSET VolumeBinding, IsFiniteSet(vbs),
           NEW plan \in [vbs -> [device : D, size : Int]]
    PROVE  plan \in PlansOn(D)
BY DEF PlansOn, Bindings

\* Plans merge into a plan
LEMMA MergedPlansStay ==
    ASSUME NEW D, NEW plan \in PlansOn(D), NEW plan1 \in PlansOn(D)
    PROVE  MergePlans(plan, plan1) \in PlansOn(D)
<1> DEFINE Same(vb) == {vb1 \in DOMAIN plan : vb1.dest = vb.dest}
           kept == {vb1 \in DOMAIN plan : \A vb \in DOMAIN plan1 : vb.dest # vb1.dest}
           fresh == {vb \in DOMAIN plan1 : Same(vb) = {}}
           joined == {p \in (DOMAIN plan1) \X (DOMAIN plan) : p[1].dest = p[2].dest}
           both == {[vb |-> AddQuota(p[1], p[2]),
                     to |-> [plan1[p[1]] EXCEPT !.size = @ + plan[p[2]].size]] : p \in joined}
           To(vb) == IF vb \in kept THEN plan[vb] ELSE IF vb \in fresh THEN plan1[vb]
                     ELSE (CHOOSE b \in both : b.vb = vb).to
           all == kept \cup fresh \cup {b.vb : b \in both}
           first == [b \in both |-> b.vb]
           join == [p \in joined |-> [vb |-> AddQuota(p[1], p[2]),
                                      to |-> [plan1[p[1]] EXCEPT !.size = @ + plan[p[2]].size]]]
<1>1. /\ DOMAIN plan \in SUBSET VolumeBinding /\ IsFiniteSet(DOMAIN plan)
      /\ DOMAIN plan1 \in SUBSET VolumeBinding /\ IsFiniteSet(DOMAIN plan1)
  BY PlanParts
<1>2. IsFiniteSet(kept) /\ IsFiniteSet(fresh)
  <2>1. kept \in SUBSET DOMAIN plan /\ fresh \in SUBSET DOMAIN plan1
    OBVIOUS
  <2> HIDE DEF kept, fresh
  <2> QED
    BY <1>1, <2>1, FS_Subset
<1>3. IsFiniteSet(joined)
  <2>1. IsFiniteSet((DOMAIN plan1) \X (DOMAIN plan))
    BY <1>1, FS_Product
  <2>2. joined \in SUBSET ((DOMAIN plan1) \X (DOMAIN plan))
    OBVIOUS
  <2> HIDE DEF joined
  <2> QED
    BY <2>1, <2>2, FS_Subset
<1>4. \A p \in joined : /\ p[1] \in DOMAIN plan1 /\ p[2] \in DOMAIN plan
                        /\ p[1] \in VolumeBinding /\ p[2] \in VolumeBinding
  BY <1>1
<1>5. both = {join[p] : p \in joined}
  OBVIOUS
<1>6. IsFiniteSet(both)
  <2> HIDE DEF both, join, joined
  <2> QED
    BY <1>3, <1>5, ImageIsFinite
<1>7. \A b \in both : b.vb \in VolumeBinding /\ b.to \in [device : D, size : Int]
  <2> TAKE b \in both
  <2>1. PICK p \in joined :
          b = [vb |-> AddQuota(p[1], p[2]),
               to |-> [plan1[p[1]] EXCEPT !.size = @ + plan[p[2]].size]]
    OBVIOUS
  <2>2. AddQuota(p[1], p[2]) \in VolumeBinding
    BY <1>4, QuotasAddUp
  <2>3. plan1[p[1]] \in [device : D, size : Int] /\ plan[p[2]].size \in Int
    BY <1>4, PlanParts
  <2>4. [plan1[p[1]] EXCEPT !.size = @ + plan[p[2]].size] \in [device : D, size : Int]
    BY <2>3
  <2> QED
    BY <2>1, <2>2, <2>4
<1>8. {b.vb : b \in both} = {first[b] : b \in both}
  OBVIOUS
<1>9. IsFiniteSet({b.vb : b \in both})
  <2> HIDE DEF both, first
  <2> QED
    BY <1>6, <1>8, ImageIsFinite
<1>10. IsFiniteSet(all)
  <2> HIDE DEF both, kept, fresh
  <2>1. IsFiniteSet(kept \cup fresh)
    BY <1>2, FS_Union
  <2> QED
    BY <1>9, <2>1, FS_Union
<1>11. all \in SUBSET VolumeBinding
  <2>1. kept \in SUBSET VolumeBinding /\ fresh \in SUBSET VolumeBinding
    BY <1>1
  <2> HIDE DEF both, kept, fresh
  <2> QED
    BY <1>7, <2>1
<1>12. \A vb \in all : To(vb) \in [device : D, size : Int]
  <2> TAKE vb \in all
  <2>1. CASE vb \in kept
    BY <2>1, PlanParts
  <2>2. CASE vb \notin kept /\ vb \in fresh
    BY <2>2, PlanParts
  <2>3. CASE vb \notin kept /\ vb \notin fresh
    <3> HIDE DEF both, kept, fresh
    <3>1. PICK b \in both : b.vb = vb
      BY <2>3
    <3>2. (CHOOSE c \in both : c.vb = vb) \in both
      BY <3>1
    <3> QED
      BY <1>7, <2>3, <3>2
  <2> QED
    BY <2>1, <2>2, <2>3
<1>13. MergePlans(plan, plan1) = [vb \in all |-> To(vb)]
  BY DEF MergePlans
<1> HIDE DEF all, To
<1> QED
  BY <1>10, <1>11, <1>12, <1>13, IsPlan

-----------------------------------------------------------------------------
(* Placing *)

\* The members of a sequence over a set are in the set
LEMMA MembersAreIn ==
    ASSUME NEW D, NEW s \in Seq(D)
    PROVE  /\ ToSet(s) \in SUBSET D /\ DOMAIN s = 1..Len(s) /\ Len(s) \in Nat
           /\ \A i \in DOMAIN s : s[i] \in D
<1>1. Len(s) \in Nat /\ s \in [1..Len(s) -> D]
  OBVIOUS
<1> QED
  BY <1>1 DEF ToSet

\* At first nothing is planned
LEMMA EmptyPlansStay ==
    ASSUME NEW D, NEW N
    PROVE  /\ EmptyPlan \in PlansOn(D) /\ NoDisks \in DiskPlansOn(N)
           /\ NoPlan \in PlannedOn(D, N)
           /\ \A h \in HostsOn(D, N) : Attempt(h) \in AttemptsOn(D, N)
<1>1. EmptyPlan \in [{} -> [device : D, size : Int]]
  BY DEF EmptyPlan
<1>2. IsFiniteSet({})
  BY FS_EmptySet
<1>3. EmptyPlan \in PlansOn(D)
  BY <1>1, <1>2, IsPlan
<1>4. NoDisks \in [{} -> IO] /\ {} \in SUBSET N
  BY DEF NoDisks
<1>5. NoDisks \in DiskPlansOn(N)
  BY <1>4 DEF DiskPlansOn
<1> QED
  BY <1>3, <1>5 DEF NoPlan, PlannedOn, Attempt, AttemptsOn

\* What is taken of a volume of the host leaves a host
LEMMA TakenStays ==
    ASSUME NEW D, NEW N, NEW h \in HostsOn(D, N), NEW device \in D, NEW size \in Int
    PROVE  TakeSpace(h, device, size) \in HostsOn(D, N) /\ TakeSpace(h, device, size).disks = h.disks
<1> DEFINE free == [h.free EXCEPT ![device] = @ - size]
<1>1. h.free \in [D -> Int]
  BY DEF HostsOn
<1>2. free \in [D -> Int]
  BY <1>1
<1>3. TakeSpace(h, device, size) = [h EXCEPT !.free = free]
  BY DEF HostsOn, TakeSpace
<1> HIDE DEF free
<1> QED
  BY <1>2, <1>3 DEF HostsOn

\* One more binding with a place makes a plan
LEMMA PlacedStays ==
    ASSUME NEW D, NEW plan \in PlansOn(D), NEW vb \in VolumeBinding, NEW device \in D,
           NEW size \in Int
    PROVE  Placing(plan, vb, device, size) \in PlansOn(D)
<1> DEFINE at == [device |-> device, size |-> size]
<1>1. at \in [device : D, size : Int]
  OBVIOUS
<1>2. DOMAIN plan \cup {vb} \in SUBSET VolumeBinding /\ IsFiniteSet(DOMAIN plan \cup {vb})
  BY PlanParts, FS_AddElement
<1>3. \A vb1 \in DOMAIN plan : plan[vb1] \in [device : D, size : Int]
  BY PlanParts
<1>4. Placing(plan, vb, device, size) = [vb1 \in DOMAIN plan \cup {vb} |->
                                           IF vb1 = vb THEN at ELSE plan[vb1]]
  BY DEF Placing
<1> HIDE DEF at
<1> QED
  BY <1>1, <1>2, <1>3, <1>4, IsPlan

\* A normal binding is placed on a volume of the host
LEMMA PlaceNormalStays ==
    ASSUME NEW D \in SUBSET Devices, NEW N \in SUBSET DiskNames,
           NEW a \in AttemptsOn(D, N), NEW req \in VolumeBinding
    PROVE  PlaceNormal(a, req) \in AttemptsOn(D, N)
<1> DEFINE fitting == Fitting(a.host, req)
           device == Least(a.host.free, fitting)
           taken == TakeSpace(a.host, device, req.size)
           host == DecreaseIOPSQuota(taken, device, req)
           quota == DiskQuota(a.host, device, req)
           disks == AddDisks(a.disks, quota)
           plan == Placing(a.plan, req, device, req.size)
<1>1. /\ a.host \in HostsOn(D, N) /\ a.plan \in PlansOn(D) /\ a.disks \in DiskPlansOn(N)
      /\ a.ok \in BOOLEAN
  BY DEF AttemptsOn
<1>2. CASE ~a.ok
  BY <1>2 DEF PlaceNormal
<1>3. CASE a.ok /\ fitting = {}
  <2>1. PlaceNormal(a, req) = [a EXCEPT !.ok = FALSE]
    BY <1>3 DEF PlaceNormal
  <2> QED
    BY <2>1 DEF AttemptsOn
<1>4. CASE a.ok /\ fitting # {}
  <2>1. fitting \in SUBSET D
    <3>1. a.host.used \in Seq(D)
      BY <1>1 DEF HostsOn
    <3> QED
      BY <3>1, MembersAreIn DEF Fitting
  <2>2. a.host.free \in [D -> Int]
    BY <1>1 DEF HostsOn
  <2>3. device \in fitting
    <3>1. fitting \in SUBSET Devices /\ \A d \in fitting : a.host.free[d] \in Int
      BY <2>1, <2>2
    <3> HIDE DEF fitting
    <3> QED
      BY <1>4, <3>1, LeastIsThere
  <2>4. device \in D /\ Qualified(a.host, device, req)
    <3> HIDE DEF device
    <3> QED
      BY <2>1, <2>3 DEF Fitting
  <2>5. req.size \in Int /\ req.io \in IO
    BY BindingParts
  <2> DEFINE next == PlaceOn(a, device, req)
  <2>6. PlaceNormal(a, req) = next
    BY <1>4 DEF PlaceNormal
  <2>7. next = [a EXCEPT !.host = host, !.plan = plan, !.disks = disks]
    BY DEF PlaceOn, AttemptsOn
  <2> HIDE DEF device, next
  <2>8. taken \in HostsOn(D, N) /\ taken.disks = a.host.disks
    BY <1>1, <2>4, <2>5, TakenStays
  <2>9. Qualified(taken, device, req)
    <3> HIDE DEF taken
    <3> QED
      BY <2>4, <2>8 DEF Qualified
  <2>10. host \in HostsOn(D, N) /\ quota \in DiskPlansOn(N)
    <3> HIDE DEF taken
    <3> QED
      BY <1>1, <2>4, <2>5, <2>8, <2>9, ChargesStay
  <2> HIDE DEF host, quota
  <2>11. disks \in DiskPlansOn(N)
    BY <1>1, <2>10, AddedDisksStay
  <2>12. plan \in PlansOn(D)
    BY <1>1, <2>4, <2>5, PlacedStays
  <2> HIDE DEF plan, disks
  <2>13. next \in AttemptsOn(D, N)
    BY <2>7, <2>10, <2>11, <2>12 DEF AttemptsOn
  <2> QED
    BY <2>6, <2>13
<1> QED
  BY <1>2, <1>3, <1>4

\* A mount is charged to a disk of the host
LEMMA ChargeMountStays ==
    ASSUME NEW D \in SUBSET Devices, NEW N \in SUBSET DiskNames,
           NEW a \in AttemptsOn(D, N), NEW req \in VolumeBinding
    PROVE  ChargeMount(a, req) \in AttemptsOn(D, N)
<1> DEFINE host == DecreaseIOPSQuota(a.host, req.source, req)
           quota == DiskQuota(a.host, req.source, req)
           disks == AddDisks(a.disks, quota)
<1>1. /\ a.host \in HostsOn(D, N) /\ a.plan \in PlansOn(D) /\ a.disks \in DiskPlansOn(N)
      /\ a.ok \in BOOLEAN
  BY DEF AttemptsOn
<1>2. CASE ~RequireIOPS(req)
  BY <1>2 DEF ChargeMount
<1>3. CASE RequireIOPS(req) /\ (~a.ok \/ ~Qualified(a.host, req.source, req))
  <2>1. ChargeMount(a, req) = [a EXCEPT !.ok = FALSE]
    BY <1>3 DEF ChargeMount
  <2> QED
    BY <2>1 DEF AttemptsOn
<1>4. CASE RequireIOPS(req) /\ a.ok /\ Qualified(a.host, req.source, req)
  <2>1. ChargeMount(a, req) = [a EXCEPT !.host = host, !.disks = disks]
    BY <1>4 DEF ChargeMount, AttemptsOn
  <2>2. req.io \in IO
    BY BindingParts
  <2>3. host \in HostsOn(D, N) /\ quota \in DiskPlansOn(N)
    BY <1>1, <1>4, <2>2, ChargesStay
  <2> HIDE DEF host, quota
  <2>4. disks \in DiskPlansOn(N)
    BY <1>1, <2>3, AddedDisksStay
  <2> HIDE DEF disks
  <2> QED
    BY <1>1, <2>1, <2>3, <2>4 DEF AttemptsOn
<1> QED
  BY <1>2, <1>3, <1>4

(* Each loop stays where its steps stay *)

\* All normal bindings, one by one
RunsPlaces(g, V, h, normal, N) ==
    /\ GetNormalPlan(h, normal) = g[N]
    /\ g[0] = Attempt(h)
    /\ \A k \in 0..N : g[k] \in V
    /\ \A k \in 1..N : g[k] = PlaceNormal(g[k - 1], normal[k])

LEMMA NormalPlanRuns ==
    ASSUME NEW V, NEW h, NEW normal, NEW N \in Nat, DOMAIN normal = 1..N,
           Attempt(h) \in V, \A a \in V, k \in 1..N : PlaceNormal(a, normal[k]) \in V
    PROVE  \E g : RunsPlaces(g, V, h, normal, N)
<1> DEFINE base == Attempt(h)
           step == [p \in V \X (1..N) |-> PlaceNormal(p[1], normal[p[2]])]
           Body(f) == [s \in SUBSET (1..N) |->
                         IF s = {} THEN base
                         ELSE PlaceNormal(f[s \ {LastOf(s)}], normal[LastOf(s)])]
           it == CHOOSE f : f = Body(f)
<1>1. step \in [V \X (1..N) -> V] /\ base \in V
  OBVIOUS
<1>2. PICK f : Folds(f, N, V, base, step)
  <2> HIDE DEF step, base
  <2> QED
    BY <1>1, FoldExists
<1>3. f = Body(f)
  <2> HIDE DEF base
  <2>1. \A s \in SUBSET (1..N) : s # {} => LastOf(s) \in 1..N /\ f[s \ {LastOf(s)}] \in V
    BY <1>2, LastIsThere DEF Folds
  <2>2. \A s \in SUBSET (1..N) : f[s] = IF s = {} THEN base
                                         ELSE PlaceNormal(f[s \ {LastOf(s)}], normal[LastOf(s)])
    BY <1>2, <2>1 DEF Folds
  <2> QED
    BY <1>2, <2>2 DEF Folds
<1>4. it = Body(it)
  BY <1>3
<1>5. GetNormalPlan(h, normal) = it[1..N]
  BY DEF GetNormalPlan, FoldLeft, MapThenFoldSet, LastOf, Max
<1> HIDE DEF it
<1>6. Follows(it, N, V, base, step)
  <2>1. \A s \in SUBSET (1..N) : s # {} => LastOf(s) \in 1..N
    BY LastIsThere
  <2>2. it[{}] = base
    BY <1>4
  <2>3. \A s \in SUBSET (1..N) : s # {} /\ it[s \ {LastOf(s)}] \in V
           => it[s] = step[<<it[s \ {LastOf(s)}], LastOf(s)>>]
    BY <1>4, <2>1
  <2> HIDE DEF step, base
  <2> QED
    BY <2>2, <2>3 DEF Follows
<1>7. \E g : Turns(g, N, V, base, step, it[1..N])
  <2> HIDE DEF step, base
  <2> QED
    BY <1>1, <1>6, FoldTurns
<1>8. PICK g : Turns(g, N, V, base, step, it[1..N])
  BY <1>7
<1>9. \A k \in 1..N : g[k] = PlaceNormal(g[k - 1], normal[k])
  <2> TAKE k \in 1..N
  <2>1. k - 1 \in 0..N
    OBVIOUS
  <2> HIDE DEF base
  <2>2. g[k - 1] \in V /\ g[k] = step[<<g[k - 1], k>>]
    <3> HIDE DEF step
    <3> QED
      BY <1>8, <2>1 DEF Turns
  <2> QED
    BY <2>2
<1>10. g[0] = base /\ \A k \in 0..N : g[k] \in V
  <2> HIDE DEF step, base
  <2> QED
    BY <1>8 DEF Turns
<1> QED
  BY <1>5, <1>8, <1>9, <1>10 DEF Turns, RunsPlaces

\* They stay where each stays
LEMMA NormalPlanStays ==
    ASSUME NEW V, NEW h, NEW normal, NEW N \in Nat, DOMAIN normal = 1..N,
           Attempt(h) \in V, \A a \in V, k \in 1..N : PlaceNormal(a, normal[k]) \in V
    PROVE  GetNormalPlan(h, normal) \in V
<1>1. PICK g : RunsPlaces(g, V, h, normal, N)
  BY NormalPlanRuns
<1>2. N \in 0..N
  OBVIOUS
<1> QED
  BY <1>1, <1>2 DEF RunsPlaces

\* All mounts, one by one
RunsMounts(g, V, b, mount, N) ==
    /\ GetMountDiskPlan(b, mount) = g[N]
    /\ g[0] = b
    /\ \A k \in 0..N : g[k] \in V
    /\ \A k \in 1..N : g[k] = ChargeMount(g[k - 1], mount[k])

LEMMA MountPlanRuns ==
    ASSUME NEW V, NEW b, NEW mount, NEW N \in Nat, DOMAIN mount = 1..N,
           b \in V, \A a \in V, k \in 1..N : ChargeMount(a, mount[k]) \in V
    PROVE  \E g : RunsMounts(g, V, b, mount, N)
<1> DEFINE base == b
           step == [p \in V \X (1..N) |-> ChargeMount(p[1], mount[p[2]])]
           Body(f) == [s \in SUBSET (1..N) |->
                         IF s = {} THEN base
                         ELSE ChargeMount(f[s \ {LastOf(s)}], mount[LastOf(s)])]
           it == CHOOSE f : f = Body(f)
<1>1. step \in [V \X (1..N) -> V] /\ base \in V
  OBVIOUS
<1>2. PICK f : Folds(f, N, V, base, step)
  <2> HIDE DEF step, base
  <2> QED
    BY <1>1, FoldExists
<1>3. f = Body(f)
  <2> HIDE DEF base
  <2>1. \A s \in SUBSET (1..N) : s # {} => LastOf(s) \in 1..N /\ f[s \ {LastOf(s)}] \in V
    BY <1>2, LastIsThere DEF Folds
  <2>2. \A s \in SUBSET (1..N) : f[s] = IF s = {} THEN base
                                         ELSE ChargeMount(f[s \ {LastOf(s)}], mount[LastOf(s)])
    BY <1>2, <2>1 DEF Folds
  <2> QED
    BY <1>2, <2>2 DEF Folds
<1>4. it = Body(it)
  BY <1>3
<1>5. GetMountDiskPlan(b, mount) = it[1..N]
  BY DEF GetMountDiskPlan, FoldLeft, MapThenFoldSet, LastOf, Max
<1> HIDE DEF it
<1>6. Follows(it, N, V, base, step)
  <2>1. \A s \in SUBSET (1..N) : s # {} => LastOf(s) \in 1..N
    BY LastIsThere
  <2>2. it[{}] = base
    BY <1>4
  <2>3. \A s \in SUBSET (1..N) : s # {} /\ it[s \ {LastOf(s)}] \in V
           => it[s] = step[<<it[s \ {LastOf(s)}], LastOf(s)>>]
    BY <1>4, <2>1
  <2> HIDE DEF step, base
  <2> QED
    BY <2>2, <2>3 DEF Follows
<1>7. \E g : Turns(g, N, V, base, step, it[1..N])
  <2> HIDE DEF step, base
  <2> QED
    BY <1>1, <1>6, FoldTurns
<1>8. PICK g : Turns(g, N, V, base, step, it[1..N])
  BY <1>7
<1>9. \A k \in 1..N : g[k] = ChargeMount(g[k - 1], mount[k])
  <2> TAKE k \in 1..N
  <2>1. k - 1 \in 0..N
    OBVIOUS
  <2> HIDE DEF base
  <2>2. g[k - 1] \in V /\ g[k] = step[<<g[k - 1], k>>]
    <3> HIDE DEF step
    <3> QED
      BY <1>8, <2>1 DEF Turns
  <2> QED
    BY <2>2
<1>10. g[0] = base /\ \A k \in 0..N : g[k] \in V
  <2> HIDE DEF step, base
  <2> QED
    BY <1>8 DEF Turns
<1> QED
  BY <1>5, <1>8, <1>9, <1>10 DEF Turns, RunsMounts

\* They stay where each stays
LEMMA MountPlanStays ==
    ASSUME NEW V, NEW b, NEW mount, NEW N \in Nat, DOMAIN mount = 1..N,
           b \in V, \A a \in V, k \in 1..N : ChargeMount(a, mount[k]) \in V
    PROVE  GetMountDiskPlan(b, mount) \in V
<1>1. PICK g : RunsMounts(g, V, b, mount, N)
  BY MountPlanRuns
<1>2. N \in 0..N
  OBVIOUS
<1> QED
  BY <1>1, <1>2 DEF RunsMounts

\* A monopoly group, one binding after the other
RunsGroup(g, V, reqs, N) ==
    /\ Group(reqs) = g[N]
    /\ g[0] = [reqs[1] EXCEPT !.size = 0, !.io = NoIO]
    /\ \A k \in 0..N : g[k] \in V
    /\ \A k \in 1..N : g[k] = AddQuota(g[k - 1], reqs[k])

LEMMA GroupRuns ==
    ASSUME NEW V, NEW reqs, NEW N \in Nat, DOMAIN reqs = 1..N,
           [reqs[1] EXCEPT !.size = 0, !.io = NoIO] \in V, \A a \in V, k \in 1..N : AddQuota(a, reqs[k]) \in V
    PROVE  \E g : RunsGroup(g, V, reqs, N)
<1> DEFINE base == [reqs[1] EXCEPT !.size = 0, !.io = NoIO]
           step == [p \in V \X (1..N) |-> AddQuota(p[1], reqs[p[2]])]
           Body(f) == [s \in SUBSET (1..N) |->
                         IF s = {} THEN base
                         ELSE AddQuota(f[s \ {LastOf(s)}], reqs[LastOf(s)])]
           it == CHOOSE f : f = Body(f)
<1>1. step \in [V \X (1..N) -> V] /\ base \in V
  OBVIOUS
<1>2. PICK f : Folds(f, N, V, base, step)
  <2> HIDE DEF step, base
  <2> QED
    BY <1>1, FoldExists
<1>3. f = Body(f)
  <2> HIDE DEF base
  <2>1. \A s \in SUBSET (1..N) : s # {} => LastOf(s) \in 1..N /\ f[s \ {LastOf(s)}] \in V
    BY <1>2, LastIsThere DEF Folds
  <2>2. \A s \in SUBSET (1..N) : f[s] = IF s = {} THEN base
                                         ELSE AddQuota(f[s \ {LastOf(s)}], reqs[LastOf(s)])
    BY <1>2, <2>1 DEF Folds
  <2> QED
    BY <1>2, <2>2 DEF Folds
<1>4. it = Body(it)
  BY <1>3
<1>5. Group(reqs) = it[1..N]
  BY DEF Group, FoldLeft, MapThenFoldSet, LastOf, Max
<1> HIDE DEF it
<1>6. Follows(it, N, V, base, step)
  <2>1. \A s \in SUBSET (1..N) : s # {} => LastOf(s) \in 1..N
    BY LastIsThere
  <2>2. it[{}] = base
    BY <1>4
  <2>3. \A s \in SUBSET (1..N) : s # {} /\ it[s \ {LastOf(s)}] \in V
           => it[s] = step[<<it[s \ {LastOf(s)}], LastOf(s)>>]
    BY <1>4, <2>1
  <2> HIDE DEF step, base
  <2> QED
    BY <2>2, <2>3 DEF Follows
<1>7. \E g : Turns(g, N, V, base, step, it[1..N])
  <2> HIDE DEF step, base
  <2> QED
    BY <1>1, <1>6, FoldTurns
<1>8. PICK g : Turns(g, N, V, base, step, it[1..N])
  BY <1>7
<1>9. \A k \in 1..N : g[k] = AddQuota(g[k - 1], reqs[k])
  <2> TAKE k \in 1..N
  <2>1. k - 1 \in 0..N
    OBVIOUS
  <2> HIDE DEF base
  <2>2. g[k - 1] \in V /\ g[k] = step[<<g[k - 1], k>>]
    <3> HIDE DEF step
    <3> QED
      BY <1>8, <2>1 DEF Turns
  <2> QED
    BY <2>2
<1>10. g[0] = base /\ \A k \in 0..N : g[k] \in V
  <2> HIDE DEF step, base
  <2> QED
    BY <1>8 DEF Turns
<1> QED
  BY <1>5, <1>8, <1>9, <1>10 DEF Turns, RunsGroup

\* Volumes for a group, one by one
RunsVolumes(g, V, h, count, mono, bound, N) ==
    /\ GetMonoPlans(h, count, mono, bound) = g[N]
    /\ g[0] = [host |-> h, plans |-> <<>>]
    /\ \A k \in 0..N : g[k] \in V
    /\ \A k \in 1..N : g[k] = TryVolume(g[k - 1], mono, bound, h.unused[k])

LEMMA MonoPlansRun ==
    ASSUME NEW V, NEW h, NEW count, NEW mono, mono # <<>>, NEW bound,
           NEW N \in Nat, DOMAIN h.unused = 1..N,
           [host |-> h, plans |-> <<>>] \in V, \A a \in V, k \in 1..N : TryVolume(a, mono, bound, h.unused[k]) \in V
    PROVE  \E g : RunsVolumes(g, V, h, count, mono, bound, N)
<1> DEFINE base == [host |-> h, plans |-> <<>>]
           step == [p \in V \X (1..N) |-> TryVolume(p[1], mono, bound, h.unused[p[2]])]
           Body(f) == [s \in SUBSET (1..N) |->
                         IF s = {} THEN base
                         ELSE TryVolume(f[s \ {LastOf(s)}], mono, bound, h.unused[LastOf(s)])]
           it == CHOOSE f : f = Body(f)
<1>1. step \in [V \X (1..N) -> V] /\ base \in V
  OBVIOUS
<1>2. PICK f : Folds(f, N, V, base, step)
  <2> HIDE DEF step, base
  <2> QED
    BY <1>1, FoldExists
<1>3. f = Body(f)
  <2> HIDE DEF base
  <2>1. \A s \in SUBSET (1..N) : s # {} => LastOf(s) \in 1..N /\ f[s \ {LastOf(s)}] \in V
    BY <1>2, LastIsThere DEF Folds
  <2>2. \A s \in SUBSET (1..N) : f[s] = IF s = {} THEN base
                                         ELSE TryVolume(f[s \ {LastOf(s)}], mono, bound, h.unused[LastOf(s)])
    BY <1>2, <2>1 DEF Folds
  <2> QED
    BY <1>2, <2>2 DEF Folds
<1>4. it = Body(it)
  BY <1>3
<1>5. GetMonoPlans(h, count, mono, bound) = it[1..N]
  BY DEF GetMonoPlans, FoldLeft, MapThenFoldSet, LastOf, Max
<1> HIDE DEF it
<1>6. Follows(it, N, V, base, step)
  <2>1. \A s \in SUBSET (1..N) : s # {} => LastOf(s) \in 1..N
    BY LastIsThere
  <2>2. it[{}] = base
    BY <1>4
  <2>3. \A s \in SUBSET (1..N) : s # {} /\ it[s \ {LastOf(s)}] \in V
           => it[s] = step[<<it[s \ {LastOf(s)}], LastOf(s)>>]
    BY <1>4, <2>1
  <2> HIDE DEF step, base
  <2> QED
    BY <2>2, <2>3 DEF Follows
<1>7. \E g : Turns(g, N, V, base, step, it[1..N])
  <2> HIDE DEF step, base
  <2> QED
    BY <1>1, <1>6, FoldTurns
<1>8. PICK g : Turns(g, N, V, base, step, it[1..N])
  BY <1>7
<1>9. \A k \in 1..N : g[k] = TryVolume(g[k - 1], mono, bound, h.unused[k])
  <2> TAKE k \in 1..N
  <2>1. k - 1 \in 0..N
    OBVIOUS
  <2> HIDE DEF base
  <2>2. g[k - 1] \in V /\ g[k] = step[<<g[k - 1], k>>]
    <3> HIDE DEF step
    <3> QED
      BY <1>8, <2>1 DEF Turns
  <2> QED
    BY <2>2
<1>10. g[0] = base /\ \A k \in 0..N : g[k] \in V
  <2> HIDE DEF step, base
  <2> QED
    BY <1>8 DEF Turns
<1> QED
  BY <1>5, <1>8, <1>9, <1>10 DEF Turns, RunsVolumes

\* Plans, one by one
LEMMA LeftStays ==
    ASSUME NEW V, NEW free, NEW plans, NEW N \in Nat, DOMAIN plans = 1..N,
           free \in V, \A a \in V, k \in 1..N : LeftAfter(a, plans[k]) \in V
    PROVE  LeftBy(free, plans) \in V
<1> DEFINE base == free
           step == [p \in V \X (1..N) |-> LeftAfter(p[1], plans[p[2]])]
           Body(f) == [s \in SUBSET (1..N) |->
                         IF s = {} THEN base
                         ELSE LeftAfter(f[s \ {LastOf(s)}], plans[LastOf(s)])]
           it == CHOOSE f : f = Body(f)
<1>1. step \in [V \X (1..N) -> V] /\ base \in V
  OBVIOUS
<1>2. PICK f : Folds(f, N, V, base, step)
  <2> HIDE DEF step, base
  <2> QED
    BY <1>1, FoldExists
<1>3. f = Body(f)
  <2> HIDE DEF base
  <2>1. \A s \in SUBSET (1..N) : s # {} => LastOf(s) \in 1..N /\ f[s \ {LastOf(s)}] \in V
    BY <1>2, LastIsThere DEF Folds
  <2>2. \A s \in SUBSET (1..N) : f[s] = IF s = {} THEN base
                                         ELSE LeftAfter(f[s \ {LastOf(s)}], plans[LastOf(s)])
    BY <1>2, <2>1 DEF Folds
  <2> QED
    BY <1>2, <2>2 DEF Folds
<1>4. it = Body(it)
  BY <1>3
<1>5. LeftBy(free, plans) = it[1..N]
  BY DEF LeftBy, FoldLeft, MapThenFoldSet, LastOf, Max
<1> HIDE DEF it
<1>6. Follows(it, N, V, base, step)
  <2>1. \A s \in SUBSET (1..N) : s # {} => LastOf(s) \in 1..N
    BY LastIsThere
  <2>2. it[{}] = base
    BY <1>4
  <2>3. \A s \in SUBSET (1..N) : s # {} /\ it[s \ {LastOf(s)}] \in V
           => it[s] = step[<<it[s \ {LastOf(s)}], LastOf(s)>>]
    BY <1>4, <2>1
  <2> HIDE DEF step, base
  <2> QED
    BY <2>2, <2>3 DEF Follows
<1>7. it[1..N] \in V
  <2> HIDE DEF step, base
  <2> QED
    BY <1>1, <1>6, FoldStays
<1> QED
  BY <1>5, <1>7

\* Bindings to keep in place, one by one
RunsKept(g, V, b, reqs, plan, N) ==
    /\ KeepPlaces(b, reqs, plan) = g[N]
    /\ g[0] = b
    /\ \A k \in 0..N : g[k] \in V
    /\ \A k \in 1..N : g[k] = KeepPlace(g[k - 1], reqs[k], plan)

LEMMA KeptPlacesRun ==
    ASSUME NEW V, NEW b, NEW reqs, NEW plan, NEW N \in Nat, DOMAIN reqs = 1..N,
           b \in V, \A a \in V, k \in 1..N : KeepPlace(a, reqs[k], plan) \in V
    PROVE  \E g : RunsKept(g, V, b, reqs, plan, N)
<1> DEFINE base == b
           step == [p \in V \X (1..N) |-> KeepPlace(p[1], reqs[p[2]], plan)]
           Body(f) == [s \in SUBSET (1..N) |->
                         IF s = {} THEN base
                         ELSE KeepPlace(f[s \ {LastOf(s)}], reqs[LastOf(s)], plan)]
           it == CHOOSE f : f = Body(f)
<1>1. step \in [V \X (1..N) -> V] /\ base \in V
  OBVIOUS
<1>2. PICK f : Folds(f, N, V, base, step)
  <2> HIDE DEF step, base
  <2> QED
    BY <1>1, FoldExists
<1>3. f = Body(f)
  <2> HIDE DEF base
  <2>1. \A s \in SUBSET (1..N) : s # {} => LastOf(s) \in 1..N /\ f[s \ {LastOf(s)}] \in V
    BY <1>2, LastIsThere DEF Folds
  <2>2. \A s \in SUBSET (1..N) : f[s] = IF s = {} THEN base
                                         ELSE KeepPlace(f[s \ {LastOf(s)}], reqs[LastOf(s)], plan)
    BY <1>2, <2>1 DEF Folds
  <2> QED
    BY <1>2, <2>2 DEF Folds
<1>4. it = Body(it)
  BY <1>3
<1>5. KeepPlaces(b, reqs, plan) = it[1..N]
  BY DEF KeepPlaces, FoldLeft, MapThenFoldSet, LastOf, Max
<1> HIDE DEF it
<1>6. Follows(it, N, V, base, step)
  <2>1. \A s \in SUBSET (1..N) : s # {} => LastOf(s) \in 1..N
    BY LastIsThere
  <2>2. it[{}] = base
    BY <1>4
  <2>3. \A s \in SUBSET (1..N) : s # {} /\ it[s \ {LastOf(s)}] \in V
           => it[s] = step[<<it[s \ {LastOf(s)}], LastOf(s)>>]
    BY <1>4, <2>1
  <2> HIDE DEF step, base
  <2> QED
    BY <2>2, <2>3 DEF Follows
<1>7. \E g : Turns(g, N, V, base, step, it[1..N])
  <2> HIDE DEF step, base
  <2> QED
    BY <1>1, <1>6, FoldTurns
<1>8. PICK g : Turns(g, N, V, base, step, it[1..N])
  BY <1>7
<1>9. \A k \in 1..N : g[k] = KeepPlace(g[k - 1], reqs[k], plan)
  <2> TAKE k \in 1..N
  <2>1. k - 1 \in 0..N
    OBVIOUS
  <2> HIDE DEF base
  <2>2. g[k - 1] \in V /\ g[k] = step[<<g[k - 1], k>>]
    <3> HIDE DEF step
    <3> QED
      BY <1>8, <2>1 DEF Turns
  <2> QED
    BY <2>2
<1>10. g[0] = base /\ \A k \in 0..N : g[k] \in V
  <2> HIDE DEF step, base
  <2> QED
    BY <1>8 DEF Turns
<1> QED
  BY <1>5, <1>8, <1>9, <1>10 DEF Turns, RunsKept

\* Bindings to keep in place, one by one
LEMMA KeptPlacesStay ==
    ASSUME NEW V, NEW b, NEW reqs, NEW plan, NEW N \in Nat, DOMAIN reqs = 1..N,
           b \in V, \A a \in V, k \in 1..N : KeepPlace(a, reqs[k], plan) \in V
    PROVE  KeepPlaces(b, reqs, plan) \in V
<1>1. PICK g : RunsKept(g, V, b, reqs, plan, N)
  BY KeptPlacesRun
<1>2. N \in 0..N
  OBVIOUS
<1> QED
  BY <1>1, <1>2 DEF RunsKept

\* Passes, one by one
RunsPasses(g, V, h, normal, mount, n) ==
    /\ GetNormalPasses(h, normal, mount, n) = g[n]
    /\ g[0] = [failed |-> FALSE, host |-> h, plans |-> <<>>]
    /\ \A i \in 0..n : g[i] \in V
    /\ \A i \in 1..n : g[i] = NormalPass(g[i - 1], normal, mount)

LEMMA NormalPassesRun ==
    ASSUME NEW V, NEW h, NEW normal, NEW mount, NEW n \in Nat,
           [failed |-> FALSE, host |-> h, plans |-> <<>>] \in V, \A s \in V : NormalPass(s, normal, mount) \in V
    PROVE  \E g : RunsPasses(g, V, h, normal, mount, n)
<1> DEFINE base == [failed |-> FALSE, host |-> h, plans |-> <<>>]
           step == [s \in V |-> NormalPass(s, normal, mount)]
           Body(f) == [i \in 0..n |-> IF i = 0 THEN base ELSE NormalPass(f[i - 1], normal, mount)]
           it == CHOOSE f : f = Body(f)
<1>1. step \in [V -> V] /\ base \in V
  OBVIOUS
<1>2. PICK f : Steps(f, n, V, base, step)
  <2> HIDE DEF step, base
  <2> QED
    BY <1>1, StepsExist
<1>3. f = Body(f)
  <2> HIDE DEF base
  <2>1. \A i \in 0..n : i # 0 => i - 1 \in 0..n /\ f[i - 1] \in V
    <3> HIDE DEF step
    <3>1. \A i \in 0..n : i # 0 => i - 1 \in 0..n
      OBVIOUS
    <3>2. f \in [0..n -> V]
      BY <1>2 DEF Steps
    <3> QED
      BY <3>1, <3>2
  <2>2. \A i \in 0..n : f[i] = IF i = 0 THEN base ELSE NormalPass(f[i - 1], normal, mount)
    BY <1>2, <2>1 DEF Steps
  <2> QED
    BY <1>2, <2>2 DEF Steps
<1>4. it = Body(it)
  BY <1>3
<1>5. GetNormalPasses(h, normal, mount, n) = it[n]
  BY DEF GetNormalPasses, Iterate
<1> HIDE DEF it
<1>6. it[0] = base
  BY <1>4
<1>7. \A i \in 1..n : it[i] = NormalPass(it[i - 1], normal, mount)
  <2>1. \A i \in 1..n : i \in 0..n /\ i # 0
    OBVIOUS
  <2> QED
    BY <1>4, <2>1
<1>8. \A i \in 1..n : it[i - 1] \in V => it[i] \in V
  BY <1>7
<1>9. \A i \in 0..n : it[i] \in V
  <2> HIDE DEF base
  <2> QED
    BY <1>1, <1>6, <1>8, Climbs
<1> QED
  BY <1>5, <1>6, <1>7, <1>9 DEF RunsPasses

\* A volume opened, if that is worth it
Opening(s, h, classes, count) ==
    PromoteOne(s, count, classes.normal, LAMBDA host : EvaluatePlans(h, classes, count, host))

\* All of them
Promoted(h, classes, count) ==
    Promote(h, count, classes.normal, LAMBDA host : EvaluatePlans(h, classes, count, host))

\* Volumes opened, one by one
RunsPromotions(g, V, h, classes, count, n) ==
    /\ Promoted(h, classes, count) = g[n]
    /\ g[0] = [host |-> h, best |-> EvaluatePlans(h, classes, count, h)]
    /\ \A i \in 0..n : g[i] \in V
    /\ \A i \in 1..n : g[i] = Opening(g[i - 1], h, classes, count)

LEMMA PromotionsRun ==
    ASSUME NEW V, NEW h, NEW classes, NEW count, NEW n, n = Len(h.unused), n \in Nat,
           [host |-> h, best |-> EvaluatePlans(h, classes, count, h)] \in V, \A s \in V : Opening(s, h, classes, count) \in V
    PROVE  \E g : RunsPromotions(g, V, h, classes, count, n)
<1> DEFINE base == [host |-> h, best |-> EvaluatePlans(h, classes, count, h)]
           step == [s \in V |-> Opening(s, h, classes, count)]
           Body(f) == [i \in 0..n |-> IF i = 0 THEN base ELSE Opening(f[i - 1], h, classes, count)]
           it == CHOOSE f : f = Body(f)
<1>1. step \in [V -> V] /\ base \in V
  OBVIOUS
<1>2. PICK f : Steps(f, n, V, base, step)
  <2> HIDE DEF step, base
  <2> QED
    BY <1>1, StepsExist
<1>3. f = Body(f)
  <2> HIDE DEF base
  <2>1. \A i \in 0..n : i # 0 => i - 1 \in 0..n /\ f[i - 1] \in V
    <3> HIDE DEF step
    <3>1. \A i \in 0..n : i # 0 => i - 1 \in 0..n
      OBVIOUS
    <3>2. f \in [0..n -> V]
      BY <1>2 DEF Steps
    <3> QED
      BY <3>1, <3>2
  <2>2. \A i \in 0..n : f[i] = IF i = 0 THEN base ELSE Opening(f[i - 1], h, classes, count)
    BY <1>2, <2>1 DEF Steps
  <2> QED
    BY <1>2, <2>2 DEF Steps
<1>4. it = Body(it)
  BY <1>3
<1>5. Promoted(h, classes, count) = it[n]
  BY DEF Promoted, Promote, Opening, Iterate
<1> HIDE DEF it
<1>6. it[0] = base
  BY <1>4
<1>7. \A i \in 1..n : it[i] = Opening(it[i - 1], h, classes, count)
  <2>1. \A i \in 1..n : i \in 0..n /\ i # 0
    OBVIOUS
  <2> QED
    BY <1>4, <2>1
<1>8. \A i \in 1..n : it[i - 1] \in V => it[i] \in V
  BY <1>7
<1>9. \A i \in 0..n : it[i] \in V
  <2> HIDE DEF base
  <2> QED
    BY <1>1, <1>6, <1>8, Climbs
<1> QED
  BY <1>5, <1>6, <1>7, <1>9 DEF RunsPromotions

\* Rates of mounts, one by one
RunsQuota(g, V, h, name, mount, N) ==
    /\ QuotaOn(h, mount, name) = g[N]
    /\ g[0] = NoIO
    /\ \A k \in 0..N : g[k] \in V
    /\ \A k \in 1..N : g[k] = AddQuotaOn(h, name, g[k - 1], mount[k])

LEMMA QuotaRuns ==
    ASSUME NEW V, NEW h, NEW name, NEW mount, NEW N \in Nat, DOMAIN mount = 1..N,
           NoIO \in V, \A a \in V, k \in 1..N : AddQuotaOn(h, name, a, mount[k]) \in V
    PROVE  \E g : RunsQuota(g, V, h, name, mount, N)
<1> DEFINE base == NoIO
           step == [p \in V \X (1..N) |-> AddQuotaOn(h, name, p[1], mount[p[2]])]
           Body(f) == [s \in SUBSET (1..N) |->
                         IF s = {} THEN base
                         ELSE AddQuotaOn(h, name, f[s \ {LastOf(s)}], mount[LastOf(s)])]
           it == CHOOSE f : f = Body(f)
<1>1. step \in [V \X (1..N) -> V] /\ base \in V
  OBVIOUS
<1>2. PICK f : Folds(f, N, V, base, step)
  <2> HIDE DEF step, base
  <2> QED
    BY <1>1, FoldExists
<1>3. f = Body(f)
  <2> HIDE DEF base
  <2>1. \A s \in SUBSET (1..N) : s # {} => LastOf(s) \in 1..N /\ f[s \ {LastOf(s)}] \in V
    BY <1>2, LastIsThere DEF Folds
  <2>2. \A s \in SUBSET (1..N) : f[s] = IF s = {} THEN base
                                         ELSE AddQuotaOn(h, name, f[s \ {LastOf(s)}], mount[LastOf(s)])
    BY <1>2, <2>1 DEF Folds
  <2> QED
    BY <1>2, <2>2 DEF Folds
<1>4. it = Body(it)
  BY <1>3
<1>5. QuotaOn(h, mount, name) = it[1..N]
  BY DEF QuotaOn, FoldLeft, MapThenFoldSet, LastOf, Max
<1> HIDE DEF it
<1>6. Follows(it, N, V, base, step)
  <2>1. \A s \in SUBSET (1..N) : s # {} => LastOf(s) \in 1..N
    BY LastIsThere
  <2>2. it[{}] = base
    BY <1>4
  <2>3. \A s \in SUBSET (1..N) : s # {} /\ it[s \ {LastOf(s)}] \in V
           => it[s] = step[<<it[s \ {LastOf(s)}], LastOf(s)>>]
    BY <1>4, <2>1
  <2> HIDE DEF step, base
  <2> QED
    BY <2>2, <2>3 DEF Follows
<1>7. \E g : Turns(g, N, V, base, step, it[1..N])
  <2> HIDE DEF step, base
  <2> QED
    BY <1>1, <1>6, FoldTurns
<1>8. PICK g : Turns(g, N, V, base, step, it[1..N])
  BY <1>7
<1>9. \A k \in 1..N : g[k] = AddQuotaOn(h, name, g[k - 1], mount[k])
  <2> TAKE k \in 1..N
  <2>1. k - 1 \in 0..N
    OBVIOUS
  <2> HIDE DEF base
  <2>2. g[k - 1] \in V /\ g[k] = step[<<g[k - 1], k>>]
    <3> HIDE DEF step
    <3> QED
      BY <1>8, <2>1 DEF Turns
  <2> QED
    BY <2>2
<1>10. g[0] = base /\ \A k \in 0..N : g[k] \in V
  <2> HIDE DEF step, base
  <2> QED
    BY <1>8 DEF Turns
<1> QED
  BY <1>5, <1>8, <1>9, <1>10 DEF Turns, RunsQuota

\* They stay where each stays
LEMMA QuotaStays ==
    ASSUME NEW V, NEW h, NEW name, NEW mount, NEW N \in Nat, DOMAIN mount = 1..N,
           NoIO \in V, \A a \in V, k \in 1..N : AddQuotaOn(h, name, a, mount[k]) \in V
    PROVE  QuotaOn(h, mount, name) \in V
<1>1. PICK g : RunsQuota(g, V, h, name, mount, N)
  BY QuotaRuns
<1>2. N \in 0..N
  OBVIOUS
<1> QED
  BY <1>1, <1>2 DEF RunsQuota

-----------------------------------------------------------------------------
(* Plans of normal and mount bindings *)

\* A list of bindings
LEMMA BindingList ==
    ASSUME NEW s \in Seq(VolumeBinding)
    PROVE  /\ Len(s) \in Nat /\ DOMAIN s = 1..Len(s)
           /\ \A k \in 1..Len(s) : s[k] \in VolumeBinding
BY MembersAreIn

\* A pass over the mounts
LEMMA MountPassStays ==
    ASSUME NEW D \in SUBSET Devices, NEW N \in SUBSET DiskNames,
           NEW a \in AttemptsOn(D, N), NEW mount \in Seq(VolumeBinding)
    PROVE  GetMountDiskPlan(a, mount) \in AttemptsOn(D, N)
<1> DEFINE V == AttemptsOn(D, N)
<1>1. \A b \in V, k \in 1..Len(mount) : ChargeMount(b, mount[k]) \in V
  BY BindingList, ChargeMountStays
<1>2. Len(mount) \in Nat /\ DOMAIN mount = 1..Len(mount)
  BY BindingList
<1> HIDE DEF V
<1>3. a \in V
  BY DEF V
<1>4. GetMountDiskPlan(a, mount) \in V
  BY <1>1, <1>2, <1>3, MountPlanStays
<1> QED
  BY <1>4 DEF V

\* A pass over the normal bindings and the mounts
LEMMA PassStays ==
    ASSUME NEW D \in SUBSET Devices, NEW N \in SUBSET DiskNames, NEW h \in HostsOn(D, N),
           NEW normal \in Seq(VolumeBinding), NEW mount \in Seq(VolumeBinding)
    PROVE  GetMountDiskPlan(GetNormalPlan(h, normal), mount) \in AttemptsOn(D, N)
<1> DEFINE V == AttemptsOn(D, N)
<1>1. \A b \in V, k \in 1..Len(normal) : PlaceNormal(b, normal[k]) \in V
  BY BindingList, PlaceNormalStays
<1>2. Len(normal) \in Nat /\ DOMAIN normal = 1..Len(normal)
  BY BindingList
<1>3. Attempt(h) \in V
  BY EmptyPlansStay
<1> HIDE DEF V
<1>4. GetNormalPlan(h, normal) \in V
  BY <1>1, <1>2, <1>3, NormalPlanStays
<1> QED
  BY <1>4, MountPassStays DEF V

\* Passes so far
PassesOn(D, N) == [failed : BOOLEAN, host : HostsOn(D, N), plans : Seq(PlannedOn(D, N))]

\* One more pass
LEMMA NormalPassStays ==
    ASSUME NEW D \in SUBSET Devices, NEW N \in SUBSET DiskNames,
           NEW normal \in Seq(VolumeBinding), NEW mount \in Seq(VolumeBinding),
           NEW s \in PassesOn(D, N)
    PROVE  NormalPass(s, normal, mount) \in PassesOn(D, N)
<1> DEFINE P == PlannedOn(D, N)
           a == GetMountDiskPlan(GetNormalPlan(s.host, normal), mount)
           p == [plan |-> a.plan, disks |-> a.disks]
<1>1. s.failed \in BOOLEAN /\ s.host \in HostsOn(D, N) /\ s.plans \in Seq(P)
  BY DEF PassesOn
<1>2. CASE s.failed
  BY <1>2 DEF NormalPass
<1>3. CASE ~s.failed
  <2>1. a \in AttemptsOn(D, N)
    BY <1>1, PassStays
  <2>2. NormalPass(s, normal, mount) =
          [failed |-> ~a.ok, host |-> a.host,
           plans |-> IF ~a.ok THEN s.plans ELSE Append(s.plans, p)]
    BY <1>3 DEF NormalPass
  <2> HIDE DEF a
  <2>3. a.ok \in BOOLEAN /\ a.host \in HostsOn(D, N) /\ p \in P
    BY <2>1 DEF AttemptsOn, PlannedOn
  <2> HIDE DEF p, P
  <2>4. Append(s.plans, p) \in Seq(P)
    BY <1>1, <2>3
  <2> QED
    BY <1>1, <2>2, <2>3, <2>4 DEF PassesOn, P
<1> QED
  BY <1>2, <1>3

\* Plans pass by pass
LEMMA NormalPassesAreOn ==
    ASSUME NEW D \in SUBSET Devices, NEW N \in SUBSET DiskNames, NEW h \in HostsOn(D, N),
           NEW normal \in Seq(VolumeBinding), NEW mount \in Seq(VolumeBinding),
           NEW bound \in Nat
    PROVE  /\ GetNormalPasses(h, normal, mount, bound).host \in HostsOn(D, N)
           /\ GetNormalPasses(h, normal, mount, bound).plans \in Seq(PlannedOn(D, N))
<1> DEFINE V == PassesOn(D, N)
           first == [failed |-> FALSE, host |-> h, plans |-> <<>>]
<1>1. first \in V
  BY DEF PassesOn
<1>2. \A s \in V : NormalPass(s, normal, mount) \in V
  BY NormalPassStays
<1> HIDE DEF V
<1>3. GetNormalPasses(h, normal, mount, bound) \in V
  <2>1. bound \in 0..bound
    OBVIOUS
  <2> QED
    BY <1>1, <1>2, <2>1, NormalPassesRun DEF RunsPasses
<1> QED
  BY <1>3 DEF V, PassesOn

\* A plan repeated
LEMMA RepeatsAreOn ==
    ASSUME NEW S, NEW p \in S, NEW n \in Int
    PROVE  Repeat(n, p) \in Seq(S)
<1>1. CASE n >= 0
  BY <1>1 DEF Repeat
<1>2. CASE n < 0
  <2>1. 1..n = 1..0
    BY <1>2
  <2>2. Repeat(n, p) = [i \in 1..0 |-> p]
    BY <2>1 DEF Repeat
  <2> QED
    BY <2>2
<1> QED
  BY <1>1, <1>2

\* How often rates fit into rates
LEMMA HeadroomIsInt ==
    ASSUME NEW io \in IO, NEW sum \in IO
    PROVE  QuotaHeadroom(io, sum) \in Int
<1> DEFINE R == {r \in Rates : sum[r] > 0}
           f == [rate \in R |-> Truncated(io[rate], sum[rate])]
           T == {f[rate] : rate \in R}
<1>1. IsFiniteSet(R)
  BY DisksAssumption, FS_Subset
<1>2. \A rate \in R : f[rate] \in Int
  BY DEF IO, Truncated
<1>3. IsFiniteSet(T)
  <2> HIDE DEF f, R
  <2> QED
    BY <1>1, ImageIsFinite
<1>4. T \subseteq Int
  BY <1>2
<1>5. {Truncated(io[rate], sum[rate]) : rate \in R} = T
  OBVIOUS
<1>6. QuotaHeadroom(io, sum) = Min({MaxInt} \cup T)
  BY <1>5 DEF QuotaHeadroom
<1> HIDE DEF T
<1>7. IsFiniteSet(T \cup {MaxInt}) /\ T \cup {MaxInt} = {MaxInt} \cup T
  BY <1>3, FS_AddElement
<1>8. {MaxInt} \cup T \in SUBSET Int /\ {MaxInt} \cup T # {}
  BY <1>4, MaxIntAssumption
<1> QED
  BY <1>6, <1>7, <1>8, MinOfFinite

\* The rates of mounts are rates
LEMMA QuotaIsIO ==
    ASSUME NEW h, NEW name, NEW mount \in Seq(VolumeBinding)
    PROVE  QuotaOn(h, mount, name) \in IO
<1>1. NoIO \in IO
  BY DEF NoIO, IO
<1>2. \A io \in IO, k \in 1..Len(mount) : AddQuotaOn(h, name, io, mount[k]) \in IO
  <2> TAKE io \in IO, k \in 1..Len(mount)
  <2>1. mount[k].io \in IO
    BY BindingList, BindingParts
  <2>2. AddIO(io, mount[k].io) \in IO
    BY <2>1 DEF AddIO, IO
  <2> QED
    BY <2>2 DEF AddQuotaOn
<1>3. Len(mount) \in Nat /\ DOMAIN mount = 1..Len(mount)
  BY BindingList
<1> QED
  BY <1>1, <1>2, <1>3, QuotaStays

\* How many passes over the mounts there are is a number
LEMMA MountPassesIsInt ==
    ASSUME NEW D, NEW N \in SUBSET DiskNames, NEW a \in AttemptsOn(D, N),
           NEW mount \in Seq(VolumeBinding), NEW bound \in Nat, DOMAIN a.disks \subseteq N
    PROVE  MountPasses(a, mount, bound) \in Int
<1> DEFINE S == DOMAIN a.disks
           f == [name \in S |-> 1 + QuotaHeadroom(a.host.disks[name].io,
                                                  QuotaOn(a.host, mount, name))]
           T == {f[name] : name \in S}
<1>1. IsFiniteSet(S)
  <2>1. IsFiniteSet(DiskNames) /\ S \in SUBSET DiskNames
    BY DisksAssumption
  <2> HIDE DEF S
  <2> QED
    BY <2>1, FS_Subset
<1>2. \A name \in S : f[name] \in Int
  <2> TAKE name \in S
  <2>1. a.host.disks[name].io \in IO
    BY DEF AttemptsOn, HostsOn, DiskCapacity
  <2>2. QuotaHeadroom(a.host.disks[name].io, QuotaOn(a.host, mount, name)) \in Int
    BY <2>1, QuotaIsIO, HeadroomIsInt
  <2> QED
    BY <2>2
<1>3. IsFiniteSet(T)
  <2> HIDE DEF f, S
  <2> QED
    BY <1>1, ImageIsFinite
<1>4. T \subseteq Int
  BY <1>2
<1>5. MountPasses(a, mount, bound) = Min({bound} \cup T)
  BY DEF MountPasses
<1> HIDE DEF T
<1>6. IsFiniteSet(T \cup {bound}) /\ T \cup {bound} = {bound} \cup T
  BY <1>3, FS_AddElement
<1>7. {bound} \cup T \in SUBSET Int /\ {bound} \cup T # {}
  BY <1>4
<1> QED
  BY <1>5, <1>6, <1>7, MinOfFinite

\* The host charged for more passes is a host
LEMMA ChargedPassesStay ==
    ASSUME NEW D, NEW N, NEW h \in HostsOn(D, N), NEW mount \in Seq(VolumeBinding), NEW names,
           NEW n \in Int
    PROVE  ChargePasses(h, mount, names, n) \in HostsOn(D, N)
<1> DEFINE io(name) == [rate \in Rates |->
                          h.disks[name].io[rate] - n * QuotaOn(h, mount, name)[rate]]
           disks == [name \in DOMAIN h.disks |->
                       IF name \notin names THEN h.disks[name]
                       ELSE [h.disks[name] EXCEPT !.io = io(name)]]
<1>1. h.disks \in [N -> DiskCapacity] /\ DOMAIN h.disks = N
  BY DEF HostsOn
<1>2. \A name \in N : h.disks[name] \in DiskCapacity /\ h.disks[name].io \in IO
  BY <1>1 DEF DiskCapacity
<1>3. ChargePasses(h, mount, names, n) = [h EXCEPT !.disks = disks]
  BY DEF ChargePasses
<1>4. \A name \in N : io(name) \in IO
  <2> TAKE name \in N
  <2> DEFINE q == QuotaOn(h, mount, name)
  <2>1. q \in IO
    BY QuotaIsIO
  <2> HIDE DEF q
  <2>2. [rate \in Rates |-> h.disks[name].io[rate] - n * q[rate]] \in IO
    BY <1>2, <2>1 DEF IO
  <2> QED
    BY <2>2 DEF q
<1> HIDE DEF io
<1>5. \A name \in N : [h.disks[name] EXCEPT !.io = io(name)] \in DiskCapacity
  BY <1>2, <1>4 DEF DiskCapacity
<1>6. disks \in [N -> DiskCapacity]
  BY <1>1, <1>2, <1>5
<1> HIDE DEF disks
<1> QED
  BY <1>3, <1>6 DEF HostsOn

\* Disk plans are over disks
LEMMA DiskPlanParts ==
    ASSUME NEW N, NEW disks \in DiskPlansOn(N)
    PROVE  DOMAIN disks \subseteq N /\ \A name \in DOMAIN disks : disks[name] \in IO
BY DEF DiskPlansOn

\* Mounts only: their plans, from a host and for a host
LEMMA MountOnlyPlansAreOn ==
    ASSUME NEW D \in SUBSET Devices, NEW N \in SUBSET DiskNames, NEW h \in HostsOn(D, N),
           NEW mount \in Seq(VolumeBinding), NEW bound \in Nat
    PROVE  /\ GetMountOnlyPlans(h, mount, bound).host \in HostsOn(D, N)
           /\ GetMountOnlyPlans(h, mount, bound).plans \in Seq(PlannedOn(D, N))
<1> DEFINE first == GetMountDiskPlan(Attempt(h), mount)
           n == MountPasses(first, mount, bound)
           charged == ChargePasses(first.host, mount, DOMAIN first.disks, n - 1)
           passes == ApplyMountPasses(h, mount, bound)
<1>1. first \in AttemptsOn(D, N)
  BY EmptyPlansStay, MountPassStays
<1>2. passes = IF ~first.ok \/ bound < 1
               THEN [host |-> first.host, capacity |-> 0, disks |-> NoDisks]
               ELSE [host |-> TrailingPass(charged, mount, n, bound),
                     capacity |-> n, disks |-> first.disks]
  BY DEF ApplyMountPasses
<1>3. GetMountOnlyPlans(h, mount, bound) =
        [host |-> passes.host,
         plans |-> Repeat(passes.capacity, [plan |-> EmptyPlan, disks |-> passes.disks])]
  BY DEF GetMountOnlyPlans
<1> HIDE DEF first, passes
<1>4. first.host \in HostsOn(D, N) /\ first.disks \in DiskPlansOn(N)
  BY <1>1 DEF AttemptsOn
<1>5. n \in Int
  BY <1>1, <1>4, DiskPlanParts, MountPassesIsInt
<1> HIDE DEF n
<1>6. charged \in HostsOn(D, N)
  <2>1. n - 1 \in Int
    BY <1>5
  <2> QED
    BY <1>4, <2>1, ChargedPassesStay
<1> HIDE DEF charged
<1>7. TrailingPass(charged, mount, n, bound) \in HostsOn(D, N)
  <2> DEFINE last == GetMountDiskPlan(Attempt(charged), mount)
  <2>1. last \in AttemptsOn(D, N)
    BY <1>6, EmptyPlansStay, MountPassStays
  <2>2. last.host \in HostsOn(D, N)
    <3> HIDE DEF last
    <3> QED
      BY <2>1 DEF AttemptsOn
  <2> QED
    BY <1>6, <2>2 DEF TrailingPass
<1> DEFINE trailing == TrailingPass(charged, mount, n, bound)
           p == [plan |-> EmptyPlan, disks |-> passes.disks]
<1> HIDE DEF trailing
<1>8. /\ passes.host \in HostsOn(D, N) /\ passes.capacity \in Int
      /\ passes.disks \in DiskPlansOn(N)
  <2>1. NoDisks \in DiskPlansOn(N)
    BY EmptyPlansStay
  <2>2. trailing \in HostsOn(D, N)
    BY <1>7 DEF trailing
  <2>3. passes = IF ~first.ok \/ bound < 1
                 THEN [host |-> first.host, capacity |-> 0, disks |-> NoDisks]
                 ELSE [host |-> trailing, capacity |-> n, disks |-> first.disks]
    BY <1>2 DEF trailing
  <2> QED
    BY <1>4, <1>5, <2>1, <2>2, <2>3
<1>9. p \in PlannedOn(D, N)
  BY <1>8, EmptyPlansStay DEF PlannedOn
<1> HIDE DEF p
<1>10. Repeat(passes.capacity, p) \in Seq(PlannedOn(D, N))
  BY <1>8, <1>9, RepeatsAreOn
<1>11. GetMountOnlyPlans(h, mount, bound) =
         [host |-> passes.host, plans |-> Repeat(passes.capacity, p)]
  BY <1>3 DEF p
<1> QED
  BY <1>8, <1>10, <1>11

\* The plans of normal and mount bindings
LEMMA NormalPlansAreOn ==
    ASSUME NEW D \in SUBSET Devices, NEW N \in SUBSET DiskNames, NEW h \in HostsOn(D, N),
           NEW count \in Nat, NEW normal \in Seq(VolumeBinding),
           NEW mount \in Seq(VolumeBinding), NEW bound \in Nat
    PROVE  /\ GetNormalPlans(h, count, normal, mount, bound).host \in HostsOn(D, N)
           /\ GetNormalPlans(h, count, normal, mount, bound).plans \in Seq(PlannedOn(D, N))
<1>1. CASE normal # <<>>
  BY <1>1, NormalPassesAreOn DEF GetNormalPlans
<1>2. CASE normal = <<>> /\ AnyRequireIOPS(mount)
  BY <1>2, MountOnlyPlansAreOn DEF GetNormalPlans
<1>3. CASE normal = <<>> /\ ~AnyRequireIOPS(mount)
  <2>1. Repeat(count, NoPlan) \in Seq(PlannedOn(D, N))
    BY EmptyPlansStay, RepeatsAreOn
  <2>2. GetNormalPlans(h, count, normal, mount, bound) =
          [host |-> h, plans |-> Repeat(count, NoPlan)]
    BY <1>3 DEF GetNormalPlans
  <2> QED
    BY <2>1, <2>2
<1> QED
  BY <1>1, <1>2, <1>3

-----------------------------------------------------------------------------
(* Plans of monopoly bindings *)

\* What a plan takes of a volume is a number
LEMMA PlannedSizes ==
    ASSUME NEW D, NEW plan \in PlansOn(D), NEW device
    PROVE  SumFunction([vb \in {vb1 \in DOMAIN plan : plan[vb1].device = device} |->
                          plan[vb].size]) \in Int
<1> DEFINE S == {vb1 \in DOMAIN plan : plan[vb1].device = device}
           g == [vb \in S |-> plan[vb].size]
<1>1. IsFiniteSet(S)
  <2>1. IsFiniteSet(DOMAIN plan) /\ S \in SUBSET DOMAIN plan
    BY PlanParts
  <2> HIDE DEF S
  <2> QED
    BY <2>1, FS_Subset
<1>2. g \in [S -> Int]
  BY PlanParts
<1> HIDE DEF g
<1>3. SumFunction(g) \in Int
  BY <1>1, <1>2, SumIsInt
<1> QED
  BY <1>3 DEF g

\* The volumes of a plan are a number for every device
LEMMA PlannedVolumesAreInts ==
    ASSUME NEW D, NEW plan \in PlansOn(D)
    PROVE  PlannedVolumes(plan) \in [Devices -> Int]
BY PlannedSizes DEF PlannedVolumes

\* The members of a list of bindings are finitely many
LEMMA MembersAreFinite ==
    ASSUME NEW s \in Seq(VolumeBinding)
    PROVE  IsFiniteSet(ToSet(s)) /\ ToSet(s) \in SUBSET VolumeBinding
<1>1. ToSet(s) = {s[i] : i \in 1..Len(s)}
  BY BindingList DEF ToSet
<1>2. IsFiniteSet(1..Len(s))
  BY BindingList, FS_Interval
<1>3. IsFiniteSet({s[i] : i \in 1..Len(s)})
  BY <1>2, ImageIsFinite
<1> QED
  BY <1>1, <1>3, MembersAreIn

\* Monopoly bindings as they are planned: they have sizes
Monopolies(reqs) ==
    reqs \in Seq(VolumeBinding) /\ reqs # <<>> /\ \A k \in 1..Len(reqs) : reqs[k].size > 0

\* A group of bindings with sizes has a size
LEMMA GroupHasSize ==
    ASSUME NEW reqs, Monopolies(reqs)
    PROVE  Group(reqs).size \in Int /\ Group(reqs).size > 0 /\ Group(reqs).io \in IO
<1> DEFINE V == {vb \in VolumeBinding : vb.size >= 0}
           n == Len(reqs)
           first == [reqs[1] EXCEPT !.size = 0, !.io = NoIO]
<1>1. n \in Nat /\ n # 0 /\ 1 \in 1..n /\ n \in 1..n /\ DOMAIN reqs = 1..n
  <2>1. reqs \in Seq(VolumeBinding) /\ reqs # <<>>
    BY DEF Monopolies
  <2>2. n \in Nat /\ DOMAIN reqs = 1..n
    BY <2>1, BindingList
  <2>3. n # 0
    BY <2>1, EmptySeq
  <2> HIDE DEF n
  <2> QED
    BY <2>2, <2>3
<1>2. \A k \in 1..n : reqs[k] \in VolumeBinding /\ reqs[k].size \in Int /\ reqs[k].size > 0
  BY BindingList, BindingParts DEF Monopolies
<1>3. first \in V
  <2>1. NoIO \in IO
    BY DEF NoIO, IO
  <2>2. PICK vb \in VolumeBinding : vb = reqs[1]
    BY <1>1, <1>2
  <2> DEFINE io == NoIO
             size == 0
             empty == [vb EXCEPT !.size = size, !.io = io]
  <2>3. first = empty
    BY <2>2
  <2>4. io \in IO /\ size \in Int /\ size >= 0
    BY <2>1
  <2> HIDE DEF io, size
  <2>5. empty \in VolumeBinding
    BY <2>4 DEF VolumeBinding
  <2>6. empty.size = size
    BY DEF VolumeBinding
  <2> HIDE DEF first, empty
  <2> QED
    BY <2>3, <2>4, <2>5, <2>6
<1>4. \A vb \in V, k \in 1..n :
         AddQuota(vb, reqs[k]) \in V /\ AddQuota(vb, reqs[k]).size = vb.size + reqs[k].size
  <2> TAKE vb \in V, k \in 1..n
  <2>1. AddQuota(vb, reqs[k]) \in VolumeBinding
    BY <1>2, QuotasAddUp
  <2>2. vb \in VolumeBinding /\ vb.size \in Int /\ vb.size >= 0
    BY BindingParts
  <2>3. AddQuota(vb, reqs[k]).size = vb.size + reqs[k].size
    BY <2>2 DEF AddQuota, VolumeBinding
  <2> QED
    BY <1>2, <2>1, <2>2, <2>3
<1> HIDE DEF n, first
<1>5. PICK g : RunsGroup(g, V, reqs, n)
  <2> HIDE DEF V
  <2> QED
    BY <1>1, <1>3, <1>4, GroupRuns DEF first
<1>6. n - 1 \in 0..n /\ n \in 0..n
  BY <1>1
<1>7. Group(reqs) = g[n] /\ g[n] \in V /\ g[n - 1] \in V /\ g[n] = AddQuota(g[n - 1], reqs[n])
  <2> HIDE DEF V
  <2> QED
    BY <1>1, <1>5, <1>6 DEF RunsGroup
<1>8. g[n - 1].size \in Int /\ g[n - 1].size >= 0 /\ Group(reqs).size = g[n - 1].size + reqs[n].size
  BY <1>1, <1>4, <1>7, BindingParts
<1>9. Group(reqs).io \in IO
  BY <1>7, BindingParts
<1> QED
  BY <1>1, <1>2, <1>8, <1>9

\* What the floats answer: in proportion to what there is, or to half a byte
\* more or less
LEMMA PortionParts ==
    ASSUME NEW size \in Int, NEW total \in Int, total > 0, NEW free \in Int
    PROVE  \E much \in Int : /\ much \in {2 * free - 1, 2 * free, 2 * free + 1}
                            /\ Portion(size, total, free) = (size * much) \div (2 * total)
<1> DEFINE Off == IF <<size, total, free>> \in RoundedDown THEN -1
                  ELSE IF <<size, total, free>> \in RoundedUp THEN 1 ELSE 0
           much == 2 * free + Off
<1>1. Portion(size, total, free) = (size * much) \div (2 * total)
  BY DEF Portion
<1>2. Off \in {-1, 0, 1}
  OBVIOUS
<1> HIDE DEF Off
<1>3. much \in Int /\ much \in {2 * free - 1, 2 * free, 2 * free + 1}
  BY <1>2
<1> QED
  BY <1>1, <1>3

LEMMA PortionIsInt ==
    ASSUME NEW size \in Int, NEW total \in Int, total > 0, NEW free \in Int
    PROVE  Portion(size, total, free) \in Int
<1>1. PICK much \in Int : Portion(size, total, free) = (size * much) \div (2 * total)
  BY PortionParts
<1> DEFINE m == size * much
           t == 2 * total
<1>2. m \in Int /\ t \in Int /\ t > 0
  OBVIOUS
<1> HIDE DEF m, t
<1>3. m \div t \in Int
  BY <1>2
<1> QED
  BY <1>1, <1>3 DEF m, t

\* The shares of a volume are places on it
LEMMA MonoPlanIsOn ==
    ASSUME NEW D, NEW reqs \in Seq(VolumeBinding), NEW total \in Int, total > 0,
           NEW device \in D, NEW free \in Int
    PROVE  MonoPlan(reqs, total, device, free) \in PlansOn(D)
<1> DEFINE S == ToSet(reqs)
           g == [vb \in S |-> Portion(vb.size, total, free)]
           rest == free - SumFunction(g)
           size == [vb \in S |-> g[vb] + (IF vb = reqs[1] THEN rest ELSE 0)]
<1>1. IsFiniteSet(S) /\ S \in SUBSET VolumeBinding
  BY MembersAreFinite
<1>2. \A vb \in S : Portion(vb.size, total, free) \in Int
  BY <1>1, BindingParts, PortionIsInt
<1>3. g \in [S -> Int]
  <2> HIDE DEF S
  <2> QED
    BY <1>2
<1>4. MonoPlan(reqs, total, device, free)
        = [vb \in S |-> [device |-> device, size |-> size[vb]]]
  BY DEF MonoPlan
<1> HIDE DEF g, S
<1>5. rest \in Int
  BY <1>1, <1>3, SumIsInt
<1> HIDE DEF rest
<1>6. \A vb \in S : size[vb] \in Int
  BY <1>3, <1>5
<1> HIDE DEF size
<1>7. MonoPlan(reqs, total, device, free) \in [S -> [device : D, size : Int]]
  BY <1>4, <1>6
<1> QED
  BY <1>1, <1>7, IsPlan

\* A group that fits on a volume is planned there
LEMMA GroupIsPlanned ==
    ASSUME NEW D, NEW N \in SUBSET DiskNames, NEW h \in HostsOn(D, N), NEW reqs,
           Monopolies(reqs), NEW device \in D, GetMonoPlan(h, reqs, device).ok
    PROVE  /\ GetMonoPlan(h, reqs, device).host \in HostsOn(D, N)
           /\ GetMonoPlan(h, reqs, device).plan \in PlansOn(D)
           /\ GetMonoPlan(h, reqs, device).disks \in DiskPlansOn(N)
<1> DEFINE total == Group(reqs)
           empty == [h EXCEPT !.free[device] = 0]
           host == DecreaseIOPSQuota(empty, device, total)
           plan == MonoPlan(reqs, total.size, device, h.free[device])
           disks == DiskQuota(h, device, total)
           m == GetMonoPlan(h, reqs, device)
           ok == h.free[device] >= total.size /\ Qualified(h, device, total)
<1>1. m = [ok |-> ok, host |-> host, plan |-> plan, disks |-> disks]
  BY DEF GetMonoPlan
<1>2. total.size \in Int /\ total.size > 0 /\ total.io \in IO
  BY GroupHasSize
<1> HIDE DEF total
<1>3. Qualified(h, device, total)
  <2>1. GetMonoPlan(h, reqs, device).ok = ok
    BY DEF GetMonoPlan, total
  <2> QED
    BY <2>1
<1>4. h.free \in [D -> Int] /\ h.free[device] \in Int
  BY DEF HostsOn
<1>5. empty \in HostsOn(D, N) /\ empty.disks = h.disks
  <2> DEFINE free == [h.free EXCEPT ![device] = 0]
  <2>1. free \in [D -> Int]
    BY <1>4
  <2>2. empty = [h EXCEPT !.free = free]
    BY DEF HostsOn
  <2> HIDE DEF free
  <2> QED
    BY <2>1, <2>2 DEF HostsOn
<1> HIDE DEF empty
<1>6. Qualified(empty, device, total)
  BY <1>3, <1>5 DEF Qualified
<1>7. host \in HostsOn(D, N) /\ disks \in DiskPlansOn(N)
  BY <1>2, <1>3, <1>5, <1>6, ChargesStay
<1>8. plan \in PlansOn(D)
  BY <1>2, <1>4, MonoPlanIsOn DEF Monopolies
<1> HIDE DEF host, plan, disks, ok, m
<1>9. m.host \in HostsOn(D, N) /\ m.plan \in PlansOn(D) /\ m.disks \in DiskPlansOn(N)
  BY <1>1, <1>7, <1>8
<1> QED
  BY <1>9 DEF m

\* A group's volumes so far
GroupsOn(D, N) == [host : HostsOn(D, N), plans : Seq(PlannedOn(D, N))]

\* One more volume
LEMMA TryVolumeStays ==
    ASSUME NEW D, NEW N \in SUBSET DiskNames, NEW mono, Monopolies(mono), NEW bound,
           NEW s \in GroupsOn(D, N), NEW device \in D
    PROVE  TryVolume(s, mono, bound, device) \in GroupsOn(D, N)
<1> DEFINE P == PlannedOn(D, N)
           m == GetMonoPlan(s.host, mono, device)
           p == [plan |-> m.plan, disks |-> m.disks]
<1>1. s.host \in HostsOn(D, N) /\ s.plans \in Seq(P)
  BY DEF GroupsOn
<1>2. TryVolume(s, mono, bound, device) =
        IF Len(s.plans) >= bound \/ ~m.ok THEN s
        ELSE [host |-> m.host, plans |-> Append(s.plans, p)]
  BY DEF TryVolume
<1>3. m.ok => m.host \in HostsOn(D, N) /\ m.plan \in PlansOn(D) /\ m.disks \in DiskPlansOn(N)
  BY <1>1, GroupIsPlanned
<1> HIDE DEF m
<1>4. m.ok => p \in P
  BY <1>3 DEF PlannedOn
<1> HIDE DEF p, P
<1>5. m.ok => Append(s.plans, p) \in Seq(P)
  BY <1>1, <1>4
<1> QED
  BY <1>1, <1>2, <1>3, <1>5 DEF GroupsOn, P

\* The plans of a group are plans
LEMMA MonoPlansAreOn ==
    ASSUME NEW D, NEW N \in SUBSET DiskNames, NEW h \in HostsOn(D, N), NEW count \in Nat,
           NEW mono, Monopolies(mono) \/ mono = <<>>, NEW bound
    PROVE  /\ GetMonoPlans(h, count, mono, bound).plans \in Seq(PlannedOn(D, N))
           /\ GetMonoPlans(h, count, mono, bound).host \in HostsOn(D, N)
<1> DEFINE P == PlannedOn(D, N)
           V == GroupsOn(D, N)
<1>1. CASE mono = <<>>
  <2>1. Repeat(count, NoPlan) \in Seq(P)
    BY EmptyPlansStay, RepeatsAreOn
  <2>2. GetMonoPlans(h, count, mono, bound) = [host |-> h, plans |-> Repeat(count, NoPlan)]
    BY <1>1 DEF GetMonoPlans
  <2> QED
    BY <2>1, <2>2
<1>2. CASE mono # <<>>
  <2>1. [host |-> h, plans |-> <<>>] \in V
    BY DEF GroupsOn
  <2>2. h.unused \in Seq(D)
    BY DEF HostsOn
  <2>3. Len(h.unused) \in Nat /\ DOMAIN h.unused = 1..Len(h.unused)
        /\ Len(h.unused) \in 0..Len(h.unused)
    BY <2>2, MembersAreIn
  <2>4. ASSUME NEW s \in V, NEW k \in 1..Len(h.unused)
        PROVE  TryVolume(s, mono, bound, h.unused[k]) \in V
    BY <1>2, <2>2, MembersAreIn, TryVolumeStays
  <2> HIDE DEF V
  <2>5. GetMonoPlans(h, count, mono, bound) \in V
    <3>1. Len(h.unused) \in Nat /\ DOMAIN h.unused = 1..Len(h.unused)
      BY <2>3
    <3>2. Len(h.unused) \in 0..Len(h.unused)
      BY <2>3
    <3>3. PICK g : RunsVolumes(g, V, h, count, mono, bound, Len(h.unused))
      BY <1>2, <2>1, <2>4, <3>1, MonoPlansRun
    <3> QED
      BY <3>2, <3>3 DEF RunsVolumes
  <2> QED
    BY <2>5 DEF V, GroupsOn
<1> QED
  BY <1>1, <1>2

-----------------------------------------------------------------------------
(* Plans of all bindings *)

\* What plans leave of the volumes
LEMMA LeftIsInts ==
    ASSUME NEW D \in SUBSET Devices, NEW N, NEW free \in [D -> Int],
           NEW plans \in Seq(PlannedOn(D, N))
    PROVE  LeftBy(free, plans) \in [D -> Int]
<1> DEFINE V == [D -> Int]
<1>1. \A k \in 1..Len(plans) : plans[k] \in PlannedOn(D, N)
  BY MembersAreIn
<1>2. \A k \in 1..Len(plans) : plans[k].plan \in PlansOn(D)
  <2> HIDE DEF V
  <2> QED
    BY <1>1 DEF PlannedOn
<1>3. ASSUME NEW left \in V, NEW k \in 1..Len(plans)
      PROVE  LeftAfter(left, plans[k]) \in V
  <2> DEFINE taken == PlannedVolumes(plans[k].plan)
  <2>1. taken \in [Devices -> Int]
    BY <1>2, PlannedVolumesAreInts
  <2>2. LeftAfter(left, plans[k]) = [device \in D |-> left[device] - taken[device]]
    BY DEF LeftAfter
  <2> HIDE DEF taken
  <2> QED
    BY <2>1, <2>2
<1>4. Len(plans) \in Nat /\ DOMAIN plans = 1..Len(plans)
  BY MembersAreIn
<1> HIDE DEF V
<1>5. free \in V
  BY DEF V
<1>6. LeftBy(free, plans) \in V
  BY <1>3, <1>4, <1>5, LeftStays
<1> QED
  BY <1>6 DEF V

\* Volumes there are
HasVolumes(h) == h.used # <<>> \/ h.unused # <<>>

\* Unlimited bindings are placed on a volume of the host
LEMMA UnlimitedPlanIsOn ==
    ASSUME NEW D \in SUBSET Devices, NEW N, NEW h \in HostsOn(D, N),
           NEW plans \in Seq(PlannedOn(D, N)), NEW unlimited \in SUBSET VolumeBinding,
           IsFiniteSet(unlimited), unlimited # {} => HasVolumes(h)
    PROVE  GetUnlimitedPlan(h, plans, unlimited) \in PlansOn(D)
<1>1. CASE unlimited = {}
  BY <1>1, EmptyPlansStay DEF GetUnlimitedPlan
<1>2. CASE unlimited # {}
  <2> DEFINE left == LeftBy(h.free, plans)
             all == h.used \o h.unused
             device == Largest(left, all)
             plan == [vb \in unlimited |-> [device |-> device, size |-> vb.size]]
  <2>1. h.free \in [D -> Int] /\ h.used \in Seq(D) /\ h.unused \in Seq(D)
    BY DEF HostsOn
  <2>2. left \in [D -> Int]
    BY <2>1, LeftIsInts
  <2>3. all \in Seq(D) /\ all # <<>>
    <3>1. all \in Seq(D)
      BY <2>1, ConcatProperties
    <3>2. Len(all) = Len(h.used) + Len(h.unused)
      BY <2>1, ConcatProperties
    <3>3. Len(h.used) \in Nat /\ Len(h.unused) \in Nat
      BY <2>1
    <3>4. Len(h.used) # 0 \/ Len(h.unused) # 0
      BY <1>2, <2>1, EmptySeq DEF HasVolumes
    <3> HIDE DEF all
    <3>5. Len(all) # 0
      <4>1. \A a \in Nat, b \in Nat : a # 0 \/ b # 0 => a + b # 0
        OBVIOUS
      <4> QED
        BY <3>2, <3>3, <3>4, <4>1
    <3>6. all # <<>>
      BY <3>1, <3>5, EmptySeq
    <3> QED
      BY <3>1, <3>6
  <2> HIDE DEF left, all
  <2>4. device \in D
    BY <2>2, <2>3, LargestIsThere
  <2>5. GetUnlimitedPlan(h, plans, unlimited) = plan
    BY <1>2 DEF GetUnlimitedPlan, left, all
  <2> HIDE DEF device
  <2>6. plan \in [unlimited -> [device : D, size : Int]]
    BY <2>4, BindingParts
  <2> HIDE DEF plan
  <2> QED
    BY <2>5, <2>6, IsPlan
<1> QED
  BY <1>1, <1>2

\* Plans side by side are plans
LEMMA JoinedPlansAreOn ==
    ASSUME NEW D, NEW N, NEW normal \in Seq(PlannedOn(D, N)), NEW mono \in Seq(PlannedOn(D, N)),
           NEW unlimited \in PlansOn(D), NEW n \in Int, n <= Len(normal), n <= Len(mono)
    PROVE  JoinPlans(n, normal, mono, unlimited) \in Seq(PlannedOn(D, N))
<1> DEFINE P == PlannedOn(D, N)
           join == [i \in 1..n |->
                      [plan |-> MergePlans(MergePlans(normal[i].plan, mono[i].plan), unlimited),
                       disks |-> AddDisks(normal[i].disks, mono[i].disks)]]
<1>1. \A i \in 1..n : join[i] \in P
  <2> TAKE i \in 1..n
  <2> DEFINE plan == MergePlans(MergePlans(normal[i].plan, mono[i].plan), unlimited)
             disks == AddDisks(normal[i].disks, mono[i].disks)
  <2>1. i \in 1..Len(normal) /\ i \in 1..Len(mono)
    <3>1. Len(normal) \in Nat /\ Len(mono) \in Nat
      OBVIOUS
    <3> QED
      BY <3>1
  <2>2. normal[i] \in P /\ mono[i] \in P
    BY <2>1, MembersAreIn
  <2>3. /\ normal[i].plan \in PlansOn(D) /\ normal[i].disks \in DiskPlansOn(N)
        /\ mono[i].plan \in PlansOn(D) /\ mono[i].disks \in DiskPlansOn(N)
    BY <2>2 DEF PlannedOn
  <2>4. plan \in PlansOn(D)
    BY <2>3, MergedPlansStay
  <2>5. disks \in DiskPlansOn(N)
    BY <2>3, AddedDisksStay
  <2>6. join[i] = [plan |-> plan, disks |-> disks]
    OBVIOUS
  <2> HIDE DEF plan, disks, join
  <2> QED
    BY <2>4, <2>5, <2>6 DEF PlannedOn
<1>2. JoinPlans(n, normal, mono, unlimited) = join
  BY DEF JoinPlans
<1>3. DOMAIN join = 1..n
  OBVIOUS
<1>4. join = [i \in 1..n |-> join[i]]
  OBVIOUS
<1> HIDE DEF join, P
<1>5. CASE n >= 0
  <2>1. join \in [1..n -> P] /\ n \in Nat
    BY <1>1, <1>4, <1>5
  <2> QED
    BY <1>2, <2>1 DEF P
<1>6. CASE n < 0
  <2>1. 1..n = 1..0
    BY <1>6
  <2>2. join \in [1..0 -> P]
    BY <1>1, <1>4, <2>1
  <2> QED
    BY <1>2, <2>2 DEF P
<1> QED
  BY <1>5, <1>6

\* What there is to plan
ClassesOk(classes) ==
    /\ classes.normal \in Seq(VolumeBinding) /\ classes.mount \in Seq(VolumeBinding)
    /\ classes.mono = <<>> \/ Monopolies(classes.mono)
    /\ classes.unlimited \in SUBSET VolumeBinding /\ IsFiniteSet(classes.unlimited)
    /\ \A vb \in classes.unlimited, vb1 \in classes.unlimited : vb.dest = vb1.dest => vb = vb1

\* Plans of each kind, and how many they are
EvaluationsOn(D, N) ==
    {best \in [normal : Nat, mono : Nat, normals : Seq(PlannedOn(D, N)),
               monos : Seq(PlannedOn(D, N))] :
        best.normal = Len(best.normals) /\ best.mono = Len(best.monos)}

\* A host with plans for it
LEMMA EvaluationIsOn ==
    ASSUME NEW D \in SUBSET Devices, NEW N \in SUBSET DiskNames, NEW h, NEW classes,
           ClassesOk(classes), NEW count \in Nat, NEW host \in HostsOn(D, N),
           Len(h.unused) \in Nat
    PROVE  EvaluatePlans(h, classes, count, host) \in EvaluationsOn(D, N)
<1> DEFINE P == PlannedOn(D, N)
           bound == NormalBound(h, count, classes)
           normal == GetNormalPlans(host, count, classes.normal, classes.mount, bound)
           limit == IF classes.unlimited = {} THEN Larger(count, Len(normal.plans) + 1) ELSE MaxInt
           monos == GetMonoPlans(normal.host, count, classes.mono, limit).plans
<1>1. bound \in Nat
  BY MaxIntAssumption DEF NormalBound, Larger
<1>2. EvaluatePlans(h, classes, count, host) =
        [normal |-> Len(normal.plans), mono |-> Len(monos),
         normals |-> normal.plans, monos |-> monos]
  BY DEF EvaluatePlans
<1> HIDE DEF bound
<1>3. normal.host \in HostsOn(D, N) /\ normal.plans \in Seq(P)
  BY <1>1, NormalPlansAreOn DEF ClassesOk
<1> HIDE DEF normal, limit
<1>4. monos \in Seq(P)
  BY <1>3, MonoPlansAreOn DEF ClassesOk
<1> HIDE DEF monos
<1>5. Len(normal.plans) \in Nat /\ Len(monos) \in Nat
  BY <1>3, <1>4
<1> HIDE DEF P
<1> QED
  BY <1>2, <1>3, <1>4, <1>5 DEF EvaluationsOn, P

\* A volume opened is a used one
LEMMA OpenedStays ==
    ASSUME NEW D, NEW N, NEW h \in HostsOn(D, N), NEW p \in DOMAIN h.unused
    PROVE  Open(h, p) \in HostsOn(D, N) /\ HasVolumes(Open(h, p))
<1> DEFINE n == Len(h.unused)
           left == SubSeq(h.unused, 1, p - 1)
           right == SubSeq(h.unused, p + 1, n)
           used == Append(h.used, h.unused[p])
<1>1. h.unused \in Seq(D) /\ h.used \in Seq(D) /\ n \in Nat /\ p \in 1..n
  BY MembersAreIn DEF HostsOn
<1>2. left \in Seq(D)
  BY <1>1, SubSeqProperties
<1>3. right \in Seq(D)
  BY <1>1, SubSeqProperties
<1>4. h.unused[p] \in D
  BY <1>1, MembersAreIn
<1>5. used \in Seq(D) /\ Len(used) = Len(h.used) + 1 /\ Len(h.used) \in Nat
  BY <1>1, <1>4, AppendProperties
<1>6. Open(h, p) = [h EXCEPT !.unused = left \o right, !.used = used]
  BY DEF Open, RemoveAt, HostsOn
<1>7. left \o right \in Seq(D)
  BY <1>2, <1>3, ConcatProperties
<1> DEFINE unused == left \o right
<1> HIDE DEF left, right, used, unused
<1>8. Open(h, p) = [h EXCEPT !.unused = unused, !.used = used]
  BY <1>6 DEF unused
<1>9. unused \in Seq(D)
  BY <1>7 DEF unused
<1>10. used # <<>>
  BY <1>5, EmptySeq
<1> QED
  BY <1>5, <1>8, <1>9, <1>10 DEF HostsOn, HasVolumes

\* Of three numbers the least
LEMMA LeastOfThree ==
    ASSUME NEW a \in Int, NEW b \in Int, NEW c \in Int
    PROVE  /\ Min({a, b, c}) \in {a, b, c} /\ Min({a, b, c}) \in Int
           /\ Min({a, b, c}) <= a /\ Min({a, b, c}) <= b /\ Min({a, b, c}) <= c
<1>1. IsFiniteSet({a, b, c})
  <2>1. IsFiniteSet({a} \cup {b})
    BY FS_Singleton, FS_AddElement
  <2>2. IsFiniteSet(({a} \cup {b}) \cup {c})
    BY <2>1, FS_AddElement
  <2>3. ({a} \cup {b}) \cup {c} = {a, b, c}
    OBVIOUS
  <2> QED
    BY <2>2, <2>3
<1>2. {a, b, c} \in SUBSET Int /\ {a, b, c} # {}
  OBVIOUS
<1> QED
  BY <1>1, <1>2, MinOfFinite

\* As many plans as are joined
LEMMA JoinedOften ==
    ASSUME NEW n \in Nat, NEW normals, NEW monos, NEW unlimited
    PROVE  Len(JoinPlans(n, normals, monos, unlimited)) = n
BY DEF JoinPlans

\* Plans of bindings that were classified, no more than are asked for
LEMMA ClassesPlansAreOn ==
    ASSUME NEW D \in SUBSET Devices, NEW N \in SUBSET DiskNames, NEW h \in HostsOn(D, N),
           NEW classes, ClassesOk(classes), NEW count \in Nat
    PROVE  /\ PlansOfClasses(h, classes, count) \in Seq(PlannedOn(D, N))
           /\ Len(PlansOfClasses(h, classes, count)) <= count
<1> DEFINE P == PlannedOn(D, N)
           E == EvaluationsOn(D, N)
           V == {s \in [host : HostsOn(D, N), best : E] :
                    classes.unlimited # {} => HasVolumes(s.host)}
           first == [host |-> h, best |-> EvaluatePlans(h, classes, count, h)]
           last == Promoted(h, classes, count)
           unlimited == GetUnlimitedPlan(last.host, last.best.normals \o last.best.monos,
                                         classes.unlimited)
           n == Min({last.best.normal, last.best.mono, count})
<1>1. CASE NoVolumes(h, classes)
  <2>1. PlansOfClasses(h, classes, count) = <<>>
    BY <1>1 DEF PlansOfClasses
  <2> QED
    BY <2>1
<1>2. CASE ~NoVolumes(h, classes)
  <2>1. PlansOfClasses(h, classes, count)
          = JoinPlans(n, last.best.normals, last.best.monos, unlimited)
    BY <1>2 DEF PlansOfClasses, BestPlans, Promoted
  <2>2. Len(h.unused) \in Nat
    <3>1. h.unused \in Seq(D)
      BY DEF HostsOn
    <3> QED
      BY <3>1
  <2>3. \A host \in HostsOn(D, N) : EvaluatePlans(h, classes, count, host) \in E
    BY <2>2, EvaluationIsOn
  <2>4. classes.unlimited # {} => HasVolumes(h)
    BY <1>2 DEF NoVolumes, HasVolumes
  <2>5. first \in V
    <3> HIDE DEF E
    <3> QED
      BY <2>3, <2>4
  <2>6. ASSUME NEW s \in V
        PROVE  Opening(s, h, classes, count) \in V
    <3> DEFINE p == Candidate(s.host, classes.normal)
               host == Open(s.host, p)
               best == EvaluatePlans(h, classes, count, host)
               opened == [host |-> host, best |-> best]
    <3>1. Opening(s, h, classes, count) =
            IF WorthOpening(s.best, count) /\ p \in DOMAIN s.host.unused THEN opened ELSE s
      BY DEF Opening, PromoteOne
    <3> HIDE DEF p
    <3>2. s.host \in HostsOn(D, N)
      OBVIOUS
    <3>3. p \in DOMAIN s.host.unused => opened \in V
      <4>1. SUFFICES ASSUME p \in DOMAIN s.host.unused
                     PROVE  opened \in V
        OBVIOUS
      <4>2. host \in HostsOn(D, N) /\ HasVolumes(host)
        BY <3>2, <4>1, OpenedStays
      <4> HIDE DEF host
      <4>3. best \in E
        BY <2>3, <4>2
      <4> HIDE DEF best, E
      <4> QED
        BY <4>2, <4>3
    <3> HIDE DEF opened, V
    <3> QED
      BY <3>1, <3>3
  <2> HIDE DEF V
  <2>7. last \in V
    <3>1. Len(h.unused) \in 0..Len(h.unused)
      BY <2>2
    <3> QED
      BY <2>2, <2>5, <2>6, <3>1, PromotionsRun DEF RunsPromotions
  <2> HIDE DEF last
  <2>8. /\ last.host \in HostsOn(D, N) /\ last.best \in E
        /\ classes.unlimited # {} => HasVolumes(last.host)
    <3> HIDE DEF E
    <3> QED
      BY <2>7 DEF V
  <2>9. /\ last.best.normals \in Seq(P) /\ last.best.monos \in Seq(P)
        /\ last.best.normal = Len(last.best.normals) /\ last.best.mono = Len(last.best.monos)
        /\ last.best.normal \in Nat /\ last.best.mono \in Nat
    <3> HIDE DEF P
    <3> QED
      BY <2>8 DEF EvaluationsOn, P
  <2> DEFINE both == last.best.normals \o last.best.monos
  <2>10. both \in Seq(P)
    <3> HIDE DEF P
    <3> QED
      BY <2>9, ConcatProperties
  <2>11. unlimited \in PlansOn(D)
    <3>1. classes.unlimited \in SUBSET VolumeBinding /\ IsFiniteSet(classes.unlimited)
      BY DEF ClassesOk
    <3> HIDE DEF both
    <3>2. GetUnlimitedPlan(last.host, both, classes.unlimited) \in PlansOn(D)
      BY <2>8, <2>10, <3>1, UnlimitedPlanIsOn
    <3> QED
      BY <3>2 DEF both
  <2> HIDE DEF unlimited
  <2>12. n \in Nat /\ n <= Len(last.best.normals) /\ n <= Len(last.best.monos) /\ n <= count
    <3>1. count \in Int /\ last.best.normal \in Int /\ last.best.mono \in Int
      BY <2>9
    <3>2. /\ n \in {last.best.normal, last.best.mono, count}
          /\ n <= last.best.normal /\ n <= last.best.mono /\ n <= count
      BY <3>1, LeastOfThree
    <3> HIDE DEF n
    <3>3. n \in Nat
      BY <2>9, <3>2
    <3> QED
      BY <2>9, <3>2, <3>3
  <2> HIDE DEF n
  <2>13. JoinPlans(n, last.best.normals, last.best.monos, unlimited) \in Seq(P)
    BY <2>9, <2>11, <2>12, JoinedPlansAreOn
  <2>14. Len(JoinPlans(n, last.best.normals, last.best.monos, unlimited)) = n
    BY <2>12, JoinedOften
  <2> QED
    BY <2>1, <2>12, <2>13, <2>14
<1> QED
  BY <1>1, <1>2

\* A request: finitely many bindings, no two alike, with sizes where they need them
RequestOk(vbs) == vbs \in Bindings /\ Distinct(vbs) /\ ValidBindings(vbs)

\* Each class lists the bindings of its kind
Classified(vbs, classes) ==
    /\ Lists(classes.mono, {vb \in vbs : RequireScheduleMonopoly(vb)})
    /\ Lists(classes.normal, {vb \in vbs : IsNormal(vb)})
    /\ Lists(classes.mount, {vb \in vbs : ~RequireSchedule(vb)})
    /\ classes.unlimited = {vb \in vbs : IsUnlimited(vb)}

\* The bindings of a request are classified
LEMMA ClassesAreOk ==
    ASSUME NEW vbs, RequestOk(vbs)
    PROVE  /\ ClassesOk(ClassifyVolumeBindings(vbs))
           /\ Classified(vbs, ClassifyVolumeBindings(vbs))
           /\ ToSet(ClassifyVolumeBindings(vbs).normal) \subseteq vbs
           /\ ToSet(ClassifyVolumeBindings(vbs).mono) \subseteq vbs
           /\ ClassifyVolumeBindings(vbs).unlimited \subseteq vbs
<1> DEFINE monos == {vb \in vbs : RequireScheduleMonopoly(vb)}
           normals == {vb \in vbs : IsNormal(vb)}
           mounts == {vb \in vbs : ~RequireSchedule(vb)}
           unlimited == {vb \in vbs : IsUnlimited(vb)}
           mono == Ranked(monos, CompareBinding)
           normal == Ranked(normals, CompareBinding)
           mount == Ranked(mounts, CompareMount)
<1>1. vbs \in SUBSET VolumeBinding /\ IsFiniteSet(vbs) /\ Distinct(vbs)
  BY DEF RequestOk, Bindings
<1>2. \A S \in SUBSET vbs : S \in SUBSET VolumeBinding /\ IsFiniteSet(S)
  BY <1>1, FS_Subset
<1>3. \A vb \in VolumeBinding, vb1 \in VolumeBinding :
         (vb.source = vb1.source /\ vb.dest = vb1.dest /\ vb.mono = vb1.mono)
            => GetMapKey(vb) = GetMapKey(vb1)
  BY DEF GetMapKey
<1>4. \A vb \in VolumeBinding : vb.mono \in BOOLEAN
  BY BindingParts
<1>5. Lists(mono, monos)
  <2>1. monos \in SUBSET VolumeBinding /\ IsFiniteSet(monos)
    BY <1>2
  <2>2. \A vb \in monos, vb1 \in monos : vb.dest = vb1.dest => vb = vb1
    <3> TAKE vb \in monos, vb1 \in monos
    <3>1. /\ vb \in vbs /\ vb1 \in vbs /\ vb.source = vb1.source /\ vb.mono /\ vb1.mono
          /\ vb \in VolumeBinding /\ vb1 \in VolumeBinding
      BY <1>1 DEF RequireScheduleMonopoly, RequireSchedule
    <3>2. vb.mono = vb1.mono
      BY <1>4, <3>1
    <3> QED
      BY <1>1, <1>3, <3>1, <3>2 DEF Distinct
  <2> QED
    BY <2>1, <2>2, BindingsAreRanked
<1>6. Lists(normal, normals)
  <2>1. normals \in SUBSET VolumeBinding /\ IsFiniteSet(normals)
    BY <1>2
  <2>2. \A vb \in normals, vb1 \in normals : vb.dest = vb1.dest => vb = vb1
    <3> TAKE vb \in normals, vb1 \in normals
    <3>1. /\ vb \in vbs /\ vb1 \in vbs /\ vb.source = vb1.source /\ ~vb.mono /\ ~vb1.mono
          /\ vb \in VolumeBinding /\ vb1 \in VolumeBinding
      BY <1>1 DEF IsNormal, RequireScheduleMonopoly, RequireSchedule
    <3>2. vb.mono = vb1.mono
      BY <1>4, <3>1
    <3> QED
      BY <1>1, <1>3, <3>1, <3>2 DEF Distinct
  <2> QED
    BY <2>1, <2>2, BindingsAreRanked
<1>7. Lists(mount, mounts)
  <2>1. mounts \in SUBSET VolumeBinding /\ IsFiniteSet(mounts)
    BY <1>2
  <2>2. Distinct(mounts)
    BY <1>1 DEF Distinct
  <2> QED
    BY <2>1, <2>2, MountsAreRanked
<1>8. /\ unlimited \in SUBSET VolumeBinding /\ IsFiniteSet(unlimited)
      /\ \A vb \in unlimited, vb1 \in unlimited : vb.dest = vb1.dest => vb = vb1
  <2>1. unlimited \in SUBSET VolumeBinding /\ IsFiniteSet(unlimited)
    BY <1>2
  <2>2. \A vb \in unlimited, vb1 \in unlimited : vb.dest = vb1.dest => vb = vb1
    <3> TAKE vb \in unlimited, vb1 \in unlimited
    <3>1. /\ vb \in vbs /\ vb1 \in vbs /\ vb.source = vb1.source /\ ~vb.mono /\ ~vb1.mono
          /\ vb \in VolumeBinding /\ vb1 \in VolumeBinding
      BY <1>1 DEF IsUnlimited, RequireScheduleUnlimitedQuota, RequireScheduleMonopoly,
                  RequireSchedule
    <3>2. vb.mono = vb1.mono
      BY <1>4, <3>1
    <3> QED
      BY <1>1, <1>3, <3>1, <3>2 DEF Distinct
  <2> HIDE DEF unlimited
  <2> QED
    BY <2>1, <2>2
<1>9. \A vb \in monos : vb.size > 0
  BY DEF RequestOk, ValidBindings
<1>10. ClassifyVolumeBindings(vbs) = [mono |-> mono, unlimited |-> unlimited,
                                      normal |-> normal, mount |-> mount]
  BY DEF ClassifyVolumeBindings
<1>11. /\ monos \in SUBSET vbs /\ normals \in SUBSET vbs /\ mounts \in SUBSET vbs
       /\ unlimited \in SUBSET vbs
  OBVIOUS
<1> DEFINE classes == ClassifyVolumeBindings(vbs)
<1>16. Classified(vbs, classes)
  <2>1. /\ classes.mono = mono /\ classes.normal = normal /\ classes.mount = mount
        /\ classes.unlimited = unlimited
    <3> HIDE DEF mono, normal, mount, unlimited, classes
    <3> QED
      BY <1>10 DEF classes
  <2> HIDE DEF mono, normal, mount, classes
  <2> QED
    BY <1>5, <1>6, <1>7, <2>1 DEF Classified
<1> HIDE DEF monos, normals, mounts, unlimited, mono, normal, mount
<1>12. mono \in Seq(monos) /\ normal \in Seq(normals) /\ mount \in Seq(mounts)
  BY <1>5, <1>6, <1>7 DEF Lists
<1>13. /\ mono \in Seq(VolumeBinding) /\ normal \in Seq(VolumeBinding)
       /\ mount \in Seq(VolumeBinding)
  <2>1. /\ monos \in SUBSET VolumeBinding /\ normals \in SUBSET VolumeBinding
        /\ mounts \in SUBSET VolumeBinding
    BY <1>1, <1>11
  <2>2. \A S \in SUBSET VolumeBinding : Seq(S) \subseteq Seq(VolumeBinding)
    <3> TAKE S \in SUBSET VolumeBinding
    <3>1. \A s \in Seq(S) : s \in Seq(VolumeBinding)
      <4> TAKE s \in Seq(S)
      <4>1. Len(s) \in Nat /\ s \in [1..Len(s) -> VolumeBinding]
        OBVIOUS
      <4> QED
        BY <4>1
    <3> QED
      BY <3>1
  <2> QED
    BY <1>12, <2>1, <2>2
<1>14. mono = <<>> \/ Monopolies(mono)
  <2>1. \A k \in 1..Len(mono) : mono[k] \in monos
    BY <1>12, MembersAreIn
  <2> QED
    BY <1>9, <1>13, <2>1 DEF Monopolies
<1>15. ToSet(mono) \subseteq vbs /\ ToSet(normal) \subseteq vbs
  BY <1>11, <1>12, MembersAreIn
<1> QED
  BY <1>8, <1>10, <1>11, <1>13, <1>14, <1>15, <1>16 DEF ClassesOk

\* The plans of a request are plans
LEMMA VolumePlansAreOn ==
    ASSUME NEW D \in SUBSET Devices, NEW N \in SUBSET DiskNames, NEW h \in HostsOn(D, N),
           NEW vbs, RequestOk(vbs), NEW count \in Nat
    PROVE  VolumePlansOn(h, vbs, count) \in Seq(PlannedOn(D, N))
<1>1. CASE NeedSchedule(vbs)
  BY <1>1, ClassesAreOk, ClassesPlansAreOn DEF VolumePlansOn
<1>2. CASE ~NeedSchedule(vbs)
  BY <1>2, EmptyPlansStay, RepeatsAreOn DEF VolumePlansOn
<1> QED
  BY <1>1, <1>2

\* The host of a record
LEMMA NewHostIsOn ==
    ASSUME NEW D \in SUBSET Devices, NEW N \in SUBSET DiskNames, NEW M \in SUBSET DiskNames,
           NEW info, info.capacity \in CapacitiesOn(D, N), info.usage \in UsagesOn(M)
    PROVE  NewHost(info) \in HostsOn(D, N)
<1> DEFINE volumes == info.capacity.volumes
           free == [device \in D |-> volumes[device] - info.usage.volumes[device]]
           inUse == {device \in D : info.usage.volumes[device] # 0}
           used == RankedVolumes(free, inUse)
           unused == RankedVolumes(free, D \ inUse)
           io(name) == SubIO(info.capacity.disks[name].io, UsedOf(info.usage.disks, name))
           disks == [name \in N |-> [info.capacity.disks[name] EXCEPT !.io = io(name)]]
<1>1. /\ volumes \in [D -> Int] /\ DOMAIN volumes = D
      /\ info.capacity.disks \in [N -> DiskCapacity] /\ DOMAIN info.capacity.disks = N
      /\ info.usage.volumes \in [Devices -> Int] /\ info.usage.disks \in [M -> IO]
  BY DEF CapacitiesOn, UsagesOn
<1>2. NewHost(info) = [free |-> free, used |-> used, unused |-> unused, disks |-> disks]
  BY <1>1 DEF NewHost, RankedVolumes
<1>3. free \in [D -> Int]
  BY <1>1
<1>4. \A S \in SUBSET D : S \in SUBSET Devices /\ \A device \in S : free[device] \in Int
  BY <1>3
<1>5. inUse \in SUBSET D /\ D \ inUse \in SUBSET D
  OBVIOUS
<1> HIDE DEF free, inUse
<1>6. Lists(used, inUse)
  BY <1>4, <1>5, VolumesAreRanked
<1>7. Lists(unused, D \ inUse)
  BY <1>4, <1>5, VolumesAreRanked
<1> HIDE DEF used, unused
<1>8. used \in Seq(inUse) /\ unused \in Seq(D \ inUse)
  BY <1>6, <1>7 DEF Lists
<1>9. used \in Seq(D) /\ unused \in Seq(D)
  <2>1. Len(used) \in Nat /\ used \in [1..Len(used) -> D]
    BY <1>5, <1>8
  <2>2. Len(unused) \in Nat /\ unused \in [1..Len(unused) -> D]
    BY <1>5, <1>8
  <2> QED
    BY <2>1, <2>2
<1>10. disks \in [N -> DiskCapacity]
  <2>1. \A name \in N : info.capacity.disks[name] \in DiskCapacity
    BY <1>1
  <2>2. \A name \in N : io(name) \in IO
    <3> TAKE name \in N
    <3>1. info.capacity.disks[name].io \in IO
      BY <2>1 DEF DiskCapacity
    <3>2. UsedOf(info.usage.disks, name) \in IO
      BY <1>1 DEF UsedOf, NoIO, IO
    <3> QED
      BY <3>1, <3>2 DEF SubIO, IO
  <2> HIDE DEF io
  <2>3. \A name \in N : [info.capacity.disks[name] EXCEPT !.io = io(name)] \in DiskCapacity
    BY <2>1, <2>2 DEF DiskCapacity
  <2> QED
    BY <2>3
<1> HIDE DEF disks
<1> QED
  BY <1>2, <1>3, <1>9, <1>10 DEF HostsOn

-----------------------------------------------------------------------------
(* Planning again *)

\* What is left of a request is one
LEMMA LessIsRequest ==
    ASSUME NEW vbs, RequestOk(vbs), NEW S \in SUBSET vbs
    PROVE  RequestOk(S)
<1>1. S \in Bindings
  BY FS_Subset DEF RequestOk, Bindings
<1> QED
  BY <1>1 DEF RequestOk, Distinct, ValidBindings

\* Rates of bindings add up
LEMMA RatesAreInts ==
    ASSUME NEW of \in Bindings, NEW rate \in Rates
    PROVE  SumFunction([vb \in of |-> vb.io[rate]]) \in Int
<1> DEFINE g == [vb \in of |-> vb.io[rate]]
<1>1. IsFiniteSet(of) /\ of \in SUBSET VolumeBinding
  BY DEF Bindings
<1>2. \A vb \in of : vb.io[rate] \in Int
  <2> TAKE vb \in of
  <2>1. vb.io \in IO
    BY <1>1, BindingParts
  <2> QED
    BY <2>1 DEF IO
<1>3. g \in [of -> Int]
  BY <1>2
<1> HIDE DEF g
<1>4. SumFunction(g) \in Int
  BY <1>1, <1>3, SumIsInt
<1> QED
  BY <1>4 DEF g

\* A host to which something is given back is a host
LEMMA GivenBackStays ==
    ASSUME NEW D \in SUBSET Devices, NEW N, NEW h \in HostsOn(D, N), NEW E,
           NEW plan \in PlansOn(E), NEW vbs \in Bindings
    PROVE  GiveBack(h, plan, vbs) \in HostsOn(D, N)
<1> DEFINE PlacedOn(name) == {vb \in DOMAIN plan :
                                GetDiskByPath(h.disks, plan[vb].device) = name}
           Back(name) == [rate \in Rates |->
                            h.disks[name].io[rate]
                              + SumFunction([vb \in PlacedOn(name) |-> vb.io[rate]])
                              + SumFunction([vb \in MountedOn(h, vbs, name) |-> vb.io[rate]])]
           free == [device \in DOMAIN h.free |->
                      h.free[device] + PlannedVolumes(plan)[device]]
           disks == [name \in DOMAIN h.disks |-> [h.disks[name] EXCEPT !.io = Back(name)]]
<1>1. /\ h.free \in [D -> Int] /\ DOMAIN h.free = D
      /\ h.disks \in [N -> DiskCapacity] /\ DOMAIN h.disks = N
  BY DEF HostsOn
<1>2. GiveBack(h, plan, vbs) = [h EXCEPT !.free = free, !.disks = disks]
  BY DEF GiveBack
<1>3. free \in [D -> Int]
  <2> DEFINE planned == PlannedVolumes(plan)
  <2>1. planned \in [Devices -> Int]
    BY PlannedVolumesAreInts
  <2> HIDE DEF planned
  <2>2. [device \in D |-> h.free[device] + planned[device]] \in [D -> Int]
    BY <1>1, <2>1
  <2> QED
    BY <1>1, <2>2 DEF planned
<1>4. \A name : PlacedOn(name) \in Bindings
  <2> TAKE name
  <2>1. PlacedOn(name) \in SUBSET DOMAIN plan
    OBVIOUS
  <2> HIDE DEF PlacedOn
  <2> QED
    BY <2>1, PlanParts, FS_Subset DEF Bindings
<1>5. \A name : MountedOn(h, vbs, name) \in Bindings
  <2> TAKE name
  <2>1. MountedOn(h, vbs, name) \in SUBSET vbs
    BY DEF MountedOn
  <2> QED
    BY <2>1, FS_Subset DEF Bindings
<1>6. \A name \in N : h.disks[name] \in DiskCapacity /\ h.disks[name].io \in IO
  BY <1>1 DEF DiskCapacity
<1>7. \A name \in N : Back(name) \in IO
  <2> TAKE name \in N
  <2> DEFINE of == PlacedOn(name)
             of1 == MountedOn(h, vbs, name)
             a(rate) == SumFunction([vb \in of |-> vb.io[rate]])
             b(rate) == SumFunction([vb \in of1 |-> vb.io[rate]])
  <2>1. of \in Bindings /\ of1 \in Bindings
    BY <1>4, <1>5
  <2> HIDE DEF of, of1
  <2>2. \A rate \in Rates : a(rate) \in Int /\ b(rate) \in Int
    BY <2>1, RatesAreInts
  <2> HIDE DEF a, b
  <2>3. [rate \in Rates |-> h.disks[name].io[rate] + a(rate) + b(rate)] \in IO
    BY <1>6, <2>2 DEF IO
  <2>4. Back(name) = [rate \in Rates |-> h.disks[name].io[rate] + a(rate) + b(rate)]
    BY DEF a, b, of, of1
  <2> QED
    BY <2>3, <2>4
<1> HIDE DEF Back
<1>8. \A name \in N : [h.disks[name] EXCEPT !.io = Back(name)] \in DiskCapacity
  BY <1>6, <1>7 DEF DiskCapacity
<1>9. disks \in [N -> DiskCapacity]
  BY <1>1, <1>8
<1> HIDE DEF free, disks
<1> QED
  BY <1>2, <1>3, <1>9 DEF HostsOn

\* A binding kept on its device
LEMMA KeptOnStays ==
    ASSUME NEW D, NEW N \in SUBSET DiskNames, NEW a \in AttemptsOn(D, N),
           NEW req \in VolumeBinding, NEW device \in D
    PROVE  KeepOn(a, req, device) \in AttemptsOn(D, N)
<1> DEFINE taken == TakeSpace(a.host, device, req.size)
           host == DecreaseIOPSQuota(taken, device, req)
           quota == DiskQuota(a.host, device, req)
           disks == AddDisks(a.disks, quota)
           placed == Placing(EmptyPlan, req, device, req.size)
           plan == MergePlans(a.plan, placed)
           refused == \/ ~a.ok \/ req.size > a.host.free[device]
                      \/ (RequireIOPS(req) /\ ~Qualified(a.host, device, req))
<1>1. /\ a.host \in HostsOn(D, N) /\ a.plan \in PlansOn(D) /\ a.disks \in DiskPlansOn(N)
      /\ a.ok \in BOOLEAN
  BY DEF AttemptsOn
<1>2. CASE refused
  <2>1. KeepOn(a, req, device) = [a EXCEPT !.ok = FALSE]
    BY <1>2 DEF KeepOn
  <2> QED
    BY <2>1 DEF AttemptsOn
<1>3. CASE ~refused
  <2>1. KeepOn(a, req, device) = [a EXCEPT !.host = host, !.plan = plan, !.disks = disks]
    BY <1>3 DEF KeepOn, AttemptsOn
  <2>2. RequireIOPS(req) => Qualified(a.host, device, req)
    BY <1>3
  <2>3. req.size \in Int /\ req.io \in IO
    BY BindingParts
  <2>4. taken \in HostsOn(D, N) /\ taken.disks = a.host.disks
    BY <1>1, <2>3, TakenStays
  <2>5. RequireIOPS(req) => Qualified(taken, device, req)
    <3> HIDE DEF taken
    <3> QED
      BY <2>2, <2>4 DEF Qualified
  <2>6. host \in HostsOn(D, N) /\ quota \in DiskPlansOn(N)
    <3> HIDE DEF taken
    <3> QED
      BY <1>1, <2>2, <2>3, <2>4, <2>5, ChargesStay
  <2>7. placed \in PlansOn(D)
    BY <2>3, EmptyPlansStay, PlacedStays
  <2> HIDE DEF host, quota, placed
  <2>8. disks \in DiskPlansOn(N) /\ plan \in PlansOn(D)
    BY <1>1, <2>6, <2>7, AddedDisksStay, MergedPlansStay
  <2> HIDE DEF disks, plan
  <2> QED
    BY <1>1, <2>1, <2>6, <2>8 DEF AttemptsOn
<1> QED
  BY <1>2, <1>3

\* Bindings kept where they are
LEMMA KeptPlacesAreOn ==
    ASSUME NEW D, NEW N \in SUBSET DiskNames, NEW a \in AttemptsOn(D, N),
           NEW reqs \in Seq(VolumeBinding), NEW plan \in PlansOn(D)
    PROVE  KeepPlaces(a, reqs, plan) \in AttemptsOn(D, N)
<1> DEFINE V == AttemptsOn(D, N)
<1>1. ASSUME NEW b \in V, NEW k \in 1..Len(reqs)
      PROVE  KeepPlace(b, reqs[k], plan) \in V
  <2> DEFINE req == reqs[k]
             alike == Affinity(req, plan)
             vb == CHOOSE vb \in alike : TRUE
  <2>1. req \in VolumeBinding
    BY BindingList
  <2>2. CASE alike = {}
    BY <2>2 DEF KeepPlace
  <2>3. CASE alike # {}
    <3>1. vb \in alike /\ alike \in SUBSET DOMAIN plan
      BY <2>3 DEF Affinity
    <3>2. KeepPlace(b, req, plan) = KeepOn(b, req, plan[vb].device)
      BY <2>3 DEF KeepPlace
    <3> HIDE DEF vb, alike
    <3>3. plan[vb].device \in D
      BY <3>1, PlanParts
    <3> QED
      BY <2>1, <3>2, <3>3, KeptOnStays
  <2> QED
    BY <2>2, <2>3
<1>2. Len(reqs) \in Nat /\ DOMAIN reqs = 1..Len(reqs)
  BY BindingList
<1> HIDE DEF V
<1>3. a \in V
  BY DEF V
<1>4. KeepPlaces(a, reqs, plan) \in V
  BY <1>1, <1>2, <1>3, KeptPlacesStay
<1> QED
  BY <1>4 DEF V

\* A group kept where one of it is
LEMMA KeptGroupIsOn ==
    ASSUME NEW D, NEW N \in SUBSET DiskNames, NEW a \in AttemptsOn(D, N), NEW mono,
           Monopolies(mono) \/ mono = <<>>, NEW plan \in PlansOn(D)
    PROVE  KeepGroup(a, mono, plan) \in AttemptsOn(D, N)
<1> DEFINE stay == UNION {Affinity(mono[i], plan) : i \in DOMAIN mono}
           room == SumFunction([vb \in {vb1 \in DOMAIN plan : RequireScheduleMonopoly(vb1)} |->
                                  plan[vb].size])
           device == plan[CHOOSE vb \in stay : TRUE].device
           m == GetMonoPlan(a.host, mono, device)
           disks == AddDisks(a.disks, m.disks)
           merged == MergePlans(a.plan, m.plan)
           short == room < TotalSize(ToSet(mono))
           no == [a EXCEPT !.ok = FALSE]
           yes == [a EXCEPT !.host = m.host, !.plan = merged, !.disks = disks]
<1>1. /\ a.host \in HostsOn(D, N) /\ a.plan \in PlansOn(D) /\ a.disks \in DiskPlansOn(N)
      /\ a.ok \in BOOLEAN
  BY DEF AttemptsOn
<1>2. CASE ~a.ok \/ stay = {}
  BY <1>2 DEF KeepGroup
<1>3. CASE a.ok /\ stay # {}
  <2>1. KeepGroup(a, mono, plan) = IF short THEN no ELSE IF ~m.ok THEN no ELSE yes
    BY <1>3 DEF KeepGroup
  <2>2. no \in AttemptsOn(D, N)
    BY DEF AttemptsOn
  <2>3. mono # <<>>
    BY <1>3
  <2>4. device \in D
    <3>1. stay \in SUBSET DOMAIN plan
      BY DEF Affinity
    <3> HIDE DEF stay
    <3>2. (CHOOSE vb \in stay : TRUE) \in stay
      BY <1>3
    <3> QED
      BY <3>1, <3>2, PlanParts
  <2> HIDE DEF device, short, no
  <2>5. m.ok => /\ m.host \in HostsOn(D, N) /\ m.plan \in PlansOn(D)
                /\ m.disks \in DiskPlansOn(N)
    BY <1>1, <2>3, <2>4, GroupIsPlanned
  <2> HIDE DEF m
  <2>6. m.ok => disks \in DiskPlansOn(N) /\ merged \in PlansOn(D)
    BY <1>1, <2>5, AddedDisksStay, MergedPlansStay
  <2> HIDE DEF disks, merged
  <2>7. m.ok => yes \in AttemptsOn(D, N)
    BY <1>1, <2>5, <2>6 DEF AttemptsOn
  <2> HIDE DEF yes
  <2> QED
    BY <2>1, <2>2, <2>7
<1> QED
  BY <1>2, <1>3

\* Everything that can stay stays
LEMMA KeptAllIsOn ==
    ASSUME NEW D \in SUBSET Devices, NEW N \in SUBSET DiskNames, NEW a \in AttemptsOn(D, N),
           NEW classes, ClassesOk(classes), NEW plan \in PlansOn(D)
    PROVE  KeepAll(a, classes, plan) \in AttemptsOn(D, N)
<1> DEFINE b == GetMountDiskPlan(a, classes.mount)
           c == KeepPlaces(b, classes.normal, plan)
           d == KeepGroup(c, classes.mono, plan)
           rest == Ranked(classes.unlimited, CompareBinding)
<1>1. b \in AttemptsOn(D, N)
  BY MountPassStays DEF ClassesOk
<1> HIDE DEF b
<1>2. c \in AttemptsOn(D, N)
  BY <1>1, KeptPlacesAreOn DEF ClassesOk
<1> HIDE DEF c
<1>3. d \in AttemptsOn(D, N)
  BY <1>2, KeptGroupIsOn DEF ClassesOk
<1> HIDE DEF d
<1>4. rest \in Seq(VolumeBinding)
  <2>1. Lists(rest, classes.unlimited)
    BY BindingsAreRanked DEF ClassesOk
  <2>2. rest \in Seq(classes.unlimited) /\ classes.unlimited \in SUBSET VolumeBinding
    BY <2>1 DEF Lists, ClassesOk
  <2> HIDE DEF rest
  <2>3. Len(rest) \in Nat /\ rest \in [1..Len(rest) -> VolumeBinding]
    BY <2>2
  <2> QED
    BY <2>3
<1> HIDE DEF rest
<1>5. KeepPlaces(d, rest, plan) \in AttemptsOn(D, N)
  BY <1>3, <1>4, KeptPlacesAreOn
<1> QED
  BY <1>5 DEF KeepAll, b, c, d, rest

\* What a planner answers: yes or no, and a plan
AnswersOn(D, N) == [ok : BOOLEAN, plan : PlansOn(D), disks : DiskPlansOn(N)]

\* The rest is planned as well
LEMMA RestIsPlanned ==
    ASSUME NEW D \in SUBSET Devices, NEW N \in SUBSET DiskNames, NEW a \in AttemptsOn(D, N),
           NEW rest, RequestOk(rest)
    PROVE  PlanRest(a, rest) \in AnswersOn(D, N)
<1> DEFINE plans == VolumePlansOn(a.host, rest, 1)
           plan == MergePlans(a.plan, plans[1].plan)
           disks == AddDisks(a.disks, plans[1].disks)
<1>1. a.host \in HostsOn(D, N) /\ a.plan \in PlansOn(D) /\ a.disks \in DiskPlansOn(N)
  BY DEF AttemptsOn
<1>2. Refused \in AnswersOn(D, N)
  BY EmptyPlansStay DEF Refused, AnswersOn
<1>3. [ok |-> TRUE, plan |-> a.plan, disks |-> a.disks] \in AnswersOn(D, N)
  BY <1>1 DEF AnswersOn
<1>4. PlanRest(a, rest) = IF ~a.ok THEN Refused
                          ELSE IF rest = {} THEN [ok |-> TRUE, plan |-> a.plan, disks |-> a.disks]
                          ELSE IF plans = <<>> THEN Refused
                          ELSE [ok |-> TRUE, plan |-> plan, disks |-> disks]
  BY DEF PlanRest
<1>5. plans \in Seq(PlannedOn(D, N))
  BY <1>1, VolumePlansAreOn
<1> HIDE DEF plans
<1>6. plans # <<>> => [ok |-> TRUE, plan |-> plan, disks |-> disks] \in AnswersOn(D, N)
  <2> SUFFICES ASSUME plans # <<>>
               PROVE  [ok |-> TRUE, plan |-> plan, disks |-> disks] \in AnswersOn(D, N)
    OBVIOUS
  <2>1. Len(plans) \in Nat \ {0}
    BY <1>5, EmptySeq
  <2>2. plans[1] \in PlannedOn(D, N)
    <3>1. 1 \in 1..Len(plans) /\ DOMAIN plans = 1..Len(plans)
      BY <1>5, <2>1, MembersAreIn
    <3> QED
      BY <1>5, <3>1, MembersAreIn
  <2>3. plans[1].plan \in PlansOn(D) /\ plans[1].disks \in DiskPlansOn(N)
    BY <2>2 DEF PlannedOn
  <2>4. plan \in PlansOn(D) /\ disks \in DiskPlansOn(N)
    BY <1>1, <2>3, MergedPlansStay, AddedDisksStay
  <2> HIDE DEF plan, disks
  <2> QED
    BY <2>4 DEF AnswersOn
<1> HIDE DEF plan, disks
<1> QED
  BY <1>2, <1>3, <1>4, <1>6

\* Only a plan on volumes the host has is given back to it
LEMMA GivenBackIsOn ==
    ASSUME NEW D, NEW N, NEW h \in HostsOn(D, N), NEW E, NEW plan \in PlansOn(E), NEW vbs,
           CanGiveBack(h, plan, vbs)
    PROVE  plan \in PlansOn(D)
<1>1. DOMAIN h.free = D
  BY DEF HostsOn
<1>2. \A vb \in DOMAIN plan : plan[vb].device \in D
  BY <1>1 DEF CanGiveBack
<1>3. PICK old \in Bindings : plan \in [old -> [device : E, size : Int]]
  BY DEF PlansOn
<1>4. \A vb \in old : plan[vb] \in [device : D, size : Int]
  BY <1>2, <1>3
<1>5. plan \in [old -> [device : D, size : Int]]
  BY <1>3, <1>4
<1> QED
  BY <1>3, <1>5 DEF PlansOn

\* A workload is planned again
LEMMA AffinityPlanIsOn ==
    ASSUME NEW D \in SUBSET Devices, NEW N \in SUBSET DiskNames, NEW h \in HostsOn(D, N),
           NEW vbs, RequestOk(vbs), NEW E, NEW plan \in PlansOn(E), NEW old \in Bindings
    PROVE  AffinityPlanOn(h, ClassifyVolumeBindings(vbs), plan, old) \in AnswersOn(D, N)
<1> DEFINE classes == ClassifyVolumeBindings(vbs)
           back == GiveBack(h, plan, old)
           kept == KeepAll(Attempt(back), classes, plan)
           rest == NonAffinity(classes, plan)
<1>1. /\ ClassesOk(classes) /\ ToSet(classes.normal) \subseteq vbs
      /\ ToSet(classes.mono) \subseteq vbs /\ classes.unlimited \subseteq vbs
  BY ClassesAreOk
<1> HIDE DEF classes
<1>2. CASE ~CanGiveBack(h, plan, old)
  <2>1. AffinityPlanOn(h, classes, plan, old) = Refused
    BY <1>2 DEF AffinityPlanOn
  <2>2. Refused \in AnswersOn(D, N)
    BY EmptyPlansStay DEF Refused, AnswersOn
  <2> QED
    BY <2>1, <2>2 DEF classes
<1>3. CASE CanGiveBack(h, plan, old)
  <2>1. plan \in PlansOn(D)
    BY <1>3, GivenBackIsOn
  <2>2. back \in HostsOn(D, N)
    BY GivenBackStays
  <2> HIDE DEF back
  <2>3. Attempt(back) \in AttemptsOn(D, N)
    BY <2>2, EmptyPlansStay
  <2>4. kept \in AttemptsOn(D, N)
    BY <1>1, <2>1, <2>3, KeptAllIsOn
  <2> HIDE DEF kept
  <2>5. rest \in SUBSET vbs
    BY <1>1 DEF NonAffinity
  <2> HIDE DEF rest
  <2>6. RequestOk(rest)
    BY <2>5, LessIsRequest
  <2>7. PlanRest(kept, rest) \in AnswersOn(D, N)
    BY <2>4, <2>6, RestIsPlanned
  <2>8. AffinityPlanOn(h, classes, plan, old) = PlanRest(kept, rest)
    BY <1>3 DEF AffinityPlanOn, kept, rest, back
  <2> QED
    BY <2>7, <2>8 DEF classes
<1> QED
  BY <1>2, <1>3

-----------------------------------------------------------------------------
(* The scheduler as the verbs call it *)

\* Whatever record a node has and whatever valid bindings a workload asks for,
\* GetVolumePlans places them on volumes of that node, each with an integer for
\* a size, and charges rates to disks of that node.
THEOREM PlansAreOnTheNode ==
    ASSUME NEW D \in SUBSET Devices, NEW N \in SUBSET DiskNames, NEW M \in SUBSET DiskNames,
           NEW info, info.capacity \in CapacitiesOn(D, N), info.usage \in UsagesOn(M),
           NEW vbs, RequestOk(vbs), NEW count \in Nat
    PROVE  GetVolumePlans(info, vbs, count) \in Seq(PlannedOn(D, N))
BY NewHostIsOn, VolumePlansAreOn DEF GetVolumePlans

\* Whatever a workload had, on this node as it is now or on volumes and disks
\* that are gone, GetAffinityPlan refuses or places all of it on volumes of the
\* node and charges disks of the node.
THEOREM ReplansAreOnTheNode ==
    ASSUME NEW D \in SUBSET Devices, NEW N \in SUBSET DiskNames, NEW M \in SUBSET DiskNames,
           NEW info, info.capacity \in CapacitiesOn(D, N), info.usage \in UsagesOn(M),
           NEW vbs, RequestOk(vbs), NEW E, NEW plan \in PlansOn(E), NEW old \in Bindings
    PROVE  GetAffinityPlan(info, vbs, plan, old) \in AnswersOn(D, N)
<1>1. CASE NeedSchedule(vbs)
  BY <1>1, NewHostIsOn, AffinityPlanIsOn DEF GetAffinityPlan
<1>2. CASE ~NeedSchedule(vbs)
  <2>1. GetAffinityPlan(info, vbs, plan, old) = [ok |-> TRUE, plan |-> EmptyPlan,
                                                 disks |-> NoDisks]
    BY <1>2 DEF GetAffinityPlan, Refused
  <2> QED
    BY <2>1, EmptyPlansStay DEF AnswersOn
<1> QED
  BY <1>1, <1>2

-----------------------------------------------------------------------------
(* Records *)

-----------------------------------------------------------------------------
(* The loop over the workloads *)

\* One step of the loop over the workloads
Take(usage, usage1, plus) == IF plus THEN AddUsage(usage, usage1) ELSE SubUsage(usage, usage1)

\* What the loop makes of each set of positions up to N
Loops(it, base, taken, N, plus) ==
    \A s \in SUBSET (1..N) :
        it[s] = IF s = {} THEN base
                ELSE Take(it[s \ {LastOf(s)}], taken[LastOf(s)], plus)

\* The loop over the workloads satisfies its recursion
LEMMA TakeAllUnfolds ==
    ASSUME NEW base, NEW taken, NEW N \in Nat, DOMAIN taken = 1..N, NEW plus \in BOOLEAN
    PROVE  \E it : TakeAll(base, taken, plus) = it[1..N] /\ Loops(it, base, taken, N, plus)
<1> DEFINE S == 1..N
           Turn(f, s) == IF s = {} THEN base
                         ELSE Take(f[s \ {LastOf(s)}], taken[LastOf(s)], plus)
           Small(n) == {s \in SUBSET S : Cardinality(s) <= n}
           Good(n) == \E f : f = [s \in Small(n) |-> Turn(f, s)]
<1>1. IsFiniteSet(S) /\ Cardinality(S) = N
  BY FS_Interval
<1>2. \A s \in SUBSET S : IsFiniteSet(s) /\ Cardinality(s) \in Nat /\ Cardinality(s) <= N
  BY <1>1, FS_Subset, FS_CardinalityType
<1>3. \A s \in SUBSET S : s # {} => LastOf(s) \in s
  BY LastIsThere
<1>4. \A s \in SUBSET S : s # {} => /\ s \ {LastOf(s)} \in SUBSET S
                                    /\ Cardinality(s \ {LastOf(s)}) = Cardinality(s) - 1
  BY <1>2, <1>3, FS_RemoveElement
<1>5. Good(0)
  <2>1. \A s \in Small(0) : s = {}
    BY <1>2, FS_EmptySet
  <2> DEFINE f == [s \in Small(0) |-> base]
  <2>2. f = [s \in Small(0) |-> Turn(f, s)]
    BY <2>1
  <2> QED
    BY <2>2
<1>6. ASSUME NEW n \in Nat \ {0}, Good(n - 1)
      PROVE  Good(n)
  <2>1. PICK f : f = [s \in Small(n - 1) |-> Turn(f, s)]
    BY <1>6
  <2> DEFINE h == [s \in Small(n) |-> Turn(f, s)]
  <2>2. \A s \in Small(n) : s # {} => s \ {LastOf(s)} \in Small(n - 1)
    BY <1>2, <1>4
  <2>3. Small(n - 1) \subseteq Small(n)
    BY <1>2
  <2>4. \A s \in Small(n - 1) : h[s] = f[s]
    BY <2>1, <2>3
  <2>5. \A s \in Small(n) : Turn(f, s) = Turn(h, s)
    BY <2>2, <2>4
  <2>6. h = [s \in Small(n) |-> Turn(h, s)]
    BY <2>5
  <2> QED
    BY <2>6
<1>7. \A n \in Nat : Good(n)
  <2> DEFINE Bad == {n \in Nat : ~Good(n)}
  <2>1. SUFFICES ASSUME Bad # {}
                 PROVE  FALSE
    OBVIOUS
  <2>2. PICK n \in Bad : \A m \in Bad : n <= m
    BY <2>1, LeastNatural
  <2>3. n # 0
    BY <1>5
  <2>4. n - 1 \in Nat /\ ~(n <= n - 1) /\ n \in Nat \ {0}
    BY <2>3
  <2>5. Good(n - 1)
    BY <2>2, <2>4
  <2> QED
    BY <2>4, <2>5, <1>6
<1>8. Small(N) = SUBSET S
  BY <1>2
<1>9. PICK f : f = [s \in SUBSET S |-> Turn(f, s)]
  BY <1>7, <1>8
<1> DEFINE Body(h) == [s \in SUBSET S |-> Turn(h, s)]
           it == CHOOSE h : h = Body(h)
<1>10. it = Body(it)
  BY <1>9
<1>11. TakeAll(base, taken, plus) = it[S]
  BY DEF TakeAll, Take, FoldLeft, MapThenFoldSet, LastOf, Max
<1> HIDE DEF it
<1>12. \A s \in SUBSET S : it[s] = Turn(it, s)
  BY <1>10
<1> QED
  BY <1>11, <1>12 DEF Loops

-----------------------------------------------------------------------------
(* Types *)

\* Rates of a disk are integers, whether it is used or not
LEMMA UsedOfIsIO ==
    ASSUME NEW names, NEW disks \in [names -> IO], NEW name
    PROVE  UsedOf(disks, name) \in IO
BY DEF UsedOf, NoIO, IO

\* Usages add up to a usage
LEMMA TakeIsUsage ==
    ASSUME NEW usage, IsUsage(usage), NEW usage1, IsUsage(usage1), NEW plus \in BOOLEAN
    PROVE  IsUsage(Take(usage, usage1, plus))
<1>1. PICK names \in SUBSET DiskNames : usage \in UsagesOn(names)
  BY DEF IsUsage
<1>2. PICK names1 \in SUBSET DiskNames : usage1 \in UsagesOn(names1)
  BY DEF IsUsage
<1> DEFINE both == names \cup names1
<1>3. \A name : UsedOf(usage.disks, name) \in IO /\ UsedOf(usage1.disks, name) \in IO
  BY <1>1, <1>2, UsedOfIsIO DEF UsagesOn
<1>4. /\ DOMAIN usage.disks = names /\ DOMAIN usage1.disks = names1
      /\ usage.storage \in Int /\ usage1.storage \in Int
      /\ usage.volumes \in [Devices -> Int] /\ usage1.volumes \in [Devices -> Int]
  BY <1>1, <1>2 DEF UsagesOn
<1>5. AddDisks(usage.disks, usage1.disks) \in [both -> IO]
  <2>1. \A name : AddIO(UsedOf(usage.disks, name), UsedOf(usage1.disks, name)) \in IO
    BY <1>3 DEF AddIO, IO
  <2> QED
    BY <1>4, <2>1 DEF AddDisks
<1>6. SubDisks(usage.disks, usage1.disks) \in [both -> IO]
  <2>1. \A name : SubIO(UsedOf(usage.disks, name), UsedOf(usage1.disks, name)) \in IO
    BY <1>3 DEF SubIO, IO
  <2> QED
    BY <1>4, <2>1 DEF SubDisks
<1>7. AddUsage(usage, usage1) \in UsagesOn(both)
  BY <1>4, <1>5 DEF AddUsage, UsagesOn
<1>8. SubUsage(usage, usage1) \in UsagesOn(both)
  BY <1>4, <1>6 DEF SubUsage, UsagesOn
<1> QED
  BY <1>7, <1>8 DEF Take, IsUsage

\* And what any number of workloads take is a usage
LEMMA TakeAllIsUsage ==
    ASSUME NEW base, IsUsage(base), NEW taken, NEW N \in Nat, DOMAIN taken = 1..N,
           \A i \in 1..N : IsUsage(taken[i]), NEW plus \in BOOLEAN
    PROVE  IsUsage(TakeAll(base, taken, plus))
<1>0. PICK it : TakeAll(base, taken, plus) = it[1..N] /\ Loops(it, base, taken, N, plus)
  BY TakeAllUnfolds
<1>1. \A s \in SUBSET (1..N) :
         it[s] = IF s = {} THEN base
                 ELSE Take(it[s \ {LastOf(s)}], taken[LastOf(s)], plus)
  BY <1>0 DEF Loops
<1>2. \A s \in SUBSET (1..N) : IsFiniteSet(s) /\ Cardinality(s) \in Nat
  <2>1. IsFiniteSet(1..N)
    BY FS_Interval
  <2> QED
    BY <2>1, FS_Subset, FS_CardinalityType
<1>3. \A s \in SUBSET (1..N) : IsUsage(it[s])
  <2> DEFINE Bad == {n \in Nat : \E s \in SUBSET (1..N) :
                        Cardinality(s) = n /\ ~IsUsage(it[s])}
  <2>1. SUFFICES ASSUME Bad # {}
                 PROVE  FALSE
    BY <1>2
  <2>2. PICK n \in Bad : \A m \in Bad : n <= m
    BY <2>1, LeastNatural
  <2>3. PICK s \in SUBSET (1..N) : Cardinality(s) = n /\ ~IsUsage(it[s])
    BY <2>2
  <2>4. s # {}
    BY <1>1, <2>3
  <2>5. LastOf(s) \in s
    BY <2>4, LastIsThere
  <2> DEFINE r == s \ {LastOf(s)}
  <2>6. r \in SUBSET (1..N) /\ Cardinality(r) = Cardinality(s) - 1 /\ Cardinality(r) \in Nat
    BY <1>2, <2>5, FS_RemoveElement
  <2>7. it[s] = Take(it[r], taken[LastOf(s)], plus)
    BY <1>1, <2>4
  <2>8. IsUsage(taken[LastOf(s)])
    BY <2>5
  <2> HIDE DEF r
  <2>9. IsUsage(it[r])
    BY <1>2, <2>2, <2>3, <2>6
  <2> QED
    BY <2>3, <2>7, <2>8, <2>9, TakeIsUsage
<1> QED
  BY <1>0, <1>3

\* The loop over one workload is a step of it
LEMMA TakeAllOfOne ==
    ASSUME NEW base, NEW usage, NEW plus \in BOOLEAN
    PROVE  TakeAll(base, <<usage>>, plus) = Take(base, usage, plus)
<1> DEFINE taken == <<usage>>
<1>1. DOMAIN taken = 1..1 /\ taken[1] = usage
  OBVIOUS
<1> HIDE DEF taken
<1>2. PICK it : TakeAll(base, taken, plus) = it[1..1] /\ Loops(it, base, taken, 1, plus)
  BY <1>1, TakeAllUnfolds
<1>3. 1..1 # {} /\ LastOf(1..1) \in 1..1
  BY LastIsThere
<1>4. LastOf(1..1) = 1 /\ (1..1) \ {1} = {}
  BY <1>3
<1>5. it[{}] = base
  BY <1>2 DEF Loops
<1>6. it[1..1] = Take(it[(1..1) \ {1}], taken[1], plus)
  BY <1>2, <1>3, <1>4 DEF Loops
<1> QED
  BY <1>1, <1>2, <1>4, <1>5, <1>6 DEF taken

\* A node without a record
LEMMA EmptyInfoIsInfo ==
    /\ IsInfo(EmptyInfo) /\ ValidInfo(EmptyInfo)
    /\ DOMAIN EmptyInfo.usage.disks \subseteq DOMAIN EmptyInfo.capacity.disks
    /\ IsCapacity(NoCapacity) /\ IsUsage(NoUsage)
<1>1. NoCapacity \in CapacitiesOn({}, {})
  BY DEF NoCapacity, CapacitiesOn
<1>2. NoUsage \in UsagesOn({})
  BY DEF NoUsage, UsagesOn, NoDisks
<1>3. IsCapacity(NoCapacity) /\ IsUsage(NoUsage)
  BY <1>1, <1>2 DEF IsCapacity, IsUsage
<1>4. ValidInfo(EmptyInfo)
  BY DEF EmptyInfo, NoCapacity, NoUsage, NoDisks, ValidInfo, ValidVolumes, ValidStorage, ValidDisks
<1> QED
  BY <1>3, <1>4 DEF EmptyInfo, IsInfo, NoCapacity, NoUsage, NoDisks

\* What Put stores: valid, typed, and without usage of disks that are not there
LEMMA PutStores ==
    ASSUME NEW info, NEW next, IsInfo(next), Put(info, next).ok,
           NEW record, record = Put(info, next).info
    PROVE  /\ ValidInfo(next)
           /\ record = Normalized(next)
           /\ record.capacity = next.capacity
           /\ record.usage.volumes = next.usage.volumes
           /\ record.usage.storage = next.usage.storage
           /\ DOMAIN record.usage.disks = DOMAIN next.usage.disks \cap DOMAIN next.capacity.disks
           /\ \A name \in DOMAIN record.usage.disks :
                 record.usage.disks[name] = next.usage.disks[name]
           /\ IsInfo(record) /\ ValidInfo(record)
           /\ DOMAIN record.usage.disks \subseteq DOMAIN record.capacity.disks
<1>1. ValidInfo(next) /\ Put(info, next).info = Normalized(next)
  BY DEF Put, Failure
<1> DEFINE stored == Normalized(next)
<1>2. PICK names \in SUBSET DiskNames : next.usage \in UsagesOn(names)
  BY DEF IsInfo, IsUsage
<1> DEFINE there == DOMAIN next.usage.disks \cap DOMAIN next.capacity.disks
<1>3. next = [capacity |-> next.capacity, usage |-> next.usage]
      /\ next.usage = [volumes |-> next.usage.volumes, disks |-> next.usage.disks,
                       storage |-> next.usage.storage]
      /\ next.usage.disks \in [names -> IO]
  BY <1>2 DEF IsInfo, UsagesOn
<1>4. stored = [capacity |-> next.capacity,
                usage |-> [volumes |-> next.usage.volumes,
                           disks |-> Restrict(next.usage.disks, there),
                           storage |-> next.usage.storage]]
  BY <1>3 DEF Normalized
<1>5. /\ Restrict(next.usage.disks, there) \in [there -> IO]
      /\ there \in SUBSET DiskNames
      /\ \A name \in there : Restrict(next.usage.disks, there)[name] = next.usage.disks[name]
  BY <1>3 DEF Restrict
<1> DEFINE kept == Restrict(next.usage.disks, there)
<1>6. stored.usage \in UsagesOn(there)
  <2>1. next.usage.volumes \in [Devices -> Int] /\ next.usage.storage \in Int
    BY <1>2 DEF UsagesOn
  <2>2. kept \in [there -> IO]
    BY <1>5
  <2>3. stored.usage = [volumes |-> next.usage.volumes, disks |-> kept,
                        storage |-> next.usage.storage]
    BY <1>4
  <2> HIDE DEF stored, there, kept
  <2> QED
    BY <2>1, <2>2, <2>3 DEF UsagesOn
<1>7. IsInfo(stored)
  BY <1>4, <1>5, <1>6 DEF IsInfo, IsUsage
<1>8. DOMAIN kept = there
  BY <1>5
<1> HIDE DEF kept
<1>9. ValidInfo(stored)
  <2>1. ValidVolumes(stored) /\ ValidStorage(stored)
    BY <1>1, <1>4 DEF ValidInfo, ValidVolumes, ValidStorage
  <2>2. ValidDisks(stored)
    <3>1. /\ stored.capacity.disks = next.capacity.disks /\ stored.usage.disks = kept
          /\ \A name \in there : kept[name] = next.usage.disks[name]
      <4>1. \A name \in there : kept[name] = next.usage.disks[name]
        BY <1>5 DEF kept
      <4>2. stored = [capacity |-> next.capacity,
                      usage |-> [volumes |-> next.usage.volumes, disks |-> kept,
                                 storage |-> next.usage.storage]]
        BY <1>4 DEF kept
      <4> HIDE DEF stored, there
      <4> QED
        BY <4>1, <4>2
    <3>2. there = DOMAIN next.usage.disks \cap DOMAIN next.capacity.disks
      OBVIOUS
    <3>3. ValidDisks(next)
      BY <1>1 DEF ValidInfo
    <3> HIDE DEF stored, there
    <3> QED
      BY <1>8, <3>1, <3>2, <3>3 DEF ValidDisks
  <2> QED
    BY <2>1, <2>2 DEF ValidInfo
<1> QED
  BY <1>1, <1>4, <1>7, <1>8, <1>9 DEF kept, Restrict

-----------------------------------------------------------------------------
(* Capacities *)

\* What a capacity can be changed by
Changes(change) ==
    \E devices \in SUBSET Devices, names \in SUBSET DiskNames :
        /\ change.volumes \in [devices -> Int]
        /\ change.disks \in [names -> DiskCapacity]
        /\ change.storage \in Int

\* A capacity can be what another is changed by
LEMMA CapacityChanges ==
    ASSUME NEW capacity, IsCapacity(capacity)
    PROVE  Changes(capacity)
BY DEF IsCapacity, Changes, CapacitiesOn

\* Sizes and quotas are integers, of volumes and disks that are not there, too
LEMMA ChangeHasInts ==
    ASSUME NEW change, Changes(change)
    PROVE  /\ \A device : SizeOf(change.volumes, device) \in Int
           /\ \A name : QuotaOf(change.disks, name) \in IO
           /\ \A name : \A rate \in Rates : QuotaOf(change.disks, name)[rate] \in Int
           /\ DOMAIN change.volumes \subseteq Devices /\ DOMAIN change.disks \subseteq DiskNames
<1>1. PICK devices \in SUBSET Devices, names \in SUBSET DiskNames :
         /\ change.volumes \in [devices -> Int]
         /\ change.disks \in [names -> DiskCapacity]
  BY DEF Changes
<1>2. \A device : SizeOf(change.volumes, device) \in Int
  BY <1>1 DEF SizeOf
<1>3. \A name : QuotaOf(change.disks, name) \in IO
  <2>1. NoIO \in IO
    BY DEF NoIO, IO
  <2>2. \A name \in names : change.disks[name].io \in IO
    BY <1>1 DEF DiskCapacity
  <2> QED
    BY <1>1, <2>1, <2>2 DEF QuotaOf
<1> QED
  BY <1>1, <1>2, <1>3 DEF IO

\* Add and Sub, of a capacity and a change, give a capacity
LEMMA ChangedIsCapacity ==
    ASSUME NEW capacity, IsCapacity(capacity), NEW change, Changes(change), NEW plus \in {1, -1}
    PROVE  IsCapacity(Changed(capacity, change, plus))
<1>1. Changes(capacity)
  BY CapacityChanges
<1>2. PICK devices \in SUBSET Devices, names \in SUBSET DiskNames :
         /\ capacity.volumes \in [devices -> Int]
         /\ capacity.disks \in [names -> DiskCapacity]
         /\ capacity.storage \in Int
  BY <1>1 DEF Changes
<1>3. PICK devices1 \in SUBSET Devices, names1 \in SUBSET DiskNames :
         /\ change.volumes \in [devices1 -> Int]
         /\ change.disks \in [names1 -> DiskCapacity]
         /\ change.storage \in Int
  BY DEF Changes
<1> DEFINE new == Changed(capacity, change, plus)
           alld == devices \cup devices1
           alln == names \cup names1
<1> DEFINE Plus(x, y) == x + plus * y
<1>0. \A x, y \in Int : Plus(x, y) \in Int
  OBVIOUS
<1>4. new.volumes \in [alld -> Int]
  <2>1. new.volumes = [device \in alld |-> Plus(SizeOf(capacity.volumes, device),
                                                SizeOf(change.volumes, device))]
    BY <1>2, <1>3 DEF Changed
  <2> HIDE DEF Plus
  <2>2. \A device : Plus(SizeOf(capacity.volumes, device), SizeOf(change.volumes, device)) \in Int
    BY <1>0, <1>1, ChangeHasInts
  <2> QED
    BY <2>1, <2>2
<1>5. new.disks \in [alln -> DiskCapacity]
  <2> DEFINE mounts(name) ==
               IF name \in names /\ (name \notin names1 \/ change.disks[name].mounts = {})
               THEN capacity.disks[name].mounts ELSE change.disks[name].mounts
             io(name) == [rate \in Rates |-> Plus(QuotaOf(capacity.disks, name)[rate],
                                                  QuotaOf(change.disks, name)[rate])]
  <2>1. new.disks = [name \in alln |-> [mounts |-> mounts(name), io |-> io(name)]]
    BY <1>2, <1>3 DEF Changed
  <2>2. \A name \in alln : mounts(name) \in SUBSET Paths
    BY <1>2, <1>3 DEF DiskCapacity
  <2>3. \A name : io(name) \in IO
    <3> HIDE DEF Plus
    <3>1. \A name : \A rate \in Rates : Plus(QuotaOf(capacity.disks, name)[rate],
                                             QuotaOf(change.disks, name)[rate]) \in Int
      BY <1>0, <1>1, ChangeHasInts
    <3> QED
      BY <3>1 DEF IO
  <2> HIDE DEF mounts, io
  <2>4. \A name \in alln : [mounts |-> mounts(name), io |-> io(name)] \in DiskCapacity
    BY <2>2, <2>3 DEF DiskCapacity
  <2> QED
    BY <2>1, <2>4
<1>6. new.storage \in Int
  BY <1>2, <1>3 DEF Changed
<1>7. new = [volumes |-> new.volumes, disks |-> new.disks, storage |-> new.storage]
  BY DEF Changed
<1>8. alld \in SUBSET Devices /\ alln \in SUBSET DiskNames
  OBVIOUS
<1> HIDE DEF new, alld, alln
<1>9. new \in CapacitiesOn(alld, alln)
  BY <1>4, <1>5, <1>6, <1>7 DEF CapacitiesOn
<1> QED
  BY <1>8, <1>9 DEF IsCapacity, new

\* The volumes of a node add up to an integer
LEMMA TotalIsInt ==
    ASSUME NEW devices \in SUBSET Devices, NEW volumes \in [devices -> Int]
    PROVE  TotalOf(volumes) \in Int
<1>1. IsFiniteSet(devices)
  BY PathsAssumption, FS_Subset
<1>2. DOMAIN volumes = devices
  OBVIOUS
<1> QED
  BY <1>1, <1>2, SumIsInt DEF TotalOf

\* The parts of a request, where they are set
LEMMA RequestParts ==
    ASSUME NEW req, IsCapacityRequest(req)
    PROVE  \E devices \in SUBSET Devices, names \in SUBSET DiskNames :
              /\ req.volumes = Unset \/ req.volumes \in [devices -> Nat]
              /\ req.disks = Unset \/ req.disks \in [names -> DiskCapacity]
              /\ req.storage = Unset \/ req.storage \in Nat
              /\ req.form = "stored" => /\ req.volumes \in [devices -> Nat]
                                        /\ req.disks \in [names -> DiskCapacity]
                                        /\ req.storage \in Nat
              /\ req.rm \in SUBSET DiskNames
<1>1. PICK devices \in SUBSET Devices, names \in SUBSET DiskNames :
         req \in CapacityRequestsOn(devices, names)
  BY DEF IsCapacityRequest
<1>2. /\ req.volumes = Unset \/ req.volumes \in [devices -> Nat]
      /\ req.disks = Unset \/ req.disks \in [names -> DiskCapacity]
      /\ req.storage = Unset \/ req.storage \in Nat
      /\ req.rm \in SUBSET DiskNames
  BY <1>1 DEF CapacityRequestsOn
<1>3. req.form = "stored" => /\ req.volumes \in [devices -> Nat]
                             /\ req.disks \in [names -> DiskCapacity]
                             /\ req.storage \in Nat
  BY <1>1 DEF CapacityRequestsOn
<1> QED
  BY <1>2, <1>3

\* A request, parsed or with the keys left out filled in, is a capacity
LEMMA ParsedIsCapacity ==
    ASSUME NEW req, IsCapacityRequest(req), NEW capacity, IsCapacity(capacity)
    PROVE  /\ IsCapacity(Parsed(req))
           /\ IsCapacity(SkipEmpty(req, capacity))
           /\ req.form = "stored" => Changes(req)
<1>1. PICK devices \in SUBSET Devices, names \in SUBSET DiskNames :
         /\ req.volumes = Unset \/ req.volumes \in [devices -> Nat]
         /\ req.disks = Unset \/ req.disks \in [names -> DiskCapacity]
         /\ req.storage = Unset \/ req.storage \in Nat
         /\ req.form = "stored" => /\ req.volumes \in [devices -> Nat]
                                   /\ req.disks \in [names -> DiskCapacity]
                                   /\ req.storage \in Nat
  BY RequestParts
<1>2. PICK devices0 \in SUBSET Devices, names0 \in SUBSET DiskNames :
         capacity \in CapacitiesOn(devices0, names0)
  BY DEF IsCapacity
<1>3. /\ capacity.volumes \in [devices0 -> Int] /\ capacity.disks \in [names0 -> DiskCapacity]
      /\ capacity.storage \in Int
  BY <1>2 DEF CapacitiesOn
<1>4. [device \in {} |-> 0] \in [{} -> Int] /\ [name \in {} |-> NoIO] \in [{} -> DiskCapacity]
  OBVIOUS
<1>5. PICK devices1 \in SUBSET Devices : Or(req.volumes, NoCapacity.volumes) \in [devices1 -> Int]
  <2>1. CASE req.volumes = Unset
    <3>1. Or(req.volumes, NoCapacity.volumes) \in [{} -> Int] /\ {} \in SUBSET Devices
      BY <1>4, <2>1 DEF Or, NoCapacity
    <3> QED
      BY <3>1
  <2>2. CASE req.volumes # Unset
    BY <1>1, <2>2 DEF Or
  <2> QED
    BY <2>1, <2>2
<1>6. PICK devices2 \in SUBSET Devices : Or(req.volumes, capacity.volumes) \in [devices2 -> Int]
  BY <1>1, <1>3 DEF Or
<1>7. PICK names1 \in SUBSET DiskNames : Or(req.disks, NoCapacity.disks) \in [names1 -> DiskCapacity]
  <2>1. CASE req.disks = Unset
    <3>1. Or(req.disks, NoCapacity.disks) \in [{} -> DiskCapacity] /\ {} \in SUBSET DiskNames
      BY <1>4, <2>1 DEF Or, NoCapacity
    <3> QED
      BY <3>1
  <2>2. CASE req.disks # Unset
    BY <1>1, <2>2 DEF Or
  <2> QED
    BY <2>1, <2>2
<1>8. PICK names2 \in SUBSET DiskNames : Or(req.disks, capacity.disks) \in [names2 -> DiskCapacity]
  BY <1>1, <1>3 DEF Or
<1>9. Parsed(req).storage \in Int
  <2>1. TotalOf(Or(req.volumes, NoCapacity.volumes)) \in Int
    BY <1>5, TotalIsInt
  <2>2. Or(req.storage, 0) \in Int
    BY <1>1 DEF Or
  <2> QED
    BY <2>1, <2>2 DEF Parsed
<1>10. Parsed(req) \in CapacitiesOn(devices1, names1)
  BY <1>5, <1>7, <1>9 DEF Parsed, CapacitiesOn
<1>11. SkipEmpty(req, capacity).storage \in Int
  <2>1. TotalOf(capacity.volumes) \in Int
    BY <1>3, TotalIsInt
  <2>2. req.volumes # Unset => TotalOf(req.volumes) \in Int
    <3>1. req.volumes # Unset => req.volumes \in [devices -> Int]
      BY <1>1
    <3> QED
      BY <3>1, TotalIsInt
  <2> QED
    BY <1>3, <1>9, <2>1, <2>2 DEF SkipEmpty
<1>12. SkipEmpty(req, capacity) \in CapacitiesOn(devices2, names2)
  BY <1>6, <1>8, <1>11 DEF SkipEmpty, CapacitiesOn
<1>13. req.form = "stored" => Changes(req)
  <2>1. req.form = "stored" => req.volumes \in [devices -> Int] /\ req.storage \in Int
    BY <1>1
  <2> QED
    BY <1>1, <2>1 DEF Changes
<1> QED
  BY <1>10, <1>12, <1>13 DEF IsCapacity

\* Taking disks away, or volumes without a size, leaves a capacity
LEMMA LessIsCapacity ==
    ASSUME NEW capacity, IsCapacity(capacity)
    PROVE  /\ IsCapacity(RemoveEmpty(capacity))
           /\ \A req : IsCapacity(WithoutDisks(capacity, req))
<1>1. PICK devices \in SUBSET Devices, names \in SUBSET DiskNames :
         capacity \in CapacitiesOn(devices, names)
  BY DEF IsCapacity
<1>2. /\ capacity.volumes \in [devices -> Int] /\ capacity.disks \in [names -> DiskCapacity]
      /\ capacity.storage \in Int
      /\ capacity = [volumes |-> capacity.volumes, disks |-> capacity.disks,
                     storage |-> capacity.storage]
  BY <1>1 DEF CapacitiesOn
<1> DEFINE kept == {device \in DOMAIN capacity.volumes : capacity.volumes[device] # 0}
<1>3. Restrict(capacity.volumes, kept) \in [kept -> Int] /\ kept \in SUBSET Devices
  BY <1>2 DEF Restrict
<1>4. RemoveEmpty(capacity) = [volumes |-> Restrict(capacity.volumes, kept),
                               disks |-> capacity.disks, storage |-> capacity.storage]
  BY <1>2 DEF RemoveEmpty
<1>5. RemoveEmpty(capacity) \in CapacitiesOn(kept, names)
  BY <1>2, <1>3, <1>4 DEF CapacitiesOn
<1>6. ASSUME NEW req
      PROVE  IsCapacity(WithoutDisks(capacity, req))
  <2> DEFINE left == DOMAIN capacity.disks \ req.rm
  <2>1. Restrict(capacity.disks, left) \in [left -> DiskCapacity] /\ left \in SUBSET DiskNames
    BY <1>2 DEF Restrict
  <2>2. WithoutDisks(capacity, req) = [volumes |-> capacity.volumes,
                disks |-> Restrict(capacity.disks, left), storage |-> capacity.storage]
    BY <1>2 DEF WithoutDisks
  <2>3. WithoutDisks(capacity, req) \in CapacitiesOn(devices, left)
    BY <1>2, <2>1, <2>2 DEF CapacitiesOn
  <2> QED
    BY <2>1, <2>3 DEF IsCapacity
<1> QED
  BY <1>3, <1>5, <1>6 DEF IsCapacity

-----------------------------------------------------------------------------
(* What the verbs that write leave *)

\* An argument of a set that is left out or is what it should be
Given(resource, req) ==
    /\ resource = Nil \/ IsCapacity(resource)
    /\ req = Nil \/ IsCapacityRequest(req)

\* Whatever is asked for can be applied to a capacity
LEMMA AskedChanges ==
    ASSUME NEW origin, IsCapacity(origin), NEW resource, NEW req, Given(resource, req),
           NEW delta \in BOOLEAN, NEW incr \in BOOLEAN
    PROVE  Changes(Asked(origin, resource, req, delta, incr))
<1>1. CASE req = Nil
  BY <1>1, EmptyInfoIsInfo, CapacityChanges DEF Asked, Given
<1>2. CASE req # Nil
  <2>1. IsCapacityRequest(req)
    BY <1>2 DEF Given
  <2>2. CASE IsRollback(resource, req, delta, incr)
    BY <1>2, <2>1, <2>2, EmptyInfoIsInfo, ParsedIsCapacity DEF Asked, IsRollback
  <2>3. CASE ~IsRollback(resource, req, delta, incr)
    <3>1. Changes(Parsed(req)) /\ Changes(SkipEmpty(req, origin))
      BY <2>1, ParsedIsCapacity, CapacityChanges
    <3> QED
      BY <1>2, <2>3, <3>1 DEF Asked
  <2> QED
    BY <2>2, <2>3
<1> QED
  BY <1>1, <1>2

\* What a set of a capacity leaves is a capacity
LEMMA NextCapacityIsCapacity ==
    ASSUME NEW capacity, IsCapacity(capacity), NEW resource, NEW req, Given(resource, req),
           NEW delta \in BOOLEAN, NEW incr \in BOOLEAN
    PROVE  IsCapacity(NextCapacity(capacity, resource, req, delta, incr))
<1> DEFINE origin == IF req = Nil THEN capacity ELSE WithoutDisks(capacity, req)
           change == Asked(origin, resource, req, delta, incr)
           plus   == IF incr \/ ~delta THEN 1 ELSE -1
           base   == IF delta THEN origin ELSE NoCapacity
           next   == Changed(base, change, plus)
<1>1. IsCapacity(origin)
  BY LessIsCapacity
<1>2. IsCapacity(base)
  BY <1>1, EmptyInfoIsInfo
<1>3. Changes(change)
  <2> HIDE DEF origin
  <2> QED
    BY <1>1, AskedChanges
<1>4. plus \in {1, -1}
  OBVIOUS
<1>5. NextCapacity(capacity, resource, req, delta, incr) = IF delta THEN RemoveEmpty(next) ELSE next
  BY DEF NextCapacity, Rewritten
<1>6. IsCapacity(next)
  <2> HIDE DEF base, change, plus
  <2> QED
    BY <1>2, <1>3, <1>4, ChangedIsCapacity
<1> HIDE DEF next
<1> QED
  BY <1>5, <1>6, LessIsCapacity

\* What an operator types as usage is a usage
LEMMA AskedUsageIsUsage ==
    ASSUME NEW req, IsCapacityRequest(req)
    PROVE  IsUsage(AskedUsage(Parsed(req)))
<1> DEFINE parsed == Parsed(req)
<1>1. IsCapacity(parsed)
  BY EmptyInfoIsInfo, ParsedIsCapacity
<1> HIDE DEF parsed
<1>2. PICK devices \in SUBSET Devices, names \in SUBSET DiskNames :
         parsed \in CapacitiesOn(devices, names)
  BY <1>1 DEF IsCapacity
<1>3. /\ parsed.disks \in [names -> DiskCapacity] /\ parsed.storage \in Int
      /\ \A device \in Devices : SizeOf(parsed.volumes, device) \in Int
  BY <1>1, <1>2, CapacityChanges, ChangeHasInts DEF CapacitiesOn
<1>4. [name \in names |-> parsed.disks[name].io] \in [names -> IO]
  BY <1>3 DEF DiskCapacity
<1>5. AskedUsage(parsed) \in UsagesOn(names)
  BY <1>3, <1>4 DEF AskedUsage, UsagesOn
<1> QED
  BY <1>5 DEF IsUsage, parsed

\* What workloads take: a sequence of usages
AreTaken(taken) ==
    /\ Len(taken) \in Nat /\ DOMAIN taken = 1..Len(taken)
    /\ \A i \in DOMAIN taken : IsUsage(taken[i])

\* Whatever a set of a usage is given, it charges a sequence of usages
LEMMA ChargedIsTaken ==
    ASSUME NEW resource, resource = Nil \/ IsUsage(resource),
           NEW req, req = Nil \/ IsCapacityRequest(req), NEW taken, AreTaken(taken)
    PROVE  AreTaken(Charged(resource, req, taken))
<1>1. \A usage : IsUsage(usage) => AreTaken(<<usage>>)
  BY DEF AreTaken
<1> QED
  BY <1>1, AskedUsageIsUsage DEF Charged

\* What a set of a usage leaves is a usage
LEMMA NextUsageIsUsage ==
    ASSUME NEW usage, IsUsage(usage), NEW resource, resource = Nil \/ IsUsage(resource),
           NEW req, req = Nil \/ IsCapacityRequest(req), NEW taken, AreTaken(taken),
           NEW delta \in BOOLEAN, NEW incr \in BOOLEAN
    PROVE  IsUsage(NextUsage(usage, resource, req, taken, delta, incr))
<1> DEFINE charged == Charged(resource, req, taken)
<1>1. AreTaken(charged)
  BY ChargedIsTaken
<1> HIDE DEF charged
<1>2. IsUsage(IF delta THEN usage ELSE NoUsage)
  BY EmptyInfoIsInfo
<1>3. IsUsage(TakeAll(IF delta THEN usage ELSE NoUsage, charged, incr \/ ~delta))
  BY <1>1, <1>2, TakeAllIsUsage DEF AreTaken
<1> QED
  BY <1>3 DEF NextUsage, charged

\* A record as it is stored
Sound(info) ==
    /\ IsInfo(info) /\ ValidInfo(info)
    /\ DOMAIN info.usage.disks \subseteq DOMAIN info.capacity.disks

\* Put stores what is sound, whatever it is asked to store, or refuses
LEMMA PutIsSound ==
    ASSUME NEW info, NEW next, IsInfo(next), NEW result, result = Put(info, next), result.ok
    PROVE  Sound(result.info)
BY PutStores DEF Sound

\* A set of a capacity that succeeds stores what is sound, and takes no disk
\* away by delta
LEMMA CapacitySetStores ==
    ASSUME NEW info, Sound(info), NEW resource, NEW req, Given(resource, req),
           NEW delta \in BOOLEAN, NEW incr \in BOOLEAN, NEW set,
           set = SetNodeResourceCapacity(info, resource, req, delta, incr), set.ok
    PROVE  /\ Sound(set.info)
           /\ set = Put(info, [info EXCEPT !.capacity =
                        NextCapacity(@, resource, req, delta, incr)])
           /\ req # Nil /\ delta => req.rm = {}
<1> DEFINE capacity == NextCapacity(info.capacity, resource, req, delta, incr)
           next == [info EXCEPT !.capacity = NextCapacity(@, resource, req, delta, incr)]
<1>1. set = Put(info, next) /\ (req # Nil /\ delta => req.rm = {})
  BY DEF SetNodeResourceCapacity, Failure
<1>2. IsCapacity(capacity)
  BY NextCapacityIsCapacity DEF Sound, IsInfo
<1>3. next = [capacity |-> capacity, usage |-> info.usage]
  BY DEF Sound, IsInfo
<1>4. IsInfo(next)
  BY <1>2, <1>3 DEF Sound, IsInfo
<1> HIDE DEF next, capacity
<1>5. Sound(set.info)
  BY <1>1, <1>4, PutStores DEF Sound
<1> QED
  BY <1>1, <1>5 DEF next

\* A set of a usage that succeeds stores what is sound
LEMMA SetUsageStores ==
    ASSUME NEW info, Sound(info), NEW resource, resource = Nil \/ IsUsage(resource),
           NEW req, req = Nil \/ IsCapacityRequest(req), NEW taken, AreTaken(taken),
           NEW delta \in BOOLEAN, NEW incr \in BOOLEAN,
           SetNodeResourceUsage(info, resource, req, taken, delta, incr).ok
    PROVE  Sound(SetNodeResourceUsage(info, resource, req, taken, delta, incr).info)
<1> DEFINE usage == NextUsage(info.usage, resource, req, taken, delta, incr)
           next  == [info EXCEPT !.usage = NextUsage(@, resource, req, taken, delta, incr)]
<1>1. IsUsage(usage)
  BY NextUsageIsUsage DEF Sound, IsInfo
<1>2. next = [capacity |-> info.capacity, usage |-> usage]
  BY DEF Sound, IsInfo
<1>3. IsInfo(next)
  BY <1>1, <1>2 DEF Sound, IsInfo
<1>4. SetNodeResourceUsage(info, resource, req, taken, delta, incr) = Put(info, next)
  BY DEF SetNodeResourceUsage
<1> HIDE DEF next
<1> QED
  BY <1>3, <1>4, PutIsSound

\* Validate takes away only usage that is none
LEMMA PutKeepsUsage ==
    ASSUME NEW info, NEW next, IsInfo(next), Put(info, next).ok,
           NEW record, record = Put(info, next).info
    PROVE  record.capacity = next.capacity /\ Alike(record.usage, next.usage)
<1>1. /\ ValidInfo(next) /\ record.capacity = next.capacity
      /\ record.usage.volumes = next.usage.volumes
      /\ record.usage.storage = next.usage.storage
      /\ DOMAIN record.usage.disks = DOMAIN next.usage.disks \cap DOMAIN next.capacity.disks
      /\ \A name \in DOMAIN record.usage.disks :
            record.usage.disks[name] = next.usage.disks[name]
  BY PutStores
<1> DEFINE used  == next.usage.disks
           disks == next.capacity.disks
           there == DOMAIN used \cap DOMAIN disks
<1>2. \A name \in DOMAIN used \ DOMAIN disks : used[name] = NoIO
  BY <1>1 DEF ValidInfo, ValidDisks
<1>3. \A name : UsedOf(record.usage.disks, name) = UsedOf(used, name)
  <2>1. /\ DOMAIN record.usage.disks = there
        /\ \A name \in there : record.usage.disks[name] = used[name]
    BY <1>1
  <2> HIDE DEF used, disks
  <2> QED
    BY <1>2, <2>1 DEF UsedOf
<1> QED
  BY <1>1, <1>3 DEF Alike

\* A node is added with a sound record of no usage
LEMMA AddStores ==
    ASSUME NEW req, IsCapacityRequest(req), NEW total \in Nat, AddNode(req, total).ok
    PROVE  Sound(AddNode(req, total).info) /\ Alike(AddNode(req, total).info.usage, NoUsage)
<1> DEFINE parsed  == Parsed(req)
           storage == IF parsed.storage = 0 THEN (total * 8) \div 10 ELSE parsed.storage
           next    == [EmptyInfo EXCEPT !.capacity = [parsed EXCEPT !.storage = storage]]
<1>1. PICK devices \in SUBSET Devices, names \in SUBSET DiskNames :
         parsed \in CapacitiesOn(devices, names)
  BY EmptyInfoIsInfo, ParsedIsCapacity DEF IsCapacity
<1>2. storage \in Int
  BY <1>1 DEF CapacitiesOn
<1>3. AddNode(req, total) = Put(EmptyInfo, next)
  BY DEF AddNode
<1> HIDE DEF parsed, storage
<1>4. [parsed EXCEPT !.storage = storage] \in CapacitiesOn(devices, names)
  BY <1>1, <1>2 DEF CapacitiesOn
<1>5. next = [capacity |-> [parsed EXCEPT !.storage = storage], usage |-> NoUsage]
  BY DEF EmptyInfo
<1>6. IsInfo(next) /\ next.usage = NoUsage
  BY <1>4, <1>5, EmptyInfoIsInfo DEF IsInfo, IsCapacity
<1> HIDE DEF next
<1>7. PICK record : record = Put(EmptyInfo, next).info
  OBVIOUS
<1>8. Put(EmptyInfo, next).ok => Alike(record.usage, next.usage)
  BY <1>6, <1>7, PutKeepsUsage
<1> QED
  BY <1>3, <1>6, <1>7, <1>8, PutIsSound

\* A record set as a whole and accepted is sound
LEMMA SetInfoStores ==
    ASSUME NEW info, NEW info1, IsInfo(info1),
           SetNodeResourceInfo(info, info1.capacity, info1.usage).ok
    PROVE  Sound(SetNodeResourceInfo(info, info1.capacity, info1.usage).info)
<1> DEFINE capacity == [info1.capacity EXCEPT !.storage = @ + TotalOf(info1.capacity.volumes)]
           next     == [capacity |-> capacity, usage |-> info1.usage]
<1>1. PICK devices \in SUBSET Devices, names \in SUBSET DiskNames :
         info1.capacity \in CapacitiesOn(devices, names)
  BY DEF IsInfo, IsCapacity
<1>2. TotalOf(info1.capacity.volumes) \in Int
  BY <1>1, TotalIsInt DEF CapacitiesOn
<1>3. capacity \in CapacitiesOn(devices, names)
  BY <1>1, <1>2 DEF CapacitiesOn
<1>4. SetNodeResourceInfo(info, info1.capacity, info1.usage) = Put(info, next)
  BY DEF SetNodeResourceInfo
<1> HIDE DEF capacity
<1>5. IsInfo(next)
  BY <1>3 DEF IsInfo, IsCapacity
<1> HIDE DEF next
<1> QED
  BY <1>4, <1>5, PutIsSound

\* A repair leaves a sound record sound
LEMMA FixStores ==
    ASSUME NEW info, Sound(info), NEW taken, AreTaken(taken), FixNodeResource(info, taken).ok
    PROVE  Sound(FixNodeResource(info, taken).info)
<1> DEFINE sum  == TakeAll(NoUsage, taken, TRUE)
           next == [info EXCEPT !.usage = sum]
<1>1. IsUsage(sum)
  BY EmptyInfoIsInfo, TakeAllIsUsage DEF AreTaken
<1>2. \/ FixNodeResource(info, taken) = [ok |-> TRUE, info |-> info]
      \/ FixNodeResource(info, taken) = Put(info, next)
  BY DEF FixNodeResource
<1> HIDE DEF sum
<1>3. IsInfo(next)
  BY <1>1 DEF Sound, IsInfo
<1> HIDE DEF next
<1>4. CASE FixNodeResource(info, taken) = [ok |-> TRUE, info |-> info]
  BY <1>4
<1>5. CASE FixNodeResource(info, taken) = Put(info, next)
  BY <1>3, <1>5, PutIsSound
<1> QED
  BY <1>2, <1>4, <1>5

-----------------------------------------------------------------------------
(* Snapshots *)

\* A capacity added to nothing is that capacity: its sizes, quotas and mounts
LEMMA AddedToNothing ==
    ASSUME NEW capacity, IsCapacity(capacity), NEW change, change.volumes = capacity.volumes,
           change.disks = capacity.disks, change.storage = capacity.storage
    PROVE  Changed(NoCapacity, change, 1) = capacity
<1>1. PICK devices \in SUBSET Devices, names \in SUBSET DiskNames :
         capacity \in CapacitiesOn(devices, names)
  BY DEF IsCapacity
<1> DEFINE new     == Changed(NoCapacity, change, 1)
           volumes == capacity.volumes
           disks   == capacity.disks
<1>2. /\ volumes \in [devices -> Int] /\ disks \in [names -> DiskCapacity]
      /\ capacity.storage \in Int
      /\ capacity = [volumes |-> volumes, disks |-> disks, storage |-> capacity.storage]
  BY <1>1 DEF CapacitiesOn
<1>3. new = [volumes |-> [device \in devices |-> 0 + 1 * volumes[device]],
             disks |-> [name \in names |->
                          [mounts |-> disks[name].mounts,
                           io |-> [rate \in Rates |-> NoIO[rate] + 1 * disks[name].io[rate]]]],
             storage |-> 0 + 1 * capacity.storage]
  <2>1. {} \cup devices = devices /\ {} \cup names = names
    OBVIOUS
  <2>2. /\ DOMAIN change.volumes = devices /\ DOMAIN change.disks = names
        /\ DOMAIN NoCapacity.volumes = {} /\ DOMAIN NoCapacity.disks = {}
        /\ NoCapacity.storage = 0
        /\ \A device : SizeOf(NoCapacity.volumes, device) = 0
        /\ \A device \in devices : SizeOf(change.volumes, device) = volumes[device]
        /\ \A name : QuotaOf(NoCapacity.disks, name) = NoIO
        /\ \A name \in names : QuotaOf(change.disks, name) = disks[name].io
    BY <1>2 DEF NoCapacity, SizeOf, QuotaOf
  <2> HIDE DEF volumes, disks
  <2> QED
    BY <2>1, <2>2 DEF Changed, volumes, disks
<1>4. [device \in devices |-> 0 + 1 * volumes[device]] = volumes
  BY <1>2
<1>5. \A name \in names : [rate \in Rates |-> NoIO[rate] + 1 * disks[name].io[rate]] = disks[name].io
  <2>1. \A name \in names : disks[name].io \in [Rates -> Int]
    BY <1>2 DEF DiskCapacity, IO
  <2>2. \A rate \in Rates : NoIO[rate] = 0
    BY DEF NoIO
  <2> HIDE DEF disks
  <2> QED
    BY <2>1, <2>2
<1>6. \A name \in names : [mounts |-> disks[name].mounts, io |-> disks[name].io] = disks[name]
  BY <1>2 DEF DiskCapacity
<1>7. [name \in names |-> [mounts |-> disks[name].mounts,
          io |-> [rate \in Rates |-> NoIO[rate] + 1 * disks[name].io[rate]]]] = disks
  <2>1. \A name \in names :
           [mounts |-> disks[name].mounts,
            io |-> [rate \in Rates |-> NoIO[rate] + 1 * disks[name].io[rate]]] = disks[name]
    BY <1>5, <1>6
  <2>2. disks = [name \in names |-> disks[name]]
    BY <1>2
  <2> HIDE DEF disks
  <2> QED
    BY <2>1, <2>2
<1> QED
  BY <1>2, <1>3, <1>4, <1>7

\* A usage added to none is that usage
LEMMA TakenFromNothing ==
    ASSUME NEW usage, IsUsage(usage)
    PROVE  Take(NoUsage, usage, TRUE) = usage
<1>1. PICK names \in SUBSET DiskNames : usage \in UsagesOn(names)
  BY DEF IsUsage
<1> DEFINE disks == usage.disks
<1>2. /\ usage.volumes \in [Devices -> Int] /\ disks \in [names -> IO] /\ usage.storage \in Int
      /\ usage = [volumes |-> usage.volumes, disks |-> disks, storage |-> usage.storage]
  BY <1>1 DEF UsagesOn
<1>3. AddDisks(NoDisks, disks) = disks
  <2>1. \A name \in names : AddIO(NoIO, disks[name]) = disks[name]
    <3>1. \A name \in names : disks[name] \in [Rates -> Int]
      BY <1>2 DEF IO
    <3> HIDE DEF disks
    <3> QED
      BY <3>1 DEF AddIO, NoIO
  <2>2. AddDisks(NoDisks, disks) = [name \in names |-> AddIO(NoIO, disks[name])]
    <3>1. DOMAIN disks = names /\ DOMAIN NoDisks = {} /\ {} \cup names = names
      BY <1>2 DEF NoDisks
    <3> HIDE DEF disks
    <3> QED
      BY <3>1 DEF AddDisks, UsedOf
  <2>3. disks = [name \in names |-> disks[name]]
    BY <1>2
  <2> HIDE DEF disks
  <2> QED
    BY <2>1, <2>2, <2>3
<1>4. [device \in Devices |-> NoUsage.volumes[device] + usage.volumes[device]] = usage.volumes
  BY <1>2 DEF NoUsage
<1> QED
  BY <1>2, <1>3, <1>4 DEF Take, AddUsage, NoUsage

\* What is stored has no negative sizes, so that a snapshot can be asked for
LEMMA SnapshotIsRequest ==
    ASSUME NEW info, Sound(info)
    PROVE  Stored(info.capacity) # Nil /\ info.usage # Nil
<1>1. PICK devices \in SUBSET Devices, names \in SUBSET DiskNames :
         info.capacity \in CapacitiesOn(devices, names)
  BY DEF Sound, IsInfo, IsCapacity
<1>2. PICK used \in SUBSET DiskNames : info.usage \in UsagesOn(used)
  BY DEF Sound, IsInfo, IsUsage
<1>3. /\ info.capacity.volumes \in [devices -> Int] /\ info.capacity.disks \in [names -> DiskCapacity]
      /\ info.capacity.storage \in Int
  BY <1>1 DEF CapacitiesOn
<1>4. info.capacity.volumes \in [devices -> Nat] /\ info.capacity.storage \in Nat
  <2>1. \A device \in devices : info.capacity.volumes[device] \in Nat
    BY <1>3 DEF Sound, ValidInfo, ValidVolumes
  <2>2. info.capacity.storage \in Nat
    BY <1>3 DEF Sound, ValidInfo, ValidStorage
  <2> QED
    BY <1>3, <2>1, <2>2
<1>5. Stored(info.capacity) \in CapacityRequestsOn(devices, names)
  BY <1>3, <1>4 DEF Stored, CapacityRequestsOn
<1> QED
  BY <1>2, <1>5, LeftOutAssumption

\* A stored record put back as it is is accepted and stays what it is
LEMMA SoundIsKept ==
    ASSUME NEW info, Sound(info)
    PROVE  Put(info, info) = [ok |-> TRUE, info |-> info]
<1>1. PICK names \in SUBSET DiskNames : info.usage \in UsagesOn(names)
  BY DEF Sound, IsInfo, IsUsage
<1> DEFINE used == info.usage.disks
<1>2. /\ info = [capacity |-> info.capacity, usage |-> info.usage]
      /\ info.usage = [volumes |-> info.usage.volumes, disks |-> used,
                       storage |-> info.usage.storage]
      /\ used \in [names -> IO]
  BY <1>1 DEF Sound, IsInfo, UsagesOn
<1>3. Restrict(used, DOMAIN used \cap DOMAIN info.capacity.disks) = used
  <2>1. DOMAIN used \cap DOMAIN info.capacity.disks = names /\ used = [name \in names |-> used[name]]
    BY <1>2 DEF Sound
  <2> HIDE DEF used
  <2> QED
    BY <2>1 DEF Restrict
<1>4. Normalized(info) = info
  BY <1>2, <1>3 DEF Normalized
<1> QED
  BY <1>4 DEF Put, Sound

\* A snapshot put back is stored as it is, if it passes, next to what is there
\* of the other half of the record
LEMMA SnapshotsAreReplayed ==
    ASSUME NEW now, Sound(now), NEW info, Sound(info)
    PROVE  /\ RestoreCapacity(now, info.capacity)
                = Put(now, [capacity |-> info.capacity, usage |-> now.usage])
           /\ RestoreUsage(now, info.usage)
                = Put(now, [capacity |-> now.capacity, usage |-> info.usage])
<1>1. IsInfo(now) /\ now = [capacity |-> now.capacity, usage |-> now.usage]
  BY DEF Sound, IsInfo
<1>2. IsCapacity(info.capacity) /\ IsUsage(info.usage)
  BY DEF Sound, IsInfo
<1>3. Stored(info.capacity) # Nil /\ info.usage # Nil
  BY SnapshotIsRequest
<1>4. NextCapacity(now.capacity, Nil, Stored(info.capacity), FALSE, FALSE) = info.capacity
  <2>1. Changed(NoCapacity, Stored(info.capacity), 1) = info.capacity
    BY <1>2, AddedToNothing DEF Stored
  <2>2. Stored(info.capacity).form = "stored"
    BY DEF Stored
  <2> QED
    BY <1>3, <2>1, <2>2 DEF NextCapacity, Rewritten, Asked, IsRollback
<1>5. NextUsage(now.usage, info.usage, Nil, <<>>, FALSE, FALSE) = info.usage
  <2>1. TakeAll(NoUsage, <<info.usage>>, TRUE) = info.usage
    BY <1>2, TakeAllOfOne, TakenFromNothing
  <2> QED
    BY <1>3, <2>1 DEF NextUsage, Charged
<1> DEFINE next  == [capacity |-> info.capacity, usage |-> now.usage]
           next1 == [capacity |-> now.capacity, usage |-> info.usage]
<1>6. RestoreCapacity(now, info.capacity) = Put(now, next)
  <2>1. \A x : [now EXCEPT !.capacity = x] = [capacity |-> x, usage |-> now.usage]
    BY <1>1
  <2>2. RestoreCapacity(now, info.capacity) = Put(now, [now EXCEPT !.capacity =
           NextCapacity(now.capacity, Nil, Stored(info.capacity), FALSE, FALSE)])
    BY DEF RestoreCapacity, SetNodeResourceCapacity
  <2> QED
    BY <1>4, <2>1, <2>2
<1>7. RestoreUsage(now, info.usage) = Put(now, next1)
  <2>1. \A x : [now EXCEPT !.usage = x] = [capacity |-> now.capacity, usage |-> x]
    BY <1>1
  <2>2. RestoreUsage(now, info.usage) = Put(now, [now EXCEPT !.usage =
           NextUsage(now.usage, info.usage, Nil, <<>>, FALSE, FALSE)])
    BY DEF RestoreUsage, SetNodeResourceUsage
  <2> QED
    BY <1>5, <2>1, <2>2
<1> QED
  BY <1>6, <1>7

-----------------------------------------------------------------------------
(* Workloads *)

\* Bindings that are merged are bindings, no two of them alike
LEMMA MergedBindingsStay ==
    ASSUME NEW vbs1 \in Bindings, Distinct(vbs1), NEW vbs2 \in Bindings, Distinct(vbs2)
    PROVE  MergeVolumeBindings(vbs1, vbs2) \in Bindings
           /\ Distinct(MergeVolumeBindings(vbs1, vbs2))
<1> DEFINE Same(vb) == {vb1 \in vbs1 : GetMapKey(vb1) = GetMapKey(vb)}
           alone == {vb \in vbs1 : {vb1 \in vbs2 : GetMapKey(vb1) = GetMapKey(vb)} = {}}
           To(vb) == IF Same(vb) = {} THEN vb ELSE AddQuota(vb, CHOOSE vb1 \in Same(vb) : TRUE)
           g == [vb \in vbs2 |-> To(vb)]
           image == {g[vb] : vb \in vbs2}
           merged == MergeVolumeBindings(vbs1, vbs2)
<1>1. /\ vbs1 \in SUBSET VolumeBinding /\ IsFiniteSet(vbs1)
      /\ vbs2 \in SUBSET VolumeBinding /\ IsFiniteSet(vbs2)
  BY DEF Bindings
<1>2. \A vb \in vbs2 : Same(vb) = {} \/ Same(vb) = {CHOOSE vb1 \in Same(vb) : TRUE}
  BY DEF Distinct
<1>3. \A vb \in vbs2 : To(vb) \in VolumeBinding /\ GetMapKey(To(vb)) = GetMapKey(vb)
  <2> TAKE vb \in vbs2
  <2>1. vb \in VolumeBinding
    BY <1>1
  <2>2. CASE Same(vb) = {}
    BY <2>1, <2>2
  <2>3. CASE Same(vb) # {}
    <3>1. PICK vb1 \in Same(vb) : To(vb) = AddQuota(vb, vb1)
      BY <2>3
    <3>2. vb1 \in VolumeBinding
      BY <1>1
    <3> HIDE DEF To
    <3>3. AddQuota(vb, vb1) \in VolumeBinding
      BY <2>1, <3>2, QuotasAddUp
    <3>4. GetMapKey(AddQuota(vb, vb1)) = GetMapKey(vb)
      BY <2>1 DEF AddQuota, GetMapKey, VolumeBinding
    <3> QED
      BY <3>1, <3>3, <3>4
  <2> QED
    BY <2>2, <2>3
<1>4. AddedBindings(vbs1, vbs2) = alone \cup image
  <2> DEFINE Fresh(vb) == IF Same(vb) = {} THEN {vb}
                          ELSE {AddQuota(vb, vb1) : vb1 \in Same(vb)}
  <2>1. \A vb \in vbs2 : Fresh(vb) = {To(vb)}
    BY <1>2
  <2>2. AddedBindings(vbs1, vbs2) = alone \cup UNION {Fresh(vb) : vb \in vbs2}
    BY DEF AddedBindings
  <2> HIDE DEF alone, Same, To, Fresh
  <2>3. UNION {Fresh(vb) : vb \in vbs2} = {To(vb) : vb \in vbs2}
    BY <2>1
  <2>4. image = {To(vb) : vb \in vbs2}
    OBVIOUS
  <2> HIDE DEF image
  <2> QED
    BY <2>2, <2>3, <2>4
<1> HIDE DEF To
<1>5. \A x \in image : \E vb \in vbs2 : x = To(vb)
  OBVIOUS
<1>6. IsFiniteSet(image)
  <2> HIDE DEF g
  <2> QED
    BY <1>1, ImageIsFinite
<1>7. IsFiniteSet(alone) /\ alone \in SUBSET VolumeBinding
  BY <1>1, FS_Subset
<1>8. image \in SUBSET VolumeBinding
  BY <1>3, <1>5
<1>9. merged \in SUBSET (alone \cup image)
  BY <1>4 DEF MergeVolumeBindings
<1>10. Distinct(alone \cup image)
  <2>1. \A vb \in alone, vb1 \in image : GetMapKey(vb) # GetMapKey(vb1)
    BY <1>3, <1>5
  <2>2. \A vb \in alone, vb1 \in alone : GetMapKey(vb) = GetMapKey(vb1) => vb = vb1
    BY DEF Distinct
  <2>3. \A vb \in image, vb1 \in image : GetMapKey(vb) = GetMapKey(vb1) => vb = vb1
    BY <1>3, <1>5 DEF Distinct
  <2> HIDE DEF alone, image
  <2> QED
    BY <2>1, <2>2, <2>3 DEF Distinct
<1> HIDE DEF alone, image, merged
<1>11. IsFiniteSet(alone \cup image)
  BY <1>6, <1>7, FS_Union
<1>12. IsFiniteSet(merged) /\ merged \in SUBSET VolumeBinding
  BY <1>7, <1>8, <1>9, <1>11, FS_Subset
<1>13. Distinct(merged)
  BY <1>9, <1>10 DEF Distinct
<1> QED
  BY <1>12, <1>13 DEF Bindings, merged

\* The sizes of bindings add up to an integer
LEMMA SizesAddUp ==
    ASSUME NEW vbs \in Bindings
    PROVE  TotalSize(vbs) \in Int
<1> DEFINE g == [vb \in vbs |-> vb.size]
<1>1. IsFiniteSet(vbs) /\ vbs \in SUBSET VolumeBinding
  BY DEF Bindings
<1>2. g \in [vbs -> Int]
  BY <1>1, BindingParts
<1> HIDE DEF g
<1>3. SumFunction(g) \in Int
  BY <1>1, <1>2, SumIsInt
<1> QED
  BY <1>3 DEF TotalSize, g

\* A workload as core keeps it: planned on volumes and disks of some node
WorkOk(work) ==
    /\ work.vbs \in Bindings /\ Distinct(work.vbs)
    /\ work.plan \in PlansOn(Devices) /\ work.disks \in DiskPlansOn(DiskNames)
    /\ work.storage \in Nat

\* What a workload takes of its node is a usage
LEMMA HeldIsUsage ==
    ASSUME NEW work, WorkOk(work)
    PROVE  IsUsage(Held(work))
<1>1. PlannedVolumes(work.plan) \in [Devices -> Int]
  BY PlannedVolumesAreInts DEF WorkOk
<1>2. PICK names \in SUBSET DiskNames : work.disks \in [names -> IO]
  BY DEF WorkOk, DiskPlansOn
<1>3. work.storage \in Int
  BY DEF WorkOk
<1>4. Held(work) \in UsagesOn(names)
  BY <1>1, <1>2, <1>3 DEF Held, UsagesOn
<1> QED
  BY <1>4 DEF IsUsage

\* A node's plans are plans
LEMMA PlansOfTheNode ==
    ASSUME NEW D \in SUBSET Devices, NEW N \in SUBSET DiskNames
    PROVE  /\ PlansOn(D) \subseteq PlansOn(Devices)
           /\ DiskPlansOn(N) \subseteq DiskPlansOn(DiskNames)
<1>1. ASSUME NEW plan \in PlansOn(D)
      PROVE  plan \in PlansOn(Devices)
  <2>1. PICK vbs \in Bindings : plan \in [vbs -> [device : D, size : Int]]
    BY DEF PlansOn
  <2>2. \A vb \in vbs : plan[vb] \in [device : Devices, size : Int]
    BY <2>1
  <2>3. plan \in [vbs -> [device : Devices, size : Int]]
    BY <2>1, <2>2
  <2> QED
    BY <2>3 DEF PlansOn
<1>2. DiskPlansOn(N) \subseteq DiskPlansOn(DiskNames)
  BY DEF DiskPlansOn
<1> QED
  BY <1>1, <1>2

\* A request as users write it
Wishes(req) ==
    req \in Requests /\ req.vbs \in Bindings /\ Distinct(req.vbs)

\* A request's storage with its volumes
LEMMA FoldedIsInt ==
    ASSUME NEW req, Wishes(req)
    PROVE  Folded(req).storage \in Int
<1>1. TotalSize(req.vbs) \in Int /\ req.storage \in Int
  BY SizesAddUp DEF Wishes, Requests
<1> QED
  BY <1>1 DEF Folded, Wishes, Requests

\* calculate-deploy answers workloads, as many as were asked for
LEMMA DeployedAreOk ==
    ASSUME NEW inf, IsInfo(inf), NEW req, Wishes(req), Folded(req).storage >= 0,
           NEW count \in Nat, NEW deployed, deployed = Deployed(inf, count, req), deployed.ok
    PROVE  /\ Len(deployed.works) \in Nat /\ DOMAIN deployed.works = 1..Len(deployed.works)
           /\ count <= Len(deployed.works)
           /\ \A i \in DOMAIN deployed.works : WorkOk(deployed.works[i])
<1> DEFINE plans == IF NeedSchedule(req.vbs) THEN GetVolumePlans(inf, req.vbs, count)
                    ELSE Repeat(count, NoPlan)
           storage == Folded(req).storage
           Work(p) == [vbs |-> req.vbs, plan |-> p.plan, disks |-> p.disks, storage |-> storage]
           works == [i \in DOMAIN plans |-> Work(plans[i])]
           enough == Len(plans) >= count
           P == PlannedOn(Devices, DiskNames)
<1>1. storage \in Nat
  <2>1. storage >= 0
    OBVIOUS
  <2>2. storage \in Int
    BY FoldedIsInt
  <2> HIDE DEF storage
  <2> QED
    BY <2>1, <2>2
<1>2. ValidRequest(req) /\ deployed = [ok |-> enough, works |-> works]
  BY DEF Deployed
<1>3. RequestOk(req.vbs)
  BY <1>1, <1>2 DEF RequestOk, ValidRequest, Wishes
<1>4. PICK D \in SUBSET Devices, N \in SUBSET DiskNames : inf.capacity \in CapacitiesOn(D, N)
  BY DEF IsInfo, IsCapacity
<1>5. PICK M \in SUBSET DiskNames : inf.usage \in UsagesOn(M)
  BY DEF IsInfo, IsUsage
<1>6. plans \in Seq(P)
  <2>1. GetVolumePlans(inf, req.vbs, count) \in Seq(PlannedOn(D, N))
    BY <1>3, <1>4, <1>5, PlansAreOnTheNode
  <2>2. Repeat(count, NoPlan) \in Seq(PlannedOn(D, N))
    BY EmptyPlansStay, RepeatsAreOn
  <2>3. plans \in Seq(PlannedOn(D, N))
    BY <2>1, <2>2
  <2> HIDE DEF plans
  <2>4. PlannedOn(D, N) \subseteq P
    BY PlansOfTheNode DEF PlannedOn
  <2> HIDE DEF P
  <2>5. Len(plans) \in Nat /\ plans \in [1..Len(plans) -> P]
    BY <2>3, <2>4
  <2> QED
    BY <2>5
<1> HIDE DEF plans
<1>7. Len(plans) \in Nat /\ DOMAIN plans = 1..Len(plans) /\ \A i \in DOMAIN plans : plans[i] \in P
  <2> HIDE DEF P
  <2> QED
    BY <1>6
<1>8. \A i \in DOMAIN plans : WorkOk(Work(plans[i]))
  <2> TAKE i \in DOMAIN plans
  <2>1. plans[i].plan \in PlansOn(Devices) /\ plans[i].disks \in DiskPlansOn(DiskNames)
    BY <1>7 DEF PlannedOn
  <2> HIDE DEF storage
  <2> QED
    BY <1>1, <2>1 DEF WorkOk, Wishes
<1>9. Len(works) = Len(plans) /\ DOMAIN works = 1..Len(plans)
  <2> HIDE DEF P, Work
  <2>1. works \in Seq({Work(plans[i]) : i \in DOMAIN plans})
    BY <1>7
  <2>2. DOMAIN works = 1..Len(plans)
    BY <1>7
  <2> HIDE DEF works
  <2> QED
    BY <1>7, <2>1, <2>2
<1>10. \A i \in DOMAIN works : WorkOk(works[i])
  <2> HIDE DEF Work
  <2> QED
    BY <1>8
<1>11. deployed.works = works /\ Len(plans) >= count
  <2> HIDE DEF works, enough
  <2>1. deployed.ok = enough /\ deployed.works = works
    BY <1>2
  <2> QED
    BY <2>1 DEF enough
<1> HIDE DEF works
<1>12. count <= Len(plans)
  BY <1>7, <1>11
<1> QED
  BY <1>7, <1>9, <1>10, <1>11, <1>12

\* calculate-realloc answers a workload
LEMMA ReallocatedIsOk ==
    ASSUME NEW inf, IsInfo(inf), NEW work, WorkOk(work), NEW req, Wishes(req),
           NEW target, target = Reallocated(inf, work, req), target.ok
    PROVE  WorkOk(target.work)
<1> DEFINE merged == Merged(work, req)
           to == IF NeedSchedule(req.vbs)
                 THEN GetAffinityPlan(inf, merged.vbs, work.plan, work.vbs)
                 ELSE [ok |-> TRUE, plan |-> work.plan, disks |-> work.disks]
<1>1. Folded(req).storage \in Int
  BY FoldedIsInt
<1>2. merged.vbs \in Bindings /\ Distinct(merged.vbs) /\ merged.storage \in Int
  <2>1. merged.vbs = MergeVolumeBindings(req.vbs, work.vbs)
        /\ merged.storage = work.storage + Folded(req).storage
    BY DEF Merged
  <2> QED
    BY <1>1, <2>1, MergedBindingsStay DEF Wishes, WorkOk
<1> HIDE DEF merged
<1>3. /\ ValidRequest(merged)
      /\ target = [ok |-> to.ok, work |-> [vbs |-> merged.vbs, storage |-> merged.storage,
                                           plan |-> to.plan, disks |-> to.disks]]
  BY DEF Reallocated, Replanned, merged
<1>4. RequestOk(merged.vbs) /\ merged.storage \in Nat
  BY <1>2, <1>3 DEF RequestOk, ValidRequest
<1>5. to.plan \in PlansOn(Devices) /\ to.disks \in DiskPlansOn(DiskNames)
  <2>1. PICK D \in SUBSET Devices, N \in SUBSET DiskNames : inf.capacity \in CapacitiesOn(D, N)
    BY DEF IsInfo, IsCapacity
  <2>2. PICK M \in SUBSET DiskNames : inf.usage \in UsagesOn(M)
    BY DEF IsInfo, IsUsage
  <2>3. GetAffinityPlan(inf, merged.vbs, work.plan, work.vbs) \in AnswersOn(D, N)
    BY <1>4, <2>1, <2>2, ReplansAreOnTheNode DEF WorkOk
  <2>4. CASE NeedSchedule(req.vbs)
    <3>1. to \in AnswersOn(D, N)
      BY <2>3, <2>4
    <3> HIDE DEF to
    <3> QED
      BY <3>1, PlansOfTheNode DEF AnswersOn
  <2>5. CASE ~NeedSchedule(req.vbs)
    BY <2>5 DEF WorkOk
  <2> QED
    BY <2>4, <2>5
<1> HIDE DEF to
<1> QED
  BY <1>2, <1>3, <1>4, <1>5 DEF WorkOk

\* A booking leaves the capacity alone
LEMMA BookingStores ==
    ASSUME NEW inf, Sound(inf), NEW taken, AreTaken(taken), NEW incr \in BOOLEAN,
           NEW set, set = Book(inf, taken, incr), set.ok
    PROVE  Sound(set.info) /\ set.info.capacity = inf.capacity
<1> DEFINE usage == NextUsage(inf.usage, Nil, Nil, taken, TRUE, incr)
           next == [inf EXCEPT !.usage = NextUsage(@, Nil, Nil, taken, TRUE, incr)]
<1>1. Sound(set.info)
  BY SetUsageStores DEF Book
<1>2. IsUsage(usage)
  BY NextUsageIsUsage DEF Sound, IsInfo
<1>3. next = [capacity |-> inf.capacity, usage |-> usage]
  <2>1. \A x : [inf EXCEPT !.usage = x] = [capacity |-> inf.capacity, usage |-> x]
    BY DEF Sound, IsInfo
  <2>2. next = [inf EXCEPT !.usage = usage]
    OBVIOUS
  <2> HIDE DEF usage, next
  <2> QED
    BY <2>1, <2>2
<1> HIDE DEF usage
<1>4. IsInfo(next) /\ next.capacity = inf.capacity
  BY <1>2, <1>3 DEF Sound, IsInfo
<1>5. set = Put(inf, next)
  BY DEF Book, SetNodeResourceUsage
<1> HIDE DEF next
<1>6. set.info.capacity = next.capacity
  BY <1>4, <1>5, PutStores
<1> QED
  BY <1>1, <1>4, <1>6

\* One usage is a sequence of one
LEMMA OneIsTaken ==
    ASSUME NEW usage, IsUsage(usage)
    PROVE  AreTaken(<<usage>>)
BY DEF AreTaken

\* What new workloads hold is taken
LEMMA HeldAreTaken ==
    ASSUME NEW works, Len(works) \in Nat, DOMAIN works = 1..Len(works),
           \A i \in DOMAIN works : WorkOk(works[i])
    PROVE  AreTaken(HeldBy(works))
<1> DEFINE taken == HeldBy(works)
<1>1. \A i \in DOMAIN works : IsUsage(taken[i])
  BY HeldIsUsage DEF HeldBy
<1>2. DOMAIN taken = 1..Len(works) /\ taken = [i \in 1..Len(works) |-> taken[i]]
  BY DEF HeldBy
<1> HIDE DEF taken
<1>3. Len(taken) = Len(works)
  <2>1. taken \in Seq({taken[i] : i \in 1..Len(works)})
    BY <1>2
  <2> QED
    BY <1>2, <2>1
<1> QED
  BY <1>1, <1>2, <1>3 DEF AreTaken, taken

-----------------------------------------------------------------------------
(* Counting.  The counter's loops are those of the planner, side by side.   *)

\* Passes that are only counted, one by one
RunsCount(g, V, h, normal, mount, n) ==
    /\ CountNormalPasses(h, normal, mount, n) = g[n]
    /\ g[0] = [failed |-> FALSE, host |-> h, capacity |-> 0]
    /\ \A i \in 0..n : g[i] \in V
    /\ \A i \in 1..n : g[i] = CountPass(g[i - 1], normal, mount)

\* The loop of the count runs pass by pass
LEMMA CountPassesRun ==
    ASSUME NEW V, NEW h, NEW normal, NEW mount, NEW n \in Nat,
           [failed |-> FALSE, host |-> h, capacity |-> 0] \in V, \A s \in V : CountPass(s, normal, mount) \in V
    PROVE  \E g : RunsCount(g, V, h, normal, mount, n)
<1> DEFINE base == [failed |-> FALSE, host |-> h, capacity |-> 0]
           step == [s \in V |-> CountPass(s, normal, mount)]
           Body(f) == [i \in 0..n |-> IF i = 0 THEN base ELSE CountPass(f[i - 1], normal, mount)]
           it == CHOOSE f : f = Body(f)
<1>1. step \in [V -> V] /\ base \in V
  OBVIOUS
<1>2. PICK f : Steps(f, n, V, base, step)
  <2> HIDE DEF step, base
  <2> QED
    BY <1>1, StepsExist
<1>3. f = Body(f)
  <2> HIDE DEF base
  <2>1. \A i \in 0..n : i # 0 => i - 1 \in 0..n /\ f[i - 1] \in V
    <3> HIDE DEF step
    <3>1. \A i \in 0..n : i # 0 => i - 1 \in 0..n
      OBVIOUS
    <3>2. f \in [0..n -> V]
      BY <1>2 DEF Steps
    <3> QED
      BY <3>1, <3>2
  <2>2. \A i \in 0..n : f[i] = IF i = 0 THEN base ELSE CountPass(f[i - 1], normal, mount)
    BY <1>2, <2>1 DEF Steps
  <2> QED
    BY <1>2, <2>2 DEF Steps
<1>4. it = Body(it)
  BY <1>3
<1>5. CountNormalPasses(h, normal, mount, n) = it[n]
  BY DEF CountNormalPasses, Iterate
<1> HIDE DEF it
<1>6. it[0] = base
  BY <1>4
<1>7. \A i \in 1..n : it[i] = CountPass(it[i - 1], normal, mount)
  <2>1. \A i \in 1..n : i \in 0..n /\ i # 0
    OBVIOUS
  <2> QED
    BY <1>4, <2>1
<1>8. \A i \in 1..n : it[i - 1] \in V => it[i] \in V
  BY <1>7
<1>9. \A i \in 0..n : it[i] \in V
  <2> HIDE DEF base
  <2> QED
    BY <1>1, <1>6, <1>8, Climbs
<1> QED
  BY <1>5, <1>6, <1>7, <1>9 DEF RunsCount

\* The count of a group's volumes, as a loop
CountTaken(h, mono, bound) ==
    FoldLeft(LAMBDA s, device : CountVolume(s, mono, bound, device),
             [host |-> h, capacity |-> 0], h.unused)

\* Volumes for a group that are only counted, one by one
RunsTaken(g, V, h, mono, bound, N) ==
    /\ CountTaken(h, mono, bound) = g[N]
    /\ g[0] = [host |-> h, capacity |-> 0]
    /\ \A k \in 0..N : g[k] \in V
    /\ \A k \in 1..N : g[k] = CountVolume(g[k - 1], mono, bound, h.unused[k])

\* The count of monopoly plans runs volume by volume
LEMMA CountVolumesRun ==
    ASSUME NEW V, NEW h, NEW mono, NEW bound,
           NEW N \in Nat, DOMAIN h.unused = 1..N,
           [host |-> h, capacity |-> 0] \in V, \A a \in V, k \in 1..N : CountVolume(a, mono, bound, h.unused[k]) \in V
    PROVE  \E g : RunsTaken(g, V, h, mono, bound, N)
<1> DEFINE base == [host |-> h, capacity |-> 0]
           step == [p \in V \X (1..N) |-> CountVolume(p[1], mono, bound, h.unused[p[2]])]
           Body(f) == [s \in SUBSET (1..N) |->
                         IF s = {} THEN base
                         ELSE CountVolume(f[s \ {LastOf(s)}], mono, bound, h.unused[LastOf(s)])]
           it == CHOOSE f : f = Body(f)
<1>1. step \in [V \X (1..N) -> V] /\ base \in V
  OBVIOUS
<1>2. PICK f : Folds(f, N, V, base, step)
  <2> HIDE DEF step, base
  <2> QED
    BY <1>1, FoldExists
<1>3. f = Body(f)
  <2> HIDE DEF base
  <2>1. \A s \in SUBSET (1..N) : s # {} => LastOf(s) \in 1..N /\ f[s \ {LastOf(s)}] \in V
    BY <1>2, LastIsThere DEF Folds
  <2>2. \A s \in SUBSET (1..N) : f[s] = IF s = {} THEN base
                                         ELSE CountVolume(f[s \ {LastOf(s)}], mono, bound, h.unused[LastOf(s)])
    BY <1>2, <2>1 DEF Folds
  <2> QED
    BY <1>2, <2>2 DEF Folds
<1>4. it = Body(it)
  BY <1>3
<1>5. CountTaken(h, mono, bound) = it[1..N]
  BY DEF CountTaken, FoldLeft, MapThenFoldSet, LastOf, Max
<1> HIDE DEF it
<1>6. Follows(it, N, V, base, step)
  <2>1. \A s \in SUBSET (1..N) : s # {} => LastOf(s) \in 1..N
    BY LastIsThere
  <2>2. it[{}] = base
    BY <1>4
  <2>3. \A s \in SUBSET (1..N) : s # {} /\ it[s \ {LastOf(s)}] \in V
           => it[s] = step[<<it[s \ {LastOf(s)}], LastOf(s)>>]
    BY <1>4, <2>1
  <2> HIDE DEF step, base
  <2> QED
    BY <2>2, <2>3 DEF Follows
<1>7. \E g : Turns(g, N, V, base, step, it[1..N])
  <2> HIDE DEF step, base
  <2> QED
    BY <1>1, <1>6, FoldTurns
<1>8. PICK g : Turns(g, N, V, base, step, it[1..N])
  BY <1>7
<1>9. \A k \in 1..N : g[k] = CountVolume(g[k - 1], mono, bound, h.unused[k])
  <2> TAKE k \in 1..N
  <2>1. k - 1 \in 0..N
    OBVIOUS
  <2> HIDE DEF base
  <2>2. g[k - 1] \in V /\ g[k] = step[<<g[k - 1], k>>]
    <3> HIDE DEF step
    <3> QED
      BY <1>8, <2>1 DEF Turns
  <2> QED
    BY <2>2
<1>10. g[0] = base /\ \A k \in 0..N : g[k] \in V
  <2> HIDE DEF step, base
  <2> QED
    BY <1>8 DEF Turns
<1> QED
  BY <1>5, <1>8, <1>9, <1>10 DEF Turns, RunsTaken

\* A volume opened for the count, if that is worth it
CountOpening(s, h, classes, count) ==
    PromoteOne(s, count, classes.normal, LAMBDA host : EvaluateCapacity(h, classes, count, host))

\* All of them
CountPromoted(h, classes, count) ==
    Promote(h, count, classes.normal, LAMBDA host : EvaluateCapacity(h, classes, count, host))

\* Volumes opened for the count, one by one
RunsCountPromotions(g, V, h, classes, count, n) ==
    /\ CountPromoted(h, classes, count) = g[n]
    /\ g[0] = [host |-> h, best |-> EvaluateCapacity(h, classes, count, h)]
    /\ \A i \in 0..n : g[i] \in V
    /\ \A i \in 1..n : g[i] = CountOpening(g[i - 1], h, classes, count)

\* The promotions of the count run one by one
LEMMA CountPromotionsRun ==
    ASSUME NEW V, NEW h, NEW classes, NEW count, NEW n, n = Len(h.unused), n \in Nat,
           [host |-> h, best |-> EvaluateCapacity(h, classes, count, h)] \in V, \A s \in V : CountOpening(s, h, classes, count) \in V
    PROVE  \E g : RunsCountPromotions(g, V, h, classes, count, n)
<1> DEFINE base == [host |-> h, best |-> EvaluateCapacity(h, classes, count, h)]
           step == [s \in V |-> CountOpening(s, h, classes, count)]
           Body(f) == [i \in 0..n |-> IF i = 0 THEN base ELSE CountOpening(f[i - 1], h, classes, count)]
           it == CHOOSE f : f = Body(f)
<1>1. step \in [V -> V] /\ base \in V
  OBVIOUS
<1>2. PICK f : Steps(f, n, V, base, step)
  <2> HIDE DEF step, base
  <2> QED
    BY <1>1, StepsExist
<1>3. f = Body(f)
  <2> HIDE DEF base
  <2>1. \A i \in 0..n : i # 0 => i - 1 \in 0..n /\ f[i - 1] \in V
    <3> HIDE DEF step
    <3>1. \A i \in 0..n : i # 0 => i - 1 \in 0..n
      OBVIOUS
    <3>2. f \in [0..n -> V]
      BY <1>2 DEF Steps
    <3> QED
      BY <3>1, <3>2
  <2>2. \A i \in 0..n : f[i] = IF i = 0 THEN base ELSE CountOpening(f[i - 1], h, classes, count)
    BY <1>2, <2>1 DEF Steps
  <2> QED
    BY <1>2, <2>2 DEF Steps
<1>4. it = Body(it)
  BY <1>3
<1>5. CountPromoted(h, classes, count) = it[n]
  BY DEF CountPromoted, Promote, CountOpening, Iterate
<1> HIDE DEF it
<1>6. it[0] = base
  BY <1>4
<1>7. \A i \in 1..n : it[i] = CountOpening(it[i - 1], h, classes, count)
  <2>1. \A i \in 1..n : i \in 0..n /\ i # 0
    OBVIOUS
  <2> QED
    BY <1>4, <2>1
<1>8. \A i \in 1..n : it[i - 1] \in V => it[i] \in V
  BY <1>7
<1>9. \A i \in 0..n : it[i] \in V
  <2> HIDE DEF base
  <2> QED
    BY <1>1, <1>6, <1>8, Climbs
<1> QED
  BY <1>5, <1>6, <1>7, <1>9 DEF RunsCountPromotions

\* A pass leaves the host the same whether it is planned or counted
PassesAgree(s, c) ==
    s.failed = c.failed /\ s.host = c.host /\ c.capacity = Len(s.plans)

\* Every pass is counted
LEMMA PassesAreCounted ==
    ASSUME NEW D \in SUBSET Devices, NEW N \in SUBSET DiskNames, NEW h \in HostsOn(D, N),
           NEW normal \in Seq(VolumeBinding), NEW mount \in Seq(VolumeBinding),
           NEW bound \in Nat
    PROVE  PassesAgree(GetNormalPasses(h, normal, mount, bound),
                       CountNormalPasses(h, normal, mount, bound))
<1> DEFINE V == PassesOn(D, N)
           W == [failed : BOOLEAN, host : HostsOn(D, N), capacity : Nat]
           first == [failed |-> FALSE, host |-> h, plans |-> <<>>]
           zero == [failed |-> FALSE, host |-> h, capacity |-> 0]
<1>1. first \in V /\ zero \in W
  BY DEF PassesOn
<1>2. \A s \in V : NormalPass(s, normal, mount) \in V
  BY NormalPassStays
<1>3. ASSUME NEW c \in W
      PROVE  CountPass(c, normal, mount) \in W
  <2> DEFINE a == GetMountDiskPlan(GetNormalPlan(c.host, normal), mount)
  <2>1. CASE c.failed
    BY <2>1 DEF CountPass
  <2>2. CASE ~c.failed
    <3>1. a \in AttemptsOn(D, N)
      BY PassStays
    <3>2. CountPass(c, normal, mount) =
            [failed |-> ~a.ok, host |-> a.host,
             capacity |-> IF a.ok THEN c.capacity + 1 ELSE c.capacity]
      BY <2>2 DEF CountPass
    <3> HIDE DEF a
    <3> QED
      BY <3>1, <3>2 DEF AttemptsOn
  <2> QED
    BY <2>1, <2>2
<1>4. ASSUME NEW s \in V, NEW c \in W, PassesAgree(s, c)
      PROVE  PassesAgree(NormalPass(s, normal, mount), CountPass(c, normal, mount))
  <2> DEFINE a == GetMountDiskPlan(GetNormalPlan(s.host, normal), mount)
             b == GetMountDiskPlan(GetNormalPlan(c.host, normal), mount)
             p == [plan |-> a.plan, disks |-> a.disks]
  <2>1. s.failed \in BOOLEAN /\ s.host \in HostsOn(D, N) /\ s.plans \in Seq(PlannedOn(D, N))
    BY DEF PassesOn
  <2>2. CASE s.failed
    BY <1>4, <2>2 DEF NormalPass, CountPass, PassesAgree
  <2>3. CASE ~s.failed
    <3>1. a \in AttemptsOn(D, N) /\ a = b
      BY <1>4, <2>1, PassStays DEF PassesAgree
    <3>2. NormalPass(s, normal, mount) =
            [failed |-> ~a.ok, host |-> a.host,
             plans |-> IF ~a.ok THEN s.plans ELSE Append(s.plans, p)]
      BY <2>3 DEF NormalPass
    <3>3. CountPass(c, normal, mount) =
            [failed |-> ~b.ok, host |-> b.host,
             capacity |-> IF b.ok THEN c.capacity + 1 ELSE c.capacity]
      BY <1>4, <2>3 DEF CountPass, PassesAgree
    <3> HIDE DEF a, b
    <3>4. a.ok => p \in PlannedOn(D, N)
      BY <3>1 DEF AttemptsOn, PlannedOn
    <3> HIDE DEF p
    <3>5. a.ok => Len(Append(s.plans, p)) = Len(s.plans) + 1
      BY <2>1, <3>4, AppendProperties
    <3>6. a.ok \in BOOLEAN
      BY <3>1 DEF AttemptsOn
    <3> QED
      BY <1>4, <3>1, <3>2, <3>3, <3>5, <3>6 DEF PassesAgree
  <2> QED
    BY <2>1, <2>2, <2>3
<1> HIDE DEF V, W
<1>5. PICK g : RunsPasses(g, V, h, normal, mount, bound)
  BY <1>1, <1>2, NormalPassesRun
<1>6. PICK f : RunsCount(f, W, h, normal, mount, bound)
  BY <1>1, <1>3, CountPassesRun
<1> DEFINE S == {i \in 0..bound : PassesAgree(g[i], f[i])}
<1>7. 0 \in S
  <2>1. PassesAgree(first, zero)
    BY EmptySeq DEF PassesAgree
  <2> HIDE DEF first, zero
  <2> QED
    BY <1>5, <1>6, <2>1 DEF RunsPasses, RunsCount, first, zero
<1>8. ASSUME NEW i \in 1..bound, i - 1 \in S
      PROVE  i \in S
  <2>1. i \in 0..bound /\ i - 1 \in 0..bound
    OBVIOUS
  <2>2. g[i - 1] \in V /\ f[i - 1] \in W /\ PassesAgree(g[i - 1], f[i - 1])
    BY <1>5, <1>6, <1>8, <2>1 DEF RunsPasses, RunsCount
  <2>3. PassesAgree(NormalPass(g[i - 1], normal, mount), CountPass(f[i - 1], normal, mount))
    BY <1>4, <2>2
  <2> QED
    BY <1>5, <1>6, <2>1, <2>3 DEF RunsPasses, RunsCount
<1> HIDE DEF S
<1>9. bound \in S
  BY <1>7, <1>8, CountsUp
<1> QED
  BY <1>5, <1>6, <1>9 DEF S, RunsPasses, RunsCount

\* Passes over the mounts alone leave quota on the disks they charge
LEMMA ChargedQuotaIsLeft ==
    ASSUME NEW D \in SUBSET Devices, NEW N \in SUBSET DiskNames, NEW h \in HostsOn(D, N),
           NEW mount \in Seq(VolumeBinding), NEW first,
           first = GetMountDiskPlan(Attempt(h), mount), first.ok
    PROVE  \A name \in DOMAIN first.disks : Covers(first.host.disks[name].io, NoIO)
<1> DEFINE Left(a) == \A name \in DOMAIN a.disks : Covers(a.host.disks[name].io, NoIO)
           V == {a \in AttemptsOn(D, N) : a.ok => Left(a)}
<1>1. Attempt(h) \in V
  <2>1. Attempt(h) \in AttemptsOn(D, N)
    BY EmptyPlansStay
  <2>2. DOMAIN Attempt(h).disks = {}
    BY DEF Attempt, NoDisks
  <2> QED
    BY <2>1, <2>2
<1>2. ASSUME NEW a \in V, NEW k \in 1..Len(mount)
      PROVE  ChargeMount(a, mount[k]) \in V
  <2> DEFINE req == mount[k]
             b == ChargeMount(a, req)
             name == GetDiskByPath(a.host.disks, req.source)
             quota == DiskQuota(a.host, req.source, req)
             host == DecreaseIOPSQuota(a.host, req.source, req)
             disks == AddDisks(a.disks, quota)
  <2>1. req \in VolumeBinding /\ req.io \in IO
    BY BindingList, BindingParts
  <2>2. b \in AttemptsOn(D, N) /\ a \in AttemptsOn(D, N)
    BY <2>1, ChargeMountStays
  <2>3. CASE ~RequireIOPS(req)
    BY <2>3 DEF ChargeMount
  <2>4. CASE RequireIOPS(req) /\ (~a.ok \/ ~Qualified(a.host, req.source, req))
    <3>1. b = [a EXCEPT !.ok = FALSE]
      BY <2>4 DEF ChargeMount
    <3>2. ~b.ok
      BY <2>2, <3>1 DEF AttemptsOn
    <3> QED
      BY <2>2, <3>2
  <2>5. CASE RequireIOPS(req) /\ a.ok /\ Qualified(a.host, req.source, req)
    <3>1. b = [a EXCEPT !.host = host, !.disks = disks]
      BY <2>5 DEF ChargeMount
    <3>2. a.host \in HostsOn(D, N) /\ a.disks \in DiskPlansOn(N)
      BY <2>2 DEF AttemptsOn
    <3>3. name \in N /\ a.host.disks \in [N -> DiskCapacity]
      BY <2>5, <3>2, QualifiedIsThere DEF HostsOn
    <3>4. DOMAIN quota = {name}
      BY <2>5 DEF DiskQuota
    <3>5. DOMAIN disks = DOMAIN a.disks \cup {name}
      BY <3>4 DEF AddDisks
    <3>6. Covers(a.host.disks[name].io, req.io)
      <4>1. name # NoDisk
        BY <3>3, DisksAssumption
      <4> QED
        BY <2>5, <4>1 DEF Qualified, IsDiskIOPSQuotaQualified
    <3>7. /\ host.disks[name].io = SubIO(a.host.disks[name].io, req.io)
          /\ \A other \in N \ {name} : host.disks[other] = a.host.disks[other]
      <4>1. host = [a.host EXCEPT !.disks[name].io = SubIO(@, req.io)]
        BY <2>5 DEF DecreaseIOPSQuota
      <4> HIDE DEF name, host
      <4> QED
        BY <3>2, <3>3, <4>1 DEF HostsOn, DiskCapacity
    <3> HIDE DEF name, host, disks, quota
    <3>8. Covers(host.disks[name].io, NoIO)
      <4>1. a.host.disks[name].io \in IO
        BY <3>3 DEF DiskCapacity
      <4> QED
        BY <2>1, <3>6, <3>7, <4>1 DEF Covers, SubIO, IO, NoIO
    <3>9. DOMAIN a.disks \subseteq N
      BY <3>2 DEF DiskPlansOn
    <3>10. Left(a)
      BY <2>5
    <3>11. b.host = host /\ b.disks = disks
      BY <2>2, <3>1 DEF AttemptsOn
    <3>12. Left(b)
      BY <3>5, <3>7, <3>8, <3>9, <3>10, <3>11
    <3> QED
      BY <2>2, <3>12
  <2> QED
    BY <2>3, <2>4, <2>5
<1>3. Len(mount) \in Nat /\ DOMAIN mount = 1..Len(mount)
  BY BindingList
<1> HIDE DEF V
<1>4. GetMountDiskPlan(Attempt(h), mount) \in V
  BY <1>1, <1>2, <1>3, MountPlanStays
<1> QED
  BY <1>4 DEF V

\* How often rates fit into what is left is no less than nothing
LEMMA HeadroomIsNat ==
    ASSUME NEW io \in IO, Covers(io, NoIO), NEW sum \in IO
    PROVE  /\ QuotaHeadroom(io, sum) \in Nat
           /\ \A rate \in Rates : sum[rate] > 0
                 => QuotaHeadroom(io, sum) <= Truncated(io[rate], sum[rate])
<1> DEFINE R == {r \in Rates : sum[r] > 0}
           f == [rate \in R |-> Truncated(io[rate], sum[rate])]
           T == {f[rate] : rate \in R}
<1>1. IsFiniteSet(R)
  BY DisksAssumption, FS_Subset
<1>2. \A rate \in R : f[rate] \in Nat
  <2> TAKE rate \in R
  <2>1. io[rate] \in Nat /\ sum[rate] \in Nat \ {0}
    BY DEF IO, Covers, NoIO
  <2>2. io[rate] \div sum[rate] \in Nat
    BY <2>1
  <2>3. Truncated(io[rate], sum[rate]) = io[rate] \div sum[rate]
    BY <2>1 DEF Truncated
  <2> QED
    BY <2>2, <2>3
<1>3. IsFiniteSet(T)
  <2> HIDE DEF f, R
  <2> QED
    BY <1>1, ImageIsFinite
<1>4. T \subseteq Nat
  BY <1>2
<1>5. {Truncated(io[rate], sum[rate]) : rate \in R} = T
  OBVIOUS
<1>6. QuotaHeadroom(io, sum) = Min({MaxInt} \cup T)
  BY <1>5 DEF QuotaHeadroom
<1>10. \A rate \in Rates : sum[rate] > 0 => Truncated(io[rate], sum[rate]) \in T
  OBVIOUS
<1> HIDE DEF T
<1>7. IsFiniteSet(T \cup {MaxInt}) /\ T \cup {MaxInt} = {MaxInt} \cup T
  BY <1>3, FS_AddElement
<1>8. {MaxInt} \cup T \in SUBSET Int /\ {MaxInt} \cup T \in SUBSET Nat /\ {MaxInt} \cup T # {}
  BY <1>4, MaxIntAssumption
<1>9. /\ Min({MaxInt} \cup T) \in {MaxInt} \cup T
      /\ \A x \in {MaxInt} \cup T : Min({MaxInt} \cup T) <= x
  BY <1>7, <1>8, MinOfFinite
<1> QED
  BY <1>6, <1>8, <1>9, <1>10

\* At least one pass can be made where the first could
LEMMA MountPassesIsNat ==
    ASSUME NEW D \in SUBSET Devices, NEW N \in SUBSET DiskNames, NEW h \in HostsOn(D, N),
           NEW mount \in Seq(VolumeBinding), NEW bound \in Nat, NEW first,
           first = GetMountDiskPlan(Attempt(h), mount), first.ok
    PROVE  /\ MountPasses(first, mount, bound) \in Nat
           /\ MountPasses(first, mount, bound) <= bound
           /\ bound >= 1 => MountPasses(first, mount, bound) >= 1
           /\ \A name \in DOMAIN first.disks :
                 MountPasses(first, mount, bound)
                   <= 1 + QuotaHeadroom(first.host.disks[name].io, QuotaOn(first.host, mount, name))
<1> DEFINE S == DOMAIN first.disks
           f == [name \in S |-> 1 + QuotaHeadroom(first.host.disks[name].io,
                                                  QuotaOn(first.host, mount, name))]
           T == {f[name] : name \in S}
<1>1. first \in AttemptsOn(D, N)
  BY EmptyPlansStay, MountPassStays
<1>2. first.host \in HostsOn(D, N) /\ S \subseteq N
  BY <1>1, DiskPlanParts DEF AttemptsOn
<1>3. IsFiniteSet(S)
  <2>1. IsFiniteSet(DiskNames) /\ S \in SUBSET DiskNames
    BY <1>2, DisksAssumption
  <2> HIDE DEF S
  <2> QED
    BY <2>1, FS_Subset
<1>4. \A name \in S : f[name] \in Nat /\ f[name] >= 1
  <2> TAKE name \in S
  <2>1. first.host.disks[name].io \in IO
    BY <1>2 DEF HostsOn, DiskCapacity
  <2>2. Covers(first.host.disks[name].io, NoIO)
    BY ChargedQuotaIsLeft
  <2>3. QuotaOn(first.host, mount, name) \in IO
    BY QuotaIsIO
  <2>4. QuotaHeadroom(first.host.disks[name].io, QuotaOn(first.host, mount, name)) \in Nat
    BY <2>1, <2>2, <2>3, HeadroomIsNat
  <2> QED
    BY <2>4
<1>5. IsFiniteSet(T)
  <2> HIDE DEF f, S
  <2> QED
    BY <1>3, ImageIsFinite
<1>6. T \subseteq Nat /\ \A x \in T : x >= 1
  BY <1>4
<1>7. MountPasses(first, mount, bound) = Min({bound} \cup T)
  BY DEF MountPasses
<1>11. \A name \in S : 1 + QuotaHeadroom(first.host.disks[name].io,
                                          QuotaOn(first.host, mount, name)) \in T
  OBVIOUS
<1> HIDE DEF T
<1>8. IsFiniteSet(T \cup {bound}) /\ T \cup {bound} = {bound} \cup T
  BY <1>5, FS_AddElement
<1>9. {bound} \cup T \in SUBSET Nat /\ {bound} \cup T # {}
  BY <1>6
<1>10. /\ Min({bound} \cup T) \in {bound} \cup T
       /\ \A x \in {bound} \cup T : Min({bound} \cup T) <= x
  <2>1. {bound} \cup T \in SUBSET Int
    BY <1>9
  <2> QED
    BY <1>8, <1>9, <2>1, MinOfFinite
<1> HIDE DEF S, f
<1> QED
  BY <1>6, <1>7, <1>9, <1>10, <1>11 DEF S

\* A plan repeated is as many plans
LEMMA RepeatedOften ==
    ASSUME NEW p, NEW n \in Nat
    PROVE  Len(Repeat(n, p)) = n
BY DEF Repeat

\* The same host with as many plans as were counted
AgreedCount(normal, capacity) ==
    normal.host = capacity.host /\ capacity.capacity = Len(normal.plans)

\* Normal plans are counted, whatever way they are made
LEMMA NormalPlansAreCounted ==
    ASSUME NEW D \in SUBSET Devices, NEW N \in SUBSET DiskNames, NEW h \in HostsOn(D, N),
           NEW count \in Nat, NEW normal \in Seq(VolumeBinding),
           NEW mount \in Seq(VolumeBinding), NEW bound \in Nat
    PROVE  AgreedCount(GetNormalPlans(h, count, normal, mount, bound),
                   CountNormalPlans(h, count, normal, mount, bound))
<1>1. CASE normal # <<>>
  BY <1>1, PassesAreCounted DEF GetNormalPlans, CountNormalPlans, PassesAgree, AgreedCount
<1>2. CASE normal = <<>> /\ AnyRequireIOPS(mount)
  <2> DEFINE first == GetMountDiskPlan(Attempt(h), mount)
             n == MountPasses(first, mount, bound)
             charged == ChargePasses(first.host, mount, DOMAIN first.disks, n - 1)
             last == TrailingPass(charged, mount, n, bound)
             passes == ApplyMountPasses(h, mount, bound)
  <2>1. passes = IF ~first.ok \/ bound < 1
                 THEN [host |-> first.host, capacity |-> 0, disks |-> NoDisks]
                 ELSE [host |-> last, capacity |-> n, disks |-> first.disks]
    BY DEF ApplyMountPasses
  <2>2. first.ok => n \in Nat
    BY MountPassesIsNat
  <2>3. GetMountOnlyPlans(h, mount, bound) =
          [host |-> passes.host,
           plans |-> Repeat(passes.capacity, [plan |-> EmptyPlan, disks |-> passes.disks])]
    BY DEF GetMountOnlyPlans
  <2>4. passes.capacity \in Nat
    <3> HIDE DEF first, n, last, passes
    <3> QED
      BY <2>1, <2>2
  <2>5. /\ GetNormalPlans(h, count, normal, mount, bound) = GetMountOnlyPlans(h, mount, bound)
        /\ CountNormalPlans(h, count, normal, mount, bound) = passes
    BY <1>2 DEF GetNormalPlans, CountNormalPlans
  <2> HIDE DEF passes
  <2> QED
    BY <2>3, <2>4, <2>5, RepeatedOften DEF AgreedCount
<1>3. CASE normal = <<>> /\ ~AnyRequireIOPS(mount)
  <2>1. /\ GetNormalPlans(h, count, normal, mount, bound) =
             [host |-> h, plans |-> Repeat(count, NoPlan)]
        /\ CountNormalPlans(h, count, normal, mount, bound) = [host |-> h, capacity |-> count]
    BY <1>3 DEF GetNormalPlans, CountNormalPlans
  <2> QED
    BY <2>1, RepeatedOften DEF AgreedCount
<1> QED
  BY <1>1, <1>2, <1>3

\* A group's volumes are the same ones until enough are found
VolumesAgree(s, c, count) ==
    \/ s.host = c.host /\ c.capacity = Len(s.plans)
    \/ c.capacity >= count /\ Len(s.plans) >= count

\* A volume tried keeps the count the number of plans
LEMMA VolumesKeepAgreeing ==
    ASSUME NEW D, NEW N \in SUBSET DiskNames, NEW mono, Monopolies(mono), NEW count \in Nat,
           NEW bound \in Int, bound >= count, NEW limit \in Int, limit >= count,
           NEW s \in GroupsOn(D, N), NEW c, c.capacity \in Nat, VolumesAgree(s, c, count),
           NEW device \in D
    PROVE  VolumesAgree(TryVolume(s, mono, bound, device), CountVolume(c, mono, limit, device),
                        count)
<1> DEFINE P == PlannedOn(D, N)
           m == GetMonoPlan(s.host, mono, device)
           o == GetMonoPlan(c.host, mono, device)
           p == [plan |-> m.plan, disks |-> m.disks]
           k == Len(s.plans)
           tried == TryVolume(s, mono, bound, device)
           taken == CountVolume(c, mono, limit, device)
<1>1. s.host \in HostsOn(D, N) /\ s.plans \in Seq(P) /\ k \in Nat
  BY DEF GroupsOn
<1>2. tried = IF k >= bound \/ ~m.ok THEN s
              ELSE [host |-> m.host, plans |-> Append(s.plans, p)]
  BY DEF TryVolume
<1>3. taken = IF c.capacity >= limit \/ ~o.ok THEN c
              ELSE [host |-> o.host, capacity |-> c.capacity + 1]
  BY DEF CountVolume
<1>4. m.ok => m.host \in HostsOn(D, N) /\ m.plan \in PlansOn(D) /\ m.disks \in DiskPlansOn(N)
  BY <1>1, GroupIsPlanned
<1>5. s.host = c.host => m = o
  OBVIOUS
<1> HIDE DEF m, o
<1>6. m.ok => p \in P
  BY <1>4 DEF PlannedOn
<1> HIDE DEF p, P
<1>7. m.ok => Len(Append(s.plans, p)) = k + 1
  BY <1>1, <1>6, AppendProperties
<1>8. (s.host = c.host /\ c.capacity = k) \/ (c.capacity >= count /\ k >= count)
  BY DEF VolumesAgree
<1> DEFINE q == Append(s.plans, p)
<1> HIDE DEF q, tried, taken
<1>9. m.ok => Len(q) = k + 1
  BY <1>7 DEF q
<1>10. tried = IF k >= bound \/ ~m.ok THEN s ELSE [host |-> m.host, plans |-> q]
  BY <1>2 DEF q
<1>11. \/ tried = s
       \/ k < bound /\ m.ok /\ tried.host = m.host /\ tried.plans = q
  BY <1>1, <1>10
<1>12. \/ taken = c
       \/ c.capacity < limit /\ o.ok /\ taken.host = o.host /\ taken.capacity = c.capacity + 1
  BY <1>3
<1>13. k <= Len(tried.plans) /\ Len(tried.plans) \in Nat
  BY <1>1, <1>9, <1>11
<1>14. c.capacity <= taken.capacity
  BY <1>12
<1>15. CASE c.capacity >= count /\ k >= count
  <2>1. taken.capacity \in Int
    BY <1>12
  <2>2. taken.capacity >= count /\ Len(tried.plans) >= count
    BY <1>1, <1>13, <1>14, <1>15, <2>1
  <2> QED
    BY <2>2 DEF VolumesAgree, tried, taken
<1>16. CASE s.host = c.host /\ c.capacity = k /\ k < count
  <2>1. k < bound /\ c.capacity < limit /\ m = o
    BY <1>1, <1>5, <1>16
  <2>2. m.ok => tried.host = m.host /\ tried.plans = q /\ taken.host = m.host
                /\ taken.capacity = k + 1
    <3>1. m.ok => tried = [host |-> m.host, plans |-> q]
      BY <1>1, <1>10, <2>1
    <3>2. m.ok => taken = [host |-> m.host, capacity |-> k + 1]
      BY <1>3, <1>16, <2>1
    <3> QED
      BY <3>1, <3>2
  <2>3. ~m.ok => tried = s /\ taken = c
    BY <1>3, <1>10, <2>1
  <2>4. tried.host = taken.host /\ taken.capacity = Len(tried.plans)
    BY <1>9, <1>16, <2>2, <2>3
  <2> QED
    BY <2>4 DEF VolumesAgree, tried, taken
<1> QED
  BY <1>1, <1>8, <1>15, <1>16

\* Up to the number that is wanted as many plans as are counted
MonosCounted(capacity, plans, count) ==
    capacity \in Nat /\ Smaller(capacity, count) = Smaller(Len(plans), count)

\* Monopoly plans are counted
LEMMA MonoPlansAreCounted ==
    ASSUME NEW D, NEW N \in SUBSET DiskNames, NEW h \in HostsOn(D, N), NEW count \in Nat,
           NEW mono, Monopolies(mono) \/ mono = <<>>,
           NEW bound \in Int, bound >= count, NEW limit \in Int, limit >= count
    PROVE  MonosCounted(CountMonoPlans(h, count, mono, limit),
                        GetMonoPlans(h, count, mono, bound).plans, count)
<1>1. CASE mono = <<>>
  <2>1. /\ GetMonoPlans(h, count, mono, bound) = [host |-> h, plans |-> Repeat(count, NoPlan)]
        /\ CountMonoPlans(h, count, mono, limit) = count
    BY <1>1 DEF GetMonoPlans, CountMonoPlans
  <2> QED
    BY <2>1, RepeatedOften DEF MonosCounted
<1>2. CASE mono # <<>>
  <2> DEFINE n == Len(h.unused)
             V == GroupsOn(D, N)
             W == [host : HostsOn(D, N), capacity : Nat]
             first == [host |-> h, plans |-> <<>>]
             zero == [host |-> h, capacity |-> 0]
  <2>1. first \in V /\ zero \in W
    BY DEF GroupsOn
  <2>2. h.unused \in Seq(D)
    BY DEF HostsOn
  <2>3. n \in Nat /\ DOMAIN h.unused = 1..n /\ \A k \in 1..n : h.unused[k] \in D
    BY <2>2, MembersAreIn
  <2>4. \A s \in V, k \in 1..n : TryVolume(s, mono, bound, h.unused[k]) \in V
    BY <1>2, <2>3, TryVolumeStays
  <2>5. ASSUME NEW c \in W, NEW k \in 1..n
        PROVE  CountVolume(c, mono, limit, h.unused[k]) \in W
    <3> DEFINE m == GetMonoPlan(c.host, mono, h.unused[k])
    <3>1. CountVolume(c, mono, limit, h.unused[k]) =
            IF c.capacity >= limit \/ ~m.ok THEN c
            ELSE [host |-> m.host, capacity |-> c.capacity + 1]
      BY DEF CountVolume
    <3>2. m.ok => m.host \in HostsOn(D, N)
      BY <1>2, <2>3, GroupIsPlanned
    <3> HIDE DEF m
    <3> QED
      BY <3>1, <3>2
  <2>6. \A c \in W : c.capacity \in Nat
    OBVIOUS
  <2>7. VolumesAgree(first, zero, count)
    BY EmptySeq DEF VolumesAgree
  <2> HIDE DEF V, W, n
  <2>8. PICK g : RunsVolumes(g, V, h, count, mono, bound, n)
    BY <1>2, <2>1, <2>3, <2>4, MonoPlansRun
  <2>9. PICK f : RunsTaken(f, W, h, mono, limit, n)
    BY <2>1, <2>3, <2>5, CountVolumesRun
  <2> DEFINE S == {k \in 0..n : VolumesAgree(g[k], f[k], count)}
  <2>10. 0 \in S
    <3> HIDE DEF first, zero
    <3> QED
      BY <2>3, <2>7, <2>8, <2>9 DEF RunsVolumes, RunsTaken, first, zero
  <2>11. ASSUME NEW k \in 1..n, k - 1 \in S
         PROVE  k \in S
    <3>1. k \in 0..n /\ k - 1 \in 0..n
      BY <2>3
    <3>2. g[k - 1] \in GroupsOn(D, N) /\ f[k - 1] \in W /\ VolumesAgree(g[k - 1], f[k - 1], count)
      BY <2>8, <2>9, <2>11, <3>1 DEF RunsVolumes, RunsTaken, V
    <3>3. VolumesAgree(TryVolume(g[k - 1], mono, bound, h.unused[k]),
                       CountVolume(f[k - 1], mono, limit, h.unused[k]), count)
      BY <1>2, <2>3, <2>6, <3>2, VolumesKeepAgreeing
    <3> QED
      BY <2>8, <2>9, <3>1, <3>3 DEF RunsVolumes, RunsTaken
  <2> HIDE DEF S
  <2>12. n \in S
    BY <2>3, <2>10, <2>11, CountsUp
  <2>13. VolumesAgree(g[n], f[n], count) /\ g[n] \in GroupsOn(D, N) /\ f[n] \in W
    BY <2>8, <2>9, <2>12 DEF S, RunsVolumes, RunsTaken, V
  <2> DEFINE plans == GetMonoPlans(h, count, mono, bound).plans
             capacity == CountMonoPlans(h, count, mono, limit)
  <2>14. plans = g[n].plans
    BY <2>8 DEF RunsVolumes
  <2>15. capacity = f[n].capacity
    <3>1. capacity = CountTaken(h, mono, limit).capacity
      BY <1>2 DEF CountMonoPlans, CountTaken
    <3> HIDE DEF capacity
    <3> QED
      BY <2>9, <3>1 DEF RunsTaken
  <2>16. Len(plans) \in Nat
    <3>1. g[n].plans \in Seq(PlannedOn(D, N))
      BY <2>13 DEF GroupsOn
    <3> HIDE DEF plans
    <3> QED
      BY <2>14, <3>1
  <2>17. capacity \in Nat
    BY <2>6, <2>13, <2>15
  <2>18. capacity = Len(plans) \/ (capacity >= count /\ Len(plans) >= count)
    <3> HIDE DEF plans, capacity
    <3> QED
      BY <2>13, <2>14, <2>15 DEF VolumesAgree
  <2> HIDE DEF plans, capacity
  <2>19. Smaller(capacity, count) = Smaller(Len(plans), count)
    BY <2>16, <2>17, <2>18 DEF Smaller
  <2> QED
    BY <2>17, <2>19 DEF plans, capacity, MonosCounted
<1> QED
  BY <1>1, <1>2

-----------------------------------------------------------------------------
(* Counting for all bindings.                                              *)

\* The same number of normal plans, and up to what is wanted of monopoly ones
BestsAgree(best, counted, count) ==
    /\ best.normal \in Nat /\ best.mono \in Nat
    /\ counted.normal \in Nat /\ counted.mono \in Nat
    /\ counted.normal = best.normal
    /\ Smaller(counted.mono, count) = Smaller(best.mono, count)

\* One evaluation counts what the other plans
LEMMA EvaluationIsCounted ==
    ASSUME NEW D \in SUBSET Devices, NEW N \in SUBSET DiskNames, NEW h, NEW classes,
           ClassesOk(classes), NEW count \in Nat, count <= MaxInt, NEW host \in HostsOn(D, N),
           Len(h.unused) \in Nat
    PROVE  BestsAgree(EvaluatePlans(h, classes, count, host),
                      EvaluateCapacity(h, classes, count, host), count)
<1> DEFINE P == PlannedOn(D, N)
           bound == NormalBound(h, count, classes)
           normal == GetNormalPlans(host, count, classes.normal, classes.mount, bound)
           counted == CountNormalPlans(host, count, classes.normal, classes.mount, bound)
           limit == IF classes.unlimited = {} THEN Larger(count, Len(normal.plans) + 1) ELSE MaxInt
           limit1 == Larger(count, counted.capacity + 1)
           monos == GetMonoPlans(normal.host, count, classes.mono, limit).plans
           mono == CountMonoPlans(counted.host, count, classes.mono, limit1)
<1>1. bound \in Nat
  BY MaxIntAssumption DEF NormalBound, Larger
<1>2. EvaluatePlans(h, classes, count, host) =
        [normal |-> Len(normal.plans), mono |-> Len(monos),
         normals |-> normal.plans, monos |-> monos]
  BY DEF EvaluatePlans
<1>3. EvaluateCapacity(h, classes, count, host) = [normal |-> counted.capacity, mono |-> mono]
  BY DEF EvaluateCapacity
<1> HIDE DEF bound
<1>4. normal.host \in HostsOn(D, N) /\ normal.plans \in Seq(P)
  BY <1>1, NormalPlansAreOn DEF ClassesOk
<1>5. counted.host = normal.host /\ counted.capacity = Len(normal.plans)
  BY <1>1, NormalPlansAreCounted DEF ClassesOk, AgreedCount
<1> HIDE DEF normal, counted
<1>6. Len(normal.plans) \in Nat
  BY <1>4
<1>7. limit \in Int /\ limit >= count /\ limit1 \in Int /\ limit1 >= count
  BY <1>5, <1>6, MaxIntAssumption DEF Larger
<1> HIDE DEF limit, limit1
<1>8. Monopolies(classes.mono) \/ classes.mono = <<>>
  BY DEF ClassesOk
<1>9. MonosCounted(mono, monos, count)
  <2>1. mono = CountMonoPlans(normal.host, count, classes.mono, limit1)
    BY <1>5
  <2>2. MonosCounted(CountMonoPlans(normal.host, count, classes.mono, limit1), monos, count)
    BY <1>4, <1>7, <1>8, MonoPlansAreCounted
  <2> QED
    BY <2>1, <2>2
<1>10. monos \in Seq(P)
  BY <1>4, <1>8, MonoPlansAreOn
<1> HIDE DEF mono, monos
<1>11. Len(monos) \in Nat
  BY <1>10
<1> QED
  BY <1>2, <1>3, <1>5, <1>6, <1>9, <1>11 DEF BestsAgree, MonosCounted

\* The planner and the counter open the same volumes
OpeningsAgree(s, c, count) == c.host = s.host /\ BestsAgree(s.best, c.best, count)

\* A volume opened in the one is opened in the other
LEMMA OpeningsKeepAgreeing ==
    ASSUME NEW D \in SUBSET Devices, NEW N \in SUBSET DiskNames, NEW h, NEW classes,
           ClassesOk(classes), NEW count \in Nat, count <= MaxInt, Len(h.unused) \in Nat,
           NEW s, s.host \in HostsOn(D, N), NEW c, OpeningsAgree(s, c, count)
    PROVE  OpeningsAgree(Opening(s, h, classes, count), CountOpening(c, h, classes, count), count)
<1> DEFINE p == Candidate(s.host, classes.normal)
           host == Open(s.host, p)
           best == EvaluatePlans(h, classes, count, host)
           counted == EvaluateCapacity(h, classes, count, host)
<1>1. Opening(s, h, classes, count) =
        IF WorthOpening(s.best, count) /\ p \in DOMAIN s.host.unused
        THEN [host |-> host, best |-> best] ELSE s
  BY DEF Opening, PromoteOne
<1>2. CountOpening(c, h, classes, count) =
        IF WorthOpening(c.best, count) /\ p \in DOMAIN s.host.unused
        THEN [host |-> host, best |-> counted] ELSE c
  BY DEF CountOpening, PromoteOne, OpeningsAgree
<1>3. WorthOpening(s.best, count) <=> WorthOpening(c.best, count)
  BY DEF WorthOpening, OpeningsAgree, BestsAgree, Smaller
<1> HIDE DEF p
<1>4. p \in DOMAIN s.host.unused => host \in HostsOn(D, N)
  BY OpenedStays
<1> HIDE DEF host
<1>5. p \in DOMAIN s.host.unused => BestsAgree(best, counted, count)
  BY <1>4, EvaluationIsCounted
<1> HIDE DEF best, counted
<1>6. CASE WorthOpening(s.best, count) /\ p \in DOMAIN s.host.unused
  BY <1>1, <1>2, <1>3, <1>5, <1>6 DEF OpeningsAgree
<1>7. CASE ~(WorthOpening(s.best, count) /\ p \in DOMAIN s.host.unused)
  BY <1>1, <1>2, <1>3, <1>7
<1> QED
  BY <1>6, <1>7

\* Bindings that were classified: as many plans as are counted
LEMMA ClassesAreCounted ==
    ASSUME NEW D \in SUBSET Devices, NEW N \in SUBSET DiskNames, NEW h \in HostsOn(D, N),
           NEW classes, ClassesOk(classes), NEW count \in Nat, count <= MaxInt
    PROVE  CapacityOfClasses(h, classes, count) = Len(PlansOfClasses(h, classes, count))
<1> DEFINE n == Len(h.unused)
           V == [host : HostsOn(D, N), best : {EvaluatePlans(h, classes, count, host) :
                                                  host \in HostsOn(D, N)}]
           W == [host : HostsOn(D, N), best : {EvaluateCapacity(h, classes, count, host) :
                                                  host \in HostsOn(D, N)}]
           first == [host |-> h, best |-> EvaluatePlans(h, classes, count, h)]
           zero == [host |-> h, best |-> EvaluateCapacity(h, classes, count, h)]
           last == Promoted(h, classes, count)
           lastCounted == CountPromoted(h, classes, count)
           m == Min({last.best.normal, last.best.mono, count})
           o == Min({lastCounted.best.normal, lastCounted.best.mono, count})
<1>1. CASE NoVolumes(h, classes)
  <2>1. PlansOfClasses(h, classes, count) = <<>> /\ CapacityOfClasses(h, classes, count) = 0
    BY <1>1 DEF PlansOfClasses, CapacityOfClasses
  <2> QED
    BY <2>1, EmptySeq
<1>2. CASE ~NoVolumes(h, classes)
  <2>1. n \in Nat
    <3>1. h.unused \in Seq(D)
      BY DEF HostsOn
    <3> QED
      BY <3>1
  <2>2. CapacityOfClasses(h, classes, count) = o
    BY <1>2 DEF CapacityOfClasses, CountPromoted
  <2>3. Len(PlansOfClasses(h, classes, count)) = m \/ m \notin Nat
    <3> DEFINE unlimited == GetUnlimitedPlan(last.host, last.best.normals \o last.best.monos,
                                             classes.unlimited)
    <3>1. PlansOfClasses(h, classes, count)
            = JoinPlans(m, last.best.normals, last.best.monos, unlimited)
      BY <1>2 DEF PlansOfClasses, BestPlans, Promoted
    <3> HIDE DEF m, last, unlimited
    <3> QED
      BY <3>1, JoinedOften
  <2>4. first \in V /\ zero \in W
    OBVIOUS
  <2>5. ASSUME NEW s \in V
        PROVE  Opening(s, h, classes, count) \in V
    <3> DEFINE p == Candidate(s.host, classes.normal)
               host == Open(s.host, p)
    <3>1. Opening(s, h, classes, count) =
            IF WorthOpening(s.best, count) /\ p \in DOMAIN s.host.unused
            THEN [host |-> host, best |-> EvaluatePlans(h, classes, count, host)] ELSE s
      BY DEF Opening, PromoteOne
    <3>2. s.host \in HostsOn(D, N)
      OBVIOUS
    <3> HIDE DEF p
    <3>3. p \in DOMAIN s.host.unused => host \in HostsOn(D, N)
      BY <3>2, OpenedStays
    <3> HIDE DEF host
    <3> QED
      BY <3>1, <3>3
  <2>6. ASSUME NEW c \in W
        PROVE  CountOpening(c, h, classes, count) \in W
    <3> DEFINE p == Candidate(c.host, classes.normal)
               host == Open(c.host, p)
    <3>1. CountOpening(c, h, classes, count) =
            IF WorthOpening(c.best, count) /\ p \in DOMAIN c.host.unused
            THEN [host |-> host, best |-> EvaluateCapacity(h, classes, count, host)] ELSE c
      BY DEF CountOpening, PromoteOne
    <3>2. c.host \in HostsOn(D, N)
      OBVIOUS
    <3> HIDE DEF p
    <3>3. p \in DOMAIN c.host.unused => host \in HostsOn(D, N)
      BY <3>2, OpenedStays
    <3> HIDE DEF host
    <3> QED
      BY <3>1, <3>3
  <2>7. \A s \in V : s.host \in HostsOn(D, N)
    OBVIOUS
  <2>8. OpeningsAgree(first, zero, count)
    BY <2>1, EvaluationIsCounted DEF OpeningsAgree
  <2> HIDE DEF V, W, n
  <2>9. PICK g : RunsPromotions(g, V, h, classes, count, n)
    BY <2>1, <2>4, <2>5, PromotionsRun DEF n
  <2>10. PICK f : RunsCountPromotions(f, W, h, classes, count, n)
    BY <2>1, <2>4, <2>6, CountPromotionsRun DEF n
  <2> DEFINE S == {k \in 0..n : OpeningsAgree(g[k], f[k], count)}
  <2>11. 0 \in S
    <3> HIDE DEF first, zero
    <3> QED
      BY <2>1, <2>8, <2>9, <2>10 DEF RunsPromotions, RunsCountPromotions, first, zero
  <2>12. ASSUME NEW k \in 1..n, k - 1 \in S
         PROVE  k \in S
    <3>1. k \in 0..n /\ k - 1 \in 0..n
      BY <2>1
    <3>2. g[k - 1].host \in HostsOn(D, N) /\ OpeningsAgree(g[k - 1], f[k - 1], count)
      BY <2>7, <2>9, <2>12, <3>1 DEF RunsPromotions
    <3>3. OpeningsAgree(Opening(g[k - 1], h, classes, count),
                        CountOpening(f[k - 1], h, classes, count), count)
      BY <2>1, <3>2, OpeningsKeepAgreeing DEF n
    <3> QED
      BY <2>9, <2>10, <3>1, <3>3 DEF RunsPromotions, RunsCountPromotions
  <2> HIDE DEF S
  <2>13. n \in S
    BY <2>1, <2>11, <2>12, CountsUp
  <2> HIDE DEF last, lastCounted
  <2>14. OpeningsAgree(last, lastCounted, count)
    BY <2>9, <2>10, <2>13 DEF S, RunsPromotions, RunsCountPromotions, last, lastCounted
  <2> DEFINE a == last.best.normal
             b == last.best.mono
             b1 == lastCounted.best.mono
  <2>15. /\ a \in Nat /\ b \in Nat /\ b1 \in Nat
         /\ lastCounted.best.normal = a
         /\ Smaller(b1, count) = Smaller(b, count)
    BY <2>14 DEF OpeningsAgree, BestsAgree
  <2>16. m = Min({a, b, count}) /\ o = Min({a, b1, count})
    BY <2>15
  <2> HIDE DEF a, b, b1, m, o
  <2>17. m \in {a, b, count} /\ m <= a /\ m <= b /\ m <= count
    <3>1. a \in Int /\ b \in Int /\ count \in Int
      BY <2>15
    <3> QED
      BY <2>16, <3>1, LeastOfThree
  <2>18. o \in {a, b1, count} /\ o <= a /\ o <= b1 /\ o <= count
    <3>1. a \in Int /\ b1 \in Int /\ count \in Int
      BY <2>15
    <3> QED
      BY <2>16, <3>1, LeastOfThree
  <2>19. m = o /\ m \in Nat
    BY <2>15, <2>17, <2>18 DEF Smaller
  <2> QED
    BY <2>2, <2>3, <2>19
<1> QED
  BY <1>1, <1>2

\* Whatever record a node has and whatever valid bindings are asked for, the
\* capacity query counts as many plans as GetVolumePlans returns for the same
\* bound (GetVolumeCapacity's comment).
THEOREM PlansAreCounted ==
    ASSUME NEW inf, IsCapacity(inf.capacity), IsUsage(inf.usage),
           NEW vbs, RequestOk(vbs), NEW count \in Nat, count <= MaxInt
    PROVE  GetVolumeCapacity(inf, vbs, count) = Len(GetVolumePlans(inf, vbs, count))
<1> DEFINE h == NewHost(inf)
           classes == ClassifyVolumeBindings(vbs)
<1>0. PICK D \in SUBSET Devices, N \in SUBSET DiskNames, M \in SUBSET DiskNames :
         inf.capacity \in CapacitiesOn(D, N) /\ inf.usage \in UsagesOn(M)
  BY DEF IsCapacity, IsUsage
<1>1. h \in HostsOn(D, N) /\ ClassesOk(classes)
  BY <1>0, NewHostIsOn, ClassesAreOk
<1> HIDE DEF h, classes
<1>2. CASE NeedSchedule(vbs)
  <2>1. /\ GetVolumeCapacity(inf, vbs, count) = CapacityOfClasses(h, classes, count)
        /\ GetVolumePlans(inf, vbs, count) = PlansOfClasses(h, classes, count)
    BY <1>2 DEF GetVolumeCapacity, GetVolumePlans, VolumePlansOn, h, classes
  <2> QED
    BY <1>1, <2>1, ClassesAreCounted
<1>3. CASE ~NeedSchedule(vbs)
  <2>1. /\ GetVolumeCapacity(inf, vbs, count) = count
        /\ GetVolumePlans(inf, vbs, count) = Repeat(count, NoPlan)
    BY <1>3 DEF GetVolumeCapacity, GetVolumePlans, VolumePlansOn
  <2> QED
    BY <2>1, RepeatedOften
<1> QED
  BY <1>2, <1>3

-----------------------------------------------------------------------------
(* Sums of amounts                                                          *)

\* Sums of equal amounts are equal
LEMMA SumSame ==
    ASSUME NEW S, NEW g, NEW h, \A x \in S : g[x] = h[x]
    PROVE  SumOver(g, S) = SumOver(h, S)
<1>1. [x \in S |-> g[x]] = [x \in S |-> h[x]]
  OBVIOUS
<1> QED
  BY <1>1 DEF SumOver

\* One more amount adds to the sum of a list
LEMMA SumAppends ==
    ASSUME NEW n \in Nat, NEW g, NEW h, \A i \in 1..(n + 1) : h[i] \in Int,
           \A i \in 1..n : h[i] = g[i]
    PROVE  SumOver(h, 1..(n + 1)) = SumOver(g, 1..n) + h[n + 1]
<1> DEFINE S == 1..(n + 1)
<1>1. Integral(h, S)
  BY FS_Interval DEF Integral
<1>2. n + 1 \in S /\ S \ {n + 1} = 1..n /\ 1..n \in SUBSET S
  OBVIOUS
<1>3. SumOver(h, 1..n) = SumOver(g, 1..n)
  BY SumSame
<1> HIDE DEF S
<1>4. SumOver(h, S) = h[n + 1] + SumOver(h, 1..n) /\ SumOver(h, 1..n) \in Int
  BY <1>1, <1>2, SumSplits, SMTT(30)
<1>5. h[n + 1] \in Int
  BY <1>2 DEF S
<1> QED
  BY <1>3, <1>4, <1>5 DEF S

\* The same amount n times
LEMMA SumRepeats ==
    ASSUME NEW n \in Nat, NEW c \in Int, NEW g, \A i \in 1..n : g[i] = c
    PROVE  SumOver(g, 1..n) = n * c
<1> DEFINE S == {m \in 0..n : SumOver(g, 1..m) = m * c}
<1>1. 0 \in S
  <2>1. 1..0 = {}
    OBVIOUS
  <2>2. SumOver(g, 1..0) = 0
    BY <2>1, SumOfNone
  <2> QED
    BY <2>2
<1>2. ASSUME NEW i \in 1..n, i - 1 \in S
      PROVE  i \in S
  <2>1. i - 1 \in Nat /\ (i - 1) + 1 = i
    OBVIOUS
  <2>2. SumOver(g, 1..((i - 1) + 1)) = SumOver(g, 1..(i - 1)) + g[(i - 1) + 1]
    BY <2>1, SumAppends
  <2>3. SumOver(g, 1..i) = (i - 1) * c + c
    BY <1>2, <2>1, <2>2
  <2>4. (i - 1) * c + c = i * c
    OBVIOUS
  <2> QED
    BY <2>3, <2>4
<1> HIDE DEF S
<1>3. n \in S
  BY <1>1, <1>2, CountsUp
<1> QED
  BY <1>3 DEF S

-----------------------------------------------------------------------------
(* What plans take of volumes                                               *)

\* The bindings a plan has on a device, their sizes and what these add up to
Placed(plan, device) == {vb \in DOMAIN plan : plan[vb].device = device}
SizesOf(plan) == [vb \in DOMAIN plan |-> plan[vb].size]
Space(plan, device) == SumOver(SizesOf(plan), Placed(plan, device))

\* No binding has less than nothing
Sized(plan) == IsFiniteSet(DOMAIN plan) /\ \A vb \in DOMAIN plan : plan[vb].size \in Nat

\* What a plan takes of a volume is what the usage is charged (VolumePlan's sizes)
LEMMA SpaceIsPlanned ==
    ASSUME NEW plan, NEW device \in Devices
    PROVE  PlannedVolumes(plan)[device] = Space(plan, device)
<1> DEFINE S == Placed(plan, device)
           a == [vb \in S |-> plan[vb].size]
           b == [vb \in S |-> SizesOf(plan)[vb]]
<1>1. \A vb \in S : SizesOf(plan)[vb] = plan[vb].size
  BY DEF SizesOf, Placed
<1>2. a = b
  BY <1>1
<1>3. PlannedVolumes(plan)[device] = SumFunction(a)
  BY DEF PlannedVolumes, Placed
<1>4. Space(plan, device) = SumFunction(b)
  BY DEF Space, SumOver
<1> QED
  BY <1>2, <1>3, <1>4

\* A plan gives no volume back
LEMMA SpaceIsNat ==
    ASSUME NEW plan, Sized(plan), NEW device
    PROVE  Space(plan, device) \in Nat
<1> DEFINE S == Placed(plan, device)
           g == SizesOf(plan)
<1>1. IsFiniteSet(S)
  BY FS_Subset DEF Sized, Placed
<1>2. \A vb \in S : g[vb] \in Nat
  BY DEF Sized, SizesOf, Placed
<1> HIDE DEF g, S
<1>3. SumOver(g, S) \in Nat
  BY <1>1, <1>2, SumIsNat
<1> QED
  BY <1>3 DEF Space, g, S

\* An empty plan takes nothing
LEMMA EmptyTakesNothing ==
    ASSUME NEW device
    PROVE  Sized(EmptyPlan) /\ Space(EmptyPlan, device) = 0
<1>1. DOMAIN EmptyPlan = {} /\ Placed(EmptyPlan, device) = {}
  BY DEF EmptyPlan, Placed
<1> QED
  BY <1>1, SumOfNone, FS_EmptySet DEF Space, Sized

\* A binding placed takes its size on its device and nothing elsewhere
LEMMA PlacingTakes ==
    ASSUME NEW plan, Sized(plan), NEW vb, NEW device, NEW size \in Nat
    PROVE  /\ Sized(Placing(plan, vb, device, size))
           /\ \A d : Space(Placing(plan, vb, device, size), d)
                       <= Space(plan, d) + (IF d = device THEN size ELSE 0)
<1> DEFINE p == Placing(plan, vb, device, size)
<1>1. /\ DOMAIN p = DOMAIN plan \cup {vb}
      /\ p[vb] = [device |-> device, size |-> size]
      /\ \A vb1 \in DOMAIN plan \ {vb} : p[vb1] = plan[vb1]
  BY DEF Placing
<1> HIDE DEF p
<1>2. Sized(p)
  BY <1>1, FS_AddElement DEF Sized
<1>3. ASSUME NEW d
      PROVE  Space(p, d) <= Space(plan, d) + (IF d = device THEN size ELSE 0)
  <2> DEFINE T == Placed(plan, d)
             R == T \ {vb}
             S == Placed(p, d)
             g == SizesOf(plan)
             h == SizesOf(p)
  <2>1. IsFiniteSet(T) /\ IsFiniteSet(S) /\ R \in SUBSET T /\ R \in SUBSET S
    BY <1>1, <1>2, FS_Subset DEF Sized, Placed
  <2>2. (\A x \in T : g[x] \in Nat) /\ (\A x \in S : h[x] \in Nat)
    BY <1>2 DEF Sized, SizesOf, Placed
  <2>3. \A x \in R : h[x] = g[x]
    BY <1>1 DEF SizesOf, Placed
  <2>4. IF d = device THEN vb \in S /\ S \ {vb} = R /\ h[vb] = size ELSE S = R
    BY <1>1 DEF SizesOf, Placed
  <2> HIDE DEF T, S, g, h, R
  <2>5. SumOver(g, R) \in Nat /\ SumOver(g, R) <= SumOver(g, T) /\ SumOver(g, T) \in Nat
    BY <2>1, <2>2, SumIsNat
  <2>6. SumOver(h, R) = SumOver(g, R)
    BY <2>3, SumSame
  <2>7. Integral(h, S)
    BY <2>1, <2>2 DEF Integral
  <2> DEFINE more == IF d = device THEN size ELSE 0
  <2>8. SumOver(h, S) = SumOver(h, R) + more
    <3>1. CASE d = device
      <4>1. SumOver(h, S) = h[vb] + SumOver(h, R) /\ h[vb] = size
        BY <2>4, <2>7, <3>1, SumSplits
      <4> QED
        BY <2>5, <2>6, <3>1, <4>1
    <3>2. CASE d # device
      <4>1. S = R /\ more = 0
        BY <2>4, <3>2
      <4>2. SumOver(h, S) = SumOver(h, R)
        BY <4>1
      <4> QED
        BY <2>5, <2>6, <4>1, <4>2
    <3> QED
      BY <3>1, <3>2
  <2>9. SumOver(h, S) <= SumOver(g, T) + more
    <3>1. more \in Nat
      OBVIOUS
    <3> HIDE DEF more
    <3> QED
      BY <2>5, <2>6, <2>8, <3>1
  <2> QED
    BY <2>9 DEF Space, T, S, g, h
<1> QED
  BY <1>2, <1>3 DEF p

-----------------------------------------------------------------------------
(* What plans take of disks                                                 *)

\* What is used of a disk by two that use disks
LEMMA UsesAddUp ==
    ASSUME NEW N, NEW disks \in DiskPlansOn(N), NEW disks1 \in DiskPlansOn(N), NEW name,
           NEW rate \in Rates
    PROVE  /\ UsedOf(disks, name)[rate] \in Int /\ UsedOf(disks1, name)[rate] \in Int
           /\ UsedOf(AddDisks(disks, disks1), name)[rate]
                = UsedOf(disks, name)[rate] + UsedOf(disks1, name)[rate]
<1> DEFINE all == AddDisks(disks, disks1)
           a == UsedOf(disks, name)
           b == UsedOf(disks1, name)
<1>1. a \in IO /\ b \in IO
  BY UsedOfIsIO DEF DiskPlansOn
<1>2. /\ DOMAIN all = DOMAIN disks \cup DOMAIN disks1
      /\ name \in DOMAIN all => all[name] = AddIO(a, b)
  BY DEF AddDisks
<1>3. a[rate] \in Int /\ b[rate] \in Int
  BY <1>1 DEF IO
<1>4. CASE name \in DOMAIN all
  <2>1. UsedOf(all, name) = AddIO(a, b)
    BY <1>2, <1>4 DEF UsedOf
  <2>2. AddIO(a, b)[rate] = a[rate] + b[rate]
    BY DEF AddIO
  <2> HIDE DEF all, a, b
  <2>3. UsedOf(all, name)[rate] = a[rate] + b[rate]
    BY <2>1, <2>2
  <2> QED
    BY <1>3, <2>3 DEF all, a, b
<1>5. CASE name \notin DOMAIN all
  <2>1. UsedOf(all, name) = NoIO /\ a = NoIO /\ b = NoIO
    BY <1>2, <1>5 DEF UsedOf
  <2>2. NoIO[rate] = 0
    BY DEF NoIO
  <2> HIDE DEF all, a, b
  <2>3. UsedOf(all, name)[rate] = a[rate] + b[rate]
    BY <2>1, <2>2
  <2> QED
    BY <1>3, <2>3 DEF all, a, b
<1> QED
  BY <1>4, <1>5

\* What is charged on a disk is in the disk plan
ChargedBy(h, host, quota) ==
    /\ host.free = h.free /\ DOMAIN host.disks = DOMAIN h.disks
    /\ \A name \in DOMAIN h.disks : host.disks[name].mounts = h.disks[name].mounts
    /\ \A name \in DOMAIN h.disks : \A rate \in Rates :
          /\ UsedOf(quota, name)[rate] \in Nat
          /\ host.disks[name].io[rate] + UsedOf(quota, name)[rate] = h.disks[name].io[rate]
          /\ h.disks[name].io[rate] >= 0 => host.disks[name].io[rate] >= 0

\* What decreaseIOPSQuota takes from a disk is the quota the disk plan records
LEMMA QuotaIsCharged ==
    ASSUME NEW D, NEW N \in SUBSET DiskNames, NEW h \in HostsOn(D, N), NEW path,
           NEW vb, vb.io \in IO, Covers(vb.io, NoIO), RequireIOPS(vb) => Qualified(h, path, vb)
    PROVE  ChargedBy(h, DecreaseIOPSQuota(h, path, vb), DiskQuota(h, path, vb))
<1> DEFINE host == DecreaseIOPSQuota(h, path, vb)
           quota == DiskQuota(h, path, vb)
           name == GetDiskByPath(h.disks, path)
<1>1. /\ \A rate \in Rates : vb.io[rate] \in Nat
      /\ \A n \in N : \A rate \in Rates : h.disks[n].io[rate] \in Int
      /\ DOMAIN h.disks = N
  BY DEF IO, Covers, NoIO, HostsOn, DiskCapacity
<1>2. CASE ~RequireIOPS(vb)
  <2>1. host = h /\ DOMAIN quota = {}
    BY <1>2 DEF DecreaseIOPSQuota, DiskQuota
  <2>2. \A n : UsedOf(quota, n) = NoIO
    BY <2>1 DEF UsedOf
  <2>3. \A rate \in Rates : NoIO[rate] = 0
    BY DEF NoIO
  <2> HIDE DEF quota, host
  <2>4. ASSUME NEW n \in N, NEW rate \in Rates
        PROVE  /\ UsedOf(quota, n)[rate] \in Nat
               /\ host.disks[n].io[rate] + UsedOf(quota, n)[rate] = h.disks[n].io[rate]
               /\ h.disks[n].io[rate] >= 0 => host.disks[n].io[rate] >= 0
    <3>1. UsedOf(quota, n)[rate] = 0 /\ h.disks[n].io[rate] \in Int
      BY <1>1, <2>2, <2>3
    <3> QED
      BY <2>1, <3>1
  <2>5. ChargedBy(h, host, quota)
    BY <1>1, <2>1, <2>4 DEF ChargedBy
  <2> QED
    BY <2>5 DEF host, quota
<1>3. CASE RequireIOPS(vb)
  <2>1. name \in N
    BY <1>3, QualifiedIsThere
  <2>2. DOMAIN quota = {name} /\ quota[name] = vb.io
    BY <1>3 DEF DiskQuota
  <2>3. Covers(h.disks[name].io, vb.io)
    <3>1. name # NoDisk
      BY <2>1, DisksAssumption
    <3> QED
      BY <1>3, <3>1 DEF Qualified, IsDiskIOPSQuotaQualified
  <2>4. /\ host.free = h.free /\ DOMAIN host.disks = N
        /\ host.disks[name].io = SubIO(h.disks[name].io, vb.io)
        /\ host.disks[name].mounts = h.disks[name].mounts
        /\ \A n \in N \ {name} : host.disks[n] = h.disks[n]
    <3>1. host = [h EXCEPT !.disks[name].io = SubIO(@, vb.io)]
      BY <1>3 DEF DecreaseIOPSQuota
    <3> HIDE DEF name, host
    <3> QED
      BY <2>1, <3>1 DEF HostsOn, DiskCapacity
  <2>5. \A n : UsedOf(quota, n) = IF n = name THEN vb.io ELSE NoIO
    <3> HIDE DEF name, quota
    <3> QED
      BY <2>2 DEF UsedOf
  <2>6. \A rate \in Rates : NoIO[rate] = 0
    BY DEF NoIO
  <2>7. \A rate \in Rates : SubIO(h.disks[name].io, vb.io)[rate] = h.disks[name].io[rate] - vb.io[rate]
    BY DEF SubIO
  <2> HIDE DEF name, host, quota
  <2>8. ASSUME NEW n \in N, NEW rate \in Rates
        PROVE  /\ UsedOf(quota, n)[rate] \in Nat
               /\ host.disks[n].io[rate] + UsedOf(quota, n)[rate] = h.disks[n].io[rate]
               /\ h.disks[n].io[rate] >= 0 => host.disks[n].io[rate] >= 0
    <3>1. CASE n = name
      <4>1. UsedOf(quota, n)[rate] = vb.io[rate]
        BY <2>5, <3>1
      <4>2. host.disks[n].io[rate] = h.disks[n].io[rate] - vb.io[rate]
        BY <2>4, <2>7, <3>1
      <4>3. h.disks[n].io[rate] >= vb.io[rate]
        BY <2>3, <3>1 DEF Covers
      <4>4. vb.io[rate] \in Nat /\ h.disks[n].io[rate] \in Int
        BY <1>1
      <4> QED
        BY <4>1, <4>2, <4>3, <4>4
    <3>2. CASE n # name
      <4>1. UsedOf(quota, n)[rate] = 0
        BY <2>5, <2>6, <3>2
      <4>2. host.disks[n] = h.disks[n]
        BY <2>4, <3>2
      <4> QED
        BY <1>1, <4>1, <4>2
    <3> QED
      BY <3>1, <3>2
  <2>9. \A n \in N : host.disks[n].mounts = h.disks[n].mounts
    BY <2>4
  <2>10. ChargedBy(h, host, quota)
    BY <1>1, <2>4, <2>8, <2>9 DEF ChargedBy
  <2> QED
    BY <2>10 DEF host, quota
<1> QED
  BY <1>2, <1>3

-----------------------------------------------------------------------------
(* What attempts take of a host                                             *)

\* No volume and no rate is overdrawn
Solvent(h) ==
    /\ \A device \in DOMAIN h.free : h.free[device] >= 0
    /\ \A name \in DOMAIN h.disks : \A rate \in Rates : h.disks[name].io[rate] >= 0

\* What p, a plan for some of vbs, takes is no more than what has left the host
Pays(h, host, p, vbs) ==
    /\ Sized(p.plan) /\ DOMAIN p.plan \subseteq vbs
    /\ \A device \in DOMAIN h.free : host.free[device] + Space(p.plan, device) <= h.free[device]
    /\ \A name \in DOMAIN h.disks : \A rate \in Rates :
          /\ UsedOf(p.disks, name)[rate] \in Nat
          /\ host.disks[name].io[rate] + UsedOf(p.disks, name)[rate] <= h.disks[name].io[rate]

\* Bindings to be planned: with sizes and rates that are not less than nothing
Wanted(req) == req \in VolumeBinding /\ req.size >= 0 /\ Covers(req.io, NoIO)

\* An attempt that spends what it plans
Paid(D, N, h, vbs) ==
    {a \in AttemptsOn(D, N) : Solvent(a.host) /\ Pays(h, a.host, a, vbs)}

\* An attempt that has planned nothing owes nothing
LEMMA AttemptIsPaid ==
    ASSUME NEW D \in SUBSET Devices, NEW N \in SUBSET DiskNames, NEW h \in HostsOn(D, N),
           Solvent(h), NEW vbs
    PROVE  Attempt(h) \in Paid(D, N, h, vbs)
<1> DEFINE a == Attempt(h)
<1>1. a \in AttemptsOn(D, N)
  BY EmptyPlansStay
<1>2. a.host = h /\ a.plan = EmptyPlan /\ a.disks = NoDisks
  BY DEF Attempt
<1>3. Sized(EmptyPlan) /\ \A device : Space(EmptyPlan, device) = 0
  BY EmptyTakesNothing
<1>4. \A name : \A rate \in Rates : UsedOf(NoDisks, name)[rate] = 0
  BY DEF UsedOf, NoDisks, NoIO
<1>5. DOMAIN EmptyPlan = {}
  BY DEF EmptyPlan
<1>6. /\ DOMAIN h.free = D /\ \A device \in D : h.free[device] \in Int
      /\ DOMAIN h.disks = N /\ \A name \in N : \A rate \in Rates : h.disks[name].io[rate] \in Int
  BY DEF HostsOn, DiskCapacity, IO
<1> HIDE DEF a
<1>7. Pays(h, h, a, vbs)
  BY <1>2, <1>3, <1>4, <1>5, <1>6 DEF Pays
<1>8. a \in Paid(D, N, h, vbs)
  BY <1>1, <1>2, <1>7 DEF Paid
<1> QED
  BY <1>8 DEF a

\* A normal binding is paid for
LEMMA PlaceNormalIsPaid ==
    ASSUME NEW D \in SUBSET Devices, NEW N \in SUBSET DiskNames, NEW h \in HostsOn(D, N),
           NEW vbs, NEW a \in Paid(D, N, h, vbs), NEW req \in vbs, Wanted(req)
    PROVE  PlaceNormal(a, req) \in Paid(D, N, h, vbs)
<1> DEFINE fitting == Fitting(a.host, req)
           device == Least(a.host.free, fitting)
           taken == TakeSpace(a.host, device, req.size)
           host == DecreaseIOPSQuota(taken, device, req)
           quota == DiskQuota(a.host, device, req)
           disks == AddDisks(a.disks, quota)
           plan == Placing(a.plan, req, device, req.size)
           next == PlaceNormal(a, req)
<1>1. /\ a \in AttemptsOn(D, N) /\ Solvent(a.host) /\ Pays(h, a.host, a, vbs)
      /\ a.host \in HostsOn(D, N) /\ a.plan \in PlansOn(D) /\ a.disks \in DiskPlansOn(N)
  BY DEF AttemptsOn, Paid
<1>2. next \in AttemptsOn(D, N)
  BY <1>1, PlaceNormalStays DEF Wanted
<1>3. CASE ~a.ok \/ fitting = {}
  <2>1. next.host = a.host /\ next.plan = a.plan /\ next.disks = a.disks
    BY <1>1, <1>3 DEF PlaceNormal, AttemptsOn
  <2> HIDE DEF next
  <2>2. Pays(h, next.host, next, vbs)
    BY <1>1, <2>1 DEF Pays
  <2> QED
    BY <1>1, <1>2, <2>1, <2>2 DEF Paid, next
<1>4. CASE a.ok /\ fitting # {}
  <2>1. fitting \in SUBSET D
    <3>1. a.host.used \in Seq(D)
      BY <1>1 DEF HostsOn
    <3> QED
      BY <3>1, MembersAreIn DEF Fitting
  <2>2. a.host.free \in [D -> Int] /\ DOMAIN a.host.disks = N
    BY <1>1 DEF HostsOn
  <2>3. device \in fitting
    <3>1. fitting \in SUBSET Devices /\ \A d \in fitting : a.host.free[d] \in Int
      BY <2>1, <2>2
    <3> HIDE DEF fitting
    <3> QED
      BY <1>4, <3>1, LeastIsThere
  <2>4. device \in D /\ Qualified(a.host, device, req) /\ a.host.free[device] >= req.size
    <3> HIDE DEF device
    <3> QED
      BY <2>1, <2>3 DEF Fitting
  <2>5. req.size \in Nat /\ req.io \in IO /\ Covers(req.io, NoIO)
    BY BindingParts DEF Wanted
  <2>6. next.host = host /\ next.plan = plan /\ next.disks = disks
    <3>1. next = PlaceOn(a, device, req)
      BY <1>4 DEF PlaceNormal
    <3> QED
      BY <1>1, <3>1 DEF PlaceOn, AttemptsOn
  <2> HIDE DEF device, next
  <2>7. /\ taken \in HostsOn(D, N) /\ taken.disks = a.host.disks
        /\ taken.free[device] = a.host.free[device] - req.size
        /\ \A d \in D \ {device} : taken.free[d] = a.host.free[d]
    <3>1. taken \in HostsOn(D, N) /\ taken.disks = a.host.disks
      BY <1>1, <2>4, <2>5, TakenStays
    <3>2. taken.free = [a.host.free EXCEPT ![device] = @ - req.size]
      BY <1>1 DEF TakeSpace, HostsOn
    <3> HIDE DEF taken
    <3> QED
      BY <2>2, <2>4, <3>1, <3>2
  <2> HIDE DEF taken
  <2>8. Qualified(taken, device, req) /\ DiskQuota(taken, device, req) = quota
    BY <2>4, <2>7 DEF Qualified, DiskQuota
  <2>9. ChargedBy(taken, host, quota) /\ host \in HostsOn(D, N) /\ quota \in DiskPlansOn(N)
    BY <2>5, <2>7, <2>8, QuotaIsCharged, ChargesStay
  <2> HIDE DEF host, quota
  <2>10. Sized(plan) /\ \A d : Space(plan, d) <= Space(a.plan, d) + (IF d = device THEN req.size ELSE 0)
    BY <1>1, <2>5, PlacingTakes DEF Pays
  <2>11. DOMAIN plan \subseteq vbs
    BY <1>1 DEF Pays, Placing
  <2> HIDE DEF plan
  <2>12. ASSUME NEW d \in D
         PROVE  host.free[d] >= 0 /\ host.free[d] + Space(plan, d) <= h.free[d]
    <3>1. host.free[d] = taken.free[d]
      BY <2>9 DEF ChargedBy
    <3>2. /\ a.host.free[d] \in Int /\ a.host.free[d] >= 0
          /\ h.free[d] \in Int /\ a.host.free[d] + Space(a.plan, d) <= h.free[d]
      BY <1>1, <2>2 DEF Solvent, Pays, HostsOn
    <3>3. Space(a.plan, d) \in Nat /\ Space(plan, d) \in Nat
      BY <1>1, <2>10, SpaceIsNat DEF Pays
    <3>4. CASE d = device
      <4>1. Space(plan, d) <= Space(a.plan, d) + req.size
        BY <2>10, <3>4
      <4>2. taken.free[d] = a.host.free[d] - req.size /\ a.host.free[d] >= req.size
        BY <2>4, <2>7, <3>4
      <4> QED
        BY <2>5, <3>1, <3>2, <3>3, <4>1, <4>2
    <3>5. CASE d # device
      <4>1. Space(plan, d) <= Space(a.plan, d)
        BY <2>10, <3>3, <3>5
      <4>2. taken.free[d] = a.host.free[d]
        BY <2>7, <3>5
      <4> QED
        BY <3>1, <3>2, <3>3, <4>1, <4>2
    <3> QED
      BY <3>4, <3>5
  <2> HIDE DEF disks
  <2>13. ASSUME NEW name \in N, NEW rate \in Rates
         PROVE  /\ host.disks[name].io[rate] >= 0
                /\ UsedOf(disks, name)[rate] \in Nat
                /\ host.disks[name].io[rate] + UsedOf(disks, name)[rate] <= h.disks[name].io[rate]
    <3>1. /\ UsedOf(quota, name)[rate] \in Nat
          /\ host.disks[name].io[rate] + UsedOf(quota, name)[rate] = a.host.disks[name].io[rate]
          /\ a.host.disks[name].io[rate] >= 0 => host.disks[name].io[rate] >= 0
      BY <2>2, <2>7, <2>9 DEF ChargedBy
    <3>2. /\ a.host.disks[name].io[rate] >= 0 /\ UsedOf(a.disks, name)[rate] \in Nat
          /\ a.host.disks[name].io[rate] + UsedOf(a.disks, name)[rate] <= h.disks[name].io[rate]
      BY <1>1, <2>2 DEF Solvent, Pays, HostsOn
    <3>3. /\ host.disks[name].io[rate] \in Int /\ h.disks[name].io[rate] \in Int
          /\ a.host.disks[name].io[rate] \in Int
      BY <1>1, <2>9 DEF HostsOn, DiskCapacity, IO
    <3>4. UsedOf(disks, name)[rate] = UsedOf(a.disks, name)[rate] + UsedOf(quota, name)[rate]
      BY <1>1, <2>9, UsesAddUp DEF disks
    <3> QED
      BY <3>1, <3>2, <3>3, <3>4
  <2>14. DOMAIN host.free = D /\ DOMAIN host.disks = N /\ DOMAIN h.free = D /\ DOMAIN h.disks = N
    BY <2>9 DEF HostsOn
  <2>15. Solvent(host)
    BY <2>12, <2>13, <2>14 DEF Solvent
  <2>16. Pays(h, host, next, vbs)
    BY <2>6, <2>10, <2>11, <2>12, <2>13, <2>14 DEF Pays
  <2> QED
    BY <1>2, <2>6, <2>15, <2>16 DEF Paid, next
<1> QED
  BY <1>3, <1>4

\* A mount is paid for
LEMMA ChargeMountIsPaid ==
    ASSUME NEW D \in SUBSET Devices, NEW N \in SUBSET DiskNames, NEW h \in HostsOn(D, N),
           NEW vbs, NEW a \in Paid(D, N, h, vbs), NEW req, Wanted(req)
    PROVE  ChargeMount(a, req) \in Paid(D, N, h, vbs)
<1> DEFINE host == DecreaseIOPSQuota(a.host, req.source, req)
           quota == DiskQuota(a.host, req.source, req)
           disks == AddDisks(a.disks, quota)
           next == ChargeMount(a, req)
<1>1. /\ a \in AttemptsOn(D, N) /\ Solvent(a.host) /\ Pays(h, a.host, a, vbs)
      /\ a.host \in HostsOn(D, N) /\ a.plan \in PlansOn(D) /\ a.disks \in DiskPlansOn(N)
  BY DEF AttemptsOn, Paid
<1>2. next \in AttemptsOn(D, N)
  BY <1>1, ChargeMountStays DEF Wanted
<1>3. CASE ~RequireIOPS(req) \/ ~a.ok \/ ~Qualified(a.host, req.source, req)
  <2>1. next.host = a.host /\ next.plan = a.plan /\ next.disks = a.disks
    BY <1>1, <1>3 DEF ChargeMount, AttemptsOn
  <2> HIDE DEF next
  <2>2. Pays(h, next.host, next, vbs)
    BY <1>1, <2>1 DEF Pays
  <2> QED
    BY <1>1, <1>2, <2>1, <2>2 DEF Paid, next
<1>4. CASE RequireIOPS(req) /\ a.ok /\ Qualified(a.host, req.source, req)
  <2>1. next.host = host /\ next.plan = a.plan /\ next.disks = disks
    BY <1>1, <1>4 DEF ChargeMount, AttemptsOn
  <2>2. req.io \in IO /\ Covers(req.io, NoIO)
    BY BindingParts DEF Wanted
  <2>3. ChargedBy(a.host, host, quota) /\ host \in HostsOn(D, N) /\ quota \in DiskPlansOn(N)
    BY <1>1, <1>4, <2>2, QuotaIsCharged, ChargesStay
  <2> HIDE DEF host, quota, disks, next
  <2>4. DOMAIN host.free = D /\ DOMAIN host.disks = N /\ DOMAIN h.free = D /\ DOMAIN h.disks = N
        /\ DOMAIN a.host.free = D /\ DOMAIN a.host.disks = N /\ host.free = a.host.free
    BY <1>1, <2>3 DEF HostsOn, ChargedBy
  <2>5. ASSUME NEW name \in N, NEW rate \in Rates
        PROVE  /\ host.disks[name].io[rate] >= 0
               /\ UsedOf(disks, name)[rate] \in Nat
               /\ host.disks[name].io[rate] + UsedOf(disks, name)[rate] <= h.disks[name].io[rate]
    <3>1. /\ UsedOf(quota, name)[rate] \in Nat
          /\ host.disks[name].io[rate] + UsedOf(quota, name)[rate] = a.host.disks[name].io[rate]
          /\ a.host.disks[name].io[rate] >= 0 => host.disks[name].io[rate] >= 0
      BY <2>3, <2>4 DEF ChargedBy
    <3>2. /\ a.host.disks[name].io[rate] >= 0 /\ UsedOf(a.disks, name)[rate] \in Nat
          /\ a.host.disks[name].io[rate] + UsedOf(a.disks, name)[rate] <= h.disks[name].io[rate]
      BY <1>1, <2>4 DEF Solvent, Pays
    <3>3. /\ host.disks[name].io[rate] \in Int /\ h.disks[name].io[rate] \in Int
          /\ a.host.disks[name].io[rate] \in Int
      BY <1>1, <2>3 DEF HostsOn, DiskCapacity, IO
    <3>4. UsedOf(disks, name)[rate] = UsedOf(a.disks, name)[rate] + UsedOf(quota, name)[rate]
      BY <1>1, <2>3, UsesAddUp DEF disks
    <3> QED
      BY <3>1, <3>2, <3>3, <3>4
  <2>6. Solvent(host)
    BY <1>1, <2>4, <2>5 DEF Solvent
  <2>7. Pays(h, host, next, vbs)
    BY <1>1, <2>1, <2>4, <2>5 DEF Pays
  <2> QED
    BY <1>2, <2>1, <2>6, <2>7 DEF Paid, next
<1> QED
  BY <1>3, <1>4

\* A pass over normal bindings and mounts is paid for
LEMMA PassIsPaid ==
    ASSUME NEW D \in SUBSET Devices, NEW N \in SUBSET DiskNames, NEW h \in HostsOn(D, N),
           Solvent(h), NEW vbs,
           NEW normal \in Seq(VolumeBinding), \A k \in 1..Len(normal) : normal[k] \in vbs /\ Wanted(normal[k]),
           NEW mount \in Seq(VolumeBinding), \A k \in 1..Len(mount) : Wanted(mount[k])
    PROVE  GetMountDiskPlan(GetNormalPlan(h, normal), mount) \in Paid(D, N, h, vbs)
<1> DEFINE V == Paid(D, N, h, vbs)
<1>1. /\ Len(normal) \in Nat /\ DOMAIN normal = 1..Len(normal)
      /\ Len(mount) \in Nat /\ DOMAIN mount = 1..Len(mount)
  BY BindingList
<1>2. Attempt(h) \in V
  BY AttemptIsPaid
<1>3. \A a \in V, k \in 1..Len(normal) : PlaceNormal(a, normal[k]) \in V
  BY PlaceNormalIsPaid
<1>4. \A a \in V, k \in 1..Len(mount) : ChargeMount(a, mount[k]) \in V
  BY ChargeMountIsPaid
<1> HIDE DEF V
<1>5. GetNormalPlan(h, normal) \in V
  BY <1>1, <1>2, <1>3, NormalPlanStays
<1>6. GetMountDiskPlan(GetNormalPlan(h, normal), mount) \in V
  BY <1>1, <1>4, <1>5, MountPlanStays
<1> QED
  BY <1>6 DEF V

-----------------------------------------------------------------------------
(* What many plans take of a host                                           *)

\* What each of some plans takes of a device, and all of them
SpaceIn(plans, device) == [i \in DOMAIN plans |-> Space(plans[i].plan, device)]
AllSpace(plans, device) == SumOver(SpaceIn(plans, device), 1..Len(plans))

\* The same for a rate of a disk
UsesIn(plans, name, rate) == [i \in DOMAIN plans |-> UsedOf(plans[i].disks, name)[rate]]
AllUses(plans, name, rate) == SumOver(UsesIn(plans, name, rate), 1..Len(plans))

\* p takes no less than nothing
Takes(p, vbs) ==
    /\ Sized(p.plan) /\ DOMAIN p.plan \subseteq vbs
    /\ \A name \in DiskNames : \A rate \in Rates : UsedOf(p.disks, name)[rate] \in Nat

\* What the plans take is no more than what has left the host
PaysAll(h, host, plans, vbs) ==
    /\ \A i \in 1..Len(plans) : Takes(plans[i], vbs)
    /\ \A device \in DOMAIN h.free : host.free[device] + AllSpace(plans, device) <= h.free[device]
    /\ \A name \in DOMAIN h.disks : \A rate \in Rates :
          host.disks[name].io[rate] + AllUses(plans, name, rate) <= h.disks[name].io[rate]

\* What a plan takes of disks that are not charged
LEMMA PlanTakes ==
    ASSUME NEW D, NEW N \in SUBSET DiskNames, NEW h, DOMAIN h.disks = N, NEW host,
           NEW p, p.disks \in DiskPlansOn(N), NEW vbs, Pays(h, host, p, vbs)
    PROVE  Takes(p, vbs)
<1>1. Sized(p.plan) /\ DOMAIN p.plan \subseteq vbs
  BY DEF Pays
<1>2. ASSUME NEW name \in DiskNames, NEW rate \in Rates
      PROVE  UsedOf(p.disks, name)[rate] \in Nat
  <2>1. CASE name \in N
    BY <2>1 DEF Pays
  <2>2. CASE name \notin N
    <3>1. name \notin DOMAIN p.disks
      BY <2>2, DiskPlanParts
    <3>2. UsedOf(p.disks, name) = NoIO
      BY <3>1 DEF UsedOf
    <3> QED
      BY <3>2 DEF NoIO
  <2> QED
    BY <2>1, <2>2
<1> QED
  BY <1>1, <1>2 DEF Takes

\* The sums are numbers
LEMMA TakenIsNat ==
    ASSUME NEW plans, Len(plans) \in Nat, DOMAIN plans = 1..Len(plans), NEW vbs,
           \A i \in 1..Len(plans) : Takes(plans[i], vbs)
    PROVE  /\ \A device : AllSpace(plans, device) \in Nat
           /\ \A device : \A i \in 1..Len(plans) : SpaceIn(plans, device)[i] \in Nat
           /\ \A name \in DiskNames, rate \in Rates : AllUses(plans, name, rate) \in Nat
           /\ \A name \in DiskNames, rate \in Rates :
                 \A i \in 1..Len(plans) : UsesIn(plans, name, rate)[i] \in Nat
<1>1. ASSUME NEW device, NEW i \in 1..Len(plans)
      PROVE  SpaceIn(plans, device)[i] \in Nat
  <2>1. Space(plans[i].plan, device) \in Nat
    BY SpaceIsNat DEF Takes
  <2> QED
    BY <2>1 DEF SpaceIn
<1>2. ASSUME NEW name \in DiskNames, NEW rate \in Rates, NEW i \in 1..Len(plans)
      PROVE  UsesIn(plans, name, rate)[i] \in Nat
  BY DEF UsesIn, Takes
<1>3. IsFiniteSet(1..Len(plans))
  BY FS_Interval
<1>4. ASSUME NEW device
      PROVE  AllSpace(plans, device) \in Nat
  BY <1>1, <1>3, SumIsNat DEF AllSpace
<1>5. ASSUME NEW name \in DiskNames, NEW rate \in Rates
      PROVE  AllUses(plans, name, rate) \in Nat
  BY <1>2, <1>3, SumIsNat DEF AllUses
<1> QED
  BY <1>1, <1>2, <1>4, <1>5

\* Nothing takes nothing
LEMMA NonePays ==
    ASSUME NEW D, NEW N, NEW h \in HostsOn(D, N), NEW vbs
    PROVE  PaysAll(h, h, <<>>, vbs)
<1>1. Len(<<>>) = 0 /\ 1..0 = {} /\ DOMAIN <<>> = {}
  OBVIOUS
<1>2. \A device : AllSpace(<<>>, device) = 0
  BY <1>1, SumOfNone DEF AllSpace
<1>3. \A name, rate : AllUses(<<>>, name, rate) = 0
  BY <1>1, SumOfNone DEF AllUses
<1>4. /\ DOMAIN h.free = D /\ \A device \in D : h.free[device] \in Int
      /\ DOMAIN h.disks = N /\ \A name \in N : \A rate \in Rates : h.disks[name].io[rate] \in Int
  BY DEF HostsOn, DiskCapacity, IO
<1> QED
  BY <1>1, <1>2, <1>3, <1>4 DEF PaysAll

\* One more plan is paid for with what leaves the host after the others
LEMMA OneMorePays ==
    ASSUME NEW D, NEW N \in SUBSET DiskNames, NEW h \in HostsOn(D, N), NEW host \in HostsOn(D, N),
           NEW host1 \in HostsOn(D, N), NEW plans \in Seq(PlannedOn(D, N)),
           NEW p \in PlannedOn(D, N), NEW vbs,
           PaysAll(h, host, plans, vbs), Pays(host, host1, p, vbs)
    PROVE  PaysAll(h, host1, Append(plans, p), vbs)
<1> DEFINE n == Len(plans)
           all == Append(plans, p)
<1>1. /\ n \in Nat /\ DOMAIN plans = 1..n /\ Len(all) = n + 1 /\ DOMAIN all = 1..(n + 1)
      /\ all[n + 1] = p /\ \A i \in 1..n : all[i] = plans[i]
  OBVIOUS
<1>2. Takes(p, vbs)
  <2>1. DOMAIN host.disks = N /\ p.disks \in DiskPlansOn(N)
    BY DEF HostsOn, PlannedOn
  <2> QED
    BY <2>1, PlanTakes
<1> HIDE DEF all
<1>3. \A i \in 1..(n + 1) : Takes(all[i], vbs)
  <2>1. \A i \in 1..(n + 1) : i = n + 1 \/ i \in 1..n
    BY <1>1
  <2> QED
    BY <1>1, <1>2, <2>1 DEF PaysAll
<1>9. /\ Len(all) \in Nat /\ DOMAIN all = 1..Len(all)
      /\ \A i \in 1..Len(all) : Takes(all[i], vbs)
  BY <1>1, <1>3
<1>4. /\ DOMAIN h.free = D /\ DOMAIN h.disks = N /\ DOMAIN host.free = D /\ DOMAIN host.disks = N
      /\ \A device \in D : /\ h.free[device] \in Int /\ host.free[device] \in Int
                           /\ host1.free[device] \in Int
      /\ \A name \in N : \A rate \in Rates :
            /\ h.disks[name].io[rate] \in Int /\ host.disks[name].io[rate] \in Int
            /\ host1.disks[name].io[rate] \in Int
  BY DEF HostsOn, DiskCapacity, IO
<1>5. ASSUME NEW device \in D
      PROVE  host1.free[device] + AllSpace(all, device) <= h.free[device]
  <2> DEFINE f == SpaceIn(all, device)
             e == SpaceIn(plans, device)
  <2>1. \A i \in 1..(n + 1) : f[i] \in Int
    <3>1. \A i \in 1..Len(all) : f[i] \in Nat
      BY <1>9, TakenIsNat
    <3> QED
      BY <1>1, <3>1
  <2>2. (\A i \in 1..n : f[i] = e[i]) /\ f[n + 1] = Space(p.plan, device)
    BY <1>1 DEF SpaceIn
  <2> HIDE DEF e, f
  <2>3. SumOver(f, 1..(n + 1)) = SumOver(e, 1..n) + f[n + 1]
    BY <1>1, <2>1, <2>2, SumAppends
  <2>4. AllSpace(all, device) = AllSpace(plans, device) + Space(p.plan, device)
    BY <1>1, <2>2, <2>3 DEF AllSpace, e, f
  <2>5. AllSpace(plans, device) \in Nat
    BY <1>1, TakenIsNat DEF PaysAll
  <2>6. Space(p.plan, device) \in Nat
    BY <1>2, SpaceIsNat DEF Takes
  <2>7. host.free[device] + AllSpace(plans, device) <= h.free[device]
    BY <1>4 DEF PaysAll
  <2>8. host1.free[device] + Space(p.plan, device) <= host.free[device]
    BY <1>4 DEF Pays
  <2> QED
    BY <1>4, <2>4, <2>5, <2>6, <2>7, <2>8
<1>6. ASSUME NEW name \in N, NEW rate \in Rates
      PROVE  host1.disks[name].io[rate] + AllUses(all, name, rate) <= h.disks[name].io[rate]
  <2> DEFINE f == UsesIn(all, name, rate)
             e == UsesIn(plans, name, rate)
  <2>0. name \in DiskNames
    OBVIOUS
  <2>1. \A i \in 1..(n + 1) : f[i] \in Int
    <3>1. \A i \in 1..Len(all) : f[i] \in Nat
      BY <1>9, <2>0, TakenIsNat
    <3> QED
      BY <1>1, <3>1
  <2>2. (\A i \in 1..n : f[i] = e[i]) /\ f[n + 1] = UsedOf(p.disks, name)[rate]
    BY <1>1 DEF UsesIn
  <2> HIDE DEF e, f
  <2>3. SumOver(f, 1..(n + 1)) = SumOver(e, 1..n) + f[n + 1]
    BY <1>1, <2>1, <2>2, SumAppends
  <2>4. AllUses(all, name, rate) = AllUses(plans, name, rate) + UsedOf(p.disks, name)[rate]
    BY <1>1, <2>2, <2>3 DEF AllUses, e, f
  <2>5. AllUses(plans, name, rate) \in Nat
    BY <1>1, <2>0, TakenIsNat DEF PaysAll
  <2>6. UsedOf(p.disks, name)[rate] \in Nat
    BY <1>2, <2>0 DEF Takes
  <2>7. host.disks[name].io[rate] + AllUses(plans, name, rate) <= h.disks[name].io[rate]
    BY <1>4 DEF PaysAll
  <2>8. host1.disks[name].io[rate] + UsedOf(p.disks, name)[rate] <= host.disks[name].io[rate]
    BY <1>4 DEF Pays
  <2> QED
    BY <1>4, <2>4, <2>5, <2>6, <2>7, <2>8
<1>7. PaysAll(h, host1, all, vbs)
  BY <1>1, <1>3, <1>4, <1>5, <1>6 DEF PaysAll
<1> QED
  BY <1>7 DEF all

\* What leaves the host for nothing is still missing
LEMMA LostPays ==
    ASSUME NEW D, NEW N \in SUBSET DiskNames, NEW h \in HostsOn(D, N), NEW host \in HostsOn(D, N),
           NEW host1 \in HostsOn(D, N), NEW plans \in Seq(PlannedOn(D, N)), NEW p, NEW vbs,
           PaysAll(h, host, plans, vbs), Pays(host, host1, p, vbs)
    PROVE  PaysAll(h, host1, plans, vbs)
<1>1. Len(plans) \in Nat /\ DOMAIN plans = 1..Len(plans)
  OBVIOUS
<1>4. /\ DOMAIN h.free = D /\ DOMAIN h.disks = N /\ DOMAIN host.free = D /\ DOMAIN host.disks = N
      /\ \A device \in D : /\ h.free[device] \in Int /\ host.free[device] \in Int
                           /\ host1.free[device] \in Int
      /\ \A name \in N : \A rate \in Rates :
            /\ h.disks[name].io[rate] \in Int /\ host.disks[name].io[rate] \in Int
            /\ host1.disks[name].io[rate] \in Int
  BY DEF HostsOn, DiskCapacity, IO
<1>5. ASSUME NEW device \in D
      PROVE  host1.free[device] + AllSpace(plans, device) <= h.free[device]
  <2>5. AllSpace(plans, device) \in Nat
    BY <1>1, TakenIsNat DEF PaysAll
  <2>6. Space(p.plan, device) \in Nat
    BY SpaceIsNat DEF Pays
  <2>7. host.free[device] + AllSpace(plans, device) <= h.free[device]
    BY <1>4 DEF PaysAll
  <2>8. host1.free[device] + Space(p.plan, device) <= host.free[device]
    BY <1>4 DEF Pays
  <2> QED
    BY <1>4, <2>5, <2>6, <2>7, <2>8
<1>6. ASSUME NEW name \in N, NEW rate \in Rates
      PROVE  host1.disks[name].io[rate] + AllUses(plans, name, rate) <= h.disks[name].io[rate]
  <2>5. AllUses(plans, name, rate) \in Nat
    BY <1>1, TakenIsNat DEF PaysAll
  <2>6. UsedOf(p.disks, name)[rate] \in Nat
    BY <1>4 DEF Pays
  <2>7. host.disks[name].io[rate] + AllUses(plans, name, rate) <= h.disks[name].io[rate]
    BY <1>4 DEF PaysAll
  <2>8. host1.disks[name].io[rate] + UsedOf(p.disks, name)[rate] <= host.disks[name].io[rate]
    BY <1>4 DEF Pays
  <2> QED
    BY <1>4, <2>5, <2>6, <2>7, <2>8
<1> QED
  BY <1>1, <1>4, <1>5, <1>6 DEF PaysAll

\* What there is to plan for a pass
Listed(normal, mount, vbs) ==
    /\ normal \in Seq(VolumeBinding) /\ mount \in Seq(VolumeBinding)
    /\ \A k \in 1..Len(normal) : normal[k] \in vbs /\ Wanted(normal[k])
    /\ \A k \in 1..Len(mount) : Wanted(mount[k])

\* What is planned leaves a solvent host
PaidUp(h, s, vbs) == Solvent(s.host) /\ PaysAll(h, s.host, s.plans, vbs)

\* A pass over the normal bindings and the mounts spends what it plans
LEMMA NormalPassIsPaid ==
    ASSUME NEW D \in SUBSET Devices, NEW N \in SUBSET DiskNames, NEW h \in HostsOn(D, N),
           NEW normal, NEW mount, NEW vbs, Listed(normal, mount, vbs),
           NEW s \in PassesOn(D, N), PaidUp(h, s, vbs)
    PROVE  PaidUp(h, NormalPass(s, normal, mount), vbs)
<1> DEFINE a == GetMountDiskPlan(GetNormalPlan(s.host, normal), mount)
           p == [plan |-> a.plan, disks |-> a.disks]
           next == NormalPass(s, normal, mount)
<1>1. s.failed \in BOOLEAN /\ s.host \in HostsOn(D, N) /\ s.plans \in Seq(PlannedOn(D, N))
  BY DEF PassesOn
<1>2. CASE s.failed
  BY <1>2 DEF NormalPass
<1>3. CASE ~s.failed
  <2>1. a \in Paid(D, N, s.host, vbs)
    BY <1>1, PassIsPaid DEF Listed, PaidUp
  <2>2. next = [failed |-> ~a.ok, host |-> a.host,
                plans |-> IF ~a.ok THEN s.plans ELSE Append(s.plans, p)]
    BY <1>3 DEF NormalPass
  <2>3. next.host = a.host /\ next.plans = IF ~a.ok THEN s.plans ELSE Append(s.plans, p)
    BY <2>2
  <2> HIDE DEF a, next
  <2>4. /\ a.host \in HostsOn(D, N) /\ p \in PlannedOn(D, N) /\ Solvent(a.host)
        /\ Pays(s.host, a.host, a, vbs)
    BY <2>1 DEF Paid, AttemptsOn, PlannedOn
  <2>5. Pays(s.host, a.host, p, vbs)
    BY <2>4 DEF Pays
  <2> HIDE DEF p
  <2>6. PaysAll(h, a.host, s.plans, vbs)
    BY <1>1, <2>4, LostPays DEF PaidUp
  <2>7. PaysAll(h, a.host, Append(s.plans, p), vbs)
    BY <1>1, <2>4, <2>5, OneMorePays DEF PaidUp
  <2>8. PaidUp(h, next, vbs)
    BY <2>3, <2>4, <2>6, <2>7 DEF PaidUp
  <2> QED
    BY <2>8 DEF next
<1> QED
  BY <1>2, <1>3

\* So do all the passes
LEMMA NormalPassesArePaid ==
    ASSUME NEW D \in SUBSET Devices, NEW N \in SUBSET DiskNames, NEW h \in HostsOn(D, N),
           Solvent(h), NEW normal, NEW mount, NEW vbs, Listed(normal, mount, vbs),
           NEW bound \in Nat
    PROVE  PaidUp(h, GetNormalPasses(h, normal, mount, bound), vbs)
<1> DEFINE V == {s \in PassesOn(D, N) : PaidUp(h, s, vbs)}
           first == [failed |-> FALSE, host |-> h, plans |-> <<>>]
<1>1. first \in V
  <2>1. first \in PassesOn(D, N)
    BY DEF PassesOn
  <2>2. PaidUp(h, first, vbs)
    BY NonePays DEF PaidUp
  <2> QED
    BY <2>1, <2>2
<1>2. \A s \in V : NormalPass(s, normal, mount) \in V
  BY NormalPassIsPaid, NormalPassStays DEF Listed
<1> HIDE DEF V
<1>3. PICK g : RunsPasses(g, V, h, normal, mount, bound)
  BY <1>1, <1>2, NormalPassesRun
<1>4. bound \in 0..bound
  OBVIOUS
<1>5. GetNormalPasses(h, normal, mount, bound) \in V
  BY <1>3, <1>4 DEF RunsPasses
<1> QED
  BY <1>5 DEF V

-----------------------------------------------------------------------------
(* Mounts alone                                                             *)

\* Disks with the same mount points
SameMounts(disks, disks1) ==
    /\ DOMAIN disks1 = DOMAIN disks
    /\ \A name \in DOMAIN disks : disks1[name].mounts = disks[name].mounts

\* A path is on the same disk, whatever is left of the rates
LEMMA MountsDecide ==
    ASSUME NEW disks, NEW disks1, SameMounts(disks, disks1), NEW path
    PROVE  GetDiskByPath(disks1, path) = GetDiskByPath(disks, path)
<1> DEFINE Covering(mounts) == {m \in mounts : IsPrefix(Parts[m], Parts[path])}
           Depths(mounts, name) == {<<Len(Parts[mount]), name>> : mount \in Covering(mounts)}
           f == [name \in DOMAIN disks |-> Depths(disks[name].mounts, name)]
           f1 == [name \in DOMAIN disks1 |-> Depths(disks1[name].mounts, name)]
<1>1. f1 = f
  <2> HIDE DEF Depths
  <2> QED
    BY DEF SameMounts
<1>2. GetDiskByPath(disks, path) = Deepest(UNION {f[name] : name \in DOMAIN f})
  <2>1. {f[name] : name \in DOMAIN f} = {Depths(disks[name].mounts, name) : name \in DOMAIN disks}
    <3> HIDE DEF Depths
    <3> QED
      OBVIOUS
  <2>2. GetDiskByPath(disks, path)
          = Deepest(UNION {Depths(disks[name].mounts, name) : name \in DOMAIN disks})
    BY DEF GetDiskByPath
  <2> QED
    BY <2>1, <2>2
<1>3. GetDiskByPath(disks1, path) = Deepest(UNION {f1[name] : name \in DOMAIN f1})
  <2>1. {f1[name] : name \in DOMAIN f1} = {Depths(disks1[name].mounts, name) : name \in DOMAIN disks1}
    <3> HIDE DEF Depths
    <3> QED
      OBVIOUS
  <2>2. GetDiskByPath(disks1, path)
          = Deepest(UNION {Depths(disks1[name].mounts, name) : name \in DOMAIN disks1})
    BY DEF GetDiskByPath
  <2> QED
    BY <2>1, <2>2
<1> QED
  BY <1>1, <1>2, <1>3

\* What is used of a disk by two that use disks, all rates of it
LEMMA UsesAddAll ==
    ASSUME NEW N, NEW disks \in DiskPlansOn(N), NEW disks1 \in DiskPlansOn(N), NEW name
    PROVE  UsedOf(AddDisks(disks, disks1), name) = AddIO(UsedOf(disks, name), UsedOf(disks1, name))
<1> DEFINE all == AddDisks(disks, disks1)
<1>1. /\ DOMAIN all = DOMAIN disks \cup DOMAIN disks1
      /\ name \in DOMAIN all => all[name] = AddIO(UsedOf(disks, name), UsedOf(disks1, name))
  BY DEF AddDisks
<1> HIDE DEF all
<1>2. CASE name \in DOMAIN all
  BY <1>1, <1>2 DEF UsedOf, all
<1>3. CASE name \notin DOMAIN all
  <2>1. UsedOf(all, name) = NoIO /\ UsedOf(disks, name) = NoIO /\ UsedOf(disks1, name) = NoIO
    BY <1>1, <1>3 DEF UsedOf
  <2>2. AddIO(NoIO, NoIO) = NoIO
    BY DEF AddIO, NoIO
  <2> QED
    BY <2>1, <2>2 DEF all
<1> QED
  BY <1>2, <1>3

\* An attempt at the mounts keeps the mount points
Mounted(D, N, h, vbs) == {a \in Paid(D, N, h, vbs) : SameMounts(h.disks, a.host.disks)}

\* A mount that is charged spends its quota alone
LEMMA ChargeMountIsMounted ==
    ASSUME NEW D \in SUBSET Devices, NEW N \in SUBSET DiskNames, NEW h \in HostsOn(D, N),
           NEW vbs, NEW a \in Mounted(D, N, h, vbs), NEW req, Wanted(req)
    PROVE  ChargeMount(a, req) \in Mounted(D, N, h, vbs)
<1> DEFINE host == DecreaseIOPSQuota(a.host, req.source, req)
           quota == DiskQuota(a.host, req.source, req)
           next == ChargeMount(a, req)
           fit == RequireIOPS(req) /\ a.ok /\ Qualified(a.host, req.source, req)
<1>1. a \in Paid(D, N, h, vbs) /\ SameMounts(h.disks, a.host.disks)
  BY DEF Mounted
<1>2. next \in Paid(D, N, h, vbs)
  BY <1>1, ChargeMountIsPaid
<1>3. a.host \in HostsOn(D, N) /\ a = [ok |-> a.ok, host |-> a.host, plan |-> a.plan, disks |-> a.disks]
  BY <1>1 DEF Paid, AttemptsOn
<1>4. CASE ~fit
  <2>1. next.host = a.host
    BY <1>3, <1>4 DEF ChargeMount
  <2> QED
    BY <1>1, <1>2, <2>1 DEF Mounted
<1>5. CASE fit
  <2>1. next.host = host
    <3>1. next = [a EXCEPT !.host = host, !.disks = AddDisks(a.disks, quota)]
      BY <1>5 DEF ChargeMount
    <3> HIDE DEF host, next
    <3> QED
      BY <1>3, <3>1
  <2>2. ChargedBy(a.host, host, quota)
    BY <1>3, <1>5, QuotaIsCharged DEF Wanted, VolumeBinding
  <2> HIDE DEF host, next
  <2>3. SameMounts(h.disks, next.host.disks)
    BY <1>1, <2>1, <2>2 DEF ChargedBy, SameMounts
  <2> QED
    BY <1>2, <2>3 DEF Mounted, next
<1> HIDE DEF fit, next
<1> QED
  BY <1>4, <1>5 DEF next

\* Mounts that may be charged
AllWanted(mount) == \A k \in 1..Len(mount) : Wanted(mount[k])

\* What has been charged is what a pass takes
PassIsCharged(first, mount) ==
    \A name : UsedOf(first.disks, name) = QuotaOn(first.host, mount, name)

\* What a first pass over the mounts has charged on a disk
LEMMA PassCharges ==
    ASSUME NEW D \in SUBSET Devices, NEW N \in SUBSET DiskNames, NEW h \in HostsOn(D, N),
           Solvent(h), NEW mount \in Seq(VolumeBinding),
           AllWanted(mount), NEW first, first = GetMountDiskPlan(Attempt(h), mount), first.ok
    PROVE  PassIsCharged(first, mount)
<1>0. SUFFICES ASSUME NEW name
               PROVE  UsedOf(first.disks, name) = QuotaOn(first.host, mount, name)
  BY DEF PassIsCharged
<1> DEFINE n == Len(mount)
           V == Mounted(D, N, h, {})
<1>1. n \in Nat /\ DOMAIN mount = 1..n
  BY BindingList
<1>2. Attempt(h) \in V
  BY AttemptIsPaid DEF Mounted, SameMounts, Attempt
<1>3. \A a \in V, k \in 1..n : ChargeMount(a, mount[k]) \in V
  BY ChargeMountIsMounted DEF AllWanted
<1> HIDE DEF V
<1>4. PICK g : RunsMounts(g, V, Attempt(h), mount, n)
  BY <1>1, <1>2, <1>3, MountPlanRuns
<1>5. /\ first = g[n] /\ g[0] = Attempt(h)
      /\ \A k \in 0..n : g[k] \in V
      /\ \A k \in 1..n : g[k] = ChargeMount(g[k - 1], mount[k])
  BY <1>4 DEF RunsMounts
<1>6. \A k \in 0..n : g[k] \in AttemptsOn(D, N) /\ SameMounts(h.disks, g[k].host.disks)
  BY <1>5 DEF V, Mounted, Paid
<1>7. SameMounts(h.disks, first.host.disks)
  BY <1>1, <1>5, <1>6
<1>14. NoIO \in IO
  BY DEF NoIO, IO
<1>8. \A io \in IO, k \in 1..n : AddQuotaOn(first.host, name, io, mount[k]) \in IO
  <2> TAKE io \in IO, k \in 1..n
  <2>2. mount[k].io \in IO
    BY BindingList, BindingParts
  <2>3. AddIO(io, mount[k].io) \in IO
    BY <2>2 DEF AddIO, IO
  <2> QED
    BY <2>3 DEF AddQuotaOn
<1>9. PICK q : RunsQuota(q, IO, first.host, name, mount, n)
  BY <1>1, <1>8, <1>14, QuotaRuns
<1>10. /\ QuotaOn(first.host, mount, name) = q[n] /\ q[0] = NoIO
       /\ \A k \in 0..n : q[k] \in IO
       /\ \A k \in 1..n : q[k] = AddQuotaOn(first.host, name, q[k - 1], mount[k])
  BY <1>9 DEF RunsQuota
<1> DEFINE S == {k \in 0..n : g[k].ok => UsedOf(g[k].disks, name) = q[k]}
<1>11. 0 \in S
  <2>1. UsedOf(g[0].disks, name) = NoIO
    BY <1>5 DEF Attempt, NoDisks, UsedOf
  <2> QED
    BY <1>1, <1>10, <2>1
<1>12. ASSUME NEW k \in 1..n, k - 1 \in S
       PROVE  k \in S
  <2> DEFINE a == g[k - 1]
             req == mount[k]
             disk == GetDiskByPath(a.host.disks, req.source)
             quota == DiskQuota(a.host, req.source, req)
  <2>1. /\ k - 1 \in 0..n /\ k \in 0..n /\ Wanted(req)
        /\ g[k] = ChargeMount(a, req) /\ q[k] = AddQuotaOn(first.host, name, q[k - 1], req)
        /\ a.ok => UsedOf(a.disks, name) = q[k - 1]
    BY <1>5, <1>10, <1>12 DEF AllWanted
  <2>2. a \in AttemptsOn(D, N) /\ q[k - 1] \in IO /\ SameMounts(h.disks, a.host.disks)
    BY <1>6, <1>10, <2>1
  <2>3. GetDiskByPath(first.host.disks, req.source) = disk
    <3>1. /\ GetDiskByPath(first.host.disks, req.source) = GetDiskByPath(h.disks, req.source)
          /\ disk = GetDiskByPath(h.disks, req.source)
      BY <1>7, <2>2, MountsDecide
    <3> QED
      BY <3>1
  <2>4. req.io \in IO
    BY <2>1 DEF Wanted, VolumeBinding
  <2>5. CASE ~RequireIOPS(req)
    BY <2>1, <2>5 DEF ChargeMount, AddQuotaOn
  <2>6. CASE RequireIOPS(req) /\ (~a.ok \/ ~Qualified(a.host, req.source, req))
    <3>1. g[k] = [a EXCEPT !.ok = FALSE]
      BY <2>1, <2>6 DEF ChargeMount
    <3>2. ~g[k].ok
      <4> HIDE DEF a
      <4> QED
        BY <2>2, <3>1 DEF AttemptsOn
    <3> QED
      BY <2>1, <3>2
  <2>7. CASE RequireIOPS(req) /\ a.ok /\ Qualified(a.host, req.source, req)
    <3>1. g[k].disks = AddDisks(a.disks, quota)
      <4>1. g[k] = [a EXCEPT !.host = DecreaseIOPSQuota(a.host, req.source, req),
                             !.disks = AddDisks(a.disks, quota)]
        BY <2>1, <2>7 DEF ChargeMount
      <4> HIDE DEF a, quota
      <4> QED
        BY <2>2, <4>1 DEF AttemptsOn
    <3>2. a.disks \in DiskPlansOn(N) /\ a.host \in HostsOn(D, N)
      BY <2>2 DEF AttemptsOn
    <3>3. quota \in DiskPlansOn(N)
      BY <2>4, <2>7, <3>2, ChargesStay
    <3>4. UsedOf(quota, name) = IF disk = name THEN req.io ELSE NoIO
      <4>1. DOMAIN quota = {disk} /\ quota[disk] = req.io
        BY <2>7 DEF DiskQuota
      <4> HIDE DEF quota, disk
      <4> QED
        BY <4>1 DEF UsedOf
    <3>5. UsedOf(g[k].disks, name) = AddIO(UsedOf(a.disks, name), UsedOf(quota, name))
      BY <3>1, <3>2, <3>3, UsesAddAll
    <3>6. UsedOf(a.disks, name) = q[k - 1]
      BY <2>1, <2>7
    <3>7. q[k] = IF disk = name THEN AddIO(q[k - 1], req.io) ELSE q[k - 1]
      BY <2>1, <2>3, <2>7 DEF AddQuotaOn
    <3>8. AddIO(q[k - 1], NoIO) = q[k - 1]
      BY <2>2 DEF AddIO, NoIO, IO
    <3> HIDE DEF a, quota, disk
    <3> QED
      BY <2>1, <3>4, <3>5, <3>6, <3>7, <3>8
  <2> QED
    BY <2>5, <2>6, <2>7
<1> HIDE DEF S
<1>13. n \in S
  BY <1>1, <1>11, <1>12, CountsUp
<1> QED
  BY <1>5, <1>10, <1>13 DEF S

\* As much as fits so often fits less often
LEMMA TimesFit ==
    ASSUME NEW m \in Nat, NEW q \in Nat, q > 0, NEW io \in Nat, m <= Truncated(io, q)
    PROVE  m * q <= io
<1>1. Truncated(io, q) = io \div q
  BY DEF Truncated
<1>2. io \div q \in Nat /\ (io \div q) * q <= io
  OBVIOUS
<1> DEFINE k == io \div q
<1>3. m <= k /\ k \in Nat /\ k * q <= io
  BY <1>1, <1>2
<1> HIDE DEF k
<1>4. m * q <= k * q
  <2>1. (k - m) * q >= 0
    BY <1>3
  <2>2. (k - m) * q = k * q - m * q
    BY <1>3
  <2>3. m * q \in Int /\ k * q \in Int
    BY <1>3
  <2> HIDE DEF k
  <2> QED
    BY <2>1, <2>2, <2>3
<1>5. m * q \in Int /\ k * q \in Int
  BY <1>3
<1> QED
  BY <1>3, <1>4, <1>5

\* One plan, n times
LEMMA RepeatPays ==
    ASSUME NEW D, NEW N \in SUBSET DiskNames, NEW h \in HostsOn(D, N), NEW host \in HostsOn(D, N),
           NEW p, NEW vbs, Takes(p, vbs), NEW n \in Nat,
           \A device \in D : host.free[device] + n * Space(p.plan, device) <= h.free[device],
           \A name \in N : \A rate \in Rates :
              host.disks[name].io[rate] + n * UsedOf(p.disks, name)[rate] <= h.disks[name].io[rate]
    PROVE  PaysAll(h, host, Repeat(n, p), vbs)
<1> DEFINE plans == Repeat(n, p)
<1>1. Len(plans) = n /\ DOMAIN plans = 1..n /\ \A i \in 1..n : plans[i] = p
  BY DEF Repeat
<1> HIDE DEF plans
<1>2. \A device \in D : AllSpace(plans, device) = n * Space(p.plan, device)
  <2> TAKE device \in D
  <2> DEFINE g == SpaceIn(plans, device)
             c == Space(p.plan, device)
  <2>1. \A i \in 1..n : g[i] = c
    BY <1>1 DEF SpaceIn
  <2>2. c \in Int
    BY SpaceIsNat DEF Takes
  <2> HIDE DEF g, c
  <2>3. SumOver(g, 1..n) = n * c
    BY <2>1, <2>2, SumRepeats
  <2> QED
    BY <1>1, <2>3 DEF AllSpace, g, c
<1>3. \A name \in N : \A rate \in Rates : AllUses(plans, name, rate) = n * UsedOf(p.disks, name)[rate]
  <2> TAKE name \in N
  <2> TAKE rate \in Rates
  <2> DEFINE g == UsesIn(plans, name, rate)
             c == UsedOf(p.disks, name)[rate]
  <2>1. \A i \in 1..n : g[i] = c
    BY <1>1 DEF UsesIn
  <2>2. c \in Int
    BY DEF Takes
  <2> HIDE DEF g, c
  <2>3. SumOver(g, 1..n) = n * c
    BY <2>1, <2>2, SumRepeats
  <2> QED
    BY <1>1, <2>3 DEF AllUses, g, c
<1>4. DOMAIN h.free = D /\ DOMAIN h.disks = N
  BY DEF HostsOn
<1>5. \A i \in 1..Len(plans) : Takes(plans[i], vbs)
  BY <1>1
<1>6. PaysAll(h, host, plans, vbs)
  BY <1>2, <1>3, <1>4, <1>5 DEF PaysAll
<1> QED
  BY <1>6 DEF plans

\* A plan of nothing
LEMMA NothingTakes ==
    ASSUME NEW disks, NEW vbs, \A name \in DiskNames : \A rate \in Rates : UsedOf(disks, name)[rate] \in Nat
    PROVE  Takes([plan |-> EmptyPlan, disks |-> disks], vbs)
<1>1. Sized(EmptyPlan)
  BY EmptyTakesNothing
<1>2. DOMAIN EmptyPlan = {}
  BY DEF EmptyPlan
<1> QED
  BY <1>1, <1>2 DEF Takes

\* The empty disk plan takes no rate of any disk
LEMMA NoDisksTaken ==
    \A name : \A rate \in Rates : UsedOf(NoDisks, name)[rate] = 0
BY DEF UsedOf, NoDisks, NoIO

\* All the passes over the mounts are paid for
LEMMA ChargedPassesArePaid ==
    ASSUME NEW D \in SUBSET Devices, NEW N \in SUBSET DiskNames, NEW h \in HostsOn(D, N),
           Solvent(h), NEW mount \in Seq(VolumeBinding),
           AllWanted(mount), NEW bound \in Nat, bound >= 1, NEW vbs,
           NEW first, first = GetMountDiskPlan(Attempt(h), mount), first.ok,
           first \in Paid(D, N, h, vbs),
           NEW n, n = MountPasses(first, mount, bound),
           NEW charged, charged = ChargePasses(first.host, mount, DOMAIN first.disks, n - 1),
           NEW p, p = [plan |-> EmptyPlan, disks |-> first.disks]
    PROVE  /\ n \in Nat /\ charged \in HostsOn(D, N) /\ Solvent(charged)
           /\ PaysAll(h, charged, Repeat(n, p), vbs)
<1> DEFINE Q(name) == UsedOf(first.disks, name)
<1>1. /\ first \in AttemptsOn(D, N) /\ Solvent(first.host) /\ Pays(h, first.host, first, vbs)
      /\ first.host \in HostsOn(D, N) /\ first.disks \in DiskPlansOn(N)
  BY DEF Paid, AttemptsOn
<1>2. /\ n \in Nat /\ n >= 1
      /\ \A name \in DOMAIN first.disks :
           n <= 1 + QuotaHeadroom(first.host.disks[name].io, QuotaOn(first.host, mount, name))
  BY MountPassesIsNat
<1>3. charged \in HostsOn(D, N)
  <2>1. n - 1 \in Int
    BY <1>2
  <2> QED
    BY <1>1, <2>1, ChargedPassesStay
<1>4. \A name : QuotaOn(first.host, mount, name) = Q(name)
  <2>1. PassIsCharged(first, mount)
    BY PassCharges
  <2> QED
    BY <2>1 DEF PassIsCharged
<1>5. /\ DOMAIN h.free = D /\ DOMAIN h.disks = N
      /\ \A device \in D : h.free[device] \in Int /\ first.host.free[device] \in Int
      /\ \A name \in N : h.disks[name].io \in IO /\ first.host.disks[name].io \in IO
      /\ DOMAIN first.host.free = D /\ DOMAIN first.host.disks = N
      /\ DOMAIN charged.free = D /\ DOMAIN charged.disks = N
  BY <1>1, <1>3 DEF HostsOn, DiskCapacity
<1>6. charged.free = first.host.free
  BY <1>1 DEF ChargePasses, HostsOn
<1>7. Takes(first, vbs)
  BY <1>1, <1>5, PlanTakes
<1>8. Takes(p, vbs)
  BY <1>7, NothingTakes DEF Takes
<1>9. \A name \in DOMAIN first.disks : name \in N
  BY <1>1, DiskPlanParts
<1>10. ASSUME NEW name \in N, NEW rate \in Rates
       PROVE  charged.disks[name].io[rate] = first.host.disks[name].io[rate] - (n - 1) * Q(name)[rate]
  <2> DEFINE Left(x) == [r \in Rates |->
                           first.host.disks[x].io[r] - (n - 1) * QuotaOn(first.host, mount, x)[r]]
             disk(x) == IF x \notin DOMAIN first.disks THEN first.host.disks[x]
                        ELSE [first.host.disks[x] EXCEPT !.io = Left(x)]
             disks == [x \in N |-> disk(x)]
  <2>1. charged = [first.host EXCEPT !.disks = disks]
    BY <1>5 DEF ChargePasses
  <2>2. charged.disks = disks
    <3> HIDE DEF disks
    <3> QED
      BY <1>1, <2>1 DEF HostsOn
  <2>3. charged.disks[name] = disk(name)
    BY <2>2
  <2>4. CASE name \notin DOMAIN first.disks
    <3>1. charged.disks[name] = first.host.disks[name]
      BY <2>3, <2>4
    <3>2. Q(name)[rate] = 0
      BY <2>4 DEF UsedOf, NoIO
    <3>3. first.host.disks[name].io[rate] \in Int
      BY <1>5 DEF IO
    <3> HIDE DEF Q
    <3> QED
      BY <1>2, <3>1, <3>2, <3>3
  <2>5. CASE name \in DOMAIN first.disks
    <3>1. charged.disks[name] = [first.host.disks[name] EXCEPT !.io = Left(name)]
      BY <2>3, <2>5
    <3> HIDE DEF Left
    <3>2. first.host.disks[name] \in DiskCapacity
      BY <1>1 DEF HostsOn
    <3>3. charged.disks[name].io = Left(name)
      BY <3>1, <3>2 DEF DiskCapacity
    <3>4. charged.disks[name].io[rate] = Left(name)[rate]
      BY <3>3
    <3>5. Left(name)[rate] = first.host.disks[name].io[rate] - (n - 1) * QuotaOn(first.host, mount, name)[rate]
      BY DEF Left
    <3> HIDE DEF Q
    <3> QED
      BY <1>4, <3>4, <3>5
  <2> QED
    BY <2>4, <2>5
<1>11. ASSUME NEW name \in N, NEW rate \in Rates
       PROVE  /\ Q(name)[rate] \in Nat
              /\ charged.disks[name].io[rate] >= 0
              /\ charged.disks[name].io[rate] + n * Q(name)[rate] <= h.disks[name].io[rate]
  <2> DEFINE q == Q(name)[rate]
             io == first.host.disks[name].io[rate]
             all == h.disks[name].io[rate]
  <2>1. q \in Nat /\ io + q <= all
    BY <1>1, <1>5 DEF Pays
  <2>2. io \in Nat /\ all \in Int
    BY <1>1, <1>5 DEF Solvent, IO
  <2>3. n - 1 \in Nat
    BY <1>2
  <2>4. charged.disks[name].io[rate] = io - (n - 1) * q
    BY <1>10
  <2>5. (n - 1) * q <= io
    <3>1. CASE q = 0
      <4> HIDE DEF q, io
      <4>1. (n - 1) * q = 0
        BY <2>3, <3>1
      <4> QED
        BY <2>2, <4>1
    <3>2. CASE q > 0
      <4>1. name \in DOMAIN first.disks
        BY <3>2 DEF UsedOf, NoIO
      <4> DEFINE have == first.host.disks[name].io
                 sum == QuotaOn(first.host, mount, name)
      <4>2. sum \in IO /\ sum[rate] = q /\ have \in IO /\ have[rate] = io
        BY <1>4, <1>5, QuotaIsIO
      <4>3. Covers(have, NoIO)
        BY <1>1, <1>5 DEF Solvent, Covers, NoIO
      <4>4. n <= 1 + QuotaHeadroom(have, sum)
        BY <1>2, <4>1
      <4> HIDE DEF have, sum, q, io
      <4>5. /\ QuotaHeadroom(have, sum) \in Nat
            /\ QuotaHeadroom(have, sum) <= Truncated(have[rate], sum[rate])
        BY <3>2, <4>2, <4>3, HeadroomIsNat
      <4>6. Truncated(io, q) \in Int
        <5>1. Truncated(io, q) = io \div q
          BY <2>2 DEF Truncated
        <5>2. io \div q \in Int
          BY <2>1, <2>2, <3>2
        <5> QED
          BY <5>1, <5>2
      <4>7. n - 1 <= Truncated(io, q)
        BY <1>2, <4>2, <4>4, <4>5, <4>6
      <4> QED
        BY <2>1, <2>2, <2>3, <3>2, <4>7, TimesFit
    <3> HIDE DEF q
    <3> QED
      BY <2>1, <3>1, <3>2
  <2>6. n * q = (n - 1) * q + q /\ (n - 1) * q \in Int
    <3> HIDE DEF q
    <3> QED
      BY <1>2, <2>1
  <2>7. io - (n - 1) * q >= 0 /\ (io - (n - 1) * q) + n * q <= all
    <3> DEFINE most == (n - 1) * q
    <3>1. most \in Int /\ n * q = most + q /\ most <= io
      BY <2>5, <2>6
    <3> HIDE DEF most, q, io, all
    <3>2. io - most >= 0 /\ (io - most) + n * q <= all
      BY <2>1, <2>2, <3>1
    <3> QED
      BY <3>2 DEF most
  <2> QED
    BY <2>1, <2>4, <2>7
<1>12. ASSUME NEW device \in D
       PROVE  /\ charged.free[device] >= 0
              /\ charged.free[device] + n * Space(p.plan, device) <= h.free[device]
  <2>1. Space(p.plan, device) = 0
    BY EmptyTakesNothing
  <2>2. Space(first.plan, device) \in Nat
    BY <1>1, SpaceIsNat DEF Pays
  <2>3. first.host.free[device] + Space(first.plan, device) <= h.free[device]
    BY <1>1, <1>5 DEF Pays
  <2>4. first.host.free[device] >= 0
    BY <1>1, <1>5 DEF Solvent
  <2>5. n * 0 = 0
    BY <1>2
  <2> QED
    BY <1>5, <1>6, <2>1, <2>2, <2>3, <2>4, <2>5
<1>13. Solvent(charged)
  BY <1>5, <1>11, <1>12 DEF Solvent
<1>14. \A name : UsedOf(p.disks, name) = Q(name)
  OBVIOUS
<1>15. PaysAll(h, charged, Repeat(n, p), vbs)
  <2>1. \A name \in N : \A rate \in Rates :
           charged.disks[name].io[rate] + n * UsedOf(p.disks, name)[rate] <= h.disks[name].io[rate]
    BY <1>11, <1>14
  <2> QED
    BY <1>2, <1>3, <1>8, <1>12, <2>1, RepeatPays
<1> QED
  BY <1>2, <1>3, <1>13, <1>15

\* Plans of nothing cost nothing
LEMMA FreePlansArePaid ==
    ASSUME NEW D, NEW N \in SUBSET DiskNames, NEW h \in HostsOn(D, N), NEW vbs, NEW n \in Nat
    PROVE  PaysAll(h, h, Repeat(n, NoPlan), vbs)
<1>1. NoPlan.plan = EmptyPlan /\ NoPlan.disks = NoDisks /\ NoPlan = [plan |-> EmptyPlan, disks |-> NoDisks]
  BY DEF NoPlan
<1>2. Takes(NoPlan, vbs)
  BY <1>1, NoDisksTaken, NothingTakes
<1>3. /\ \A device \in D : h.free[device] \in Int
      /\ \A name \in N : \A rate \in Rates : h.disks[name].io[rate] \in Int
  BY DEF HostsOn, DiskCapacity, IO
<1>4. n * 0 = 0
  OBVIOUS
<1>5. \A device \in D : h.free[device] + n * Space(NoPlan.plan, device) <= h.free[device]
  <2> TAKE device \in D
  <2>1. Space(NoPlan.plan, device) = 0
    BY <1>1, EmptyTakesNothing
  <2> QED
    BY <1>3, <1>4, <2>1
<1>6. \A name \in N : \A rate \in Rates :
         h.disks[name].io[rate] + n * UsedOf(NoPlan.disks, name)[rate] <= h.disks[name].io[rate]
  <2> TAKE name \in N
  <2> TAKE rate \in Rates
  <2>1. UsedOf(NoPlan.disks, name)[rate] = 0
    BY <1>1, NoDisksTaken
  <2> QED
    BY <1>3, <1>4, <2>1
<1> QED
  BY <1>2, <1>5, <1>6, RepeatPays

\* The plans of mounts alone are paid for, the pass that fails included
LEMMA MountOnlyPlansArePaid ==
    ASSUME NEW D \in SUBSET Devices, NEW N \in SUBSET DiskNames, NEW h \in HostsOn(D, N),
           Solvent(h), NEW mount \in Seq(VolumeBinding), AllWanted(mount), NEW bound \in Nat, NEW vbs
    PROVE  PaidUp(h, GetMountOnlyPlans(h, mount, bound), vbs)
<1> DEFINE first == GetMountDiskPlan(Attempt(h), mount)
           n == MountPasses(first, mount, bound)
           charged == ChargePasses(first.host, mount, DOMAIN first.disks, n - 1)
           passes == ApplyMountPasses(h, mount, bound)
           answer == GetMountOnlyPlans(h, mount, bound)
           able == first.ok /\ bound >= 1
<1>1. first \in Paid(D, N, h, vbs)
  <2> DEFINE V == Paid(D, N, h, vbs)
  <2>1. Len(mount) \in Nat /\ DOMAIN mount = 1..Len(mount)
    BY BindingList
  <2>2. Attempt(h) \in V
    BY AttemptIsPaid
  <2>3. \A a \in V, k \in 1..Len(mount) : ChargeMount(a, mount[k]) \in V
    BY ChargeMountIsPaid DEF AllWanted
  <2> HIDE DEF V
  <2>4. GetMountDiskPlan(Attempt(h), mount) \in V
    BY <2>1, <2>2, <2>3, MountPlanStays
  <2> QED
    BY <2>4 DEF V
<1>2. passes = IF ~first.ok \/ bound < 1
               THEN [host |-> first.host, capacity |-> 0, disks |-> NoDisks]
               ELSE [host |-> TrailingPass(charged, mount, n, bound),
                     capacity |-> n, disks |-> first.disks]
  BY DEF ApplyMountPasses
<1>3. answer = [host |-> passes.host,
                plans |-> Repeat(passes.capacity, [plan |-> EmptyPlan, disks |-> passes.disks])]
  BY DEF GetMountOnlyPlans
<1>4. first = GetMountDiskPlan(Attempt(h), mount)
  OBVIOUS
<1> HIDE DEF first, passes, answer
<1>5. /\ first \in AttemptsOn(D, N) /\ Solvent(first.host) /\ Pays(h, first.host, first, vbs)
      /\ first.host \in HostsOn(D, N) /\ first.disks \in DiskPlansOn(N)
  BY <1>1 DEF Paid, AttemptsOn
<1>6. CASE ~able
  <2> DEFINE p == [plan |-> EmptyPlan, disks |-> NoDisks]
  <2>1. ~first.ok \/ bound < 1
    BY <1>6
  <2>2. passes = [host |-> first.host, capacity |-> 0, disks |-> NoDisks]
    BY <1>2, <2>1
  <2>3. answer = [host |-> first.host, plans |-> Repeat(0, p)]
    BY <1>3, <2>2
  <2>4. PaysAll(h, first.host, Repeat(0, p), vbs)
    <3>1. Takes(p, vbs)
      BY NoDisksTaken, NothingTakes
    <3>2. Space(p.plan, 0) = 0 /\ \A device : Space(p.plan, device) = 0
      BY EmptyTakesNothing
    <3>3. \A name : \A rate \in Rates : UsedOf(p.disks, name)[rate] = 0
      BY NoDisksTaken
    <3> HIDE DEF p
    <3>4. /\ DOMAIN h.free = D /\ DOMAIN h.disks = N
          /\ \A device \in D : h.free[device] \in Int /\ first.host.free[device] \in Int
          /\ \A name \in N : \A rate \in Rates :
                h.disks[name].io[rate] \in Int /\ first.host.disks[name].io[rate] \in Int
      BY <1>5 DEF HostsOn, DiskCapacity, IO
    <3>5. \A device \in D : first.host.free[device] + 0 * Space(p.plan, device) <= h.free[device]
      <4> TAKE device \in D
      <4>1. Space(first.plan, device) \in Nat
        BY <1>5, SpaceIsNat DEF Pays
      <4>2. first.host.free[device] + Space(first.plan, device) <= h.free[device]
        BY <1>5, <3>4 DEF Pays
      <4> QED
        BY <3>2, <3>4, <4>1, <4>2
    <3>6. \A name \in N : \A rate \in Rates :
             first.host.disks[name].io[rate] + 0 * UsedOf(p.disks, name)[rate] <= h.disks[name].io[rate]
      <4> TAKE name \in N
      <4> TAKE rate \in Rates
      <4>1. /\ UsedOf(first.disks, name)[rate] \in Nat
            /\ first.host.disks[name].io[rate] + UsedOf(first.disks, name)[rate] <= h.disks[name].io[rate]
        BY <1>5, <3>4 DEF Pays
      <4> QED
        BY <3>3, <3>4, <4>1
    <3> QED
      BY <1>5, <3>1, <3>5, <3>6, RepeatPays
  <2> HIDE DEF p
  <2> QED
    BY <1>5, <2>3, <2>4 DEF PaidUp, answer
<1>7. CASE able
  <2> DEFINE p == [plan |-> EmptyPlan, disks |-> first.disks]
             last == GetMountDiskPlan(Attempt(charged), mount)
             trailing == TrailingPass(charged, mount, n, bound)
  <2>1. first.ok /\ bound >= 1
    BY <1>7
  <2>2. /\ n \in Nat /\ charged \in HostsOn(D, N) /\ Solvent(charged)
        /\ PaysAll(h, charged, Repeat(n, p), vbs)
    BY <1>1, <1>4, <2>1, ChargedPassesArePaid
  <2>3. passes = [host |-> trailing, capacity |-> n, disks |-> first.disks]
    BY <1>2, <2>1
  <2>4. answer = [host |-> trailing, plans |-> Repeat(n, p)]
    BY <1>3, <2>3
  <2> HIDE DEF n, charged
  <2>5. last \in Paid(D, N, charged, vbs)
    <3> DEFINE V == Paid(D, N, charged, vbs)
    <3>1. Len(mount) \in Nat /\ DOMAIN mount = 1..Len(mount)
      BY BindingList
    <3>2. Attempt(charged) \in V
      BY <2>2, AttemptIsPaid
    <3>3. \A a \in V, k \in 1..Len(mount) : ChargeMount(a, mount[k]) \in V
      BY <2>2, ChargeMountIsPaid DEF AllWanted
    <3> HIDE DEF V
    <3>4. GetMountDiskPlan(Attempt(charged), mount) \in V
      BY <3>1, <3>2, <3>3, MountPlanStays
    <3> QED
      BY <3>4 DEF V
  <2>6. trailing = IF n < bound THEN last.host ELSE charged
    BY DEF TrailingPass
  <2> HIDE DEF last, trailing
  <2>7. last.host \in HostsOn(D, N) /\ Solvent(last.host) /\ Pays(charged, last.host, last, vbs)
    BY <2>5 DEF Paid, AttemptsOn
  <2>8. p \in PlannedOn(D, N)
    BY <1>5, EmptyPlansStay DEF PlannedOn
  <2> HIDE DEF p
  <2>9. Repeat(n, p) \in Seq(PlannedOn(D, N))
    BY <2>2, <2>8, RepeatsAreOn
  <2>10. PaysAll(h, last.host, Repeat(n, p), vbs)
    BY <2>2, <2>7, <2>9, LostPays
  <2>11. Solvent(trailing) /\ PaysAll(h, trailing, Repeat(n, p), vbs)
    BY <2>2, <2>6, <2>7, <2>10
  <2> QED
    BY <2>4, <2>11 DEF PaidUp, answer
<1> HIDE DEF able
<1> QED
  BY <1>6, <1>7

\* The plans of normal bindings and mounts are paid for
LEMMA NormalPlansArePaid ==
    ASSUME NEW D \in SUBSET Devices, NEW N \in SUBSET DiskNames, NEW h \in HostsOn(D, N),
           Solvent(h), NEW normal, NEW mount, NEW vbs, Listed(normal, mount, vbs),
           NEW bound \in Nat, NEW count \in Nat
    PROVE  PaidUp(h, GetNormalPlans(h, count, normal, mount, bound), vbs)
<1>1. CASE normal # <<>>
  BY <1>1, NormalPassesArePaid DEF GetNormalPlans
<1>2. CASE normal = <<>> /\ AnyRequireIOPS(mount)
  <2>1. mount \in Seq(VolumeBinding) /\ AllWanted(mount)
    BY DEF Listed, AllWanted
  <2>2. PaidUp(h, GetMountOnlyPlans(h, mount, bound), vbs)
    BY <2>1, MountOnlyPlansArePaid
  <2> QED
    BY <1>2, <2>2 DEF GetNormalPlans
<1>3. CASE normal = <<>> /\ ~AnyRequireIOPS(mount)
  <2>1. GetNormalPlans(h, count, normal, mount, bound) =
          [host |-> h, plans |-> Repeat(count, NoPlan)]
    BY <1>3 DEF GetNormalPlans
  <2>2. PaysAll(h, h, Repeat(count, NoPlan), vbs)
    BY FreePlansArePaid
  <2> QED
    BY <2>1, <2>2 DEF PaidUp
<1> QED
  BY <1>1, <1>2, <1>3

\* The sum of what is a multiple part by part
LEMMA SumScales ==
    ASSUME NEW S, NEW g, NEW k, NEW c \in Int, Integral(g, S), \A x \in S : k[x] = c * g[x]
    PROVE  SumOver(k, S) = c * SumOver(g, S)
<1> DEFINE Good == {s \in SUBSET S : SumOver(k, s) = c * SumOver(g, s)}
<1>1. IsFiniteSet(S) /\ Integral(k, S)
  BY DEF Integral
<1>2. ASSUME NEW s \in SUBSET S,
             \A r \in SUBSET S : Cardinality(r) < Cardinality(s) => r \in Good
      PROVE  s \in Good
  <2>1. CASE s = {}
    <3>1. SumOver(k, s) = 0 /\ SumOver(g, s) = 0 /\ c * 0 = 0
      BY <2>1, SumOfNone
    <3> QED
      BY <3>1
  <2>2. CASE s # {}
    <3>1. PICK x : x \in s
      BY <2>2
    <3> DEFINE r == s \ {x}
    <3>2. Cardinality(r) < Cardinality(s) /\ r \in SUBSET S
      <4>1. IsFiniteSet(s)
        BY <1>1, FS_Subset
      <4>2. Cardinality(s) \in Nat
        BY <4>1, FS_CardinalityType
      <4>3. Cardinality(r) = Cardinality(s) - 1
        BY <3>1, <4>1, FS_RemoveElement
      <4> QED
        BY <4>2, <4>3
    <3>3. SumOver(g, s) = g[x] + SumOver(g, r) /\ SumOver(k, s) = k[x] + SumOver(k, r)
      BY <1>1, <3>1, SumSplits
    <3> HIDE DEF r
    <3>4. SumOver(g, r) \in Int
      BY <3>2, SumSplits
    <3>5. SumOver(k, r) = c * SumOver(g, r)
      BY <1>2, <3>2
    <3>6. g[x] \in Int /\ k[x] = c * g[x]
      BY <3>1 DEF Integral
    <3> DEFINE a == g[x]
               b == SumOver(g, r)
    <3>7. c * (a + b) = c * a + c * b
      <4>1. a \in Int /\ b \in Int
        BY <3>4, <3>6
      <4> HIDE DEF a, b
      <4> QED
        BY <4>1
    <3>8. SumOver(k, s) = c * a + c * b /\ SumOver(g, s) = a + b
      BY <3>3, <3>5, <3>6
    <3> HIDE DEF a, b
    <3>9. SumOver(k, s) = c * SumOver(g, s)
      BY <3>7, <3>8
    <3> QED
      BY <3>9
  <2> QED
    BY <2>1, <2>2
<1> HIDE DEF Good
<1>3. \A s \in SUBSET S : s \in Good
  BY <1>1, <1>2, SubsetsClimb
<1> QED
  BY <1>3 DEF Good

-----------------------------------------------------------------------------
(* Monopoly groups                                                          *)

\* A group whose bindings are listed once and ask for no less than nothing
Grouped(reqs) ==
    /\ Monopolies(reqs)
    /\ \A i \in 1..Len(reqs), j \in 1..Len(reqs) : reqs[i] = reqs[j] => i = j
    /\ \A i \in 1..Len(reqs) : Covers(reqs[i].io, NoIO)

\* Bindings by their sizes
Asking == [vb \in VolumeBinding |-> vb.size]

\* The group asks for what its bindings ask for
LEMMA GroupAddsUp ==
    ASSUME NEW reqs, Grouped(reqs)
    PROVE  /\ Group(reqs).size = SumOver(Asking, ToSet(reqs))
           /\ Covers(Group(reqs).io, NoIO)
<1> DEFINE n == Len(reqs)
           first == [reqs[1] EXCEPT !.size = 0, !.io = NoIO]
           V == {vb \in VolumeBinding : Covers(vb.io, NoIO)}
           Upto(k) == {reqs[i] : i \in 1..k}
<1>1. n \in Nat /\ 1 \in 1..n /\ DOMAIN reqs = 1..n
  <2>1. reqs \in Seq(VolumeBinding) /\ reqs # <<>>
    BY DEF Grouped, Monopolies
  <2>2. n \in Nat /\ DOMAIN reqs = 1..n
    BY <2>1, BindingList
  <2>3. n # 0
    BY <2>1, EmptySeq
  <2> HIDE DEF n
  <2> QED
    BY <2>2, <2>3
<1>2. \A k \in 1..n : reqs[k] \in V /\ reqs[k] \in VolumeBinding /\ reqs[k].size \in Int
  BY BindingList, BindingParts DEF Monopolies, Grouped
<1>3. first \in V /\ first.size = 0
  <2>1. NoIO \in IO /\ Covers(NoIO, NoIO)
    BY DEF NoIO, IO, Covers
  <2>2. PICK vb \in VolumeBinding : vb = reqs[1]
    BY <1>1, <1>2
  <2> DEFINE io == NoIO
             size == 0
             empty == [vb EXCEPT !.size = size, !.io = io]
  <2>3. first = empty
    BY <2>2
  <2>4. io \in IO /\ size \in Int /\ size = 0 /\ Covers(io, NoIO)
    BY <2>1
  <2> HIDE DEF io, size
  <2>5. empty \in VolumeBinding /\ empty.size = size /\ empty.io = io
    BY <2>4 DEF VolumeBinding
  <2> HIDE DEF first, empty
  <2> QED
    BY <2>3, <2>4, <2>5
<1>4. \A vb \in V, k \in 1..n :
         AddQuota(vb, reqs[k]) \in V /\ AddQuota(vb, reqs[k]).size = vb.size + reqs[k].size
  <2> TAKE vb \in V, k \in 1..n
  <2>1. AddQuota(vb, reqs[k]) \in VolumeBinding
    BY <1>2, QuotasAddUp
  <2>2. vb \in VolumeBinding /\ vb.size \in Int
    BY BindingParts
  <2>3. /\ AddQuota(vb, reqs[k]).size = vb.size + reqs[k].size
        /\ AddQuota(vb, reqs[k]).io = AddIO(vb.io, reqs[k].io)
    BY <2>2 DEF AddQuota, VolumeBinding
  <2>4. vb.io \in IO /\ reqs[k].io \in IO /\ Covers(vb.io, NoIO) /\ Covers(reqs[k].io, NoIO)
    BY <1>2, BindingParts
  <2>5. Covers(AddIO(vb.io, reqs[k].io), NoIO)
    BY <2>4 DEF Covers, AddIO, NoIO, IO
  <2> QED
    BY <2>1, <2>3, <2>5
<1> HIDE DEF n
<1>5. PICK g : RunsGroup(g, V, reqs, n)
  <2> HIDE DEF V
  <2> QED
    BY <1>1, <1>3, <1>4, GroupRuns
<1> HIDE DEF first
<1>6. /\ Group(reqs) = g[n] /\ g[0] = first /\ (\A k \in 0..n : g[k] \in V)
      /\ \A k \in 1..n : g[k] = AddQuota(g[k - 1], reqs[k])
  <2> HIDE DEF V
  <2> QED
    BY <1>5 DEF RunsGroup, first
<1> DEFINE S == {k \in 0..n : g[k].size = SumOver(Asking, Upto(k))}
<1>7. 0 \in S
  <2>1. Upto(0) = {}
    OBVIOUS
  <2> HIDE DEF Upto
  <2>2. SumOver(Asking, Upto(0)) = 0
    BY <2>1, SumOfNone
  <2>3. g[0].size = 0
    BY <1>3, <1>6
  <2>4. 0 \in 0..n
    BY <1>1
  <2> QED
    BY <2>2, <2>3, <2>4
<1>8. ASSUME NEW k \in 1..n, k - 1 \in S
      PROVE  k \in S
  <2>1. k - 1 \in 0..n /\ k \in 0..n /\ 1..k \subseteq 1..n /\ k \in 1..k /\ 1..k = 1..(k - 1) \cup {k}
    BY <1>1
  <2>2. reqs[k] \in Upto(k)
    BY <2>1
  <2>3. Upto(k) \ {reqs[k]} = Upto(k - 1)
    <3>1. \A i \in 1..(k - 1) : reqs[i] # reqs[k]
      <4> TAKE i \in 1..(k - 1)
      <4>1. i \in 1..n /\ i # k
        BY <1>1
      <4> QED
        BY <4>1 DEF Grouped, n
    <3>2. Upto(k) = Upto(k - 1) \cup {reqs[k]}
      BY <2>1
    <3> QED
      BY <3>1, <3>2
  <2>4. Integral(Asking, Upto(k))
    <3>1. IsFiniteSet(Upto(k))
      <4>1. IsFiniteSet(1..k)
        BY <1>1, FS_Interval
      <4> QED
        BY <4>1, ImageIsFinite
    <3>2. \A vb \in Upto(k) : vb \in VolumeBinding /\ vb.size \in Int
      BY <1>2, <2>1
    <3> HIDE DEF Upto
    <3> QED
      BY <3>1, <3>2 DEF Integral, Asking
  <2> HIDE DEF Upto
  <2>5. SumOver(Asking, Upto(k)) = Asking[reqs[k]] + SumOver(Asking, Upto(k - 1))
        /\ SumOver(Asking, Upto(k - 1)) \in Int
    BY <2>2, <2>3, <2>4, SumSplits
  <2>6. Asking[reqs[k]] = reqs[k].size /\ reqs[k].size \in Int
    BY <1>2 DEF Asking
  <2>7. g[k].size = g[k - 1].size + reqs[k].size
    BY <1>4, <1>6, <2>1
  <2>8. g[k - 1].size = SumOver(Asking, Upto(k - 1))
    BY <1>8
  <2>9. g[k].size = SumOver(Asking, Upto(k))
    BY <2>5, <2>6, <2>7, <2>8
  <2> QED
    BY <2>1, <2>9
<1> HIDE DEF S
<1>9. n \in S
  BY <1>1, <1>7, <1>8, CountsUp
<1>10. ToSet(reqs) = Upto(n)
  BY <1>1 DEF ToSet
<1>11. g[n] \in V
  <2>1. n \in 0..n
    BY <1>1
  <2> HIDE DEF V
  <2> QED
    BY <1>6, <2>1
<1> QED
  BY <1>6, <1>9, <1>10, <1>11 DEF S

\* The bindings are on the device and together take so much of it
FilledWith(plan, vbs, device, free) ==
    /\ DOMAIN plan = vbs /\ Sized(plan)
    /\ \A vb \in vbs : plan[vb].device = device
    /\ \A d : Space(plan, d) = IF d = device THEN free ELSE 0

\* Each of the bindings has as much as it asks for, but for a byte
Suffices(plan, vbs) == \A vb \in vbs : plan[vb].size >= vb.size - 1

\* A share of what is no less than the total is no less than nothing and, but for
\* a byte, no less than what was asked for
LEMMA PortionIsEnough ==
    ASSUME NEW size \in Nat, NEW free \in Nat, NEW total \in Nat, size > 0,
           total >= size, free >= total
    PROVE  /\ Portion(size, total, free) \in Nat
           /\ Portion(size, total, free) >= size - 1
           /\ (2 * total) * Portion(size, total, free) <= (2 * free + 1) * size
<1>0. size \in Int /\ total \in Int /\ total > 0 /\ free \in Int
  OBVIOUS
<1>1. PICK much \in Int : /\ much \in {2 * free - 1, 2 * free, 2 * free + 1}
                         /\ Portion(size, total, free) = (size * much) \div (2 * total)
  BY <1>0, PortionParts
<1> DEFINE m == size * much
           t == 2 * total
           q == m \div t
<1>2. much \in Nat /\ much >= t - 1 /\ much <= 2 * free + 1 /\ t \in Nat /\ t > size /\ t > 0
  BY <1>1
<1> HIDE DEF t
<1>3. m \in Nat /\ m <= (2 * free + 1) * size
  <2>1. 2 * free + 1 = much + (2 * free + 1 - much) /\ 2 * free + 1 - much \in Nat
    BY <1>2
  <2>2. (much + (2 * free + 1 - much)) * size = much * size + (2 * free + 1 - much) * size
    BY <1>2
  <2>3. much * size \in Nat /\ (2 * free + 1 - much) * size \in Nat /\ size * much = much * size
    BY <1>2, <2>1
  <2> QED
    BY <2>1, <2>2, <2>3
<1>4. m > (size - 1) * t
  <2>1. size * much = size * (t - 1) + size * (much - (t - 1))
    BY <1>2
  <2>2. size * (much - (t - 1)) \in Nat
    BY <1>2
  <2>3. size * (t - 1) = (size - 1) * t + (t - size)
    BY <1>2
  <2>4. (size - 1) * t \in Int
    BY <1>2
  <2> QED
    BY <1>2, <2>1, <2>2, <2>3, <2>4
<1> HIDE DEF m
<1>5. q \in Nat /\ t * q <= m /\ m < t * (q + 1)
  BY <1>2, <1>3
<1> HIDE DEF q
<1>6. ASSUME q < size - 1
      PROVE  FALSE
  <2>1. size - 1 = (q + 1) + (size - 1 - (q + 1)) /\ size - 1 - (q + 1) \in Nat
    BY <1>5, <1>6
  <2>2. (size - 1) * t = (q + 1) * t + (size - 1 - (q + 1)) * t
    BY <1>2, <1>5, <2>1
  <2>3. (size - 1 - (q + 1)) * t \in Nat /\ (q + 1) * t \in Nat /\ (q + 1) * t = t * (q + 1)
    BY <1>2, <1>5, <2>1
  <2>4. (size - 1) * t >= t * (q + 1)
    BY <2>2, <2>3
  <2> QED
    BY <1>3, <1>4, <1>5, <2>2, <2>3, <2>4
<1>7. q >= size - 1
  BY <1>5, <1>6
<1>8. t * q \in Int /\ (2 * free + 1) * size \in Int
  BY <1>2, <1>5
<1>9. t * q <= (2 * free + 1) * size
  BY <1>3, <1>5, <1>8
<1>10. Portion(size, total, free) = q
  BY <1>1 DEF q, m, t
<1> QED
  BY <1>5, <1>7, <1>9, <1>10 DEF t

\* Shares of a volume that is big enough are together all of it, and each is,
\* but for a byte, no less than what was asked for
LEMMA SharesAddUp ==
    ASSUME NEW reqs, Grouped(reqs), NEW total, total = Group(reqs).size, NEW device,
           NEW free \in Nat, free >= total, NEW plan, plan = MonoPlan(reqs, total, device, free)
    PROVE  FilledWith(plan, ToSet(reqs), device, free) /\ Suffices(plan, ToSet(reqs))
<1> DEFINE S == ToSet(reqs)
           asked == [vb \in S |-> vb.size]
           more == 2 * free + 1
           twice == 2 * total
           much == [vb \in S |-> more * vb.size]
           share == [vb \in S |-> Portion(vb.size, total, free)]
           least == [vb \in S |-> twice * share[vb]]
           shared == SumFunction(share)
           rest == [vb \in S |-> IF vb = reqs[1] THEN free - shared ELSE 0]
           size == [vb \in S |-> share[vb] + rest[vb]]
<1>1. /\ reqs \in Seq(VolumeBinding) /\ Monopolies(reqs) /\ IsFiniteSet(S) /\ S \in SUBSET VolumeBinding
  BY MembersAreFinite DEF Grouped, Monopolies
<1>2. \A vb \in S : vb.size \in Nat /\ vb.size > 0
  <2> TAKE vb \in S
  <2>1. PICK k \in 1..Len(reqs) : vb = reqs[k]
    BY <1>1, BindingList DEF ToSet
  <2>2. vb.size \in Int /\ reqs[k].size > 0
    BY <1>1, BindingParts DEF Monopolies
  <2> QED
    BY <2>1, <2>2
<1>3. total \in Int /\ total > 0
  BY <1>1, GroupHasSize
<1>4. total = SumOver(Asking, S)
  BY GroupAddsUp
<1>5. reqs[1] \in S
  <2>1. Len(reqs) \in Nat /\ DOMAIN reqs = 1..Len(reqs) /\ Len(reqs) # 0
    BY <1>1, BindingList, EmptySeq DEF Monopolies
  <2>2. 1 \in 1..Len(reqs)
    BY <2>1
  <2> QED
    BY <2>1, <2>2 DEF ToSet
<1>6. plan = [vb \in S |-> [device |-> device, size |-> size[vb]]]
  BY DEF MonoPlan
<1> HIDE DEF S
<1>23. \A vb \in S : vb.size <= total
  <2>1. \A vb \in S : Asking[vb] = vb.size
    BY <1>1 DEF Asking
  <2>2. Integral(Asking, S) /\ \A vb \in S : Asking[vb] \in Nat
    BY <1>1, <1>2, <2>1 DEF Integral
  <2> TAKE vb \in S
  <2>3. S \in SUBSET S /\ S \ {vb} \in SUBSET S
    OBVIOUS
  <2>4. SumOver(Asking, S) = Asking[vb] + SumOver(Asking, S \ {vb})
    BY <2>2, <2>3, SumSplits
  <2>5. SumOver(Asking, S \ {vb}) \in Nat
    BY <1>1, <2>2, <2>3, SumIsNat
  <2> QED
    BY <1>2, <1>4, <2>1, <2>4, <2>5
<1>7. \A vb \in S : /\ share[vb] \in Nat /\ much[vb] \in Nat /\ least[vb] \in Nat
                    /\ least[vb] <= much[vb] /\ share[vb] >= vb.size - 1
  <2> TAKE vb \in S
  <2> DEFINE q == Portion(vb.size, total, free)
  <2>1. total \in Nat /\ total >= vb.size /\ vb.size \in Nat /\ vb.size > 0
    BY <1>2, <1>3, <1>23
  <2>2. q \in Nat /\ q >= vb.size - 1 /\ (2 * total) * q <= (2 * free + 1) * vb.size
    BY <2>1, PortionIsEnough
  <2>3. (2 * total) * q \in Nat /\ (2 * free + 1) * vb.size \in Nat
    BY <2>1, <2>2
  <2>4. share[vb] = q /\ much[vb] = (2 * free + 1) * vb.size /\ least[vb] = (2 * total) * q
    OBVIOUS
  <2> HIDE DEF q, share, much, least
  <2> QED
    BY <2>2, <2>3, <2>4
<1>25. more \in Nat /\ twice \in Nat
  BY <1>3
<1>8. shared = SumOver(share, S)
  <2>1. share = [vb \in S |-> share[vb]]
    OBVIOUS
  <2> HIDE DEF share
  <2> QED
    BY <2>1 DEF SumOver
<1>9. SumOver(asked, S) = total
  <2>1. \A vb \in S : asked[vb] = Asking[vb]
    BY <1>1 DEF Asking
  <2> HIDE DEF asked
  <2> QED
    BY <1>4, <2>1, SumSame
<1>10. SumOver(least, S) = twice * SumOver(share, S)
  <2>1. \A vb \in S : least[vb] = twice * share[vb]
    OBVIOUS
  <2> HIDE DEF share, least, twice
  <2>2. Integral(share, S)
    BY <1>1, <1>7 DEF Integral
  <2> QED
    BY <1>25, <2>1, <2>2, SumScales
<1>11. SumOver(much, S) = more * SumOver(asked, S)
  <2>1. \A vb \in S : much[vb] = more * asked[vb] /\ asked[vb] \in Int
    BY <1>2
  <2> HIDE DEF asked, much, more
  <2>2. Integral(asked, S)
    BY <1>1, <2>1 DEF Integral
  <2> QED
    BY <1>25, <2>1, <2>2, SumScales
<1> HIDE DEF asked, much, least, share
<1>12. SumOver(least, S) <= SumOver(much, S)
  <2>1. Integral(least, S) /\ Integral(much, S)
    BY <1>1, <1>7 DEF Integral
  <2> QED
    BY <1>7, <2>1, SumGrows
<1>13. SumOver(share, S) \in Nat
  BY <1>1, <1>7, SumIsNat
<1> HIDE DEF shared
<1>14. shared \in Nat /\ shared <= free
  <2>1. shared \in Nat
    BY <1>8, <1>13
  <2>2. twice * shared <= more * total
    BY <1>8, <1>9, <1>10, <1>11, <1>12
  <2>3. CASE shared > free
    <3>1. total * (shared - free) = total + total * (shared - free - 1)
      BY <1>3, <2>1
    <3>2. total * (shared - free - 1) \in Nat
      <4>1. shared - free - 1 \in Nat /\ total \in Nat
        BY <1>3, <2>1, <2>3
      <4> QED
        BY <4>1
    <3>3. total * (shared - free) = total * shared - total * free
      BY <1>3, <2>1
    <3>4. twice * shared = 2 * (total * shared) /\ more * total = 2 * (total * free) + total
      BY <1>3, <2>1
    <3>5. total * shared \in Int /\ total * free \in Int
      BY <1>3, <2>1
    <3> HIDE DEF twice, more
    <3> QED
      BY <1>3, <2>2, <3>1, <3>2, <3>3, <3>4, <3>5
  <2> QED
    BY <2>1, <2>3
<1>15. \A vb \in S : rest[vb] \in Nat /\ size[vb] = share[vb] + rest[vb]
  BY <1>14
<1>16. rest[reqs[1]] = free - shared /\ \A vb \in S \ {reqs[1]} : rest[vb] = 0
  BY <1>5
<1> HIDE DEF rest, size
<1>17. SumOver(rest, S) = free - shared
  <2>1. Integral(rest, S) /\ IsFiniteSet(S \ {reqs[1]})
    BY <1>1, <1>15, FS_Subset DEF Integral
  <2>2. SumOver(rest, S) = rest[reqs[1]] + SumOver(rest, S \ {reqs[1]})
    BY <1>5, <2>1, SumSplits
  <2>3. SumOver(rest, S \ {reqs[1]}) = 0
    BY <1>16, <2>1, SumOfZeros
  <2> QED
    BY <1>14, <1>16, <2>2, <2>3
<1>18. SumOver(size, S) = free
  <2>1. Integral(share, S) /\ Integral(rest, S)
    BY <1>1, <1>7, <1>15 DEF Integral
  <2>2. SumOver(size, S) = SumOver(share, S) + SumOver(rest, S)
    BY <1>15, <2>1, SumAdds
  <2> QED
    BY <1>8, <1>14, <1>17, <2>2
<1>19. \A vb \in S : size[vb] \in Nat
  BY <1>7, <1>15
<1>20. DOMAIN plan = S /\ \A vb \in S : plan[vb].device = device /\ plan[vb].size = size[vb]
  BY <1>6
<1>21. Sized(plan)
  BY <1>1, <1>19, <1>20 DEF Sized
<1>22. ASSUME NEW d
       PROVE  Space(plan, d) = IF d = device THEN free ELSE 0
  <2>1. \A vb \in S : SizesOf(plan)[vb] = size[vb]
    BY <1>20 DEF SizesOf
  <2>2. CASE d = device
    <3>1. Placed(plan, d) = S
      BY <1>20, <2>2 DEF Placed
    <3>2. SumOver(SizesOf(plan), S) = SumOver(size, S)
      BY <2>1, SumSame
    <3> QED
      BY <1>18, <2>2, <3>1, <3>2 DEF Space
  <2>3. CASE d # device
    <3>1. Placed(plan, d) = {}
      BY <1>20, <2>3 DEF Placed
    <3> QED
      BY <2>3, <3>1, SumOfNone DEF Space
  <2> QED
    BY <2>2, <2>3
<1>24. Suffices(plan, S)
  BY <1>2, <1>7, <1>15, <1>20 DEF Suffices
<1> QED
  BY <1>20, <1>21, <1>22, <1>24 DEF S, FilledWith

\* The group has the volume
GroupHas(D, N, h, reqs, vbs, device, m) ==
    /\ m.host \in HostsOn(D, N) /\ Solvent(m.host) /\ Pays(h, m.host, m, vbs)
    /\ FilledWith(m.plan, ToSet(reqs), device, h.free[device])
    /\ m.host.free = [h.free EXCEPT ![device] = 0]

\* A group that fits on a volume takes the volume
LEMMA GroupIsPaid ==
    ASSUME NEW D \in SUBSET Devices, NEW N \in SUBSET DiskNames, NEW h \in HostsOn(D, N),
           Solvent(h), NEW reqs, Grouped(reqs), NEW vbs, ToSet(reqs) \subseteq vbs,
           NEW device \in D, NEW m, m = GetMonoPlan(h, reqs, device), m.ok
    PROVE  GroupHas(D, N, h, reqs, vbs, device, m)
<1> DEFINE total == Group(reqs)
           empty == [h EXCEPT !.free[device] = 0]
           host == DecreaseIOPSQuota(empty, device, total)
           plan == MonoPlan(reqs, total.size, device, h.free[device])
           disks == DiskQuota(h, device, total)
           quota == DiskQuota(empty, device, total)
           ok == h.free[device] >= total.size /\ Qualified(h, device, total)
           free == [h.free EXCEPT ![device] = 0]
<1>1. m = [ok |-> ok, host |-> host, plan |-> plan, disks |-> disks]
  BY DEF GetMonoPlan
<1>2. total.size \in Int /\ total.size > 0 /\ total.io \in IO /\ Covers(total.io, NoIO)
  BY GroupHasSize, GroupAddsUp DEF Grouped
<1>3. total = Group(reqs) /\ plan = MonoPlan(reqs, total.size, device, h.free[device])
  OBVIOUS
<1> HIDE DEF total
<1>4. ok
  <2>1. GetMonoPlan(h, reqs, device).ok = ok
    BY DEF GetMonoPlan, total
  <2> QED
    BY <2>1
<1>5. /\ h.free \in [D -> Int] /\ h.free[device] \in Nat
      /\ h = [free |-> h.free, used |-> h.used, unused |-> h.unused, disks |-> h.disks]
      /\ DOMAIN h.disks = N
  <2>1. h.free \in [D -> Int] /\ DOMAIN h.disks = N
        /\ h = [free |-> h.free, used |-> h.used, unused |-> h.unused, disks |-> h.disks]
    BY DEF HostsOn
  <2>2. h.free[device] \in Int /\ h.free[device] >= 0
    BY <2>1 DEF Solvent
  <2> QED
    BY <2>1, <2>2
<1>6. empty \in HostsOn(D, N) /\ empty.disks = h.disks /\ empty.free = free
  <2>1. free \in [D -> Int]
    BY <1>5
  <2>2. empty = [h EXCEPT !.free = free]
    BY <1>5
  <2> HIDE DEF free
  <2> QED
    BY <2>1, <2>2 DEF HostsOn
<1> HIDE DEF empty
<1>7. Qualified(h, device, total) /\ Qualified(empty, device, total)
  BY <1>4, <1>6 DEF Qualified
<1>8. quota = disks
  BY <1>6 DEF DiskQuota
<1>9. host \in HostsOn(D, N)
  BY <1>2, <1>6, <1>7, ChargesStay
<1>10. ChargedBy(empty, host, disks)
  <2>1. ChargedBy(empty, host, quota)
    BY <1>2, <1>6, <1>7, QuotaIsCharged
  <2> QED
    BY <1>8, <2>1
<1>20. FilledWith(plan, ToSet(reqs), device, h.free[device])
  <2> DEFINE all == total.size
             has == h.free[device]
  <2>1. /\ all = Group(reqs).size /\ has \in Nat /\ has >= all
        /\ plan = MonoPlan(reqs, all, device, has)
    BY <1>3, <1>4, <1>5
  <2> HIDE DEF all, has, plan
  <2>2. FilledWith(plan, ToSet(reqs), device, has)
    BY <2>1, SharesAddUp
  <2> QED
    BY <2>2 DEF has
<1>11. /\ DOMAIN plan = ToSet(reqs) /\ Sized(plan)
       /\ \A d : Space(plan, d) = IF d = device THEN h.free[device] ELSE 0
  <2> HIDE DEF plan
  <2> QED
    BY <1>20 DEF FilledWith
<1> HIDE DEF host, plan, disks, quota, ok
<1>12. m.host = host /\ m.plan = plan /\ m.disks = disks
  BY <1>1
<1>13. host.free = free /\ DOMAIN host.disks = N
  BY <1>5, <1>6, <1>10 DEF ChargedBy
<1>14. ASSUME NEW d \in D
       PROVE  host.free[d] >= 0 /\ host.free[d] + Space(plan, d) <= h.free[d]
  <2>1. host.free[d] = IF d = device THEN 0 ELSE h.free[d]
    BY <1>5, <1>13
  <2>2. h.free[d] \in Int /\ h.free[d] >= 0
    BY <1>5 DEF Solvent
  <2>3. Space(plan, d) = IF d = device THEN h.free[device] ELSE 0
    BY <1>11
  <2> HIDE DEF free
  <2>4. CASE d = device
    <3>1. host.free[d] = 0 /\ Space(plan, d) = h.free[d]
      BY <2>1, <2>3, <2>4
    <3> QED
      BY <2>2, <3>1
  <2>5. CASE d # device
    <3>1. host.free[d] = h.free[d] /\ Space(plan, d) = 0
      BY <2>1, <2>3, <2>5
    <3> QED
      BY <2>2, <3>1
  <2> QED
    BY <2>4, <2>5
<1>15. ASSUME NEW name \in N, NEW rate \in Rates
       PROVE  /\ host.disks[name].io[rate] >= 0 /\ UsedOf(disks, name)[rate] \in Nat
              /\ host.disks[name].io[rate] + UsedOf(disks, name)[rate] <= h.disks[name].io[rate]
  <2>1. /\ UsedOf(disks, name)[rate] \in Nat
        /\ host.disks[name].io[rate] + UsedOf(disks, name)[rate] = h.disks[name].io[rate]
        /\ h.disks[name].io[rate] >= 0 => host.disks[name].io[rate] >= 0
    BY <1>5, <1>6, <1>10 DEF ChargedBy
  <2>2. h.disks[name].io[rate] >= 0 /\ h.disks[name].io[rate] \in Int
    BY <1>5 DEF Solvent, HostsOn, DiskCapacity, IO
  <2> QED
    BY <2>1, <2>2
<1>16. DOMAIN host.free = D /\ DOMAIN h.free = D
  BY <1>5, <1>13
<1>17. Solvent(host)
  BY <1>13, <1>14, <1>15, <1>16 DEF Solvent
<1>18. Pays(h, host, m, vbs)
  BY <1>5, <1>11, <1>12, <1>14, <1>15, <1>16 DEF Pays
<1> QED
  BY <1>9, <1>12, <1>13, <1>17, <1>18, <1>20 DEF GroupHas

\* One more volume for the group is paid for
LEMMA TryVolumeIsPaid ==
    ASSUME NEW D \in SUBSET Devices, NEW N \in SUBSET DiskNames, NEW h \in HostsOn(D, N),
           NEW mono, Grouped(mono), NEW vbs, ToSet(mono) \subseteq vbs, NEW bound,
           NEW s \in GroupsOn(D, N), PaidUp(h, s, vbs), NEW device \in D
    PROVE  PaidUp(h, TryVolume(s, mono, bound, device), vbs)
<1> DEFINE P == PlannedOn(D, N)
           m == GetMonoPlan(s.host, mono, device)
           p == [plan |-> m.plan, disks |-> m.disks]
           next == TryVolume(s, mono, bound, device)
           full == Len(s.plans) >= bound \/ ~m.ok
<1>1. s.host \in HostsOn(D, N) /\ s.plans \in Seq(P)
  BY DEF GroupsOn
<1>2. next = IF full THEN s ELSE [host |-> m.host, plans |-> Append(s.plans, p)]
  BY DEF TryVolume
<1>3. CASE full
  BY <1>2, <1>3
<1>4. CASE ~full
  <2>1. m.ok
    BY <1>4
  <2>2. Monopolies(mono) /\ Solvent(s.host) /\ PaysAll(h, s.host, s.plans, vbs)
    BY DEF Grouped, PaidUp
  <2>9. GroupHas(D, N, s.host, mono, vbs, device, m)
    BY <1>1, <2>1, <2>2, GroupIsPaid
  <2>3. m.host \in HostsOn(D, N) /\ Solvent(m.host) /\ Pays(s.host, m.host, m, vbs)
    BY <2>9 DEF GroupHas
  <2>4. m.plan \in PlansOn(D) /\ m.disks \in DiskPlansOn(N)
    BY <1>1, <2>1, <2>2, GroupIsPlanned
  <2>5. next.host = m.host /\ next.plans = Append(s.plans, p)
    BY <1>2, <1>4
  <2> HIDE DEF m, next
  <2>6. p \in PlannedOn(D, N) /\ Pays(s.host, m.host, p, vbs)
    BY <2>3, <2>4 DEF PlannedOn, Pays
  <2> HIDE DEF p
  <2>7. PaysAll(h, m.host, Append(s.plans, p), vbs)
    BY <1>1, <2>2, <2>3, <2>6, OneMorePays
  <2>8. PaidUp(h, next, vbs)
    BY <2>3, <2>5, <2>7 DEF PaidUp
  <2> QED
    BY <2>8 DEF next
<1> HIDE DEF full
<1> QED
  BY <1>3, <1>4

\* All volumes of the group are paid for
LEMMA MonoPlansArePaid ==
    ASSUME NEW D \in SUBSET Devices, NEW N \in SUBSET DiskNames, NEW h \in HostsOn(D, N),
           Solvent(h), NEW count \in Nat, NEW mono, Grouped(mono) \/ mono = <<>>, NEW vbs,
           ToSet(mono) \subseteq vbs, NEW bound
    PROVE  PaidUp(h, GetMonoPlans(h, count, mono, bound), vbs)
<1>1. CASE mono = <<>>
  <2>1. GetMonoPlans(h, count, mono, bound) = [host |-> h, plans |-> Repeat(count, NoPlan)]
    BY <1>1 DEF GetMonoPlans
  <2>2. PaysAll(h, h, Repeat(count, NoPlan), vbs)
    BY FreePlansArePaid
  <2> QED
    BY <2>1, <2>2 DEF PaidUp
<1>2. CASE mono # <<>>
  <2> DEFINE V == {s \in GroupsOn(D, N) : PaidUp(h, s, vbs)}
             n == Len(h.unused)
             first == [host |-> h, plans |-> <<>>]
  <2>1. first \in V
    <3>1. first \in GroupsOn(D, N)
      BY DEF GroupsOn
    <3>2. PaidUp(h, first, vbs)
      BY NonePays DEF PaidUp
    <3> QED
      BY <3>1, <3>2
  <2>2. h.unused \in Seq(D)
    BY DEF HostsOn
  <2>3. n \in Nat /\ DOMAIN h.unused = 1..n /\ n \in 0..n
    BY <2>2, MembersAreIn
  <2>4. ASSUME NEW s \in V, NEW k \in 1..n
        PROVE  TryVolume(s, mono, bound, h.unused[k]) \in V
    <3>1. h.unused[k] \in D
      BY <2>2, MembersAreIn
    <3>2. Grouped(mono) /\ Monopolies(mono)
      BY <1>2 DEF Grouped
    <3>3. TryVolume(s, mono, bound, h.unused[k]) \in GroupsOn(D, N)
      BY <3>1, <3>2, TryVolumeStays
    <3>4. PaidUp(h, TryVolume(s, mono, bound, h.unused[k]), vbs)
      BY <3>1, <3>2, TryVolumeIsPaid
    <3> QED
      BY <3>3, <3>4
  <2> HIDE DEF V, n
  <2>5. n \in Nat /\ DOMAIN h.unused = 1..n
    BY <2>3
  <2>6. PICK g : RunsVolumes(g, V, h, count, mono, bound, n)
    BY <1>2, <2>1, <2>4, <2>5, MonoPlansRun
  <2>7. GetMonoPlans(h, count, mono, bound) \in V
    BY <2>3, <2>6 DEF RunsVolumes
  <2> QED
    BY <2>7 DEF V
<1> QED
  BY <1>1, <1>2

-----------------------------------------------------------------------------
(* What a usage counts: the storage, the size of each volume, the rates of  *)
(* each disk.                                                                *)

Measures == {<<"storage">>} \cup {<<"volume", device>> : device \in Devices}
            \cup {<<"disk", name, rate>> : name \in DiskNames, rate \in Rates}

Amount(usage, m) ==
    IF m[1] = "storage" THEN usage.storage
    ELSE IF m[1] = "volume" THEN usage.volumes[m[2]]
    ELSE UsedOf(usage.disks, m[2])[m[3]]

AmountIn(taken, m) == [i \in DOMAIN taken |-> Amount(taken[i], m)]

\* The parts of a usage are integers
LEMMA UsageParts ==
    ASSUME NEW u, IsUsage(u)
    PROVE  /\ \A device \in Devices : u.volumes[device] \in Int
           /\ u.storage \in Int /\ u.disks \in DiskPlansOn(DiskNames)
           /\ \A name \in DiskNames : \A rate \in Rates : UsedOf(u.disks, name)[rate] \in Int
           /\ DOMAIN u.disks \subseteq DiskNames
<1>1. PICK names \in SUBSET DiskNames : u \in UsagesOn(names)
  BY DEF IsUsage
<1>2. \A name : UsedOf(u.disks, name) \in IO
  BY <1>1, UsedOfIsIO DEF UsagesOn
<1>3. u.volumes \in [Devices -> Int] /\ u.storage \in Int /\ u.disks \in [names -> IO]
  BY <1>1 DEF UsagesOn
<1>4. u.disks \in DiskPlansOn(DiskNames) /\ DOMAIN u.disks \subseteq DiskNames
  BY <1>3 DEF DiskPlansOn
<1> QED
  BY <1>2, <1>3, <1>4 DEF IO

\* Each is a storage, a size or a rate
LEMMA MeasureKinds ==
    ASSUME NEW m \in Measures
    PROVE  \/ m[1] = "storage" /\ \A usage : Amount(usage, m) = usage.storage
           \/ m[1] = "volume" /\ m[2] \in Devices
              /\ \A usage : Amount(usage, m) = usage.volumes[m[2]]
           \/ m[1] = "disk" /\ m[2] \in DiskNames /\ m[3] \in Rates
              /\ \A usage : Amount(usage, m) = UsedOf(usage.disks, m[2])[m[3]]
<1>1. CASE m = <<"storage">>
  BY <1>1 DEF Amount
<1>2. CASE m \in {<<"volume", device>> : device \in Devices}
  BY <1>2 DEF Amount
<1>3. CASE m \in {<<"disk", name, rate>> : name \in DiskNames, rate \in Rates}
  BY <1>3 DEF Amount
<1> QED
  BY <1>1, <1>2, <1>3 DEF Measures

\* Amounts are integers and add up
LEMMA AmountsAdd ==
    ASSUME NEW u, IsUsage(u), NEW v, IsUsage(v), NEW m \in Measures
    PROVE  /\ Amount(u, m) \in Int /\ Amount(v, m) \in Int
           /\ Amount(AddUsage(u, v), m) = Amount(u, m) + Amount(v, m)
           /\ Amount(SubUsage(u, v), m) = Amount(u, m) - Amount(v, m)
<1>1. /\ \A device \in Devices : u.volumes[device] \in Int /\ v.volumes[device] \in Int
      /\ u.storage \in Int /\ v.storage \in Int
      /\ u.disks \in DiskPlansOn(DiskNames) /\ v.disks \in DiskPlansOn(DiskNames)
      /\ \A name \in DiskNames : \A rate \in Rates :
            UsedOf(u.disks, name)[rate] \in Int /\ UsedOf(v.disks, name)[rate] \in Int
  BY UsageParts
<1>2. CASE m[1] = "storage"
  BY <1>1, <1>2, MeasureKinds DEF AddUsage, SubUsage
<1>3. CASE m[1] = "volume"
  BY <1>1, <1>3, MeasureKinds DEF AddUsage, SubUsage
<1>4. CASE m[1] = "disk"
  <2> DEFINE name == m[2]
             rate == m[3]
  <2>1. name \in DiskNames /\ rate \in Rates
        /\ \A usage : Amount(usage, m) = UsedOf(usage.disks, name)[rate]
    BY <1>4, MeasureKinds
  <2> HIDE DEF name, rate
  <2>2. UsedOf(AddDisks(u.disks, v.disks), name)[rate]
           = UsedOf(u.disks, name)[rate] + UsedOf(v.disks, name)[rate]
    BY <1>1, <2>1, UsesAddUp
  <2>3. UsedOf(SubDisks(u.disks, v.disks), name)[rate]
           = UsedOf(u.disks, name)[rate] - UsedOf(v.disks, name)[rate]
    <3> DEFINE all == SubDisks(u.disks, v.disks)
    <3>1. CASE name \in DOMAIN u.disks \cup DOMAIN v.disks
      <4>1. all[name] = SubIO(UsedOf(u.disks, name), UsedOf(v.disks, name))
            /\ name \in DOMAIN all
        BY <3>1 DEF SubDisks
      <4> HIDE DEF all
      <4>2. UsedOf(all, name)[rate] = UsedOf(u.disks, name)[rate] - UsedOf(v.disks, name)[rate]
        BY <2>1, <4>1 DEF SubIO, UsedOf
      <4> QED
        BY <4>2 DEF all
    <3>2. CASE name \notin DOMAIN u.disks \cup DOMAIN v.disks
      <4>1. name \notin DOMAIN all
        BY <3>2 DEF SubDisks
      <4> HIDE DEF all
      <4>2. UsedOf(all, name)[rate] = 0 /\ UsedOf(u.disks, name)[rate] = 0
            /\ UsedOf(v.disks, name)[rate] = 0
        BY <2>1, <3>2, <4>1 DEF UsedOf, NoIO
      <4> QED
        BY <4>2 DEF all
    <3> QED
      BY <3>1, <3>2
  <2>4. AddUsage(u, v).disks = AddDisks(u.disks, v.disks)
        /\ SubUsage(u, v).disks = SubDisks(u.disks, v.disks)
    BY DEF AddUsage, SubUsage
  <2> QED
    BY <1>1, <2>1, <2>2, <2>3, <2>4
<1> QED
  BY <1>2, <1>3, <1>4, MeasureKinds

\* What Put stores of a usage is all there was of it
LEMMA StoredAmounts ==
    ASSUME NEW inf, Sound(inf), NEW usage, IsUsage(usage), NEW next,
           next = [inf EXCEPT !.usage = usage], NEW set, set = Put(inf, next), set.ok,
           NEW m \in Measures
    PROVE  Amount(set.info.usage, m) = Amount(usage, m)
<1>1. next = [capacity |-> inf.capacity, usage |-> usage]
  BY DEF Sound, IsInfo
<1>2. IsInfo(next) /\ next.usage = usage
  BY <1>1 DEF Sound, IsInfo
<1>3. PICK record : record = Put(inf, next).info
  OBVIOUS
<1>4. Put(inf, next).ok /\ set.info = record
  BY <1>3
<1>5. Alike(record.usage, next.usage)
  BY <1>2, <1>3, <1>4, PutKeepsUsage
<1>6. CASE m[1] = "storage"
  <2>1. \A u : Amount(u, m) = u.storage
    BY <1>6, MeasureKinds
  <2> QED
    BY <1>2, <1>4, <1>5, <2>1 DEF Alike
<1>7. CASE m[1] = "volume"
  <2>1. \A u : Amount(u, m) = u.volumes[m[2]]
    BY <1>7, MeasureKinds
  <2> QED
    BY <1>2, <1>4, <1>5, <2>1 DEF Alike
<1>8. CASE m[1] = "disk"
  <2>1. m[2] \in DiskNames /\ \A u : Amount(u, m) = UsedOf(u.disks, m[2])[m[3]]
    BY <1>8, MeasureKinds
  <2> QED
    BY <1>2, <1>4, <1>5, <2>1 DEF Alike
<1> QED
  BY <1>6, <1>7, <1>8, MeasureKinds

\* The measures by name
LEMMA AmountsByName ==
    /\ <<"storage">> \in Measures /\ \A u : Amount(u, <<"storage">>) = u.storage
    /\ \A device \in Devices : /\ <<"volume", device>> \in Measures
                               /\ \A u : Amount(u, <<"volume", device>>) = u.volumes[device]
    /\ \A name \in DiskNames, rate \in Rates :
          /\ <<"disk", name, rate>> \in Measures
          /\ \A u : Amount(u, <<"disk", name, rate>>) = UsedOf(u.disks, name)[rate]
<1>1. /\ <<"storage">> \in Measures
      /\ \A device \in Devices : <<"volume", device>> \in Measures
      /\ \A name \in DiskNames, rate \in Rates : <<"disk", name, rate>> \in Measures
  BY DEF Measures
<1>2. \A u : Amount(u, <<"storage">>) = u.storage
  BY DEF Amount
<1>3. \A device \in Devices : \A u : Amount(u, <<"volume", device>>) = u.volumes[device]
  BY DEF Amount
<1>4. \A name \in DiskNames, rate \in Rates :
         \A u : Amount(u, <<"disk", name, rate>>) = UsedOf(u.disks, name)[rate]
  BY DEF Amount
<1> QED
  BY <1>1, <1>2, <1>3, <1>4

\* What is given back is less than nothing of nothing, and all of it was used
Returnable(u, usage) ==
    \A m \in Measures : Amount(u, m) \in Nat /\ Amount(u, m) <= Amount(usage, m)

\* Put accepts a usage that is less than the one stored and not less than nothing
LEMMA LessIsValid ==
    ASSUME NEW inf, Sound(inf), NEW usage, IsUsage(usage), Returnable(usage, inf.usage)
    PROVE  ValidInfo([inf EXCEPT !.usage = usage])
<1>1. PICK next : next = [inf EXCEPT !.usage = usage]
  OBVIOUS
<1>2. next.capacity = inf.capacity /\ next.usage = usage
  BY <1>1 DEF Sound, IsInfo
<1>3. /\ DOMAIN inf.capacity.volumes \in SUBSET Devices /\ IsUsage(inf.usage)
      /\ DOMAIN inf.capacity.disks \subseteq DiskNames
      /\ \A device \in DOMAIN inf.capacity.volumes : inf.capacity.volumes[device] \in Int
      /\ \A name \in DOMAIN inf.capacity.disks : inf.capacity.disks[name].io \in IO
  BY DEF Sound, IsInfo, IsCapacity, CapacitiesOn, DiskCapacity
<1>4. /\ usage.storage \in Nat
      /\ \A device \in Devices : /\ usage.volumes[device] \in Nat
                                 /\ usage.volumes[device] <= inf.usage.volumes[device]
      /\ \A name \in DiskNames, rate \in Rates :
            /\ UsedOf(usage.disks, name)[rate] \in Nat
            /\ UsedOf(usage.disks, name)[rate] <= UsedOf(inf.usage.disks, name)[rate]
  BY AmountsByName DEF Returnable
<1>5. /\ \A device \in Devices : inf.usage.volumes[device] \in Int
      /\ \A name \in DiskNames, rate \in Rates : UsedOf(inf.usage.disks, name)[rate] \in Int
      /\ DOMAIN usage.disks \subseteq DiskNames
  BY <1>3, UsageParts
<1>6. ValidVolumes(next)
  <2>1. \A device \in DOMAIN inf.capacity.volumes :
           inf.usage.volumes[device] <= inf.capacity.volumes[device]
    BY DEF Sound, ValidInfo, ValidVolumes
  <2> QED
    BY <1>2, <1>3, <1>4, <1>5, <2>1 DEF ValidVolumes
<1>7. ValidStorage(next)
  BY <1>2, <1>4 DEF Sound, ValidInfo, ValidStorage
<1>8. ValidDisks(next)
  <2>1. ASSUME NEW name \in DOMAIN inf.capacity.disks
        PROVE  /\ Covers(inf.capacity.disks[name].io, NoIO)
               /\ Covers(inf.capacity.disks[name].io, UsedOf(inf.usage.disks, name))
    BY DEF Sound, ValidInfo, ValidDisks, UsedOf
  <2>2. ASSUME NEW name \in DOMAIN inf.capacity.disks, name \in DOMAIN usage.disks
        PROVE  Covers(usage.disks[name], NoIO) /\ Covers(inf.capacity.disks[name].io, usage.disks[name])
    <3>1. usage.disks[name] = UsedOf(usage.disks, name) /\ name \in DiskNames
      BY <1>3, <2>2 DEF UsedOf
    <3>2. \A rate \in Rates : /\ usage.disks[name][rate] \in Nat
                              /\ usage.disks[name][rate] <= UsedOf(inf.usage.disks, name)[rate]
                              /\ UsedOf(inf.usage.disks, name)[rate] \in Int
                              /\ UsedOf(inf.usage.disks, name)[rate] <= inf.capacity.disks[name].io[rate]
                              /\ inf.capacity.disks[name].io[rate] \in Int
      BY <1>3, <1>4, <1>5, <2>1, <3>1 DEF Covers, IO
    <3> QED
      BY <3>2 DEF Covers, NoIO
  <2>3. ASSUME NEW name \in DOMAIN usage.disks \ DOMAIN inf.capacity.disks
        PROVE  usage.disks[name] = NoIO
    <3>1. name \in DiskNames /\ usage.disks[name] = UsedOf(usage.disks, name)
      BY <1>5 DEF UsedOf
    <3>2. UsedOf(inf.usage.disks, name) = NoIO
      BY DEF Sound, UsedOf
    <3>3. \A rate \in Rates : usage.disks[name][rate] = 0
      BY <1>4, <3>1, <3>2 DEF NoIO
    <3>4. usage.disks[name] \in IO
      BY DEF IsUsage, UsagesOn
    <3> QED
      BY <3>3, <3>4 DEF IO, NoIO
  <2> QED
    BY <1>2, <2>1, <2>2, <2>3 DEF ValidDisks
<1> QED
  BY <1>1, <1>6, <1>7, <1>8 DEF ValidInfo

\* So what is used can be given back
LEMMA GivenBackIsAccepted ==
    ASSUME NEW inf, Sound(inf), NEW u, IsUsage(u), Returnable(u, inf.usage)
    PROVE  Book(inf, <<u>>, FALSE).ok
<1>1. PICK usage : usage = SubUsage(inf.usage, u)
  OBVIOUS
<1>2. IsUsage(inf.usage)
  BY DEF Sound, IsInfo
<1>3. PICK plus \in BOOLEAN : plus = FALSE
  OBVIOUS
<1>4. usage = Take(inf.usage, u, plus)
  BY <1>1, <1>3 DEF Take
<1>5. IsUsage(usage)
  BY <1>2, <1>4, TakeIsUsage
<1>6. Returnable(usage, inf.usage)
  <2>1. \A m \in Measures : /\ Amount(u, m) \in Nat /\ Amount(u, m) <= Amount(inf.usage, m)
                            /\ Amount(inf.usage, m) \in Int
                            /\ Amount(usage, m) = Amount(inf.usage, m) - Amount(u, m)
    BY <1>1, <1>2, AmountsAdd DEF Returnable
  <2> QED
    BY <2>1 DEF Returnable
<1>7. PICK next : next = [inf EXCEPT !.usage = usage]
  OBVIOUS
<1>8. ValidInfo(next)
  BY <1>5, <1>6, <1>7, LessIsValid
<1>9. PICK taken : taken = <<u>>
  OBVIOUS
<1>10. TakeAll(inf.usage, taken, FALSE) = usage
  BY <1>3, <1>4, <1>9, TakeAllOfOne
<1>11. NextUsage(inf.usage, Nil, Nil, taken, TRUE, FALSE) = usage
  BY <1>10 DEF NextUsage, Charged
<1>12. Book(inf, taken, FALSE) = Put(inf, next)
  BY <1>7, <1>11 DEF Book, SetNodeResourceUsage
<1>13. Put(inf, next).ok
  BY ONLY <1>8 DEF Put
<1> QED
  BY <1>9, <1>12, <1>13

\* What calculate-deploy answers is charged for disks of the node
LEMMA DeployedAreOnDisks ==
    ASSUME NEW inf, IsInfo(inf), NEW req, Wishes(req), NEW count \in Nat,
           NEW deployed, deployed = Deployed(inf, count, req), deployed.ok
    PROVE  \A i \in DOMAIN deployed.works :
              deployed.works[i].disks \in DiskPlansOn(DOMAIN inf.capacity.disks)
<1> DEFINE plans == IF NeedSchedule(req.vbs) THEN GetVolumePlans(inf, req.vbs, count)
                    ELSE Repeat(count, NoPlan)
           Work(p) == [vbs |-> req.vbs, plan |-> p.plan, disks |-> p.disks,
                       storage |-> Folded(req).storage]
           works == [i \in DOMAIN plans |-> Work(plans[i])]
<1>1. ValidRequest(req) /\ deployed.works = works
  BY DEF Deployed
<1>2. RequestOk(req.vbs)
  BY <1>1 DEF RequestOk, ValidRequest, Wishes
<1>3. PICK D \in SUBSET Devices, N \in SUBSET DiskNames, M \in SUBSET DiskNames :
         inf.capacity \in CapacitiesOn(D, N) /\ inf.usage \in UsagesOn(M)
  BY DEF IsInfo, IsCapacity, IsUsage
<1>4. plans \in Seq(PlannedOn(D, N)) /\ N = DOMAIN inf.capacity.disks
  <2>1. GetVolumePlans(inf, req.vbs, count) \in Seq(PlannedOn(D, N))
    BY <1>2, <1>3, PlansAreOnTheNode
  <2>2. Repeat(count, NoPlan) \in Seq(PlannedOn(D, N))
    BY EmptyPlansStay, RepeatsAreOn
  <2> QED
    BY <1>3, <2>1, <2>2 DEF CapacitiesOn
<1> HIDE DEF plans
<1>5. \A i \in DOMAIN plans : plans[i].disks \in DiskPlansOn(N)
  <2>1. \A i \in DOMAIN plans : plans[i] \in PlannedOn(D, N)
    BY <1>4
  <2> QED
    BY <2>1 DEF PlannedOn
<1> QED
  BY <1>1, <1>4, <1>5

\* So is what calculate-realloc answers
LEMMA ReallocatedIsOnDisks ==
    ASSUME NEW inf, IsInfo(inf), NEW work, WorkOk(work), NEW req, Wishes(req),
           work.disks \in DiskPlansOn(DOMAIN inf.capacity.disks),
           NEW target, target = Reallocated(inf, work, req), target.ok
    PROVE  target.work.disks \in DiskPlansOn(DOMAIN inf.capacity.disks)
<1> DEFINE merged == Merged(work, req)
           to == IF NeedSchedule(req.vbs)
                 THEN GetAffinityPlan(inf, merged.vbs, work.plan, work.vbs)
                 ELSE [ok |-> TRUE, plan |-> work.plan, disks |-> work.disks]
<1>1. merged.vbs \in Bindings /\ Distinct(merged.vbs)
  BY MergedBindingsStay DEF Wishes, WorkOk, Merged
<1> HIDE DEF merged
<1>2. ValidRequest(merged) /\ target.work.disks = to.disks
  BY DEF Reallocated, Replanned, merged
<1>3. RequestOk(merged.vbs)
  BY <1>1, <1>2 DEF RequestOk, ValidRequest
<1>4. PICK D \in SUBSET Devices, N \in SUBSET DiskNames, M \in SUBSET DiskNames :
         inf.capacity \in CapacitiesOn(D, N) /\ inf.usage \in UsagesOn(M)
  BY DEF IsInfo, IsCapacity, IsUsage
<1>5. GetAffinityPlan(inf, merged.vbs, work.plan, work.vbs) \in AnswersOn(D, N)
  BY <1>3, <1>4, ReplansAreOnTheNode DEF WorkOk
<1>6. N = DOMAIN inf.capacity.disks
  BY <1>4 DEF CapacitiesOn
<1>7. to.disks \in DiskPlansOn(N)
  BY <1>5, <1>6 DEF AnswersOn
<1> QED
  BY <1>2, <1>6, <1>7

-----------------------------------------------------------------------------
(* What is booked                                                           *)

\* A sum over what corresponds to S member by member
LEMMA SumMoves ==
    ASSUME NEW S, IsFiniteSet(S), NEW f, \A x \in S : \A y \in S : f[x] = f[y] => x = y,
           NEW g, \A x \in S : g[f[x]] \in Int, NEW k, \A x \in S : k[x] = g[f[x]]
    PROVE  SumOver(g, {f[x] : x \in S}) = SumOver(k, S)
<1> DEFINE Good == {s \in SUBSET S : SumOver(g, {f[x] : x \in s}) = SumOver(k, s)}
<1>1. \A s \in SUBSET S : IsFiniteSet(s) /\ IsFiniteSet({f[x] : x \in s})
  BY FS_Subset, ImageIsFinite
<1>2. Integral(k, S)
  BY DEF Integral
<1>3. ASSUME NEW s \in SUBSET S,
             \A r \in SUBSET S : Cardinality(r) < Cardinality(s) => r \in Good
      PROVE  s \in Good
  <2>1. CASE s = {}
    <3>1. SumOver(k, s) = 0 /\ SumOver(g, {}) = 0
      BY <2>1, SumOfNone
    <3>2. {f[x] : x \in s} = {}
      BY <2>1
    <3> QED
      BY <3>1, <3>2
  <2>2. CASE s # {}
    <3>1. PICK x : x \in s
      BY <2>2
    <3> DEFINE r == s \ {x}
               T == {f[y] : y \in s}
    <3>2. Cardinality(r) < Cardinality(s) /\ r \in SUBSET S
      <4>1. Cardinality(s) \in Nat /\ Cardinality(r) = Cardinality(s) - 1
        BY <1>1, <3>1, FS_CardinalityType, FS_RemoveElement
      <4> QED
        BY <4>1
    <3>3. SumOver(k, s) = k[x] + SumOver(k, r)
      BY <1>2, <3>1, SumSplits
    <3>4. T \ {f[x]} = {f[y] : y \in r}
      BY <3>1
    <3>5. SumOver(g, {f[y] : y \in r}) = SumOver(k, r)
      <4> HIDE DEF r
      <4> QED
        BY <1>3, <3>2
    <3>6. Integral(g, T) /\ f[x] \in T
      BY <1>1, <3>1 DEF Integral
    <3> HIDE DEF T, r
    <3>7. SumOver(g, T) = g[f[x]] + SumOver(g, T \ {f[x]})
      BY <3>6, SumSplits
    <3>8. k[x] = g[f[x]]
      BY <3>1
    <3> QED
      BY <3>3, <3>4, <3>5, <3>7, <3>8 DEF T
  <2> QED
    BY <2>1, <2>2
<1> HIDE DEF Good
<1>4. S \in Good
  BY <1>3, SubsetsClimb
<1> QED
  BY <1>4 DEF Good

\* What each of some usages has of a volume, of storage and of a rate of a disk
VolumeTaken(taken, device) == [i \in DOMAIN taken |-> taken[i].volumes[device]]
StorageTaken(taken) == [i \in DOMAIN taken |-> taken[i].storage]
RateTaken(taken, name, rate) == [i \in DOMAIN taken |-> UsedOf(taken[i].disks, name)[rate]]

\* u is base and the usages at the positions s
Totals(u, base, taken, s) ==
    /\ IsUsage(u)
    /\ \A device \in Devices :
          u.volumes[device] = base.volumes[device] + SumOver(VolumeTaken(taken, device), s)
    /\ u.storage = base.storage + SumOver(StorageTaken(taken), s)
    /\ \A name \in DiskNames : \A rate \in Rates :
          UsedOf(u.disks, name)[rate] = UsedOf(base.disks, name)[rate]
                                        + SumOver(RateTaken(taken, name, rate), s)
    /\ DOMAIN u.disks \subseteq DOMAIN base.disks \cup UNION {DOMAIN taken[i].disks : i \in s}

\* A sum over some positions is one of the amounts and the sum of the others
LEMMA SumWithout ==
    ASSUME NEW N \in Nat, NEW g, \A i \in 1..N : g[i] \in Int, NEW s \in SUBSET (1..N), NEW x \in s
    PROVE  /\ SumOver(g, s) = g[x] + SumOver(g, s \ {x})
           /\ SumOver(g, s \ {x}) \in Int
<1> DEFINE S == 1..N
<1>1. Integral(g, S)
  BY FS_Interval DEF Integral
<1>2. s \in SUBSET S /\ s \ {x} \in SUBSET S
  OBVIOUS
<1> HIDE DEF S
<1>3. SumOver(g, s) = g[x] + SumOver(g, s \ {x})
  <2>1. \A t \in SUBSET S : /\ SumOver(g, t) \in Int
                            /\ \A y \in t : SumOver(g, t) = g[y] + SumOver(g, t \ {y})
    BY <1>1, SumSplits
  <2>2. \A y \in s : SumOver(g, s) = g[y] + SumOver(g, s \ {y})
    BY <1>2, <2>1
  <2> QED
    BY <2>2
<1>4. SumOver(g, s \ {x}) \in Int
  BY <1>1, <1>2, SumSplits
<1> QED
  BY <1>3, <1>4

\* One more usage adds to the totals
LEMMA TotalsGrow ==
    ASSUME NEW base, IsUsage(base), NEW taken, NEW N \in Nat, DOMAIN taken = 1..N,
           \A i \in 1..N : IsUsage(taken[i]), NEW s \in SUBSET (1..N), NEW x \in s,
           NEW u, Totals(u, base, taken, s \ {x})
    PROVE  Totals(AddUsage(u, taken[x]), base, taken, s)
<1> DEFINE v == AddUsage(u, taken[x])
           r == s \ {x}
<1>1. /\ x \in 1..N /\ IsUsage(taken[x]) /\ IsUsage(u) /\ IsFiniteSet(1..N)
      /\ s \in SUBSET (1..N) /\ r \in SUBSET (1..N)
  BY FS_Interval DEF Totals
<1>2. IsUsage(v)
  BY <1>1, TakeIsUsage DEF Take
<1>3. \A i \in 1..N : /\ \A device \in Devices : taken[i].volumes[device] \in Int
                      /\ taken[i].storage \in Int
                      /\ \A name \in DiskNames : \A rate \in Rates :
                            UsedOf(taken[i].disks, name)[rate] \in Int
  BY UsageParts
<1>4. /\ \A device \in Devices : base.volumes[device] \in Int
      /\ base.storage \in Int
      /\ \A name \in DiskNames : \A rate \in Rates : UsedOf(base.disks, name)[rate] \in Int
  BY UsageParts
<1>5. ASSUME NEW device \in Devices
      PROVE  v.volumes[device] = base.volumes[device] + SumOver(VolumeTaken(taken, device), s)
  <2> DEFINE g == VolumeTaken(taken, device)
  <2>1. (\A i \in 1..N : g[i] \in Int) /\ g[x] = taken[x].volumes[device]
    BY <1>1, <1>3 DEF VolumeTaken
  <2>2. v.volumes[device] = u.volumes[device] + taken[x].volumes[device]
    BY DEF AddUsage
  <2>3. u.volumes[device] = base.volumes[device] + SumOver(g, r)
    BY DEF Totals
  <2> HIDE DEF g, r, v
  <2>5. SumOver(g, s) = g[x] + SumOver(g, r) /\ SumOver(g, r) \in Int
    BY <2>1, SumWithout DEF r
  <2>6. g[x] \in Int /\ base.volumes[device] \in Int
    BY <1>1, <1>4, <2>1
  <2> QED
    BY <2>1, <2>2, <2>3, <2>5, <2>6 DEF g
<1>6. v.storage = base.storage + SumOver(StorageTaken(taken), s)
  <2> DEFINE g == StorageTaken(taken)
  <2>1. (\A i \in 1..N : g[i] \in Int) /\ g[x] = taken[x].storage
    BY <1>1, <1>3 DEF StorageTaken
  <2>2. v.storage = u.storage + taken[x].storage
    BY DEF AddUsage
  <2>3. u.storage = base.storage + SumOver(g, r)
    BY DEF Totals
  <2> HIDE DEF g, r, v
  <2>5. SumOver(g, s) = g[x] + SumOver(g, r) /\ SumOver(g, r) \in Int
    BY <2>1, SumWithout DEF r
  <2>6. g[x] \in Int /\ base.storage \in Int
    BY <1>1, <1>4, <2>1
  <2> QED
    BY <2>1, <2>2, <2>3, <2>5, <2>6 DEF g
<1>7. ASSUME NEW name \in DiskNames, NEW rate \in Rates
      PROVE  UsedOf(v.disks, name)[rate] = UsedOf(base.disks, name)[rate]
                                           + SumOver(RateTaken(taken, name, rate), s)
  <2> DEFINE g == RateTaken(taken, name, rate)
  <2>1. (\A i \in 1..N : g[i] \in Int) /\ g[x] = UsedOf(taken[x].disks, name)[rate]
    BY <1>1, <1>3 DEF RateTaken
  <2>2. UsedOf(v.disks, name)[rate] = UsedOf(u.disks, name)[rate] + UsedOf(taken[x].disks, name)[rate]
    <3>1. u.disks \in DiskPlansOn(DiskNames) /\ taken[x].disks \in DiskPlansOn(DiskNames)
      BY <1>1, UsageParts
    <3>2. v.disks = AddDisks(u.disks, taken[x].disks)
      BY DEF AddUsage
    <3> HIDE DEF v
    <3> QED
      BY <3>1, <3>2, UsesAddUp
  <2>3. UsedOf(u.disks, name)[rate] = UsedOf(base.disks, name)[rate] + SumOver(g, r)
    BY DEF Totals
  <2> HIDE DEF g, r, v
  <2>5. SumOver(g, s) = g[x] + SumOver(g, r) /\ SumOver(g, r) \in Int
    BY <2>1, SumWithout DEF r
  <2>6. g[x] \in Int /\ UsedOf(base.disks, name)[rate] \in Int
    BY <1>1, <1>4, <2>1
  <2> QED
    BY <2>1, <2>2, <2>3, <2>5, <2>6 DEF g
<1>8. DOMAIN v.disks \subseteq DOMAIN base.disks \cup UNION {DOMAIN taken[i].disks : i \in s}
  <2>1. DOMAIN v.disks = DOMAIN u.disks \cup DOMAIN taken[x].disks
    BY DEF AddUsage, AddDisks
  <2>2. DOMAIN u.disks \subseteq DOMAIN base.disks \cup UNION {DOMAIN taken[i].disks : i \in r}
    BY DEF Totals
  <2> HIDE DEF v
  <2> QED
    BY <2>1, <2>2
<1> HIDE DEF v
<1>9. Totals(v, base, taken, s)
  BY <1>2, <1>5, <1>6, <1>7, <1>8 DEF Totals
<1> QED
  BY <1>9 DEF v

\* What is booked is the total
LEMMA BookedAddsUp ==
    ASSUME NEW base, IsUsage(base), NEW taken, NEW N \in Nat, DOMAIN taken = 1..N,
           \A i \in 1..N : IsUsage(taken[i])
    PROVE  Totals(TakeAll(base, taken, TRUE), base, taken, 1..N)
<1>1. PICK it : TakeAll(base, taken, TRUE) = it[1..N] /\ Loops(it, base, taken, N, TRUE)
  BY TakeAllUnfolds
<1> DEFINE S == 1..N
           Good == {s \in SUBSET S : Totals(it[s], base, taken, s)}
<1>2. \A s \in SUBSET S : it[s] = IF s = {} THEN base
                                  ELSE AddUsage(it[s \ {LastOf(s)}], taken[LastOf(s)])
  BY <1>1 DEF Loops, Take
<1>3. IsFiniteSet(S)
  BY FS_Interval
<1>4. ASSUME NEW s \in SUBSET S,
             \A r \in SUBSET S : Cardinality(r) < Cardinality(s) => r \in Good
      PROVE  s \in Good
  <2>1. CASE s = {}
    <3>1. it[s] = base
      BY <1>2, <2>1
    <3>2. Totals(base, base, taken, {})
      <4>1. /\ \A device \in Devices : base.volumes[device] \in Int
            /\ base.storage \in Int
            /\ \A name \in DiskNames : \A rate \in Rates : UsedOf(base.disks, name)[rate] \in Int
        BY UsageParts
      <4>2. \A g : SumOver(g, {}) = 0
        BY SumOfNone
      <4> QED
        BY <4>1, <4>2 DEF Totals
    <3> QED
      BY <2>1, <3>1, <3>2
  <2>2. CASE s # {}
    <3> DEFINE x == LastOf(s)
    <3>1. x \in s
      BY <2>2, LastIsThere
    <3>2. it[s] = AddUsage(it[s \ {x}], taken[x])
      BY <1>2, <2>2
    <3> HIDE DEF x
    <3>3. IsFiniteSet(s) /\ s \ {x} \in SUBSET S
      BY <1>3, FS_Subset
    <3>4. Cardinality(s \ {x}) < Cardinality(s)
      <4>1. Cardinality(s \ {x}) = Cardinality(s) - 1 /\ Cardinality(s) \in Nat
        BY <3>1, <3>3, FS_RemoveElement, FS_CardinalityType
      <4> QED
        BY <4>1
    <3>5. Totals(it[s \ {x}], base, taken, s \ {x})
      BY <1>4, <3>3, <3>4
    <3>6. Totals(it[s], base, taken, s)
      BY <3>1, <3>2, <3>5, TotalsGrow
    <3> QED
      BY <3>6
  <2> QED
    BY <2>1, <2>2
<1> HIDE DEF Good, S
<1>5. Good \in SUBSET (SUBSET S)
  BY DEF Good
<1>6. S \in Good
  BY <1>3, <1>4, <1>5, SubsetsClimb
<1> QED
  BY <1>1, <1>6 DEF Good, S

\* Usages booked one after the other add up
LEMMA AmountsTotal ==
    ASSUME NEW base, IsUsage(base), NEW taken, NEW n \in Nat, DOMAIN taken = 1..n,
           \A i \in 1..n : IsUsage(taken[i]), NEW m \in Measures
    PROVE  Amount(TakeAll(base, taken, TRUE), m) = Amount(base, m) + SumOver(AmountIn(taken, m), 1..n)
<1>1. PICK u : u = TakeAll(base, taken, TRUE)
  OBVIOUS
<1>2. Totals(u, base, taken, 1..n)
  BY <1>1, BookedAddsUp
<1>3. CASE m[1] = "storage"
  <2>1. \A usage : Amount(usage, m) = usage.storage
    BY <1>3, MeasureKinds
  <2>2. AmountIn(taken, m) = StorageTaken(taken)
    BY <2>1 DEF AmountIn, StorageTaken
  <2> QED
    BY <1>1, <1>2, <2>1, <2>2 DEF Totals
<1>4. CASE m[1] = "volume"
  <2>1. m[2] \in Devices /\ \A usage : Amount(usage, m) = usage.volumes[m[2]]
    BY <1>4, MeasureKinds
  <2>2. AmountIn(taken, m) = VolumeTaken(taken, m[2])
    BY <2>1 DEF AmountIn, VolumeTaken
  <2> QED
    BY <1>1, <1>2, <2>1, <2>2 DEF Totals
<1>5. CASE m[1] = "disk"
  <2>1. m[2] \in DiskNames /\ m[3] \in Rates
        /\ \A usage : Amount(usage, m) = UsedOf(usage.disks, m[2])[m[3]]
    BY <1>5, MeasureKinds
  <2>2. AmountIn(taken, m) = RateTaken(taken, m[2], m[3])
    BY <2>1 DEF AmountIn, RateTaken
  <2> QED
    BY <1>1, <1>2, <2>1, <2>2 DEF Totals
<1> QED
  BY <1>3, <1>4, <1>5, MeasureKinds

\* What is booked is stored
LEMMA BookedIsStored ==
    ASSUME NEW inf, Sound(inf), NEW taken, NEW plus \in BOOLEAN, NEW usage, IsUsage(usage),
           usage = TakeAll(inf.usage, taken, plus), NEW set, set = Book(inf, taken, plus), set.ok,
           NEW m \in Measures
    PROVE  Amount(set.info.usage, m) = Amount(usage, m)
<1> DEFINE next == [inf EXCEPT !.usage = NextUsage(@, Nil, Nil, taken, TRUE, plus)]
<1>1. set = Put(inf, next)
  BY DEF Book, SetNodeResourceUsage
<1>2. next = [inf EXCEPT !.usage = usage]
  <2>1. NextUsage(inf.usage, Nil, Nil, taken, TRUE, plus) = usage
    BY DEF NextUsage, Charged
  <2> QED
    BY <2>1
<1> HIDE DEF next
<1> QED
  BY <1>1, <1>2, StoredAmounts

\* Usages booked at once
Booked(inf, taken, n, set) ==
    /\ Sound(inf) /\ n \in Nat /\ DOMAIN taken = 1..n
    /\ (\A i \in 1..n : IsUsage(taken[i]))
    /\ set = Book(inf, taken, TRUE) /\ set.ok

\* Booking is adding up
LEMMA BookingAmounts ==
    ASSUME NEW inf, NEW taken, NEW n, NEW set, Booked(inf, taken, n, set), NEW m \in Measures
    PROVE  Amount(set.info.usage, m) = Amount(inf.usage, m) + SumOver(AmountIn(taken, m), 1..n)
<1> PICK plus \in BOOLEAN : plus = TRUE
  OBVIOUS
<1>0. /\ Sound(inf) /\ set.ok /\ m \in Measures /\ n \in Nat /\ DOMAIN taken = 1..n
      /\ (\A i \in 1..n : IsUsage(taken[i])) /\ set = Book(inf, taken, plus)
  BY DEF Booked
<1>1. IsUsage(inf.usage)
  BY <1>0 DEF Sound, IsInfo
<1>2. PICK usage : usage = TakeAll(inf.usage, taken, TRUE)
  OBVIOUS
<1>3. IsUsage(usage)
  BY <1>0, <1>1, <1>2, TakeAllIsUsage
<1>4. Amount(usage, m) = Amount(inf.usage, m) + SumOver(AmountIn(taken, m), 1..n)
  BY <1>0, <1>1, <1>2, AmountsTotal
<1>6. usage = TakeAll(inf.usage, taken, plus) /\ set = Book(inf, taken, plus)
  BY <1>0, <1>2
<1>7. Amount(set.info.usage, m) = Amount(usage, m)
  BY ONLY <1>0, <1>3, <1>6, BookedIsStored, plus \in BOOLEAN
<1> QED
  BY <1>4, <1>7

\* So is what one workload takes or gives back
LEMMA OneBooked ==
    ASSUME NEW inf, Sound(inf), NEW u, IsUsage(u), NEW plus \in BOOLEAN,
           NEW set, set = Book(inf, <<u>>, plus), set.ok, NEW m \in Measures
    PROVE  Amount(set.info.usage, m) = Amount(Take(inf.usage, u, plus), m)
<1>1. PICK usage : usage = Take(inf.usage, u, plus)
  OBVIOUS
<1>2. IsUsage(usage)
  BY <1>1, TakeIsUsage DEF Sound, IsInfo
<1>3. PICK taken : taken = <<u>>
  OBVIOUS
<1>4. TakeAll(inf.usage, taken, plus) = usage
  BY <1>1, <1>3, TakeAllOfOne
<1>5. Amount(set.info.usage, m) = Amount(usage, m)
  BY <1>2, <1>3, <1>4, BookedIsStored
<1> QED
  BY <1>1, <1>5

\* No usage is none of anything
LEMMA NothingAmounts ==
    ASSUME NEW m \in Measures
    PROVE  Amount(NoUsage, m) = 0
<1>1. CASE m[1] = "storage"
  BY <1>1, MeasureKinds DEF NoUsage
<1>2. CASE m[1] = "volume"
  BY <1>2, MeasureKinds DEF NoUsage
<1>3. CASE m[1] = "disk"
  <2>1. m[3] \in Rates /\ Amount(NoUsage, m) = UsedOf(NoUsage.disks, m[2])[m[3]]
    BY <1>3, MeasureKinds
  <2>2. UsedOf(NoUsage.disks, m[2]) = NoIO
    BY DEF NoUsage, NoDisks, UsedOf
  <2> QED
    BY <2>1, <2>2 DEF NoIO
<1> QED
  BY <1>1, <1>2, <1>3, MeasureKinds

\* Usages with the same amounts are alike
LEMMA AmountsDecide ==
    ASSUME NEW u, IsUsage(u), NEW v, IsUsage(v), \A m \in Measures : Amount(u, m) = Amount(v, m)
    PROVE  Alike(u, v)
<1>1. PICK names \in SUBSET DiskNames : u \in UsagesOn(names)
  BY DEF IsUsage
<1>2. PICK names1 \in SUBSET DiskNames : v \in UsagesOn(names1)
  BY DEF IsUsage
<1>3. u.volumes \in [Devices -> Int] /\ v.volumes \in [Devices -> Int]
  BY <1>1, <1>2 DEF UsagesOn
<1>4. \A name : UsedOf(u.disks, name) \in IO /\ UsedOf(v.disks, name) \in IO
  BY <1>1, <1>2, UsedOfIsIO DEF UsagesOn
<1>5. /\ u.storage = v.storage
      /\ \A device \in Devices : u.volumes[device] = v.volumes[device]
      /\ \A name \in DiskNames, rate \in Rates :
            UsedOf(u.disks, name)[rate] = UsedOf(v.disks, name)[rate]
  <2>1. u.storage = v.storage
    BY AmountsByName
  <2>2. \A device \in Devices : u.volumes[device] = v.volumes[device]
    BY AmountsByName
  <2>3. \A name \in DiskNames, rate \in Rates :
           UsedOf(u.disks, name)[rate] = UsedOf(v.disks, name)[rate]
    <3> TAKE name \in DiskNames
    <3> TAKE rate \in Rates
    <3>1. PICK m \in Measures : \A w : Amount(w, m) = UsedOf(w.disks, name)[rate]
      BY ONLY AmountsByName, name \in DiskNames, rate \in Rates
    <3> QED
      BY <3>1
  <2> QED
    BY <2>1, <2>2, <2>3
<1>6. \A name \in DiskNames : UsedOf(u.disks, name) = UsedOf(v.disks, name)
  BY <1>4, <1>5 DEF IO
<1> QED
  BY <1>3, <1>5, <1>6 DEF Alike

-----------------------------------------------------------------------------
(* What the verbs answer is a workload                                      *)

\* What core keeps is a workload, not what stands for none
LEMMA OkIsWorkload ==
    ASSUME NEW vbs, NEW plan, NEW disks, NEW storage, NEW work,
           work = [vbs |-> vbs, plan |-> plan, disks |-> disks, storage |-> storage], WorkOk(work)
    PROVE  work \in Workloads
<1>1. /\ vbs \in Bindings /\ plan \in PlansOn(Devices) /\ disks \in DiskPlansOn(DiskNames)
      /\ storage \in Nat
  BY DEF WorkOk
<1>2. vbs \in SUBSET VolumeBinding
  BY <1>1 DEF Bindings
<1>3. plan \in VolumePlans
  <2>1. PICK S \in Bindings : plan \in [S -> Placement]
    BY <1>1 DEF PlansOn, Placement
  <2>2. S \in SUBSET VolumeBinding
    BY DEF Bindings
  <2> QED
    BY <2>1, <2>2 DEF VolumePlans
<1>4. disks \in DiskUses
  BY <1>1 DEF DiskPlansOn, DiskUses
<1>5. storage \in Int
  BY <1>1
<1> QED
  BY <1>2, <1>3, <1>4, <1>5 DEF Workloads

LEMMA DeployedAreWorkloads ==
    ASSUME NEW inf, NEW count, NEW req, NEW deployed, deployed = Deployed(inf, count, req),
           deployed.ok, \A i \in DOMAIN deployed.works : WorkOk(deployed.works[i])
    PROVE  \A i \in DOMAIN deployed.works : deployed.works[i] \in Workloads
<1> DEFINE plans == IF NeedSchedule(req.vbs) THEN GetVolumePlans(inf, req.vbs, count)
                    ELSE Repeat(count, NoPlan)
           storage == Folded(req).storage
           Work(p) == [vbs |-> req.vbs, plan |-> p.plan, disks |-> p.disks, storage |-> storage]
           works == [i \in DOMAIN plans |-> Work(plans[i])]
           enough == Len(plans) >= count
<1>1. deployed = [ok |-> enough, works |-> works]
  BY DEF Deployed
<1> HIDE DEF plans, enough, storage
<1>2. deployed.works = works
  BY <1>1
<1> TAKE i \in DOMAIN deployed.works
<1>3. i \in DOMAIN plans /\ deployed.works[i] = Work(plans[i])
  BY <1>2
<1> QED
  BY <1>3, OkIsWorkload

LEMMA ReallocatedIsWorkload ==
    ASSUME NEW inf, NEW work, NEW req, NEW target, target = Reallocated(inf, work, req),
           target.ok, WorkOk(target.work)
    PROVE  target.work \in Workloads
<1> DEFINE merged == Merged(work, req)
           to == IF NeedSchedule(req.vbs)
                 THEN GetAffinityPlan(inf, merged.vbs, work.plan, work.vbs)
                 ELSE [ok |-> TRUE, plan |-> work.plan, disks |-> work.disks]
<1> HIDE DEF merged
<1>1. target = [ok |-> to.ok, work |-> [vbs |-> merged.vbs, storage |-> merged.storage,
                                        plan |-> to.plan, disks |-> to.disks]]
  BY DEF Reallocated, Replanned, merged
<1> HIDE DEF to
<1>2. target.work = [vbs |-> merged.vbs, plan |-> to.plan, disks |-> to.disks,
                     storage |-> merged.storage]
  BY <1>1
<1> QED
  BY <1>2, OkIsWorkload

-----------------------------------------------------------------------------
(* Sizes of plans.  Unlike what a plan takes of a host, that no binding is  *)
(* given less than nothing needs no destinations to be different, and so    *)
(* holds of realloc, too.                                                   *)

\* Bindings with sizes that are not less than nothing
Sizes(vbs) == \A vb \in vbs : vb.size >= 0
SizesIn(reqs) == \A k \in 1..Len(reqs) : reqs[k].size >= 0

\* Plans and attempts without such sizes
SizedOn(D, N) == {p \in PlannedOn(D, N) : Sized(p.plan)}
SizedAttempts(D, N) == {a \in AttemptsOn(D, N) : Sized(a.plan)}

\* Plans merged have the sizes of the one, the other or both
LEMMA MergedIsSized ==
    ASSUME NEW D, NEW plan \in PlansOn(D), Sized(plan), NEW plan1 \in PlansOn(D), Sized(plan1)
    PROVE  Sized(MergePlans(plan, plan1))
<1> DEFINE Same(vb) == {vb1 \in DOMAIN plan : vb1.dest = vb.dest}
           kept == {vb1 \in DOMAIN plan : \A vb \in DOMAIN plan1 : vb.dest # vb1.dest}
           fresh == {vb \in DOMAIN plan1 : Same(vb) = {}}
           joined == {p \in (DOMAIN plan1) \X (DOMAIN plan) : p[1].dest = p[2].dest}
           both == {[vb |-> AddQuota(p[1], p[2]),
                     to |-> [plan1[p[1]] EXCEPT !.size = @ + plan[p[2]].size]] : p \in joined}
           To(vb) == IF vb \in kept THEN plan[vb] ELSE IF vb \in fresh THEN plan1[vb]
                     ELSE (CHOOSE b \in both : b.vb = vb).to
           all == kept \cup fresh \cup {b.vb : b \in both}
           merged == MergePlans(plan, plan1)
<1>1. merged \in PlansOn(D)
  BY MergedPlansStay
<1>2. merged = [vb \in all |-> To(vb)]
  BY DEF MergePlans
<1>3. \A b \in both : b.to.size \in Nat
  <2> TAKE b \in both
  <2>1. PICK p \in joined :
          b = [vb |-> AddQuota(p[1], p[2]),
               to |-> [plan1[p[1]] EXCEPT !.size = @ + plan[p[2]].size]]
    OBVIOUS
  <2>2. p[1] \in DOMAIN plan1 /\ p[2] \in DOMAIN plan
    OBVIOUS
  <2>3. /\ plan1[p[1]] \in [device : D, size : Int] /\ plan1[p[1]].size \in Nat
        /\ plan[p[2]].size \in Nat
    BY <2>2, PlanParts DEF Sized
  <2>4. b.to.size = plan1[p[1]].size + plan[p[2]].size
    BY <2>1, <2>3
  <2> QED
    BY <2>3, <2>4
<1>4. \A vb \in all : To(vb).size \in Nat
  <2> TAKE vb \in all
  <2>1. CASE vb \in kept
    BY <2>1 DEF Sized
  <2>2. CASE vb \notin kept /\ vb \in fresh
    BY <2>2 DEF Sized
  <2>3. CASE vb \notin kept /\ vb \notin fresh
    <3> HIDE DEF both, kept, fresh
    <3>1. PICK b \in both : b.vb = vb
      BY <2>3
    <3>2. (CHOOSE c \in both : c.vb = vb) \in both
      BY <3>1
    <3> QED
      BY <1>3, <2>3, <3>2
  <2> QED
    BY <2>1, <2>2, <2>3
<1> HIDE DEF merged, all, To
<1>5. DOMAIN merged = all /\ \A vb \in all : merged[vb] = To(vb)
  BY <1>2
<1>6. IsFiniteSet(DOMAIN merged)
  BY <1>1, PlanParts
<1> QED
  BY <1>4, <1>5, <1>6 DEF Sized, merged

\* A normal binding has the size it asks for
LEMMA PlaceNormalIsSized ==
    ASSUME NEW D \in SUBSET Devices, NEW N \in SUBSET DiskNames,
           NEW a \in SizedAttempts(D, N), NEW req \in VolumeBinding, req.size >= 0
    PROVE  PlaceNormal(a, req) \in SizedAttempts(D, N)
<1> DEFINE fitting == Fitting(a.host, req)
           device == Least(a.host.free, fitting)
           next == PlaceNormal(a, req)
<1>1. a \in AttemptsOn(D, N) /\ Sized(a.plan)
  BY DEF SizedAttempts
<1>2. next \in AttemptsOn(D, N)
  BY <1>1, PlaceNormalStays
<1>3. CASE ~(a.ok /\ fitting # {})
  <2>1. next.plan = a.plan
    BY <1>1, <1>3 DEF PlaceNormal, AttemptsOn
  <2> QED
    BY <1>1, <1>2, <2>1 DEF SizedAttempts
<1>4. CASE a.ok /\ fitting # {}
  <2>1. next = PlaceOn(a, device, req)
    BY <1>4 DEF PlaceNormal
  <2> HIDE DEF device
  <2>2. next.plan = Placing(a.plan, req, device, req.size)
    BY <1>1, <2>1 DEF PlaceOn, AttemptsOn
  <2>3. req.size \in Nat
    BY BindingParts
  <2>4. Sized(next.plan)
    BY <1>1, <2>2, <2>3, PlacingTakes
  <2> QED
    BY <1>2, <2>4 DEF SizedAttempts
<1> QED
  BY <1>3, <1>4

\* Mounts are not part of the plan
LEMMA ChargeMountIsSized ==
    ASSUME NEW D \in SUBSET Devices, NEW N \in SUBSET DiskNames,
           NEW a \in SizedAttempts(D, N), NEW req \in VolumeBinding
    PROVE  ChargeMount(a, req) \in SizedAttempts(D, N)
<1>1. a \in AttemptsOn(D, N) /\ Sized(a.plan)
  BY DEF SizedAttempts
<1>2. ChargeMount(a, req) \in AttemptsOn(D, N)
  BY <1>1, ChargeMountStays
<1>3. ChargeMount(a, req).plan = a.plan
  BY <1>1 DEF ChargeMount, AttemptsOn
<1> QED
  BY <1>1, <1>2, <1>3 DEF SizedAttempts

\* The mounts add no sizes
LEMMA MountPassIsSized ==
    ASSUME NEW D \in SUBSET Devices, NEW N \in SUBSET DiskNames,
           NEW a \in SizedAttempts(D, N), NEW mount \in Seq(VolumeBinding)
    PROVE  GetMountDiskPlan(a, mount) \in SizedAttempts(D, N)
<1> DEFINE V == SizedAttempts(D, N)
<1>1. \A b \in V, k \in 1..Len(mount) : ChargeMount(b, mount[k]) \in V
  BY BindingList, ChargeMountIsSized
<1>2. Len(mount) \in Nat /\ DOMAIN mount = 1..Len(mount)
  BY BindingList
<1> HIDE DEF V
<1>3. a \in V
  BY DEF V
<1>4. GetMountDiskPlan(a, mount) \in V
  BY <1>1, <1>2, <1>3, MountPlanStays
<1> QED
  BY <1>4 DEF V

\* An attempt at nothing
LEMMA AttemptIsSized ==
    ASSUME NEW D, NEW N, NEW h \in HostsOn(D, N)
    PROVE  Attempt(h) \in SizedAttempts(D, N)
<1>1. Attempt(h) \in AttemptsOn(D, N)
  BY EmptyPlansStay
<1>2. Attempt(h).plan = EmptyPlan
  BY DEF Attempt
<1> QED
  BY <1>1, <1>2, EmptyTakesNothing DEF SizedAttempts

\* A pass over normal bindings and mounts
LEMMA PassIsSized ==
    ASSUME NEW D \in SUBSET Devices, NEW N \in SUBSET DiskNames, NEW h \in HostsOn(D, N),
           NEW normal \in Seq(VolumeBinding), SizesIn(normal), NEW mount \in Seq(VolumeBinding)
    PROVE  GetMountDiskPlan(GetNormalPlan(h, normal), mount) \in SizedAttempts(D, N)
<1> DEFINE V == SizedAttempts(D, N)
<1>1. \A b \in V, k \in 1..Len(normal) : PlaceNormal(b, normal[k]) \in V
  BY BindingList, PlaceNormalIsSized DEF SizesIn
<1>2. Len(normal) \in Nat /\ DOMAIN normal = 1..Len(normal)
  BY BindingList
<1>3. Attempt(h) \in V
  BY AttemptIsSized
<1> HIDE DEF V
<1>4. GetNormalPlan(h, normal) \in V
  BY <1>1, <1>2, <1>3, NormalPlanStays
<1> QED
  BY <1>4, MountPassIsSized DEF V

\* Passes so far
SizedPasses(D, N) == {s \in PassesOn(D, N) : s.plans \in Seq(SizedOn(D, N))}

\* One more pass
LEMMA NormalPassIsSized ==
    ASSUME NEW D \in SUBSET Devices, NEW N \in SUBSET DiskNames,
           NEW normal \in Seq(VolumeBinding), SizesIn(normal), NEW mount \in Seq(VolumeBinding),
           NEW s \in SizedPasses(D, N)
    PROVE  NormalPass(s, normal, mount) \in SizedPasses(D, N)
<1> DEFINE P == SizedOn(D, N)
           a == GetMountDiskPlan(GetNormalPlan(s.host, normal), mount)
           p == [plan |-> a.plan, disks |-> a.disks]
           next == NormalPass(s, normal, mount)
<1>1. s \in PassesOn(D, N) /\ s.host \in HostsOn(D, N) /\ s.plans \in Seq(P)
  BY DEF SizedPasses, PassesOn
<1>2. next \in PassesOn(D, N)
  BY <1>1, NormalPassStays
<1>3. CASE s.failed
  BY <1>3 DEF NormalPass
<1>4. CASE ~s.failed
  <2>1. a \in SizedAttempts(D, N)
    BY <1>1, PassIsSized
  <2>2. next.plans = IF ~a.ok THEN s.plans ELSE Append(s.plans, p)
    BY <1>4 DEF NormalPass
  <2> HIDE DEF a, next
  <2>3. p \in P
    BY <2>1 DEF SizedAttempts, AttemptsOn, SizedOn, PlannedOn
  <2> HIDE DEF p, P
  <2>4. Append(s.plans, p) \in Seq(P)
    BY <1>1, <2>3
  <2>5. next.plans \in Seq(P)
    BY <1>1, <2>2, <2>4
  <2> QED
    BY <1>2, <2>5 DEF SizedPasses, P, next
<1> QED
  BY <1>3, <1>4

\* All passes
LEMMA NormalPassesAreSized ==
    ASSUME NEW D \in SUBSET Devices, NEW N \in SUBSET DiskNames, NEW h \in HostsOn(D, N),
           NEW normal \in Seq(VolumeBinding), SizesIn(normal), NEW mount \in Seq(VolumeBinding),
           NEW bound \in Nat
    PROVE  GetNormalPasses(h, normal, mount, bound).plans \in Seq(SizedOn(D, N))
<1> DEFINE V == SizedPasses(D, N)
           first == [failed |-> FALSE, host |-> h, plans |-> <<>>]
<1>1. first \in V
  <2>1. first \in PassesOn(D, N)
    BY DEF PassesOn
  <2>2. first.plans \in Seq(SizedOn(D, N))
    OBVIOUS
  <2> QED
    BY <2>1, <2>2 DEF SizedPasses
<1>2. \A s \in V : NormalPass(s, normal, mount) \in V
  BY NormalPassIsSized
<1> HIDE DEF V
<1>3. GetNormalPasses(h, normal, mount, bound) \in V
  <2>1. bound \in 0..bound
    OBVIOUS
  <2> QED
    BY <1>1, <1>2, <2>1, NormalPassesRun DEF RunsPasses
<1> QED
  BY <1>3 DEF V, SizedPasses

\* The plan of no volume
LEMMA EmptyIsSized ==
    ASSUME NEW D, NEW N, NEW disks \in DiskPlansOn(N)
    PROVE  [plan |-> EmptyPlan, disks |-> disks] \in SizedOn(D, N)
BY EmptyPlansStay, EmptyTakesNothing DEF SizedOn, PlannedOn

\* Plans of mounts alone
LEMMA MountOnlyPlansAreSized ==
    ASSUME NEW D \in SUBSET Devices, NEW N \in SUBSET DiskNames, NEW h \in HostsOn(D, N),
           NEW mount \in Seq(VolumeBinding), NEW bound \in Nat
    PROVE  GetMountOnlyPlans(h, mount, bound).plans \in Seq(SizedOn(D, N))
<1> DEFINE passes == ApplyMountPasses(h, mount, bound)
           plans == GetMountOnlyPlans(h, mount, bound).plans
           p == [plan |-> EmptyPlan, disks |-> passes.disks]
<1>1. plans = Repeat(passes.capacity, p)
  BY DEF GetMountOnlyPlans
<1>2. plans \in Seq(PlannedOn(D, N))
  BY MountOnlyPlansAreOn
<1> HIDE DEF plans
<1>3. \A i \in 1..Len(plans) : plans[i] \in SizedOn(D, N)
  <2> TAKE i \in 1..Len(plans)
  <2>1. plans[i] \in PlannedOn(D, N) /\ DOMAIN plans = 1..Len(plans)
    BY <1>2, MembersAreIn
  <2> HIDE DEF p
  <2>2. plans[i] = p
    BY <1>1, <2>1 DEF Repeat
  <2>3. p.plan = EmptyPlan
    BY DEF p
  <2> QED
    BY <2>1, <2>2, <2>3, EmptyTakesNothing DEF SizedOn
<1>4. Len(plans) \in Nat /\ plans = [i \in 1..Len(plans) |-> plans[i]]
  BY <1>2
<1>5. plans \in Seq(SizedOn(D, N))
  BY <1>3, <1>4
<1> QED
  BY <1>5 DEF plans

\* Normal plans, whatever way they are made
LEMMA NormalPlansAreSized ==
    ASSUME NEW D \in SUBSET Devices, NEW N \in SUBSET DiskNames, NEW h \in HostsOn(D, N),
           NEW count \in Nat, NEW normal \in Seq(VolumeBinding), SizesIn(normal),
           NEW mount \in Seq(VolumeBinding), NEW bound \in Nat
    PROVE  GetNormalPlans(h, count, normal, mount, bound).plans \in Seq(SizedOn(D, N))
<1>1. CASE normal # <<>>
  BY <1>1, NormalPassesAreSized DEF GetNormalPlans
<1>2. CASE normal = <<>> /\ AnyRequireIOPS(mount)
  BY <1>2, MountOnlyPlansAreSized DEF GetNormalPlans
<1>3. CASE normal = <<>> /\ ~AnyRequireIOPS(mount)
  <2>1. NoPlan \in SizedOn(D, N)
    BY EmptyPlansStay, EmptyIsSized DEF NoPlan
  <2>2. Repeat(count, NoPlan) \in Seq(SizedOn(D, N))
    BY <2>1, RepeatsAreOn
  <2>3. GetNormalPlans(h, count, normal, mount, bound).plans = Repeat(count, NoPlan)
    BY <1>3 DEF GetNormalPlans
  <2> QED
    BY <2>2, <2>3
<1> QED
  BY <1>1, <1>2, <1>3

\* Shares of a volume the group fits on
LEMMA GroupIsSized ==
    ASSUME NEW D, NEW N \in SUBSET DiskNames, NEW h \in HostsOn(D, N), NEW reqs, Grouped(reqs),
           NEW device \in D, NEW m, m = GetMonoPlan(h, reqs, device), m.ok
    PROVE  Sized(m.plan)
<1> DEFINE total == Group(reqs).size
           free == h.free[device]
           plan == MonoPlan(reqs, total, device, free)
<1>1. m.plan = plan /\ free >= total
  BY DEF GetMonoPlan
<1>2. total \in Int /\ total > 0 /\ free \in Int
  BY GroupHasSize DEF Grouped, HostsOn
<1>3. free \in Nat
  <2> HIDE DEF total, free
  <2> QED
    BY <1>1, <1>2
<1> HIDE DEF free
<1>4. FilledWith(plan, ToSet(reqs), device, free)
  BY <1>1, <1>3, SharesAddUp
<1> QED
  BY <1>1, <1>4 DEF FilledWith

SizedGroups(D, N) == {s \in GroupsOn(D, N) : s.plans \in Seq(SizedOn(D, N))}

\* One more volume for the group
LEMMA TryVolumeIsSized ==
    ASSUME NEW D, NEW N \in SUBSET DiskNames, NEW mono, Grouped(mono), NEW bound,
           NEW s \in SizedGroups(D, N), NEW device \in D
    PROVE  TryVolume(s, mono, bound, device) \in SizedGroups(D, N)
<1> DEFINE P == SizedOn(D, N)
           m == GetMonoPlan(s.host, mono, device)
           p == [plan |-> m.plan, disks |-> m.disks]
           next == TryVolume(s, mono, bound, device)
<1>1. s \in GroupsOn(D, N) /\ s.host \in HostsOn(D, N) /\ s.plans \in Seq(P)
  BY DEF SizedGroups, GroupsOn
<1>2. next \in GroupsOn(D, N)
  BY <1>1, TryVolumeStays DEF Grouped
<1>3. next.plans = IF Len(s.plans) >= bound \/ ~m.ok THEN s.plans ELSE Append(s.plans, p)
  BY DEF TryVolume
<1>4. m.ok => m.plan \in PlansOn(D) /\ m.disks \in DiskPlansOn(N) /\ Sized(m.plan)
  BY <1>1, GroupIsPlanned, GroupIsSized DEF Grouped
<1> HIDE DEF m, next
<1>5. m.ok => p \in P
  BY <1>4 DEF PlannedOn, SizedOn
<1> HIDE DEF p, P
<1>6. m.ok => Append(s.plans, p) \in Seq(P)
  BY <1>1, <1>5
<1>7. next.plans \in Seq(P)
  BY <1>1, <1>3, <1>6
<1> QED
  BY <1>2, <1>7 DEF SizedGroups, P, next

\* Monopoly plans
LEMMA MonoPlansAreSized ==
    ASSUME NEW D, NEW N \in SUBSET DiskNames, NEW h \in HostsOn(D, N), NEW count \in Nat,
           NEW mono, Grouped(mono) \/ mono = <<>>, NEW bound
    PROVE  GetMonoPlans(h, count, mono, bound).plans \in Seq(SizedOn(D, N))
<1> DEFINE P == SizedOn(D, N)
           V == SizedGroups(D, N)
<1>1. CASE mono = <<>>
  <2>1. NoPlan \in P
    BY EmptyPlansStay, EmptyIsSized DEF NoPlan
  <2>2. Repeat(count, NoPlan) \in Seq(P)
    BY <2>1, RepeatsAreOn
  <2>3. GetMonoPlans(h, count, mono, bound).plans = Repeat(count, NoPlan)
    BY <1>1 DEF GetMonoPlans
  <2> QED
    BY <2>2, <2>3
<1>2. CASE mono # <<>>
  <2>1. [host |-> h, plans |-> <<>>] \in V
    <3>1. [host |-> h, plans |-> <<>>] \in GroupsOn(D, N)
      BY DEF GroupsOn
    <3>2. <<>> \in Seq(P)
      OBVIOUS
    <3> QED
      BY <3>1, <3>2 DEF SizedGroups
  <2>2. h.unused \in Seq(D)
    BY DEF HostsOn
  <2>3. Len(h.unused) \in Nat /\ DOMAIN h.unused = 1..Len(h.unused)
        /\ Len(h.unused) \in 0..Len(h.unused)
    BY <2>2, MembersAreIn
  <2>4. ASSUME NEW s \in V, NEW k \in 1..Len(h.unused)
        PROVE  TryVolume(s, mono, bound, h.unused[k]) \in V
    BY <1>2, <2>2, MembersAreIn, TryVolumeIsSized
  <2> HIDE DEF V
  <2>5. GetMonoPlans(h, count, mono, bound) \in V
    <3>1. Len(h.unused) \in Nat /\ DOMAIN h.unused = 1..Len(h.unused)
      BY <2>3
    <3>2. Len(h.unused) \in 0..Len(h.unused)
      BY <2>3
    <3>3. PICK g : RunsVolumes(g, V, h, count, mono, bound, Len(h.unused))
      BY <1>2, <2>1, <2>4, <3>1, MonoPlansRun
    <3> QED
      BY <3>2, <3>3 DEF RunsVolumes
  <2> QED
    BY <2>5 DEF V, SizedGroups
<1> QED
  BY <1>1, <1>2

\* Unlimited bindings
LEMMA UnlimitedPlanIsSized ==
    ASSUME NEW h, NEW plans, NEW unlimited \in SUBSET VolumeBinding, IsFiniteSet(unlimited),
           Sizes(unlimited)
    PROVE  Sized(GetUnlimitedPlan(h, plans, unlimited))
<1>1. CASE unlimited = {}
  BY <1>1, EmptyTakesNothing DEF GetUnlimitedPlan
<1>2. CASE unlimited # {}
  <2> DEFINE device == Largest(LeftBy(h.free, plans), h.used \o h.unused)
             plan == [vb \in unlimited |-> [device |-> device, size |-> vb.size]]
  <2>1. GetUnlimitedPlan(h, plans, unlimited) = plan
    BY <1>2 DEF GetUnlimitedPlan
  <2> HIDE DEF device
  <2>2. \A vb \in unlimited : plan[vb].size \in Nat
    BY BindingParts DEF Sizes
  <2>3. DOMAIN plan = unlimited
    OBVIOUS
  <2> HIDE DEF plan
  <2> QED
    BY <2>1, <2>2, <2>3 DEF Sized
<1> QED
  BY <1>1, <1>2

\* Plans of all kinds, joined
LEMMA JoinedPlansAreSized ==
    ASSUME NEW D, NEW N, NEW normal \in Seq(SizedOn(D, N)), NEW mono \in Seq(SizedOn(D, N)),
           NEW unlimited \in PlansOn(D), Sized(unlimited),
           NEW n \in Int, n <= Len(normal), n <= Len(mono)
    PROVE  \A i \in 1..n : Sized(JoinPlans(n, normal, mono, unlimited)[i].plan)
<1> TAKE i \in 1..n
<1> DEFINE plan == MergePlans(normal[i].plan, mono[i].plan)
           P == SizedOn(D, N)
<1>1. i \in 1..Len(normal) /\ i \in 1..Len(mono)
  <2>1. Len(normal) \in Nat /\ Len(mono) \in Nat
    OBVIOUS
  <2> QED
    BY <2>1
<1>2. normal[i] \in P /\ mono[i] \in P
  BY <1>1, MembersAreIn
<1>3. /\ normal[i].plan \in PlansOn(D) /\ Sized(normal[i].plan)
      /\ mono[i].plan \in PlansOn(D) /\ Sized(mono[i].plan)
  BY <1>2 DEF PlannedOn, SizedOn
<1>4. plan \in PlansOn(D) /\ Sized(plan)
  BY <1>3, MergedPlansStay, MergedIsSized
<1>5. JoinPlans(n, normal, mono, unlimited)[i].plan = MergePlans(plan, unlimited)
  BY DEF JoinPlans
<1> HIDE DEF plan
<1> QED
  BY <1>4, <1>5, MergedIsSized

\* What there is to plan, with sizes
ClassesSized(classes) ==
    /\ ClassesOk(classes) /\ SizesIn(classes.normal)
    /\ classes.mono = <<>> \/ Grouped(classes.mono)
    /\ Sizes(classes.unlimited)

\* The kinds of bindings that are sized
LEMMA ClassesAreSized ==
    ASSUME NEW vbs, RequestOk(vbs), Sizes(vbs)
    PROVE  ClassesSized(ClassifyVolumeBindings(vbs))
<1> DEFINE classes == ClassifyVolumeBindings(vbs)
<1>1. /\ ClassesOk(classes) /\ Classified(vbs, classes)
      /\ ToSet(classes.normal) \subseteq vbs /\ ToSet(classes.mono) \subseteq vbs
      /\ classes.unlimited \subseteq vbs
  BY ClassesAreOk
<1> HIDE DEF classes
<1>2. SizesIn(classes.normal)
  <2>1. classes.normal \in Seq(VolumeBinding)
    BY <1>1 DEF ClassesOk
  <2>2. \A k \in 1..Len(classes.normal) : classes.normal[k] \in vbs
    BY <1>1, <2>1, BindingList DEF ToSet
  <2> QED
    BY <2>2 DEF SizesIn, Sizes
<1>3. classes.mono = <<>> \/ Grouped(classes.mono)
  <2> SUFFICES ASSUME classes.mono # <<>> PROVE Grouped(classes.mono)
    OBVIOUS
  <2>1. Monopolies(classes.mono) /\ classes.mono \in Seq(VolumeBinding)
    BY <1>1 DEF ClassesOk, Monopolies
  <2>2. \A k \in 1..Len(classes.mono) : classes.mono[k] \in vbs
    BY <1>1, <2>1, BindingList DEF ToSet
  <2>3. \A k \in 1..Len(classes.mono) : Covers(classes.mono[k].io, NoIO)
    BY <2>2 DEF RequestOk, ValidBindings
  <2> QED
    BY <1>1, <2>1, <2>3 DEF Grouped, Classified, Lists
<1> QED
  BY <1>1, <1>2, <1>3 DEF ClassesSized, Sizes, classes

SizedEvaluations(D, N) ==
    {best \in EvaluationsOn(D, N) :
        best.normals \in Seq(SizedOn(D, N)) /\ best.monos \in Seq(SizedOn(D, N))}

\* What is planned on a host
LEMMA EvaluationIsSized ==
    ASSUME NEW D \in SUBSET Devices, NEW N \in SUBSET DiskNames, NEW h, NEW classes,
           ClassesSized(classes), NEW count \in Nat, NEW host \in HostsOn(D, N),
           Len(h.unused) \in Nat
    PROVE  EvaluatePlans(h, classes, count, host) \in SizedEvaluations(D, N)
<1> DEFINE P == SizedOn(D, N)
           bound == NormalBound(h, count, classes)
           normal == GetNormalPlans(host, count, classes.normal, classes.mount, bound)
           limit == IF classes.unlimited = {} THEN Larger(count, Len(normal.plans) + 1) ELSE MaxInt
           monos == GetMonoPlans(normal.host, count, classes.mono, limit).plans
           best == EvaluatePlans(h, classes, count, host)
<1>1. bound \in Nat
  BY MaxIntAssumption DEF NormalBound, Larger
<1>2. best \in EvaluationsOn(D, N)
  BY EvaluationIsOn DEF ClassesSized
<1>3. best.normals = normal.plans /\ best.monos = monos
  BY DEF EvaluatePlans
<1> HIDE DEF bound, best
<1>4. normal.host \in HostsOn(D, N) /\ normal.plans \in Seq(P)
  BY <1>1, NormalPlansAreOn, NormalPlansAreSized DEF ClassesOk, ClassesSized
<1> HIDE DEF normal, limit
<1>5. monos \in Seq(P)
  BY <1>4, MonoPlansAreSized DEF ClassesSized
<1> HIDE DEF monos
<1> QED
  BY <1>2, <1>3, <1>4, <1>5 DEF SizedEvaluations, best

\* The best of it
LEMMA ClassesPlansAreSized ==
    ASSUME NEW D \in SUBSET Devices, NEW N \in SUBSET DiskNames, NEW h \in HostsOn(D, N),
           NEW classes, ClassesSized(classes), NEW count \in Nat,
           NEW plans, plans = PlansOfClasses(h, classes, count)
    PROVE  plans \in Seq(PlannedOn(D, N)) /\ \A i \in 1..Len(plans) : Sized(plans[i].plan)
<1> DEFINE P == SizedOn(D, N)
           E == SizedEvaluations(D, N)
           V == {s \in [host : HostsOn(D, N), best : E] :
                    classes.unlimited # {} => HasVolumes(s.host)}
           first == [host |-> h, best |-> EvaluatePlans(h, classes, count, h)]
           last == Promoted(h, classes, count)
           unlimited == GetUnlimitedPlan(last.host, last.best.normals \o last.best.monos,
                                         classes.unlimited)
           n == Min({last.best.normal, last.best.mono, count})
<1>1. plans \in Seq(PlannedOn(D, N)) /\ Len(plans) \in Nat /\ DOMAIN plans = 1..Len(plans)
  BY ClassesPlansAreOn, MembersAreIn DEF ClassesSized
<1>2. CASE NoVolumes(h, classes)
  <2>1. plans = <<>>
    BY <1>2 DEF PlansOfClasses
  <2>2. 1..Len(plans) = {}
    BY <2>1
  <2> QED
    BY <1>1, <2>2
<1>3. CASE ~NoVolumes(h, classes)
  <2>1. plans = JoinPlans(n, last.best.normals, last.best.monos, unlimited)
    BY <1>3 DEF PlansOfClasses, BestPlans, Promoted
  <2>2. Len(h.unused) \in Nat
    <3>1. h.unused \in Seq(D)
      BY DEF HostsOn
    <3> QED
      BY <3>1
  <2>3. \A host \in HostsOn(D, N) : EvaluatePlans(h, classes, count, host) \in E
    BY <2>2, EvaluationIsSized
  <2>4. classes.unlimited # {} => HasVolumes(h)
    BY <1>3 DEF NoVolumes, HasVolumes
  <2>5. first \in V
    <3> HIDE DEF E
    <3> QED
      BY <2>3, <2>4
  <2>6. ASSUME NEW s \in V
        PROVE  Opening(s, h, classes, count) \in V
    <3> DEFINE p == Candidate(s.host, classes.normal)
               host == Open(s.host, p)
               best == EvaluatePlans(h, classes, count, host)
               opened == [host |-> host, best |-> best]
    <3>1. Opening(s, h, classes, count) =
            IF WorthOpening(s.best, count) /\ p \in DOMAIN s.host.unused THEN opened ELSE s
      BY DEF Opening, PromoteOne
    <3> HIDE DEF p
    <3>2. s.host \in HostsOn(D, N)
      OBVIOUS
    <3>3. p \in DOMAIN s.host.unused => opened \in V
      <4>1. SUFFICES ASSUME p \in DOMAIN s.host.unused
                     PROVE  opened \in V
        OBVIOUS
      <4>2. host \in HostsOn(D, N) /\ HasVolumes(host)
        BY <3>2, <4>1, OpenedStays
      <4> HIDE DEF host
      <4>3. best \in E
        BY <2>3, <4>2
      <4> HIDE DEF best, E
      <4> QED
        BY <4>2, <4>3
    <3> HIDE DEF opened, V
    <3> QED
      BY <3>1, <3>3
  <2> HIDE DEF V
  <2>7. last \in V
    <3>1. Len(h.unused) \in 0..Len(h.unused)
      BY <2>2
    <3> QED
      BY <2>2, <2>5, <2>6, <3>1, PromotionsRun DEF RunsPromotions
  <2> HIDE DEF last
  <2>8. /\ last.host \in HostsOn(D, N) /\ last.best \in E
        /\ classes.unlimited # {} => HasVolumes(last.host)
    <3> HIDE DEF E
    <3> QED
      BY <2>7 DEF V
  <2>9. /\ last.best.normals \in Seq(P) /\ last.best.monos \in Seq(P)
        /\ last.best.normal = Len(last.best.normals) /\ last.best.mono = Len(last.best.monos)
        /\ last.best.normal \in Nat /\ last.best.mono \in Nat
        /\ last.best.normals \in Seq(PlannedOn(D, N)) /\ last.best.monos \in Seq(PlannedOn(D, N))
    <3> HIDE DEF P
    <3> QED
      BY <2>8 DEF SizedEvaluations, EvaluationsOn, P
  <2> DEFINE both == last.best.normals \o last.best.monos
  <2>10. both \in Seq(PlannedOn(D, N))
    BY <2>9, ConcatProperties
  <2>11. unlimited \in PlansOn(D) /\ Sized(unlimited)
    <3>1. /\ classes.unlimited \in SUBSET VolumeBinding /\ IsFiniteSet(classes.unlimited)
          /\ Sizes(classes.unlimited)
      BY DEF ClassesOk, ClassesSized
    <3> HIDE DEF both
    <3>2. GetUnlimitedPlan(last.host, both, classes.unlimited) \in PlansOn(D)
      BY <2>8, <2>10, <3>1, UnlimitedPlanIsOn
    <3>3. Sized(GetUnlimitedPlan(last.host, both, classes.unlimited))
      BY <3>1, UnlimitedPlanIsSized
    <3> QED
      BY <3>2, <3>3 DEF both
  <2> HIDE DEF unlimited
  <2>12. n \in Int /\ n <= Len(last.best.normals) /\ n <= Len(last.best.monos)
    <3>1. count \in Int /\ last.best.normal \in Int /\ last.best.mono \in Int
      BY <2>9
    <3>2. n \in Int /\ n <= last.best.normal /\ n <= last.best.mono
      BY <3>1, LeastOfThree
    <3> QED
      BY <2>9, <3>2
  <2> HIDE DEF n
  <2>13. \A i \in 1..n :
            Sized(JoinPlans(n, last.best.normals, last.best.monos, unlimited)[i].plan)
    BY <2>9, <2>11, <2>12, JoinedPlansAreSized
  <2>14. DOMAIN JoinPlans(n, last.best.normals, last.best.monos, unlimited) = 1..n
    BY DEF JoinPlans
  <2>15. \A i \in 1..n : Sized(plans[i].plan)
    BY <2>1, <2>13
  <2> QED
    BY <1>1, <2>1, <2>14, <2>15
<1> QED
  BY <1>2, <1>3

\* Volume plans
LEMMA VolumePlansAreSized ==
    ASSUME NEW D \in SUBSET Devices, NEW N \in SUBSET DiskNames, NEW h \in HostsOn(D, N),
           NEW vbs, RequestOk(vbs), Sizes(vbs), NEW count \in Nat,
           NEW plans, plans = VolumePlansOn(h, vbs, count)
    PROVE  plans \in Seq(PlannedOn(D, N)) /\ \A i \in 1..Len(plans) : Sized(plans[i].plan)
<1>1. CASE NeedSchedule(vbs)
  <2>1. ClassesSized(ClassifyVolumeBindings(vbs))
    BY ClassesAreSized
  <2>2. plans = PlansOfClasses(h, ClassifyVolumeBindings(vbs), count)
    BY <1>1 DEF VolumePlansOn
  <2> QED
    BY <2>1, <2>2, ClassesPlansAreSized
<1>2. CASE ~NeedSchedule(vbs)
  <2>1. plans = Repeat(count, NoPlan)
    BY <1>2 DEF VolumePlansOn
  <2>2. plans \in Seq(PlannedOn(D, N))
    BY VolumePlansAreOn
  <2>3. DOMAIN plans = 1..Len(plans)
    BY <2>2, MembersAreIn
  <2>4. \A i \in DOMAIN plans : plans[i] = NoPlan
    BY <2>1 DEF Repeat
  <2>5. Sized(NoPlan.plan)
    BY EmptyTakesNothing DEF NoPlan
  <2> QED
    BY <2>2, <2>3, <2>4, <2>5
<1> QED
  BY <1>1, <1>2

\* A binding that is kept has the size it asks for
LEMMA KeptOnIsSized ==
    ASSUME NEW D, NEW N \in SUBSET DiskNames, NEW a \in SizedAttempts(D, N),
           NEW req \in VolumeBinding, req.size >= 0, NEW device \in D
    PROVE  KeepOn(a, req, device) \in SizedAttempts(D, N)
<1> DEFINE placed == Placing(EmptyPlan, req, device, req.size)
           refused == \/ ~a.ok \/ req.size > a.host.free[device]
                      \/ (RequireIOPS(req) /\ ~Qualified(a.host, device, req))
           next == KeepOn(a, req, device)
<1>1. a \in AttemptsOn(D, N) /\ Sized(a.plan) /\ a.plan \in PlansOn(D)
  BY DEF SizedAttempts, AttemptsOn
<1>2. next \in AttemptsOn(D, N)
  BY <1>1, KeptOnStays
<1>3. CASE refused
  <2>1. next.plan = a.plan
    BY <1>1, <1>3 DEF KeepOn, AttemptsOn
  <2> QED
    BY <1>1, <1>2, <2>1 DEF SizedAttempts
<1>4. CASE ~refused
  <2>1. next.plan = MergePlans(a.plan, placed)
    BY <1>1, <1>4 DEF KeepOn, AttemptsOn
  <2>2. req.size \in Nat /\ req.size \in Int
    BY BindingParts
  <2>3. placed \in PlansOn(D) /\ Sized(placed)
    BY <2>2, EmptyPlansStay, PlacedStays, EmptyTakesNothing, PlacingTakes
  <2> HIDE DEF placed, next
  <2>4. Sized(next.plan)
    BY <1>1, <2>1, <2>3, MergedIsSized
  <2> QED
    BY <1>2, <2>4 DEF SizedAttempts, next
<1> QED
  BY <1>3, <1>4

\* Bindings that keep their places
LEMMA KeptPlacesAreSized ==
    ASSUME NEW D, NEW N \in SUBSET DiskNames, NEW a \in SizedAttempts(D, N),
           NEW reqs \in Seq(VolumeBinding), SizesIn(reqs), NEW plan \in PlansOn(D)
    PROVE  KeepPlaces(a, reqs, plan) \in SizedAttempts(D, N)
<1> DEFINE V == SizedAttempts(D, N)
<1>1. ASSUME NEW b \in V, NEW k \in 1..Len(reqs)
      PROVE  KeepPlace(b, reqs[k], plan) \in V
  <2> DEFINE req == reqs[k]
             alike == Affinity(req, plan)
             vb == CHOOSE vb \in alike : TRUE
  <2>1. req \in VolumeBinding /\ req.size >= 0
    BY BindingList DEF SizesIn
  <2>2. CASE alike = {}
    BY <2>2 DEF KeepPlace
  <2>3. CASE alike # {}
    <3>1. vb \in alike /\ alike \in SUBSET DOMAIN plan
      BY <2>3 DEF Affinity
    <3>2. KeepPlace(b, req, plan) = KeepOn(b, req, plan[vb].device)
      BY <2>3 DEF KeepPlace
    <3> HIDE DEF vb, alike
    <3>3. plan[vb].device \in D
      BY <3>1, PlanParts
    <3> QED
      BY <2>1, <3>2, <3>3, KeptOnIsSized
  <2> QED
    BY <2>2, <2>3
<1>2. Len(reqs) \in Nat /\ DOMAIN reqs = 1..Len(reqs)
  BY BindingList
<1> HIDE DEF V
<1>3. a \in V
  BY DEF V
<1>4. KeepPlaces(a, reqs, plan) \in V
  BY <1>1, <1>2, <1>3, KeptPlacesStay
<1> QED
  BY <1>4 DEF V

\* A group that keeps its volume
LEMMA KeptGroupIsSized ==
    ASSUME NEW D, NEW N \in SUBSET DiskNames, NEW a \in SizedAttempts(D, N), NEW mono,
           Grouped(mono) \/ mono = <<>>, NEW plan \in PlansOn(D)
    PROVE  KeepGroup(a, mono, plan) \in SizedAttempts(D, N)
<1> DEFINE stay == UNION {Affinity(mono[i], plan) : i \in DOMAIN mono}
           room == SumFunction([vb \in {vb1 \in DOMAIN plan : RequireScheduleMonopoly(vb1)} |->
                                  plan[vb].size])
           device == plan[CHOOSE vb \in stay : TRUE].device
           m == GetMonoPlan(a.host, mono, device)
           short == room < TotalSize(ToSet(mono))
           next == KeepGroup(a, mono, plan)
           merged == MergePlans(a.plan, m.plan)
<1>1. /\ a \in AttemptsOn(D, N) /\ Sized(a.plan) /\ a.plan \in PlansOn(D)
      /\ a.host \in HostsOn(D, N)
  BY DEF SizedAttempts, AttemptsOn
<1>2. next \in AttemptsOn(D, N)
  BY <1>1, KeptGroupIsOn DEF Grouped
<1>3. CASE ~a.ok \/ stay = {}
  BY <1>3 DEF KeepGroup
<1>4. CASE a.ok /\ stay # {}
  <2>1. next.plan = IF short \/ ~m.ok THEN a.plan ELSE merged
    BY <1>1, <1>4 DEF KeepGroup, AttemptsOn
  <2>2. mono # <<>>
    BY <1>4
  <2>3. device \in D
    <3>1. stay \in SUBSET DOMAIN plan
      BY DEF Affinity
    <3> HIDE DEF stay
    <3>2. (CHOOSE vb \in stay : TRUE) \in stay
      BY <1>4
    <3> QED
      BY <3>1, <3>2, PlanParts
  <2> HIDE DEF device, short, next
  <2>4. m.ok => m.plan \in PlansOn(D) /\ Sized(m.plan)
    BY <1>1, <2>2, <2>3, GroupIsPlanned, GroupIsSized DEF Grouped
  <2> HIDE DEF m
  <2>5. m.ok => Sized(merged)
    BY <1>1, <2>4, MergedIsSized
  <2> HIDE DEF merged
  <2>6. Sized(next.plan)
    BY <1>1, <2>1, <2>5
  <2> QED
    BY <1>2, <2>6 DEF SizedAttempts, next
<1> QED
  BY <1>3, <1>4

\* All that is kept
LEMMA KeptAllIsSized ==
    ASSUME NEW D \in SUBSET Devices, NEW N \in SUBSET DiskNames, NEW a \in SizedAttempts(D, N),
           NEW classes, ClassesSized(classes), NEW plan \in PlansOn(D)
    PROVE  KeepAll(a, classes, plan) \in SizedAttempts(D, N)
<1> DEFINE b == GetMountDiskPlan(a, classes.mount)
           c == KeepPlaces(b, classes.normal, plan)
           d == KeepGroup(c, classes.mono, plan)
           rest == Ranked(classes.unlimited, CompareBinding)
<1>1. b \in SizedAttempts(D, N)
  BY MountPassIsSized DEF ClassesSized, ClassesOk
<1> HIDE DEF b
<1>2. c \in SizedAttempts(D, N)
  BY <1>1, KeptPlacesAreSized DEF ClassesSized, ClassesOk
<1> HIDE DEF c
<1>3. d \in SizedAttempts(D, N)
  BY <1>2, KeptGroupIsSized DEF ClassesSized
<1> HIDE DEF d
<1>4. rest \in Seq(VolumeBinding) /\ SizesIn(rest)
  <2>1. Lists(rest, classes.unlimited)
    BY BindingsAreRanked DEF ClassesSized, ClassesOk
  <2>2. rest \in Seq(classes.unlimited) /\ classes.unlimited \in SUBSET VolumeBinding
    BY <2>1 DEF Lists, ClassesSized, ClassesOk
  <2> HIDE DEF rest
  <2>3. Len(rest) \in Nat /\ rest \in [1..Len(rest) -> VolumeBinding]
    BY <2>2
  <2>4. \A k \in 1..Len(rest) : rest[k] \in classes.unlimited
    BY <2>2
  <2> QED
    BY <2>3, <2>4 DEF ClassesSized, Sizes, SizesIn
<1> HIDE DEF rest
<1>5. KeepPlaces(d, rest, plan) \in SizedAttempts(D, N)
  BY <1>3, <1>4, KeptPlacesAreSized
<1> QED
  BY <1>5 DEF KeepAll, b, c, d, rest

\* The rest, planned anew
LEMMA RestIsSized ==
    ASSUME NEW D \in SUBSET Devices, NEW N \in SUBSET DiskNames, NEW a \in SizedAttempts(D, N),
           NEW rest, RequestOk(rest), Sizes(rest)
    PROVE  Sized(PlanRest(a, rest).plan)
<1> DEFINE plans == VolumePlansOn(a.host, rest, 1)
           plan == MergePlans(a.plan, plans[1].plan)
<1>1. a.host \in HostsOn(D, N) /\ a.plan \in PlansOn(D) /\ Sized(a.plan)
  BY DEF SizedAttempts, AttemptsOn
<1>2. Sized(Refused.plan)
  BY EmptyTakesNothing DEF Refused
<1>3. PlanRest(a, rest).plan = IF ~a.ok THEN Refused.plan
                               ELSE IF rest = {} THEN a.plan
                               ELSE IF plans = <<>> THEN Refused.plan ELSE plan
  BY DEF PlanRest
<1>4. plans \in Seq(PlannedOn(D, N)) /\ \A i \in 1..Len(plans) : Sized(plans[i].plan)
  BY <1>1, VolumePlansAreSized
<1> HIDE DEF plans
<1>5. plans # <<>> => Sized(plan)
  <2> SUFFICES ASSUME plans # <<>> PROVE Sized(plan)
    OBVIOUS
  <2>1. Len(plans) \in Nat \ {0}
    BY <1>4, EmptySeq
  <2>2. 1 \in 1..Len(plans) /\ DOMAIN plans = 1..Len(plans)
    BY <1>4, <2>1, MembersAreIn
  <2>3. plans[1] \in PlannedOn(D, N)
    BY <1>4, <2>2, MembersAreIn
  <2>4. plans[1].plan \in PlansOn(D) /\ Sized(plans[1].plan)
    BY <1>4, <2>2, <2>3 DEF PlannedOn
  <2> QED
    BY <1>1, <2>4, MergedIsSized
<1> HIDE DEF plan
<1> QED
  BY <1>1, <1>2, <1>3, <1>5

\* A workload that is planned again is given no less than nothing
LEMMA ReplansAreSized ==
    ASSUME NEW D \in SUBSET Devices, NEW N \in SUBSET DiskNames, NEW M \in SUBSET DiskNames,
           NEW inf, inf.capacity \in CapacitiesOn(D, N), inf.usage \in UsagesOn(M),
           NEW vbs, RequestOk(vbs), Sizes(vbs), NEW E, NEW plan \in PlansOn(E),
           NEW old \in Bindings
    PROVE  Sized(GetAffinityPlan(inf, vbs, plan, old).plan)
<1> DEFINE h == NewHost(inf)
           classes == ClassifyVolumeBindings(vbs)
           back == GiveBack(h, plan, old)
           kept == KeepAll(Attempt(back), classes, plan)
           rest == NonAffinity(classes, plan)
<1>1. Sized(Refused.plan)
  BY EmptyTakesNothing DEF Refused
<1>2. h \in HostsOn(D, N)
  BY NewHostIsOn
<1>3. /\ ClassesSized(classes) /\ ToSet(classes.normal) \subseteq vbs
      /\ ToSet(classes.mono) \subseteq vbs /\ classes.unlimited \subseteq vbs
  BY ClassesAreOk, ClassesAreSized
<1> HIDE DEF classes, h
<1>4. CASE ~NeedSchedule(vbs)
  <2>1. GetAffinityPlan(inf, vbs, plan, old).plan = Refused.plan
    BY <1>4 DEF GetAffinityPlan, Refused
  <2> QED
    BY <1>1, <2>1
<1>5. CASE NeedSchedule(vbs) /\ ~CanGiveBack(h, plan, old)
  <2>1. GetAffinityPlan(inf, vbs, plan, old).plan = Refused.plan
    BY <1>5 DEF GetAffinityPlan, AffinityPlanOn, h, classes
  <2> QED
    BY <1>1, <2>1
<1>6. CASE NeedSchedule(vbs) /\ CanGiveBack(h, plan, old)
  <2>1. plan \in PlansOn(D)
    BY <1>2, <1>6, GivenBackIsOn
  <2>2. back \in HostsOn(D, N)
    BY <1>2, GivenBackStays
  <2> HIDE DEF back
  <2>3. Attempt(back) \in SizedAttempts(D, N)
    BY <2>2, AttemptIsSized
  <2>4. kept \in SizedAttempts(D, N)
    BY <1>3, <2>1, <2>3, KeptAllIsSized
  <2> HIDE DEF kept
  <2>5. rest \in SUBSET vbs
    BY <1>3 DEF NonAffinity
  <2> HIDE DEF rest
  <2>6. RequestOk(rest) /\ Sizes(rest)
    BY <2>5, LessIsRequest DEF Sizes
  <2>7. Sized(PlanRest(kept, rest).plan)
    BY <2>4, <2>6, RestIsSized
  <2>8. GetAffinityPlan(inf, vbs, plan, old) = PlanRest(kept, rest)
    BY <1>6 DEF GetAffinityPlan, AffinityPlanOn, kept, rest, back, h, classes
  <2> QED
    BY <2>7, <2>8
<1> QED
  BY <1>4, <1>5, <1>6

\* A workload of a node with these volumes
WorkSized(work, D) ==
    /\ Sizes(work.vbs) /\ \A vb \in work.vbs : Covers(vb.io, NoIO)
    /\ work.plan \in PlansOn(D) /\ Sized(work.plan)

\* A node's record, its volumes and its disks
LEMMA RecordParts ==
    ASSUME NEW inf, Sound(inf)
    PROVE  \E N \in SUBSET DiskNames, M \in SUBSET DiskNames :
              /\ DOMAIN inf.capacity.volumes \in SUBSET Devices
              /\ inf.capacity \in CapacitiesOn(DOMAIN inf.capacity.volumes, N)
              /\ inf.usage \in UsagesOn(M)
<1>1. PICK D \in SUBSET Devices, N \in SUBSET DiskNames : inf.capacity \in CapacitiesOn(D, N)
  BY DEF Sound, IsInfo, IsCapacity
<1>2. PICK M \in SUBSET DiskNames : inf.usage \in UsagesOn(M)
  BY DEF Sound, IsInfo, IsUsage
<1>3. DOMAIN inf.capacity.volumes = D
  BY <1>1 DEF CapacitiesOn
<1> QED
  BY <1>1, <1>2, <1>3

\* calculate-deploy answers such workloads
LEMMA DeployedAreSized ==
    ASSUME NEW inf, Sound(inf), NEW D, D = DOMAIN inf.capacity.volumes,
           NEW req, Wishes(req), Sizes(req.vbs), NEW count \in Nat,
           NEW deployed, deployed = Deployed(inf, count, req), deployed.ok
    PROVE  \A i \in DOMAIN deployed.works : WorkSized(deployed.works[i], D)
<1> DEFINE plans == IF NeedSchedule(req.vbs) THEN GetVolumePlans(inf, req.vbs, count)
                    ELSE Repeat(count, NoPlan)
           storage == Folded(req).storage
           Work(p) == [vbs |-> req.vbs, plan |-> p.plan, disks |-> p.disks, storage |-> storage]
           works == [i \in DOMAIN plans |-> Work(plans[i])]
           enough == Len(plans) >= count
<1>1. ValidRequest(req) /\ deployed = [ok |-> enough, works |-> works]
  BY DEF Deployed
<1>2. PICK N \in SUBSET DiskNames, M \in SUBSET DiskNames :
         D \in SUBSET Devices /\ inf.capacity \in CapacitiesOn(D, N) /\ inf.usage \in UsagesOn(M)
  BY RecordParts
<1>3. RequestOk(req.vbs)
  BY <1>1 DEF RequestOk, ValidRequest, Wishes
<1>4. plans = VolumePlansOn(NewHost(inf), req.vbs, count)
  BY DEF GetVolumePlans, VolumePlansOn
<1>5. NewHost(inf) \in HostsOn(D, N)
  BY <1>2, NewHostIsOn
<1> HIDE DEF plans
<1>6. plans \in Seq(PlannedOn(D, N)) /\ \A i \in 1..Len(plans) : Sized(plans[i].plan)
  BY <1>2, <1>3, <1>4, <1>5, VolumePlansAreSized
<1>7. DOMAIN plans = 1..Len(plans) /\ \A i \in DOMAIN plans : plans[i] \in PlannedOn(D, N)
  BY <1>6
<1>8. \A i \in DOMAIN plans : WorkSized(Work(plans[i]), D)
  <2> TAKE i \in DOMAIN plans
  <2>1. plans[i].plan \in PlansOn(D) /\ Sized(plans[i].plan)
    BY <1>6, <1>7 DEF PlannedOn
  <2>2. \A vb \in req.vbs : Covers(vb.io, NoIO)
    BY <1>1 DEF ValidRequest, ValidBindings
  <2> HIDE DEF storage
  <2> QED
    BY <2>1, <2>2 DEF WorkSized
<1>9. \A i \in DOMAIN works : WorkSized(works[i], D)
  <2> HIDE DEF Work
  <2> QED
    BY <1>8
<1>10. deployed.works = works
  <2> HIDE DEF works, enough
  <2> QED
    BY <1>1
<1> QED
  BY <1>9, <1>10

\* Other volumes are not used
Confined(usage, D) == \A device \in Devices \ D : usage.volumes[device] = 0

\* Neither does a workload use them
LEMMA HeldIsConfined ==
    ASSUME NEW D \in SUBSET Devices, NEW work, work.plan \in PlansOn(D)
    PROVE  Confined(Held(work), D)
<1> SUFFICES ASSUME NEW device \in Devices \ D
             PROVE  Held(work).volumes[device] = 0
  BY DEF Confined
<1>1. Placed(work.plan, device) = {}
  <2>1. \A vb \in DOMAIN work.plan : work.plan[vb].device \in D
    BY PlanParts
  <2> QED
    BY <2>1 DEF Placed
<1>2. PlannedVolumes(work.plan)[device] = Space(work.plan, device)
  BY SpaceIsPlanned
<1>3. Space(work.plan, device) = 0
  BY <1>1, SumOfNone DEF Space
<1> QED
  BY <1>2, <1>3 DEF Held

\* What is divided enough times goes in so often
LEMMA TruncatedFits ==
    ASSUME NEW a \in Int, NEW b \in Nat, b > 0, NEW n \in Nat, n > 0, Truncated(a, b) >= n
    PROVE  a >= n * b
<1>1. a >= 0
  <2>1. SUFFICES ASSUME a < 0
                 PROVE  FALSE
    OBVIOUS
  <2>2. Truncated(a, b) = -((-a) \div b)
    BY <2>1 DEF Truncated
  <2>3. (-a) \div b \in Nat
    BY <2>1
  <2> QED
    BY <2>2, <2>3
<1>2. Truncated(a, b) = a \div b
  BY <1>1 DEF Truncated
<1> DEFINE q == a \div b
<1>3. q \in Int /\ b * q <= a /\ q >= n
  BY <1>1, <1>2
<1> HIDE DEF q
<1>4. n * b <= b * q
  <2>1. q - n \in Nat
    BY <1>3
  <2>2. b * (q - n) \in Nat
    BY <2>1
  <2>3. b * (q - n) = b * q - n * b
    BY <1>3
  <2>4. b * q \in Int /\ n * b \in Int
    BY <1>3
  <2> QED
    BY <2>2, <2>3, <2>4
<1>5. b * q \in Int /\ n * b \in Int
  BY <1>3
<1> QED
  BY <1>3, <1>4, <1>5
=============================================================================
