---------------------------- MODULE ProdCountMap ----------------------------
(***************************************************************************)
(* gpu/types/gpu.go: the count of cards per product.                       *)
(*                                                                         *)
(* A ProdCountMap gives each product a count, or has no entry for it.  The *)
(* difference matters: an entry of zero makes Validate fail and a missing  *)
(* one does not, and the comparison of usage with the workloads asks       *)
(* whether a product has an entry.  The code mutates the receiver in       *)
(* place; here every operation returns the map the receiver holds          *)
(* afterwards.                                                             *)
(***************************************************************************)
EXTENDS Integers, FiniteSetsExt

CONSTANTS
    Products,       \* the product names anybody uses
    Blank,          \* those of them that are empty once trimmed
    NoEntry         \* what a map holds for a product that is not in it

ASSUME ProductsAssumption == IsFiniteSet(Products)
ASSUME BlankAssumption == Blank \subseteq Products
ASSUME NoEntryAssumption == NoEntry \notin Int

CountMaps == [Products -> Int \cup {NoEntry}]

Keys(pcm) == {prod \in Products : pcm[prod] # NoEntry}

NoCards == [prod \in Products |-> NoEntry]

\* pcm[prod] in Go: zero for a product the map does not hold
CountOf(pcm, prod) == IF prod \in Keys(pcm) THEN pcm[prod] ELSE 0

(***************************************************************************)
(* Add and Sub visit the products of the argument only, and delete the     *)
(* entries that become zero there.  A zero the receiver held for another   *)
(* product stays.                                                          *)
(***************************************************************************)
Entry(count) == IF count = 0 THEN NoEntry ELSE count

Add(pcm, pcm1) ==
    [prod \in Products |->
        IF prod \in Keys(pcm1) THEN Entry(CountOf(pcm, prod) + pcm1[prod])
                               ELSE pcm[prod]]

Sub(pcm, pcm1) ==
    [prod \in Products |->
        IF prod \in Keys(pcm1) THEN Entry(CountOf(pcm, prod) - pcm1[prod])
                               ELSE pcm[prod]]

ValidateProd(pcm) == Keys(pcm) \cap Blank = {}

Validate(pcm) == ValidateProd(pcm) /\ \A prod \in Keys(pcm) : pcm[prod] > 0

ValidMaps == {pcm \in CountMaps : Validate(pcm)}

Count(pcm) == MapThenSumSet(LAMBDA prod : CountOf(pcm, prod), Products)

\* WorkloadResourceRequest.MergeFromResource: a realloc request on top of
\* what the workload holds, without the products given back
Merge(pcm, origin) ==
    LET sum == Add(pcm, origin)
    IN  [prod \in Products |-> IF CountOf(sum, prod) > 0 THEN sum[prod] ELSE NoEntry]
=============================================================================
