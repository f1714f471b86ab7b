----------------------------- MODULE NodeLedger -----------------------------
(***************************************************************************)
(* What a resource plugin and core promise together, without calls, locks, *)
(* snapshots or failures half-way: a ledger of each node's amounts, kind   *)
(* by kind, in which every operation of core is one step or none.          *)
(*                                                                         *)
(* A node is in doubt after an operation of which nobody knows whether its *)
(* amounts were written.  Only counting again what the workloads hold ends *)
(* the doubt.                                                              *)
(***************************************************************************)
EXTENDS Integers

CONSTANTS
    Nodes,
    Kinds           \* what amounts are of

VARIABLES
    capacity,       \* node -> kind -> what it offers
    usage,          \* node -> kind -> what the plugin counts as taken
    held,           \* node -> kind -> what its workloads were given
    doubt           \* the nodes whose usage may be wrong

ledger == <<capacity, usage, held, doubt>>

Nothing == [kind \in Kinds |-> 0]

LedgerTypeOK ==
    /\ capacity \in [Nodes -> [Kinds -> Int]]
    /\ usage \in [Nodes -> [Kinds -> Int]]
    /\ held \in [Nodes -> [Kinds -> Int]]
    /\ doubt \subseteq Nodes

Init ==
    /\ capacity = [n \in Nodes |-> Nothing]
    /\ usage = capacity
    /\ held = capacity
    /\ doubt = {}

\* Other nodes keep their amounts
Only(n, amounts, amounts1) ==
    /\ amounts1 = [amounts EXCEPT ![n] = amounts1[n]]
    /\ amounts1[n] \in [Kinds -> Int]

\* What grows fits
Fits(n) ==
    \A kind \in Kinds :
        usage'[n][kind] > usage[n][kind] => usage'[n][kind] <= capacity[n][kind]

\* A node is added, or its capacity set: the books stay as they are
Declare(n) ==
    /\ Only(n, capacity, capacity')
    /\ UNCHANGED <<usage, held, doubt>>

\* A deploy, a realloc, the end of a workload: on the node and in the books
\* by the same amounts
Book(n) ==
    /\ Only(n, held, held') /\ Only(n, usage, usage')
    /\ \A kind \in Kinds :
          usage'[n][kind] - usage[n][kind] = held'[n][kind] - held[n][kind]
    /\ Fits(n)
    /\ UNCHANGED <<capacity, doubt>>

\* An operation that did not happen may have been written
Doubt(n) ==
    /\ Only(n, usage, usage')
    /\ Fits(n)
    /\ doubt' = doubt \cup {n}
    /\ UNCHANGED <<capacity, held>>

\* Counted again, whatever the capacity is by now
Recount(n) ==
    /\ n \in doubt
    /\ usage' = [usage EXCEPT ![n] = held[n]]
    /\ doubt' \in {doubt, doubt \ {n}}
    /\ UNCHANGED <<capacity, held>>

\* A node without workloads is removed
Remove(n) ==
    /\ held[n] = Nothing
    /\ capacity' = [capacity EXCEPT ![n] = Nothing]
    /\ usage' = [usage EXCEPT ![n] = Nothing]
    /\ doubt' \in {doubt, doubt \ {n}}
    /\ UNCHANGED held

Next ==
    \E n \in Nodes : Declare(n) \/ Book(n) \/ Doubt(n) \/ Recount(n) \/ Remove(n)

Spec == Init /\ [][Next]_ledger

-----------------------------------------------------------------------------
(***************************************************************************)
(* Where there is no doubt the usage is what the workloads hold, of every  *)
(* kind.  Of a specification that implements this one it says that no      *)
(* booking is lost, counted twice, or left behind by a roll-back.          *)
(***************************************************************************)
Balanced == \A n \in Nodes \ doubt : usage[n] = held[n]
=============================================================================
