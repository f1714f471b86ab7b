-------------------------- MODULE NodeLedger_proofs --------------------------
(***************************************************************************)
(* What holds of everything that implements the ledger, for any nodes and  *)
(* any kinds of amounts.                                                   *)
(***************************************************************************)
EXTENDS NodeLedger, TLAPS

IInv == LedgerTypeOK /\ Balanced

\* Before the first operation there is nothing anywhere.
LEMMA InitBalances == Init => IInv
BY DEF Init, IInv, LedgerTypeOK, Balanced, Nothing

\* A booking adds to both sides what it adds to one.
LEMMA BookBalances ==
    ASSUME IInv, NEW n \in Nodes, Book(n)
    PROVE  IInv'
<1> USE DEF IInv, LedgerTypeOK
<1>1. LedgerTypeOK'
  BY DEF Book, Only
<1>2. ASSUME NEW m \in Nodes \ doubt'
      PROVE  usage'[m] = held'[m]
  <2>1. usage[m] = held[m]
    BY DEF Balanced, Book
  <2>2. CASE m # n
    BY <2>1, <2>2 DEF Book, Only
  <2>3. CASE m = n
    <3>1. /\ usage'[m] \in [Kinds -> Int] /\ held'[m] \in [Kinds -> Int]
          /\ usage[m] \in [Kinds -> Int] /\ held[m] \in [Kinds -> Int]
      BY <1>1
    <3>2. ASSUME NEW kind \in Kinds
          PROVE  usage'[m][kind] = held'[m][kind]
      <4>1. usage'[m][kind] - usage[m][kind] = held'[m][kind] - held[m][kind]
        BY <2>3 DEF Book
      <4>2. /\ usage'[m][kind] \in Int /\ held'[m][kind] \in Int
            /\ usage[m][kind] \in Int
        BY <3>1
      <4>3. usage[m][kind] = held[m][kind]
        BY <2>1
      <4> HIDE DEF IInv, LedgerTypeOK
      <4> QED BY <4>1, <4>2, <4>3
    <3> QED BY <3>1, <3>2
  <2> QED BY <2>2, <2>3
<1> QED BY <1>1, <1>2 DEF Balanced

\* Every other step leaves the two sides of a node alone, makes them equal, or
\* leaves the node in doubt.
LEMMA StepBalances == IInv /\ [Next]_ledger => IInv'
<1> SUFFICES ASSUME IInv, [Next]_ledger PROVE IInv'
  OBVIOUS
<1> USE DEF IInv, LedgerTypeOK, Balanced
<1>1. CASE UNCHANGED ledger
  BY <1>1 DEF ledger
<1>2. ASSUME NEW n \in Nodes, Declare(n) PROVE IInv'
  BY <1>2 DEF Declare, Only
<1>3. ASSUME NEW n \in Nodes, Book(n) PROVE IInv'
  BY <1>3, BookBalances
<1>4. ASSUME NEW n \in Nodes, Doubt(n) PROVE IInv'
  BY <1>4 DEF Doubt, Only
<1>5. ASSUME NEW n \in Nodes, Recount(n) PROVE IInv'
  BY <1>5 DEF Recount
<1>6. ASSUME NEW n \in Nodes, Remove(n) PROVE IInv'
  BY <1>6 DEF Remove, Nothing
<1> QED BY <1>1, <1>2, <1>3, <1>4, <1>5, <1>6 DEF Next

\* In every implementation of the ledger, as GpuCluster and StorageCluster are,
\* the usage of a node without doubt is what its workloads hold, of every kind:
\* no booking is lost, counted twice or left behind by a roll-back.
THEOREM BooksBalance == Spec => []Balanced
<1>1. Spec => []IInv
  BY InitBalances, StepBalances, PTL DEF Spec
<1>2. IInv => Balanced
  BY DEF IInv
<1> QED BY <1>1, <1>2, PTL
=============================================================================
