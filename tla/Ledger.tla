------------------------------- MODULE Ledger -------------------------------
(***************************************************************************)
(* What the cluster promises its clients about a payment: each node's copy *)
(* of it goes from absent to pending to committed and never back, and it   *)
(* is committed nowhere before a majority of the nodes stores it.          *)
(***************************************************************************)
EXTENDS Naturals, FiniteSets

CONSTANTS Node, Txn

VARIABLE ledger     \* the status of each payment on each node

Majority(S) == Cardinality(S) >= Cardinality(Node) \div 2 + 1
Storing(t) == {n \in Node : ledger[n][t] # "absent"}

Init == ledger = [n \in Node |-> [t \in Txn |-> "absent"]]

(* A node stores a payment.                                                *)
Store(n, t) ==
  /\ ledger[n][t] = "absent"
  /\ ledger' = [ledger EXCEPT ![n][t] = "pending"]

(* A node learns that some payments are committed, stored before or not.   *)
Commit(n, T) ==
  /\ \A t \in T : Majority(Storing(t))
  /\ ledger' = [ledger EXCEPT ![n] = [t \in Txn |-> IF t \in T THEN "committed" ELSE @[t]]]

Next == \E n \in Node : (\E t \in Txn : Store(n, t)) \/ (\E T \in SUBSET Txn : Commit(n, T))

Spec == Init /\ [][Next]_ledger
=============================================================================
