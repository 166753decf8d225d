---------------------------- MODULE ConfigProofs ----------------------------
(***************************************************************************)
(* Facts about the configured nodes that the proofs about the cluster and  *)
(* the control plane use: the set of nodes, its first and last elements.   *)
(***************************************************************************)
EXTENDS ClusterConfig, Integers, TLAPS, FiniteSetTheorems, WellFoundedInduction

(* A non-empty set of numbers has a least element.                         *)
LEMMA MinExists ==
  ASSUME NEW S, S \subseteq Nat, S # {}
  PROVE  \E n \in S : \A m \in S : n <= m
<1> DEFINE Less == {ss \in Nat \X Nat : ss[1] < ss[2]}
<1>1. IsWellFoundedOn(Less, Nat)
  BY NatLessThanWellFounded DEF OpToRel
<1>2. \E n \in S : \A m \in S : ~(<<m, n>> \in Less)
  BY <1>1, WFMin
<1>3. ASSUME NEW n \in Nat, NEW m \in Nat, ~(<<m, n>> \in Less)
      PROVE  n <= m
  <2>1. ~(m < n) BY <1>3
  <2> QED BY <2>1
<1> HIDE DEF Less
<1> QED BY <1>2, <1>3

(* A non-empty bounded set of numbers has a greatest element.              *)
LEMMA MaxExists ==
  ASSUME NEW b \in Nat, NEW S, S \subseteq 0..b, S # {}
  PROVE  \E n \in S : \A m \in S : m <= n
<1> DEFINE T == {b - n : n \in S}
<1>1. T \subseteq Nat
  <2>1. \A n \in S : b - n \in Nat OBVIOUS
  <2> QED BY <2>1
<1>2. T # {}
  <2>1. PICK n \in S : TRUE OBVIOUS
  <2>2. b - n \in T BY <2>1
  <2> QED BY <2>2
<1>3. PICK k \in T : \A j \in T : k <= j
  <2> HIDE DEF T
  <2> QED BY <1>1, <1>2, MinExists
<1>4. PICK n \in S : k = b - n BY <1>3
<1>5. ASSUME NEW m \in S PROVE m <= n
  <2>1. b - n <= b - m BY <1>3, <1>4
  <2> QED BY <2>1
<1> QED BY <1>5

(* The node set is finite and has N elements.                              *)
LEMMA NodeFinite ==
  /\ Node \subseteq Nat
  /\ IsFiniteSet(Node)
  /\ Cardinality(Node) = N
  /\ 0 \notin Node
BY NodeAssumption, FS_Interval DEF Node

(* The first and the last of some nodes are among them.                    *)
LEMMA FirstOfIn ==
  ASSUME NEW S, S \subseteq Node, S # {}
  PROVE  FirstOf(S) \in S
<1>1. \E n \in S : \A m \in S : n <= m
  BY MinExists, NodeFinite
<1> QED BY <1>1 DEF FirstOf

LEMMA LastOfIn ==
  ASSUME NEW S, S \subseteq Node, S # {}
  PROVE  LastOf(S) \in S
<1>1. S \subseteq 0..N
  BY NodeAssumption DEF Node
<1>2. \E n \in S : \A m \in S : m <= n
  BY <1>1, MaxExists, NodeAssumption
<1> QED BY <1>2 DEF LastOf

LEMMA FirstLeaderIsNode == FirstLeader \in Node
<1>1. Node # {}
  BY NodeAssumption DEF Node
<1> QED BY <1>1, FirstOfIn DEF FirstLeader
=============================================================================
