--------------------------- MODULE ClusterConfig ---------------------------
(***************************************************************************)
(* internal/config: the nodes every process is configured with, in order.  *)
(***************************************************************************)
EXTENDS Naturals, FiniteSets

CONSTANT N         \* how many nodes the configuration lists: 3 in config.Load
ASSUME NodeAssumption == N \in Nat \ {0}

(* The configured nodes node1, node2, ..., in this order.  0 stands for    *)
(* the empty leader id.                                                    *)
Node == 1..N

NoLeader == 0
LeaderId == Node \cup {NoLeader}

FirstOf(S) == CHOOSE n \in S : \A m \in S : n <= m
LastOf(S) == CHOOSE n \in S : \A m \in S : m <= n

(* The node whose id main.go compares with "node1".                        *)
FirstLeader == FirstOf(Node)

(* Config.PeersExcluding.  Mutation: nobody is excluded.                   *)
PeersAll(n) == Node
PeersExcluding(n) == Node \ {n}

(* Service.HasMajority and State.hasMajority: len(nodes)/2 + 1.  Mutation: *)
(* half of the nodes.                                                      *)
RequiredHalf == Cardinality(Node) \div 2
Required == Cardinality(Node) \div 2 + 1
=============================================================================
