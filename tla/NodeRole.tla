------------------------------ MODULE NodeRole ------------------------------
(***************************************************************************)
(* Whether a node is up, whether it leads and whom it takes for the leader *)
(* (internal/types/node.go), and what changes that: control messages and   *)
(* heartbeats.  The modules that EXTEND this one say how those arrive.     *)
(***************************************************************************)
EXTENDS ClusterConfig

VARIABLES
  active,       \* Node.IsActive, with Node.Status: always changed together
  role,         \* Node.Role
  knownLeader   \* Node.KnownLeader

roleVars == <<active, role, knownLeader>>

RoleTypeOK ==
  /\ active \in [Node -> BOOLEAN]
  /\ role \in [Node -> {"leader", "follower"}]
  /\ knownLeader \in [Node -> LeaderId]

(* main: a process starts as the leader if it is node1, and otherwise      *)
(* takes node1 for the leader.                                             *)
StartRole(n) == IF n = FirstLeader THEN "leader" ELSE "follower"

IsLeader(n) == role[n] = "leader" /\ active[n]

-----------------------------------------------------------------------------
(* Control datagrams, all from the API server.                             *)
NodeFail(n) == [type |-> "NODE_FAIL", dst |-> n]
NodeRejoin(n) == [type |-> "NODE_REJOIN", dst |-> n]
LeaderChange(n, l) == [type |-> "LEADER_CHANGE", dst |-> n, leader |-> l]

Control ==
       [type : {"NODE_FAIL", "NODE_REJOIN"}, dst : Node]
  \cup [type : {"LEADER_CHANGE"}, dst : Node, leader : LeaderId]

SetNodeFailed(n) ==
  /\ active' = [active EXCEPT ![n] = FALSE]
  /\ role' = [role EXCEPT ![n] = "follower"]
  /\ UNCHANGED knownLeader

(* A node that knows no other leader takes the role.                       *)
ResumesAsLeader(n) == knownLeader[n] \in {NoLeader, n}

SetNodeRejoined(n) ==
  /\ active' = [active EXCEPT ![n] = TRUE]
  /\ role' = [role EXCEPT ![n] = IF ResumesAsLeader(n) THEN "leader" ELSE "follower"]
  /\ knownLeader' = [knownLeader EXCEPT ![n] = IF ResumesAsLeader(n) THEN n ELSE @]

(* main's case LEADER_CHANGE, which a failed node obeys too.               *)
SetLeader(n, l) ==
  /\ knownLeader' = [knownLeader EXCEPT ![n] = l]
  /\ role' = [role EXCEPT ![n] = IF l = n THEN "leader" ELSE "follower"]
  /\ UNCHANGED active

(* Detector.HandleHeartbeat takes over the leader id of any heartbeat; the *)
(* role stays.                                                             *)
AdoptLeader(n, l) ==
  /\ knownLeader' = [knownLeader EXCEPT ![n] = l]
  /\ UNCHANGED <<active, role>>

(* main, run again: a restarted process knows nothing of what it knew.     *)
(* Mutation: the known leader is left as NewNode sets it.                  *)
ResetRoleUnled(n) ==
  /\ active' = [active EXCEPT ![n] = TRUE]
  /\ role' = [role EXCEPT ![n] = StartRole(n)]
  /\ knownLeader' = [knownLeader EXCEPT ![n] = NoLeader]

ResetRole(n) ==
  /\ active' = [active EXCEPT ![n] = TRUE]
  /\ role' = [role EXCEPT ![n] = StartRole(n)]
  /\ knownLeader' = [knownLeader EXCEPT ![n] = FirstLeader]
=============================================================================
