----------------------------- MODULE ApiServer -----------------------------
(***************************************************************************)
(* internal/api/handler.go: the dashboard's API server.  It decides which  *)
(* node leads, fails and rejoins nodes by control datagrams, and sends     *)
(* payments to the leader.  Its handlers hold State.mu and are one step    *)
(* each; the datagrams they send are handled by the nodes later.           *)
(*                                                                         *)
(* Every node process has been started and its log shows that it has       *)
(* ("udp server listening" among the last 50 lines), so that no node is    *)
(* "Offline": ControlPlane has the other case.  What the API server knows  *)
(* of commits it reads from the last LogWindow lines of the log files.     *)
(***************************************************************************)
EXTENDS NodeState

CONSTANTS
  ControlCopies,   \* sends of a NODE_FAIL or NODE_REJOIN: 5 in the code
  Faulty,          \* bound: the nodes that FailNode requests name
  MaxFails,        \* bound: FailNode requests that are carried out
  MaxApiRestarts   \* bound: restarts of the API server process
ASSUME ApiAssumption ==
  /\ ControlCopies \in Nat \ {0}
  /\ Faulty \subseteq Node
  /\ MaxFails \in Nat /\ MaxApiRestarts \in Nat

VARIABLES
  status,        \* NodeView.Status: "Running" or "Failed"
  leader,        \* State.leader
  currentTerm,   \* State.currentTerm
  apiPayments,   \* State.payments
  fails,         \* FailNode requests carried out so far
  apiRestarts    \* restarts so far

apiVars == <<status, leader, currentTerm, apiPayments, fails, apiRestarts>>

ApiTypeOK ==
  /\ status \in [Node -> {"Running", "Failed"}]
  /\ leader \in LeaderId
  /\ currentTerm \in Nat
  /\ apiPayments \in [Txn -> Entry]
  /\ fails \in 0..MaxFails
  /\ apiRestarts \in 0..MaxApiRestarts

Running == {n \in Node : status[n] = "Running"}

(* recalculateLeaderFromRunningNodes: a running leader stays, otherwise    *)
(* the first running node.  No node hears of it.                           *)
Recalculated ==
  CASE Running = {} -> NoLeader
    [] leader \in Running -> leader
    [] OTHER -> FirstOf(Running)

(* syncPaymentsFromNodeLogs: what running nodes have logged as committed.  *)
(* The log of the last such node in configuration order wins.              *)
InWindow(n, t) == since[n][t] < LogWindow
Logged(n, t) == IF InWindow(n, t) THEN logged[n][t] ELSE NoValue
LoggedBy(t) == {n \in Running : Logged(n, t) # NoValue}

(* Mutation: a payment the API server has listed is not looked at again.   *)
SyncedNewOnly ==
  [t \in Txn |-> IF LoggedBy(t) = {} \/ apiPayments[t].status # "absent" THEN apiPayments[t]
                 ELSE Committed(Logged(LastOf(LoggedBy(t)), t))]

Synced ==
  [t \in Txn |-> IF LoggedBy(t) = {} THEN apiPayments[t]
                 ELSE Committed(Logged(LastOf(LoggedBy(t)), t))]

(* newState, for a server started when all the nodes run.                  *)
ApiInit ==
  /\ status = [n \in Node |-> "Running"]
  /\ leader = FirstLeader
  /\ currentTerm = 0
  /\ apiPayments = [t \in Txn |-> Absent]
  /\ fails = 0
  /\ apiRestarts = 0

-----------------------------------------------------------------------------
(* sendControlMessage sends its copies 60 ms apart, notifyLeaderChange one *)
(* datagram to each running node.                                          *)
WithControl(c) == [ctrl EXCEPT ![c] = @ + ControlCopies]
WithNotice(sent, l, running) ==
  [c \in Control |->
     IF \E n \in running : c = LeaderChange(n, l) THEN sent[c] + 1 ELSE sent[c]]

(* promoteNextLeader: the first running node but the failed one.           *)
Promoted(n) == IF Running \ {n} = {} THEN NoLeader ELSE FirstOf(Running \ {n})

FailNode(n) ==
  /\ fails < MaxFails /\ n \in Faulty
  /\ status[n] = "Running"
  /\ status' = [status EXCEPT ![n] = "Failed"]
  /\ IF Recalculated = n
       THEN /\ leader' = Promoted(n)
            /\ currentTerm' = currentTerm + 1
            /\ ctrl' = IF Promoted(n) = NoLeader
                         THEN WithControl(NodeFail(n))
                         ELSE WithNotice(WithControl(NodeFail(n)), Promoted(n), Running \ {n})
       ELSE /\ leader' = Recalculated
            /\ ctrl' = WithControl(NodeFail(n))
            /\ UNCHANGED currentTerm
  /\ fails' = fails + 1
  /\ UNCHANGED <<apiPayments, apiRestarts, net>>

(* RejoinNode does not recalculate the leader: with none it tells every    *)
(* running node that the leader is "".                                     *)
RejoinNode(n) ==
  /\ status[n] = "Failed"
  /\ status' = [status EXCEPT ![n] = "Running"]
  /\ ctrl' = WithNotice(WithControl(NodeRejoin(n)), leader, Running \cup {n})
  /\ UNCHANGED <<leader, currentTerm, apiPayments, fails, apiRestarts, net>>

(* The API server knows no such payment and there is a leader to send it   *)
(* to and a majority of running nodes.                                     *)
Accepts(t) ==
  /\ Recalculated # NoLeader
  /\ Cardinality(Running) >= Required
  /\ Synced[t].status = "absent"

CreatePayment(t, v) ==
  /\ Accepts(t)
  /\ leader' = Recalculated
  /\ Send({Create(Recalculated, t, v)})
  /\ apiPayments' = [Synced EXCEPT ![t] = Pending(v)]
  /\ UNCHANGED <<status, currentTerm, fails, apiRestarts, ctrl>>

(* GetDashboard and GetPayments, and a CreatePayment that is turned down.  *)
GetDashboard ==
  /\ leader' = Recalculated
  /\ apiPayments' = Synced
  /\ UNCHANGED <<status, currentTerm, fails, apiRestarts, net, ctrl>>

(* GetLeader and GetNodes, and a FailNode that is turned down.             *)
GetLeader ==
  /\ leader' = Recalculated
  /\ UNCHANGED <<status, currentTerm, apiPayments, fails, apiRestarts, net, ctrl>>

(* The process dies and newState runs again: it takes every node whose log *)
(* shows a start for running, and remembers no payment.                    *)
ApiRestart ==
  /\ apiRestarts < MaxApiRestarts
  /\ apiRestarts' = apiRestarts + 1
  /\ status' = [n \in Node |-> "Running"]
  /\ leader' = FirstLeader
  /\ currentTerm' = 0
  /\ apiPayments' = [t \in Txn |-> Absent]
  /\ UNCHANGED <<fails, net, ctrl>>

ApiNext ==
  \/ \E n \in Node : FailNode(n) \/ RejoinNode(n)
  \/ \E t \in Txn, v \in Value : CreatePayment(t, v)
  \/ GetDashboard
  \/ GetLeader
  \/ ApiRestart
=============================================================================
