---------------------------- MODULE PaymentNode ----------------------------
(***************************************************************************)
(* One node process, cmd/node/main.go: the dispatcher of its UDP server,   *)
(* the control messages of the API server, the leader it learns from       *)
(* heartbeats, and the goroutines of Replication and Recovery.             *)
(***************************************************************************)
EXTENDS Replication, Recovery

(* node1 starts as the leader, the others know node1 and have heard so.    *)
(* The nodes not in Starting have been up for 3 s, without a payment.      *)
NodeInit ==
  /\ active = [n \in Node |-> TRUE]
  /\ role = [n \in Node |-> StartRole(n)]
  /\ knownLeader = [n \in Node |-> FirstLeader]
  /\ payments = [n \in Node |-> [t \in Txn |-> Absent]]
  /\ acks = [n \in Node |-> [t \in Txn |-> 0]]
  /\ worker = [n \in Node |-> [t \in Txn |-> "idle"]]
  /\ draft = [n \in Node |-> [t \in Txn |-> NoValue]]
  /\ held = [n \in Node |-> {}]
  /\ unlogged = [n \in Node |-> {}]
  /\ logged = [n \in Node |-> [t \in Txn |-> NoValue]]
  /\ since = [n \in Node |-> [t \in Txn |-> 0]]
  /\ startup = [n \in Node |-> n \in Starting]
  /\ recovering = [n \in Node |-> 0]
  /\ net = {}
  /\ ctrl = [c \in Control |-> 0]
  /\ claims = {FirstLeader}
  /\ dups = 0

-----------------------------------------------------------------------------
HandleNodeFail(c) ==
  /\ c.type = "NODE_FAIL"
  /\ TakeControl(c)
  /\ SetNodeFailed(c.dst)
  /\ UNCHANGED <<ledgerVars, workerVars, handlerVars, logVars, timerVars, net, claims, dups>>

HandleNodeRejoin(c) ==
  /\ c.type = "NODE_REJOIN"
  /\ TakeControl(c)
  /\ SetNodeRejoined(c.dst)
  /\ recovering' = [recovering EXCEPT ![c.dst] = @ + 1]
  /\ UNCHANGED <<ledgerVars, workerVars, handlerVars, logVars, startup, net, claims, dups>>

HandleLeaderChange(c) ==
  /\ c.type = "LEADER_CHANGE"
  /\ TakeControl(c)
  /\ SetLeader(c.dst, c.leader)
  /\ UNCHANGED <<ledgerVars, workerVars, handlerVars, logVars, timerVars, net, claims, dups>>

HandleControl(c) == HandleNodeFail(c) \/ HandleNodeRejoin(c) \/ HandleLeaderChange(c)

-----------------------------------------------------------------------------
(* Detector.sendHeartbeats and HandleHeartbeat, as far as the leader id    *)
(* goes.  A heartbeat may be delayed, lost and delivered again at will, so *)
(* claims only keeps which leaders heartbeats have named: a node may hear  *)
(* any of them at any time.                                                *)
SendHeartbeats(n) ==
  /\ active[n]
  /\ knownLeader[n] \notin claims
  /\ claims' = claims \cup {knownLeader[n]}
  /\ UNCHANGED <<roleVars, ledgerVars, workerVars, handlerVars, logVars, timerVars, net, ctrl, dups>>

HandleHeartbeat(n, l) ==
  /\ active[n] /\ n \in Hearing
  /\ Idle(n)
  /\ l \in claims \ {knownLeader[n]}
  /\ AdoptLeader(n, l)
  /\ UNCHANGED <<ledgerVars, workerVars, handlerVars, logVars, timerVars, netVars>>

-----------------------------------------------------------------------------
(* The handlers that look at a datagram and return: every one of them on a *)
(* failed node, two of them on a node that is not the leader, and          *)
(* CreatePayment for a transaction it has (ErrDuplicatePayment).           *)
Refused(m) ==
  LET n == m.dst IN
  CASE m.type = "PAYMENT_CREATE" -> ~MayCreate(n, m.txn)
    [] m.type = "RECOVERY_REQ" -> ~IsLeader(n)
    [] OTHER -> ~active[n]

HandleRefused(m) ==
  /\ Refused(m)
  /\ Deliver(m, {})
  /\ UNCHANGED <<roleVars, ledgerVars, workerVars, handlerVars, logVars, timerVars, ctrl, claims>>

HandleDatagram(m) ==
  \/ HandlePaymentCreate(m)
  \/ HandleReplicatedPayment(m)
  \/ HandlePaymentAck(m)
  \/ HandleCommitPayment(m)
  \/ HandleRecoveryRequest(m)
  \/ HandleRecoveryData(m)
  \/ HandleRefused(m)

(* What is left of a handler that has read its datagram.                   *)
FinishHandling(n) == CommitSave(n) \/ LogCommit(n)

Worker(n, t) ==
  \/ WorkerTick(n, t)
  \/ WorkerTimeout(n, t)
  \/ MarkCommittedRead(n, t)
  \/ MarkCommittedSave(n, t)
  \/ MarkCommittedLog(n, t)
  \/ BroadcastCommit(n, t)

NodeNext ==
  \/ \E m \in net : HandleDatagram(m)
  \/ \E n \in Node : FinishHandling(n)
  \/ \E m \in net : Lose(m)
  \/ \E c \in Control : HandleControl(c)
  \/ \E c \in Control : LoseControl(c)
  \/ \E n \in Node, t \in Txn : Worker(n, t)
  \/ \E n \in Node : RejoinRecovery(n)
  \/ \E n \in Node : StartupRecovery(n)
  \/ \E n \in Node : SendHeartbeats(n)
  \/ \E n \in Node, l \in LeaderId : HandleHeartbeat(n, l)
=============================================================================
