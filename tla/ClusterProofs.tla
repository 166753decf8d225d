--------------------------- MODULE ClusterProofs ---------------------------
(***************************************************************************)
(* Theorems about Cluster for any number of nodes, payments and values and *)
(* any bounds: the types, which every later proof rests on, and what a     *)
(* single step of anybody may do to one ledger entry, with the action      *)
(* properties that follow from it.                                         *)
(***************************************************************************)
EXTENDS Cluster, ConfigProofs

USE DEF RoleTypeOK, handlerVars, logVars

-----------------------------------------------------------------------------
(* What is known of a datagram from its type.                              *)
LEMMA DatagramFields ==
  ASSUME NEW m \in Datagram
  PROVE  /\ m.dst \in Node
         /\ m.type \in {"PAYMENT_CREATE", "PAYMENT_REPLICATE", "PAYMENT_COMMIT"}
              => m.txn \in Txn /\ m.val \in Value
         /\ m.type \in {"PAYMENT_REPLICATE", "PAYMENT_ACK", "PAYMENT_COMMIT"}
              => m.src \in Node /\ m.txn \in Txn
         /\ m.type \in {"RECOVERY_REQ", "RECOVERY_DATA"} => m.src \in Node
         /\ m.type = "RECOVERY_DATA" => m.payments \in PaymentList
BY DEF Datagram

LEMMA ControlFields ==
  ASSUME NEW c \in Control
  PROVE  c.dst \in Node /\ (c.type = "LEADER_CHANGE" => c.leader \in LeaderId)
BY DEF Control

(* The datagrams the nodes build are datagrams.                            *)
LEMMA DatagramTypes ==
  ASSUME NEW n \in Node, NEW m \in Node, NEW t \in Txn
  PROVE  /\ \A v \in Value : /\ Create(n, t, v) \in Datagram
                             /\ Replicate(n, m, t, v) \in Datagram
                             /\ Commit(n, m, t, v) \in Datagram
         /\ Ack(n, m, t) \in Datagram
BY DEF Datagram, Create, Replicate, Commit, Ack

LEMMA RecoveryTypes ==
  ASSUME NEW n \in Node, NEW m \in Node
  PROVE  /\ RecoveryRequest(n, m) \in Datagram
         /\ \A list \in PaymentList : RecoveryData(n, m, list) \in Datagram
BY DEF Datagram, RecoveryRequest, RecoveryData

(* Ledger entries.                                                         *)
LEMMA EntryTypes ==
  /\ Absent \in Entry
  /\ \A v \in Value : Pending(v) \in Entry /\ Committed(v) \in Entry
  /\ \A e \in Entry : /\ e.status \in {"absent", "pending", "committed"}
                      /\ e.status # "absent" => e.val \in Value
                      /\ e.val \in Value \cup {NoValue}
BY DEF Absent, Pending, Committed, Entry

LEMMA SavePaymentType ==
  ASSUME NodeTypeOK, NEW n \in Node, NEW t \in Txn, NEW e \in Entry, SavePayment(n, t, e)
  PROVE  payments' \in [Node -> [Txn -> Entry]]
BY DEF NodeTypeOK, SavePayment

LEMMA DeliverType ==
  ASSUME NodeTypeOK, NEW m, NEW out \in SUBSET Datagram, Deliver(m, out)
  PROVE  net' \subseteq Datagram /\ dups' \in Nat
BY DEF NodeTypeOK, Deliver

LEMMA TakeControlType ==
  ASSUME NodeTypeOK, NEW c \in Control, OneCopyLess(c)
  PROVE  ctrl' \in [Control -> Nat]
BY DEF NodeTypeOK, OneCopyLess

(* Log files.                                                              *)
LEMMA LineTypes ==
  ASSUME NodeTypeOK, NEW n \in Node
  PROVE  /\ \A t \in Txn, v \in Value :
              WriteLine(n, t, v) => /\ logged' \in [Node -> [Txn -> Value \cup {NoValue}]]
                                    /\ since' \in [Node -> [Txn -> 0..LogWindow]]
         /\ WriteStartLine(n) => since' \in [Node -> [Txn -> 0..LogWindow]]
<1>1. \A k \in 0..LogWindow : OneMore(k) \in 0..LogWindow
  BY LogWindowAssumption DEF OneMore
<1>2. since \in [Node -> [Txn -> 0..LogWindow]] /\ 0 \in 0..LogWindow
  BY LogWindowAssumption DEF NodeTypeOK
<1>3. \A t \in Txn : [u \in Txn |-> IF u = t THEN 0 ELSE OneMore(since[n][u])] \in [Txn -> 0..LogWindow]
  BY <1>1, <1>2
<1>4. [u \in Txn |-> OneMore(since[n][u])] \in [Txn -> 0..LogWindow]
  BY <1>1, <1>2
<1>5. ASSUME NEW t \in Txn, NEW v \in Value, WriteLine(n, t, v)
      PROVE  /\ logged' \in [Node -> [Txn -> Value \cup {NoValue}]]
             /\ since' \in [Node -> [Txn -> 0..LogWindow]]
  <2>1. logged' \in [Node -> [Txn -> Value \cup {NoValue}]]
    BY <1>5 DEF WriteLine, NodeTypeOK
  <2>2. since' = [since EXCEPT ![n] = [u \in Txn |-> IF u = t THEN 0 ELSE OneMore(since[n][u])]]
    BY <1>5, <1>2 DEF WriteLine
  <2> QED BY <1>2, <1>3, <2>1, <2>2
<1>6. ASSUME WriteStartLine(n) PROVE since' \in [Node -> [Txn -> 0..LogWindow]]
  <2>1. since' = [since EXCEPT ![n] = [u \in Txn |-> OneMore(since[n][u])]]
    BY <1>6, <1>2 DEF WriteStartLine
  <2> QED BY <1>2, <1>4, <2>1
<1> QED BY <1>5, <1>6

-----------------------------------------------------------------------------
(* The handlers of payment datagrams.                                      *)
LEMMA ReplicationTypes ==
  ASSUME NodeTypeOK, NEW m \in net,
         \/ HandlePaymentCreate(m)
         \/ HandleReplicatedPayment(m)
         \/ HandlePaymentAck(m)
         \/ HandleCommitPayment(m)
  PROVE  NodeTypeOK'
<1> USE DatagramFields DEF roleVars, workerVars, timerVars
<1>1. m \in Datagram BY DEF NodeTypeOK
<1>2. m.dst \in Node BY <1>1
<1>3. CASE HandlePaymentCreate(m)
  <2>1. m.txn \in Txn /\ m.val \in Value BY <1>1, <1>3 DEF HandlePaymentCreate
  <2>2. payments' \in [Node -> [Txn -> Entry]]
    BY <1>2, <1>3, <2>1, SavePaymentType, EntryTypes DEF HandlePaymentCreate
  <2>3. net' \subseteq Datagram /\ dups' \in Nat
    <3>1. ReplicateToFollowers(m.dst, m.txn, m.val) \in SUBSET Datagram
      BY <1>2, <2>1, DatagramTypes DEF ReplicateToFollowers, PeersExcluding
    <3> QED BY <1>3, <3>1, DeliverType DEF HandlePaymentCreate
  <2> QED BY <1>2, <1>3, <2>1, <2>2, <2>3 DEF HandlePaymentCreate, NodeTypeOK, WorkerState, OwnAck
<1>4. CASE HandleReplicatedPayment(m)
  <2>1. m.txn \in Txn /\ m.val \in Value /\ m.src \in Node
    BY <1>1, <1>4 DEF HandleReplicatedPayment
  <2>2. Replicated(payments[m.dst][m.txn], m.val) \in Entry
    BY <1>2, <2>1, EntryTypes DEF Replicated, NodeTypeOK
  <2>3. payments' \in [Node -> [Txn -> Entry]]
    BY <1>2, <1>4, <2>1, <2>2, SavePaymentType DEF HandleReplicatedPayment
  <2>4. {Ack(m.dst, m.src, m.txn)} \in SUBSET Datagram
    BY <1>2, <2>1, DatagramTypes
  <2>5. net' \subseteq Datagram /\ dups' \in Nat
    BY <1>4, <2>4, DeliverType DEF HandleReplicatedPayment
  <2> QED BY <1>4, <2>3, <2>5 DEF HandleReplicatedPayment, NodeTypeOK
<1>5. CASE HandlePaymentAck(m)
  <2>1. net' \subseteq Datagram /\ dups' \in Nat
    BY <1>5, DeliverType DEF HandlePaymentAck
  <2>2. m.txn \in Txn BY <1>1, <1>5 DEF HandlePaymentAck
  <2> QED BY <1>2, <1>5, <2>1, <2>2 DEF HandlePaymentAck, NodeTypeOK
<1>6. CASE HandleCommitPayment(m)
  <2>1. m.txn \in Txn /\ m.val \in Value
    BY <1>1, <1>6 DEF HandleCommitPayment
  <2>2. CopyOf(payments[m.dst][m.txn], m.txn, m.val) \in Copy
    <3>1. payments[m.dst][m.txn] \in Entry BY <1>2, <2>1 DEF NodeTypeOK
    <3> QED BY <2>1, <3>1, EntryTypes DEF CopyOf, Copy
  <2>3. held' \in [Node -> SUBSET Copy]
    BY <1>2, <1>6, <2>2 DEF HandleCommitPayment, NodeTypeOK
  <2>4. net' \subseteq Datagram /\ dups' \in Nat
    BY <1>6, DeliverType DEF HandleCommitPayment
  <2> QED BY <1>6, <2>3, <2>4 DEF HandleCommitPayment, ledgerVars, NodeTypeOK
<1> QED BY <1>3, <1>4, <1>5, <1>6

(* The recovery datagrams, and datagrams a handler turns down.             *)
LEMMA RecoveryDatagramTypes ==
  ASSUME NodeTypeOK, NEW m \in net,
         HandleRecoveryRequest(m) \/ HandleRecoveryData(m) \/ HandleRefused(m) \/ Lose(m)
  PROVE  NodeTypeOK'
<1> USE DatagramFields DEF roleVars, ledgerVars, workerVars, timerVars
<1>1. m \in Datagram BY DEF NodeTypeOK
<1>2. m.dst \in Node BY <1>1
<1>3. CASE HandleRecoveryRequest(m)
  <2>1. m.src \in Node BY <1>1, <1>3 DEF HandleRecoveryRequest
  <2>2. CommittedPayments(m.dst) \in PaymentList
    BY <1>2, EntryTypes DEF CommittedPayments, PaymentList, NodeTypeOK
  <2>3. {RecoveryData(m.dst, m.src, CommittedPayments(m.dst))} \in SUBSET Datagram
    BY <1>2, <2>1, <2>2, RecoveryTypes
  <2>4. net' \subseteq Datagram /\ dups' \in Nat
    BY <1>3, <2>3, DeliverType DEF HandleRecoveryRequest
  <2> QED BY <1>3, <2>4 DEF HandleRecoveryRequest, NodeTypeOK
<1>4. CASE HandleRecoveryData(m)
  <2>1. m.payments \in PaymentList BY <1>1, <1>4 DEF HandleRecoveryData
  <2>2. \A t \in Txn : Recovered(payments[m.dst][t], m.payments[t]) \in Entry
    BY <1>2, <2>1, EntryTypes DEF Recovered, NodeTypeOK, PaymentList
  <2>3. payments' \in [Node -> [Txn -> Entry]]
    BY <1>2, <1>4, <2>2 DEF HandleRecoveryData, NodeTypeOK
  <2>4. net' \subseteq Datagram /\ dups' \in Nat
    BY <1>4, DeliverType DEF HandleRecoveryData
  <2>5. unlogged' \in [Node -> SUBSET Line]
    <3> DEFINE merged == [t \in Txn |-> Recovered(payments[m.dst][t], m.payments[t])]
               changed == {t \in Txn : merged[t] # payments[m.dst][t]}
    <3>1. \A t \in changed : merged[t].val \in Value
      BY <1>2, <2>1, EntryTypes DEF Recovered, NodeTypeOK, PaymentList, Committed
    <3>2. {[txn |-> t, val |-> merged[t].val] : t \in changed} \subseteq Line
      <4>1. ASSUME NEW t \in changed PROVE [txn |-> t, val |-> merged[t].val] \in Line
        BY <3>1, <4>1 DEF Line
      <4> HIDE DEF merged, changed
      <4> QED BY <4>1
    <3>3. unlogged' = [unlogged EXCEPT ![m.dst] = {[txn |-> t, val |-> merged[t].val] : t \in changed}]
      BY <1>4 DEF HandleRecoveryData
    <3> HIDE DEF merged, changed
    <3> QED BY <1>2, <3>2, <3>3 DEF NodeTypeOK
  <2> QED BY <1>4, <2>3, <2>4, <2>5 DEF HandleRecoveryData, NodeTypeOK

<1>5. CASE HandleRefused(m)
  <2>1. net' \subseteq Datagram /\ dups' \in Nat
    BY <1>5, DeliverType DEF HandleRefused
  <2> QED BY <1>5, <2>1 DEF HandleRefused, NodeTypeOK
<1>6. CASE Lose(m)
  BY <1>6 DEF Lose, NodeTypeOK
<1> QED BY <1>3, <1>4, <1>5, <1>6

(* The rest of a handler.                                                  *)
LEMMA FinishTypes ==
  ASSUME NodeTypeOK, NEW n \in Node, FinishHandling(n)
  PROVE  NodeTypeOK'
<1> USE DEF roleVars, ledgerVars, workerVars, timerVars, netVars
<1>1. CASE CommitSave(n)
  <2>1. PICK c \in held[n] :
          /\ SavePayment(n, c.txn, Committed(c.val))
          /\ held' = [held EXCEPT ![n] = {}]
          /\ unlogged' = [unlogged EXCEPT ![n] = IF c.shouldLog THEN {[txn |-> c.txn, val |-> c.val]} ELSE {}]
    BY <1>1 DEF CommitSave
  <2>2. c.txn \in Txn /\ c.val \in Value BY <2>1 DEF NodeTypeOK, Copy
  <2>3. payments' \in [Node -> [Txn -> Entry]]
    BY <2>1, <2>2, SavePaymentType, EntryTypes
  <2>4. held' \in [Node -> SUBSET Copy] /\ unlogged' \in [Node -> SUBSET Line]
    BY <2>1, <2>2 DEF NodeTypeOK, Line
  <2> QED BY <1>1, <2>3, <2>4 DEF CommitSave, NodeTypeOK
<1>2. CASE LogCommit(n)
  <2>1. PICK l \in unlogged[n] :
          WriteLine(n, l.txn, l.val) /\ unlogged' = [unlogged EXCEPT ![n] = @ \ {l}]
    BY <1>2 DEF LogCommit
  <2>2. l.txn \in Txn /\ l.val \in Value BY <2>1 DEF NodeTypeOK, Line
  <2>3. /\ logged' \in [Node -> [Txn -> Value \cup {NoValue}]]
        /\ since' \in [Node -> [Txn -> 0..LogWindow]]
    BY <2>1, <2>2, LineTypes
  <2>4. unlogged' \in [Node -> SUBSET Line] BY <2>1 DEF NodeTypeOK
  <2> QED BY <1>2, <2>3, <2>4 DEF LogCommit, NodeTypeOK
<1> QED BY <1>1, <1>2 DEF FinishHandling

(* The copy a commit goroutine holds is of a payment.  TypeOK alone is not *)
(* inductive: it lets the copy be NoValue when MarkCommitted saves it.     *)
DraftHeld ==
  \A n \in Node, t \in Txn : worker[n][t] \in {"saving", "logging"} => draft[n][t] \in Value

LEMMA WorkerTypes ==
  ASSUME NodeTypeOK, DraftHeld, NEW n \in Node, NEW t \in Txn, Worker(n, t)
  PROVE  NodeTypeOK' /\ DraftHeld'
<1> USE DEF roleVars, ledgerVars, workerVars, timerVars, netVars
<1>1. CASE WorkerTick(n, t)
  BY <1>1 DEF WorkerTick, NodeTypeOK, WorkerState, DraftHeld
<1>2. CASE WorkerTimeout(n, t)
  BY <1>2 DEF WorkerTimeout, NodeTypeOK, WorkerState, DraftHeld
<1>3. CASE MarkCommittedRead(n, t)
  <2>1. payments[n][t].status = "pending" => payments[n][t].val \in Value
    BY EntryTypes DEF NodeTypeOK
  <2>2. CASE Marks(n, t)
    <3>1. /\ worker' = [worker EXCEPT ![n][t] = "saving"]
          /\ draft' = [draft EXCEPT ![n][t] = payments[n][t].val]
      BY <1>3, <2>2, Zenon DEF MarkCommittedRead
    <3>2. payments[n][t].val \in Value BY <2>1, <2>2 DEF Marks
    <3> QED BY <1>3, <3>1, <3>2 DEF MarkCommittedRead, NodeTypeOK, WorkerState, DraftHeld
  <2>3. CASE ~Marks(n, t)
    <3>1. worker' = [worker EXCEPT ![n][t] = "broadcasting"] /\ draft' = draft
      BY <1>3, <2>3, Zenon DEF MarkCommittedRead
    <3> QED BY <1>3, <3>1 DEF MarkCommittedRead, NodeTypeOK, WorkerState, DraftHeld
  <2> QED BY <2>2, <2>3
<1>4. CASE MarkCommittedSave(n, t)
  <2>1. Committed(draft[n][t]) \in Entry
    BY <1>4, EntryTypes DEF MarkCommittedSave, DraftHeld
  <2>2. payments' \in [Node -> [Txn -> Entry]]
    BY <1>4, <2>1, SavePaymentType DEF MarkCommittedSave
  <2>3. NodeTypeOK'
    BY <1>4, <2>2 DEF MarkCommittedSave, NodeTypeOK, WorkerState
  <2>4. DraftHeld'
    BY <1>4 DEF MarkCommittedSave, NodeTypeOK, DraftHeld
  <2> QED BY <2>3, <2>4
<1>5. CASE BroadcastCommit(n, t)
  <2>1. HasPayment(n, t) => payments[n][t].val \in Value
    BY EntryTypes DEF HasPayment, NodeTypeOK
  <2>2. CommitToFollowers(n, t) \subseteq Datagram
    BY <2>1, DatagramTypes DEF CommitToFollowers, CommitsTo, PeersExcluding
  <2>3. NodeTypeOK'
    BY <1>5, <2>2 DEF BroadcastCommit, Send, NodeTypeOK, WorkerState
  <2>4. DraftHeld'
    BY <1>5 DEF BroadcastCommit, NodeTypeOK, DraftHeld
  <2> QED BY <2>3, <2>4
<1>6. CASE MarkCommittedLog(n, t)
  <2>1. draft[n][t] \in Value BY <1>6 DEF MarkCommittedLog, DraftHeld
  <2>2. /\ logged' \in [Node -> [Txn -> Value \cup {NoValue}]]
        /\ since' \in [Node -> [Txn -> 0..LogWindow]]
    BY <1>6, <2>1, LineTypes DEF MarkCommittedLog
  <2>3. NodeTypeOK'
    BY <1>6, <2>2 DEF MarkCommittedLog, NodeTypeOK, WorkerState
  <2>4. DraftHeld'
    BY <1>6 DEF MarkCommittedLog, NodeTypeOK, DraftHeld
  <2> QED BY <2>3, <2>4
<1> QED BY <1>1, <1>2, <1>3, <1>4, <1>5, <1>6 DEF Worker

LEMMA ControlTypes ==
  ASSUME NodeTypeOK, NEW c \in Control, HandleControl(c) \/ LoseControl(c)
  PROVE  NodeTypeOK'
<1> USE DEF roleVars, ledgerVars, workerVars, timerVars
<1>1. c.dst \in Node /\ (c.type = "LEADER_CHANGE" => c.leader \in LeaderId)
  BY ControlFields
<1>2. ctrl' \in [Control -> Nat]
  BY TakeControlType
     DEF TakeControl, HandleControl, HandleNodeFail, HandleNodeRejoin, HandleLeaderChange, LoseControl
<1>3. CASE HandleNodeFail(c)
  BY <1>1, <1>2, <1>3 DEF HandleNodeFail, SetNodeFailed, NodeTypeOK
<1>4. CASE HandleNodeRejoin(c)
  BY <1>1, <1>2, <1>4 DEF HandleNodeRejoin, SetNodeRejoined, NodeTypeOK, LeaderId
<1>5. CASE HandleLeaderChange(c)
  BY <1>1, <1>2, <1>5 DEF HandleLeaderChange, SetLeader, NodeTypeOK
<1>6. CASE LoseControl(c)
  BY <1>2, <1>6 DEF LoseControl, NodeTypeOK
<1> QED BY <1>3, <1>4, <1>5, <1>6 DEF HandleControl

(* The recovery goroutines and the heartbeats.                             *)
LEMMA TimerTypes ==
  ASSUME NodeTypeOK, NEW n \in Node,
         \/ RejoinRecovery(n)
         \/ StartupRecovery(n)
         \/ SendHeartbeats(n)
         \/ \E l \in LeaderId : HandleHeartbeat(n, l)
  PROVE  NodeTypeOK'
<1> USE DEF roleVars, ledgerVars, workerVars, timerVars, netVars
<1>1. RequestRecovery(n) \subseteq Datagram
  <2>1. knownLeader[n] # NoLeader => knownLeader[n] \in Node
    BY DEF NodeTypeOK, LeaderId
  <2> QED BY <2>1, RecoveryTypes DEF RequestRecovery
<1>2. CASE RejoinRecovery(n)
  BY <1>1, <1>2 DEF RejoinRecovery, Send, NodeTypeOK
<1>3. CASE StartupRecovery(n)
  BY <1>1, <1>3 DEF StartupRecovery, Send, NodeTypeOK
<1>4. CASE SendHeartbeats(n)
  BY <1>4 DEF SendHeartbeats, NodeTypeOK
<1>5. ASSUME NEW l \in LeaderId, HandleHeartbeat(n, l) PROVE NodeTypeOK'
  BY <1>5 DEF HandleHeartbeat, AdoptLeader, NodeTypeOK
<1> QED BY <1>2, <1>3, <1>4, <1>5

-----------------------------------------------------------------------------
(* The API server.                                                         *)
LEMMA RecalculatedType == Recalculated \in LeaderId
<1>1. Running \subseteq Node BY DEF Running
<1>2. Running # {} => FirstOf(Running) \in Node BY <1>1, FirstOfIn
<1> QED BY <1>1, <1>2 DEF Recalculated, LeaderId

LEMMA PromotedType ==
  ASSUME NEW n \in Node
  PROVE  Promoted(n) \in LeaderId
<1>1. Running \ {n} \subseteq Node BY DEF Running
<1> QED BY <1>1, FirstOfIn DEF Promoted, LeaderId

LEMMA SyncedType ==
  ASSUME NodeTypeOK, ApiTypeOK
  PROVE  Synced \in [Txn -> Entry]
<1>1. ASSUME NEW t \in Txn, LoggedBy(t) # {}
      PROVE  Committed(Logged(LastOf(LoggedBy(t)), t)) \in Entry
  <2> DEFINE n == LastOf(LoggedBy(t))
  <2>1. LoggedBy(t) \subseteq Node BY DEF LoggedBy, Running
  <2>2. n \in LoggedBy(t) BY <1>1, <2>1, LastOfIn
  <2>3. n \in Node /\ Logged(n, t) # NoValue
    BY <2>1, <2>2 DEF LoggedBy
  <2>5. Logged(n, t) \in Value
    BY <2>3 DEF Logged, NodeTypeOK
  <2> QED BY <2>5, EntryTypes
<1> QED BY <1>1 DEF Synced, ApiTypeOK

LEMMA ControlSentType ==
  ASSUME NodeTypeOK, NEW c \in Control, NEW l \in LeaderId, NEW running
  PROVE  /\ WithControl(c) \in [Control -> Nat]
         /\ WithNotice(WithControl(c), l, running) \in [Control -> Nat]
<1>1. WithControl(c) \in [Control -> Nat]
  BY ApiAssumption DEF WithControl, NodeTypeOK
<1> QED BY <1>1 DEF WithNotice

LEMMA FailNodeTypes ==
  ASSUME TypeOK, NEW n \in Node, FailNode(n)
  PROVE  ApiTypeOK' /\ ctrl' \in [Control -> Nat] /\ net' = net
<1> USE DEF TypeOK
<1>1. NodeFail(n) \in Control BY DEF NodeFail, Control
<1>2. Recalculated \in LeaderId /\ Promoted(n) \in LeaderId
  BY RecalculatedType, PromotedType
<1>3. ctrl' \in [Control -> Nat]
  BY <1>1, <1>2, ControlSentType DEF FailNode
<1>4. leader' \in LeaderId /\ currentTerm' \in Nat
  BY <1>2 DEF FailNode, ApiTypeOK
<1> QED BY <1>3, <1>4, ApiAssumption DEF FailNode, ApiTypeOK

LEMMA ApiTypes ==
  ASSUME TypeOK, ApiStep
  PROVE  TypeOK'
<1> USE DEF TypeOK
<1>1. ApiTypeOK' /\ ctrl' \in [Control -> Nat] /\ net' \subseteq Datagram
  <2>1. ASSUME NEW n \in Node, FailNode(n)
        PROVE  ApiTypeOK' /\ ctrl' \in [Control -> Nat] /\ net' \subseteq Datagram
    BY <2>1, FailNodeTypes DEF NodeTypeOK
  <2>2. ASSUME NEW n \in Node, RejoinNode(n)
        PROVE  ApiTypeOK' /\ ctrl' \in [Control -> Nat] /\ net' \subseteq Datagram
    <3>1. NodeRejoin(n) \in Control BY DEF NodeRejoin, Control
    <3>2. ctrl' \in [Control -> Nat]
      BY <2>2, <3>1, ControlSentType DEF RejoinNode, ApiTypeOK
    <3> QED BY <2>2, <3>2 DEF RejoinNode, ApiTypeOK, NodeTypeOK
  <2>3. ASSUME NEW t \in Txn, NEW v \in Value, CreatePayment(t, v)
        PROVE  ApiTypeOK' /\ ctrl' \in [Control -> Nat] /\ net' \subseteq Datagram
    <3>1. Recalculated \in Node
      BY <2>3, RecalculatedType DEF CreatePayment, Accepts, LeaderId
    <3>2. Create(Recalculated, t, v) \in Datagram
      BY <3>1, DatagramTypes
    <3>3. apiPayments' \in [Txn -> Entry]
      BY <2>3, SyncedType, EntryTypes DEF CreatePayment
    <3> QED BY <2>3, <3>1, <3>2, <3>3 DEF CreatePayment, Send, ApiTypeOK, NodeTypeOK, LeaderId
  <2>4. CASE GetDashboard
    BY <2>4, SyncedType, RecalculatedType DEF GetDashboard, ApiTypeOK, NodeTypeOK
  <2>5. CASE GetLeader
    BY <2>5, RecalculatedType DEF GetLeader, ApiTypeOK, NodeTypeOK
  <2>6. CASE ApiRestart
    BY <2>6, EntryTypes, FirstLeaderIsNode, ApiAssumption
       DEF ApiRestart, ApiTypeOK, NodeTypeOK, LeaderId
  <2> QED BY <2>1, <2>2, <2>3, <2>4, <2>5, <2>6 DEF ApiStep, ApiNext
<1>2. UNCHANGED <<roleVars, ledgerVars, workerVars, handlerVars, logVars, timerVars, claims, dups>>
  BY DEF ApiStep
<1> QED BY <1>1, <1>2 DEF roleVars, ledgerVars, workerVars, timerVars, NodeTypeOK

-----------------------------------------------------------------------------
(* The inductive form of TypeOK.                                            *)
TypeInv == TypeOK /\ DraftHeld

LEMMA TypeInit == Init => TypeInv
<1> SUFFICES ASSUME Init PROVE TypeInv OBVIOUS
<1>1. NodeTypeOK
  BY FirstLeaderIsNode, EntryTypes, NetworkAssumption, LogWindowAssumption
     DEF Init, NodeInit, StartRole, NodeTypeOK, LeaderId, WorkerState
<1>2. ApiTypeOK
  BY FirstLeaderIsNode, EntryTypes, ApiAssumption DEF Init, ApiInit, ApiTypeOK, LeaderId
<1>3. DraftHeld
  BY DEF Init, NodeInit, DraftHeld
<1> QED BY <1>1, <1>2, <1>3 DEF TypeInv, TypeOK

(* Only the commit goroutine touches worker and draft, but for the handler *)
(* that starts it.                                                         *)
LEMMA DraftStep ==
  ASSUME TypeInv, NodeNext, ~\E n \in Node, t \in Txn : Worker(n, t)
  PROVE  DraftHeld'
<1> USE DEF workerVars, netVars
<1>1. ASSUME NEW m \in net, HandlePaymentCreate(m) PROVE DraftHeld'
  BY <1>1, DatagramFields DEF HandlePaymentCreate, TypeInv, TypeOK, NodeTypeOK, DraftHeld
<1>2. CASE UNCHANGED <<worker, draft>>
  BY <1>2 DEF TypeInv, DraftHeld
<1> QED
  BY <1>1, <1>2 DEF NodeNext, HandleDatagram, HandleReplicatedPayment, HandlePaymentAck,
     HandleCommitPayment, HandleRecoveryRequest, HandleRecoveryData, HandleRefused, Lose,
     HandleControl, HandleNodeFail, HandleNodeRejoin, HandleLeaderChange, LoseControl,
     FinishHandling, CommitSave, LogCommit, RejoinRecovery, StartupRecovery, SendHeartbeats,
     HandleHeartbeat

LEMMA TypeStep == TypeInv /\ [Next]_vars => TypeInv'
<1> SUFFICES ASSUME TypeInv, [Next]_vars PROVE TypeInv' OBVIOUS
<1> USE DEF TypeInv
<1>1. CASE NodeStep
  <2>1. NodeTypeOK /\ ApiTypeOK /\ DraftHeld BY DEF TypeOK
  <2>2. NodeTypeOK'
    BY <1>1, <2>1, ReplicationTypes, RecoveryDatagramTypes, FinishTypes, WorkerTypes, ControlTypes,
       TimerTypes DEF NodeStep, NodeNext, HandleDatagram
  <2>3. ApiTypeOK'
    BY <1>1, <2>1 DEF NodeStep, apiVars, ApiTypeOK
  <2>4. DraftHeld'
    BY <1>1, <2>1, DraftStep, WorkerTypes DEF NodeStep
  <2> QED BY <2>2, <2>3, <2>4 DEF TypeOK
<1>2. CASE ApiStep
  <2>1. TypeOK' BY <1>2, ApiTypes
  <2>2. DraftHeld' BY <1>2 DEF ApiStep, workerVars, DraftHeld
  <2> QED BY <2>1, <2>2
<1>3. CASE UNCHANGED vars
  BY <1>3 DEF vars, nodeVars, apiVars, roleVars, ledgerVars, workerVars, timerVars, netVars,
     TypeOK, NodeTypeOK, ApiTypeOK, DraftHeld
<1> QED BY <1>1, <1>2, <1>3 DEF Next

(* Every reachable state is well typed.                                    *)
THEOREM TypeInvariance == Spec => []TypeInv
<1>1. Init => TypeInv BY TypeInit
<1>2. TypeInv /\ [Next]_vars => TypeInv' BY TypeStep
<1> QED BY <1>1, <1>2, PTL DEF Spec

(* The variables of the nodes, the network and the API server keep their   *)
(* types, whatever the datagrams that cross, repeat or get lost.           *)
THEOREM TypeCorrect == Spec => []TypeOK
<1>1. TypeInv => TypeOK BY DEF TypeInv
<1> QED BY <1>1, TypeInvariance, PTL

-----------------------------------------------------------------------------

(* The ways an entry changes: an active node fills an absent entry, an     *)
(* active node commits a pending one, or a commit goroutine or the COMMIT  *)
(* handler writes its copy, whatever the entry has become.                 *)
Unchanged(n, t) == payments'[n][t] = payments[n][t]
Filled(n, t) ==
  /\ active[n]
  /\ payments[n][t].status = "absent"
  /\ payments'[n][t].status # "absent"
CommittedByMessage(n, t) ==
  /\ active[n]
  /\ payments[n][t].status = "pending"
  /\ payments'[n][t].status = "committed"
CommittedByWorker(n, t) ==
  /\ worker[n][t] = "saving"
  /\ payments'[n][t] = Committed(draft[n][t])

CommittedByHandler(n, t) ==
  \E c \in held[n] : c.txn = t /\ payments'[n][t] = Committed(c.val)

EntryChange(n, t) ==
  \/ Unchanged(n, t)
  \/ Filled(n, t)
  \/ CommittedByMessage(n, t)
  \/ CommittedByWorker(n, t)
  \/ CommittedByHandler(n, t)

LEMMA EntryShape ==
  ASSUME NEW e \in Entry
  PROVE  /\ e.status = "committed" => e = Committed(e.val)
         /\ e.status = "pending" => e = Pending(e.val)
         /\ e.status \in {"absent", "pending", "committed"}
BY DEF Entry, Committed, Pending

LEMMA PaymentMessageChange ==
  ASSUME TypeInv, NEW m \in net, NEW n \in Node, NEW t \in Txn,
         HandlePaymentCreate(m) \/ HandleReplicatedPayment(m)
  PROVE  EntryChange(n, t)
<1> USE DEF EntryChange, SavePayment
<1>1. m \in Datagram /\ payments \in [Node -> [Txn -> Entry]]
  BY DEF TypeInv, TypeOK, NodeTypeOK
<1>2. m.dst \in Node BY <1>1, DatagramFields
<1>3. CASE HandlePaymentCreate(m)
  <2>1. m.txn \in Txn BY <1>1, <1>3, DatagramFields DEF HandlePaymentCreate
  <2>2. CASE n = m.dst /\ t = m.txn
    <3>1. payments'[n][t] = Pending(m.val)
      BY <1>1, <1>3, <2>2 DEF HandlePaymentCreate
    <3>2. active[n] /\ payments[n][t].status = "absent"
      BY <1>3, <2>2 DEF HandlePaymentCreate, MayCreate, IsLeader, HasPayment
    <3> QED BY <3>1, <3>2 DEF Filled, Pending
  <2>3. CASE ~(n = m.dst /\ t = m.txn)
    BY <1>1, <1>2, <1>3, <2>1, <2>3 DEF HandlePaymentCreate, Unchanged
  <2> QED BY <2>2, <2>3
<1>4. CASE HandleReplicatedPayment(m)
  <2>1. m.txn \in Txn BY <1>1, <1>4, DatagramFields DEF HandleReplicatedPayment
  <2>2. CASE n = m.dst /\ t = m.txn
    <3>1. payments'[n][t] = Replicated(payments[n][t], m.val) /\ active[n]
      BY <1>1, <1>4, <2>2 DEF HandleReplicatedPayment, IsNodeActive
    <3> QED BY <3>1 DEF Replicated, Filled, Unchanged, Pending
  <2>3. CASE ~(n = m.dst /\ t = m.txn)
    BY <1>1, <1>2, <1>4, <2>1, <2>3 DEF HandleReplicatedPayment, Unchanged
  <2> QED BY <2>2, <2>3
<1> QED BY <1>3, <1>4

LEMMA RecoveryDataChange ==
  ASSUME TypeInv, NEW m \in net, NEW n \in Node, NEW t \in Txn, HandleRecoveryData(m)
  PROVE  EntryChange(n, t)
<1> USE DEF EntryChange
<1>1. m \in Datagram /\ payments \in [Node -> [Txn -> Entry]]
  BY DEF TypeInv, TypeOK, NodeTypeOK
<1>2. m.dst \in Node BY <1>1, DatagramFields
<1>3. CASE n = m.dst
  <2>1. payments'[n][t] = Recovered(payments[n][t], m.payments[t]) /\ active[n]
    BY <1>1, <1>3 DEF HandleRecoveryData
  <2>2. payments[n][t] \in Entry BY <1>1
  <2>3. CASE payments'[n][t] = payments[n][t]
    BY <2>3 DEF Unchanged
  <2>4. CASE payments'[n][t] # payments[n][t]
    <3>1. payments'[n][t] = Committed(m.payments[t]) /\ payments[n][t].status # "committed"
      BY <2>1, <2>4 DEF Recovered
    <3> QED BY <2>1, <2>2, <3>1, EntryShape DEF Filled, CommittedByMessage, Committed
  <2> QED BY <2>3, <2>4
<1>4. CASE n # m.dst
  BY <1>1, <1>2, <1>4 DEF HandleRecoveryData, Unchanged
<1> QED BY <1>3, <1>4

LEMMA HandlerChange ==
  ASSUME TypeInv, NEW w \in Node, FinishHandling(w), NEW n \in Node, NEW t \in Txn
  PROVE  EntryChange(n, t)
<1> USE DEF EntryChange
<1>1. CASE CommitSave(w)
  <2>1. payments \in [Node -> [Txn -> Entry]] BY DEF TypeInv, TypeOK, NodeTypeOK
  <2>2. PICK c \in held[w] : SavePayment(w, c.txn, Committed(c.val))
    BY <1>1 DEF CommitSave
  <2>3. CASE n = w /\ t = c.txn
    BY <2>1, <2>2, <2>3 DEF SavePayment, CommittedByHandler
  <2>4. CASE ~(n = w /\ t = c.txn)
    BY <2>1, <2>2, <2>4 DEF SavePayment, Unchanged
  <2> QED BY <2>3, <2>4
<1>2. CASE LogCommit(w)
  BY <1>2 DEF LogCommit, ledgerVars, Unchanged
<1> QED BY <1>1, <1>2 DEF FinishHandling

LEMMA WorkerChange ==
  ASSUME TypeInv, NEW w \in Node, NEW s \in Txn, Worker(w, s), NEW n \in Node, NEW t \in Txn
  PROVE  EntryChange(n, t)
<1> USE DEF EntryChange
<1>1. CASE MarkCommittedSave(w, s)
  <2>1. payments \in [Node -> [Txn -> Entry]] BY DEF TypeInv, TypeOK, NodeTypeOK
  <2>2. CASE n = w /\ t = s
    BY <1>1, <2>1, <2>2 DEF MarkCommittedSave, SavePayment, CommittedByWorker
  <2>3. CASE ~(n = w /\ t = s)
    BY <1>1, <2>1, <2>3 DEF MarkCommittedSave, SavePayment, Unchanged
  <2> QED BY <2>2, <2>3
<1>2. CASE ~MarkCommittedSave(w, s)
  BY <1>2 DEF Worker, WorkerTick, WorkerTimeout, MarkCommittedRead, MarkCommittedLog,
     BroadcastCommit, ledgerVars, Unchanged
<1> QED BY <1>1, <1>2

LEMMA EntryStep ==
  ASSUME TypeInv, [Next]_vars, NEW n \in Node, NEW t \in Txn
  PROVE  EntryChange(n, t)
<1>1. CASE NodeStep
  <2>1. \/ \E m \in net : HandlePaymentCreate(m) \/ HandleReplicatedPayment(m)
        \/ \E m \in net : HandleRecoveryData(m)
        \/ \E w \in Node : FinishHandling(w)
        \/ \E w \in Node, s \in Txn : Worker(w, s)
        \/ UNCHANGED payments
    BY <1>1 DEF NodeStep, NodeNext, HandleDatagram, HandlePaymentAck, HandleCommitPayment,
       HandleRecoveryRequest, HandleRefused, Lose, LoseControl, HandleControl, HandleNodeFail, HandleNodeRejoin,
       HandleLeaderChange, RejoinRecovery, StartupRecovery, SendHeartbeats, HandleHeartbeat,
       ledgerVars
  <2>2. UNCHANGED payments => EntryChange(n, t) BY DEF EntryChange, Unchanged
  <2> QED BY <2>1, <2>2, PaymentMessageChange, RecoveryDataChange, HandlerChange, WorkerChange
<1>2. CASE ApiStep \/ UNCHANGED vars
  BY <1>2 DEF ApiStep, vars, nodeVars, ledgerVars, EntryChange, Unchanged
<1> QED BY <1>1, <1>2 DEF Next

(* A commit goroutine enters "saving" by MarkCommitted's read only.        *)
LEMMA SavingStep ==
  ASSUME TypeInv, [Next]_vars, NEW n \in Node, NEW t \in Txn, ~active[n]
  PROVE  worker'[n][t] = "saving" => worker[n][t] = "saving"
<1> USE DEF workerVars
<1>1. worker \in [Node -> [Txn -> WorkerState]]
  BY DEF TypeInv, TypeOK, NodeTypeOK
<1>2. ASSUME NEW m \in net, HandlePaymentCreate(m)
      PROVE  worker'[n][t] = "saving" => worker[n][t] = "saving"
  BY <1>1, <1>2 DEF HandlePaymentCreate
<1>3. ASSUME NEW w \in Node, NEW s \in Txn, MarkCommittedRead(w, s)
      PROVE  worker'[n][t] = "saving" => worker[n][t] = "saving"
  <2>1. CASE n = w
    <3>1. ~Marks(w, s) BY <2>1 DEF Marks, IsNodeActive
    <3>2. worker' = [worker EXCEPT ![w][s] = "broadcasting"]
      BY <1>3, <3>1 DEF MarkCommittedRead
    <3> QED BY <1>1, <3>2
  <2>2. CASE n # w
    <3>1. worker'[n] = worker[n] BY <1>1, <1>3, <2>2 DEF MarkCommittedRead
    <3> QED BY <3>1
  <2> QED BY <2>1, <2>2
<1>4. ASSUME NEW w \in Node, NEW s \in Txn,
             \/ WorkerTick(w, s) \/ WorkerTimeout(w, s) \/ MarkCommittedSave(w, s)
             \/ MarkCommittedLog(w, s) \/ BroadcastCommit(w, s)
      PROVE  worker'[n][t] = "saving" => worker[n][t] = "saving"
  BY <1>1, <1>4 DEF WorkerTick, WorkerTimeout, MarkCommittedSave, MarkCommittedLog, BroadcastCommit
<1>5. CASE UNCHANGED worker
  BY <1>5
<1>6. CASE NodeStep
  <2>1. \/ \E m \in net : HandlePaymentCreate(m)
        \/ \E w \in Node, s \in Txn : Worker(w, s)
        \/ UNCHANGED worker
    BY <1>6 DEF NodeStep, NodeNext, HandleDatagram, HandleReplicatedPayment, HandlePaymentAck,
       HandleCommitPayment, HandleRecoveryRequest, HandleRecoveryData, HandleRefused, Lose,
       HandleControl, HandleNodeFail, HandleNodeRejoin, HandleLeaderChange, LoseControl,
       FinishHandling, CommitSave, LogCommit, RejoinRecovery, StartupRecovery, SendHeartbeats,
       HandleHeartbeat
  <2> QED BY <1>2, <1>3, <1>4, <1>5, <2>1 DEF Worker
<1>7. CASE ApiStep \/ UNCHANGED vars
  BY <1>5, <1>7 DEF ApiStep, vars, nodeVars
<1> QED BY <1>6, <1>7 DEF Next

-----------------------------------------------------------------------------
(* No step makes a ledger forget a payment or un-commit it: not a          *)
(* duplicate, not a stale answer, not a failed or rejoined node.           *)
THEOREM LedgerNeverGoesBack == Spec => LedgerMonotone
<1> DEFINE Step(n, t) == /\ HasPayment(n, t) => HasPayment(n, t)'
                         /\ IsCommitted(n, t) => IsCommitted(n, t)'
<1>1. TypeInv /\ [Next]_vars => [\A n \in Node, t \in Txn : Step(n, t)]_vars
  <2> SUFFICES ASSUME TypeInv, [Next]_vars, NEW n \in Node, NEW t \in Txn
               PROVE  Step(n, t)
    OBVIOUS
  <2>1. EntryChange(n, t) BY EntryStep
  <2>2. CommittedByWorker(n, t) \/ CommittedByHandler(n, t) => payments'[n][t].status = "committed"
    <3>1. \A v : Committed(v).status = "committed" BY DEF Committed
    <3> QED BY <3>1, Zenon DEF CommittedByWorker, CommittedByHandler
  <2> QED BY <2>1, <2>2 DEF EntryChange, Unchanged, Filled, CommittedByMessage, HasPayment, IsCommitted
<1> QED BY <1>1, TypeInvariance, PTL DEF Spec, LedgerMonotone

-----------------------------------------------------------------------------
(* The copies in the hands of the two goroutines, against the entry they   *)
(* were made of.  DraftFresh says it of the commit goroutine.  The UDP     *)
(* goroutine reads nothing else meanwhile, so its copy's entry is changed  *)
(* by the commit goroutine only, and that is then past its write.          *)
HeldFresh ==
  \A n \in Node : \A c \in held[n] :
    IF c.shouldLog
      THEN \/ payments[n][c.txn].status = "absent"
           \/ payments[n][c.txn] = Pending(c.val)
           \/ payments[n][c.txn] = Committed(c.val) /\ worker[n][c.txn] # "saving"
      ELSE /\ IsCommitted(n, c.txn)
           /\ payments[n][c.txn] = Committed(c.val) \/ worker[n][c.txn] \in PastSaving

(* A handler finishes before its node takes a NODE_FAIL, and before the    *)
(* next datagram.                                                          *)
HeldActive == \A n \in Node : held[n] # {} => active[n]
OneHandler == \A n \in Node : held[n] = {} \/ unlogged[n] = {}

CopyInv == DraftFresh /\ HeldFresh /\ HeldActive /\ OneHandler /\ CommitsLogged

(* The variables these are about, with their types.                        *)
LEMMA CopyTypes ==
  ASSUME TypeInv
  PROVE  /\ payments \in [Node -> [Txn -> Entry]]
         /\ worker \in [Node -> [Txn -> WorkerState]]
         /\ draft \in [Node -> [Txn -> Value \cup {NoValue}]]
         /\ held \in [Node -> SUBSET Copy]
         /\ unlogged \in [Node -> SUBSET Line]
         /\ logged \in [Node -> [Txn -> Value \cup {NoValue}]]
BY DEF TypeInv, TypeOK, NodeTypeOK

LEMMA CopyInit == Init => CopyInv
BY EntryTypes DEF Init, NodeInit, CopyInv, DraftFresh, HeldFresh, HeldActive, OneHandler,
   CommitsLogged, IsCommitted, Absent

(* Steps that touch neither the ledgers nor the goroutines' copies.        *)
LEMMA CopyElsewhere ==
  ASSUME CopyInv, UNCHANGED <<payments, worker, draft, held, unlogged, logged>>,
         \A n \in Node : held[n] # {} /\ active[n] => active'[n]
  PROVE  CopyInv'
BY DEF CopyInv, DraftFresh, HeldFresh, HeldActive, OneHandler, CommitsLogged, IsCommitted, PastSaving

LEMMA CopyNewPayment ==
  ASSUME TypeInv, CopyInv, NEW m \in net, HandlePaymentCreate(m) \/ HandleReplicatedPayment(m)
  PROVE  CopyInv'
<1> DEFINE d == m.dst
           s == m.txn
<1>1. /\ payments \in [Node -> [Txn -> Entry]]
      /\ worker \in [Node -> [Txn -> WorkerState]]
  BY CopyTypes
<1>2. d \in Node /\ s \in Txn
  <2>1. m \in Datagram BY DEF TypeInv, TypeOK, NodeTypeOK
  <2> QED BY <2>1, DatagramFields DEF HandlePaymentCreate, HandleReplicatedPayment
<1>3. UNCHANGED <<active, draft, held, unlogged, logged>> /\ held[d] = {}
  BY DEF HandlePaymentCreate, HandleReplicatedPayment, roleVars, workerVars, Deliver, Idle
<1>4. \A n \in Node, t \in Txn :
        ~(n = d /\ t = s) => payments'[n][t] = payments[n][t] /\ worker'[n][t] = worker[n][t]
  BY <1>1, <1>2 DEF HandlePaymentCreate, HandleReplicatedPayment, SavePayment, workerVars
<1>5. \/ payments'[d][s].status = "pending" /\ worker'[d][s] = "waiting"
      \/ payments'[d][s] = payments[d][s] /\ worker'[d][s] = worker[d][s]
      \/ payments[d][s].status = "absent" /\ payments'[d][s].status = "pending"
           /\ worker'[d][s] = worker[d][s]
  <2>1. CASE HandlePaymentCreate(m)
    <3>1. payments'[d][s] = Pending(m.val) /\ worker'[d][s] = "waiting"
      BY <1>1, <1>2, <2>1 DEF HandlePaymentCreate, SavePayment
    <3> QED BY <3>1 DEF Pending
  <2>2. CASE HandleReplicatedPayment(m)
    <3>1. payments'[d][s] = Replicated(payments[d][s], m.val) /\ worker'[d][s] = worker[d][s]
      BY <1>1, <1>2, <2>2 DEF HandleReplicatedPayment, SavePayment, workerVars
    <3> QED BY <3>1 DEF Replicated, Pending
  <2> QED BY <2>1, <2>2
<1> HIDE DEF d, s
<1>6. DraftFresh'
  BY <1>2, <1>3, <1>4, <1>5 DEF CopyInv, DraftFresh, IsCommitted, Pending
<1>7. HeldFresh'
  <2>1. \A n \in Node : \A c \in held[n] : n # d /\ c.txn \in Txn
    BY <1>3, CopyTypes DEF Copy
  <2> QED BY <1>2, <1>3, <1>4, <2>1 DEF CopyInv, HeldFresh, IsCommitted, PastSaving
<1>8. HeldActive' /\ OneHandler'
  BY <1>3 DEF CopyInv, HeldActive, OneHandler
<1>9. CommitsLogged'
  BY <1>2, <1>3, <1>4, <1>5 DEF CopyInv, CommitsLogged, IsCommitted
<1> QED BY <1>6, <1>7, <1>8, <1>9 DEF CopyInv

LEMMA CopyCommitRead ==
  ASSUME TypeInv, CopyInv, NEW m \in net, HandleCommitPayment(m)
  PROVE  CopyInv'
<1> DEFINE d == m.dst
           c == CopyOf(payments[d][m.txn], m.txn, m.val)
<1>1. d \in Node /\ m.txn \in Txn
  <2>1. m \in Datagram BY DEF TypeInv, TypeOK, NodeTypeOK
  <2> QED BY <2>1, DatagramFields DEF HandleCommitPayment
<1>2. /\ UNCHANGED <<active, payments, worker, draft, unlogged, logged>>
      /\ active[d] /\ unlogged[d] = {}
  BY DEF HandleCommitPayment, roleVars, ledgerVars, workerVars, Deliver, Idle, IsNodeActive
<1>3. held'[d] = {c} /\ \A n \in Node \ {d} : held'[n] = held[n]
  BY <1>1, CopyTypes DEF HandleCommitPayment
<1>4. payments[d][m.txn] \in Entry BY <1>1, CopyTypes
<1>5. /\ c.txn = m.txn
      /\ c.shouldLog <=> ~IsCommitted(d, m.txn)
      /\ payments[d][m.txn].status # "absent" => c.val = payments[d][m.txn].val
  BY DEF CopyOf, IsCommitted
<1> HIDE DEF c, d
<1>6. DraftFresh' /\ CommitsLogged'
  BY <1>2 DEF CopyInv, DraftFresh, CommitsLogged, IsCommitted
<1>7. HeldFresh'
  <2>1. IF c.shouldLog
          THEN payments[d][c.txn].status = "absent" \/ payments[d][c.txn] = Pending(c.val)
          ELSE IsCommitted(d, c.txn) /\ payments[d][c.txn] = Committed(c.val)
    BY <1>4, <1>5, EntryShape DEF IsCommitted
  <2> QED BY <1>1, <1>2, <1>3, <2>1 DEF CopyInv, HeldFresh, IsCommitted, PastSaving
<1>8. HeldActive' /\ OneHandler'
  BY <1>1, <1>2, <1>3 DEF CopyInv, HeldActive, OneHandler
<1> QED BY <1>6, <1>7, <1>8 DEF CopyInv

LEMMA CopySave ==
  ASSUME TypeInv, CopyInv, NEW w \in Node, CommitSave(w)
  PROVE  CopyInv'
<1>1. PICK c \in held[w] :
        /\ SavePayment(w, c.txn, Committed(c.val))
        /\ held' = [held EXCEPT ![w] = {}]
        /\ unlogged' = [unlogged EXCEPT ![w] = IF c.shouldLog THEN {[txn |-> c.txn, val |-> c.val]} ELSE {}]
  BY DEF CommitSave
<1>2. c.txn \in Txn BY <1>1, CopyTypes DEF Copy
<1>3. UNCHANGED <<active, worker, draft, logged>>
  BY DEF CommitSave, roleVars, workerVars, logVars
<1>4. /\ payments'[w][c.txn].status = "committed"
      /\ \A n \in Node, t \in Txn : ~(n = w /\ t = c.txn) => payments'[n][t] = payments[n][t]
  BY <1>1, <1>2, CopyTypes DEF SavePayment, Committed
<1>5. /\ held'[w] = {} /\ \A n \in Node \ {w} : held'[n] = held[n]
      /\ \A n \in Node \ {w} : unlogged'[n] = unlogged[n]
      /\ c.shouldLog => \E l \in unlogged'[w] : l.txn = c.txn
  BY <1>1, CopyTypes
<1>6. unlogged[w] = {} BY <1>1 DEF CopyInv, OneHandler
<1>7. DraftFresh'
  BY <1>3, <1>4 DEF CopyInv, DraftFresh, IsCommitted
<1>8. HeldFresh'
  <2>1. \A n \in Node : \A k \in held'[n] : n # w /\ k \in held[n] /\ k.txn \in Txn
    BY <1>5, CopyTypes DEF Copy
  <2> QED BY <1>3, <1>4, <1>5, <2>1 DEF CopyInv, HeldFresh, IsCommitted, PastSaving
<1>9. HeldActive' /\ OneHandler'
  BY <1>3, <1>5 DEF CopyInv, HeldActive, OneHandler
<1>10. CommitsLogged'
  <2>1. ~c.shouldLog => IsCommitted(w, c.txn) BY <1>1 DEF CopyInv, HeldFresh
  <2> QED BY <1>2, <1>3, <1>4, <1>5, <1>6, <2>1 DEF CopyInv, CommitsLogged, IsCommitted
<1> QED BY <1>7, <1>8, <1>9, <1>10 DEF CopyInv

LEMMA CopyLog ==
  ASSUME TypeInv, CopyInv, NEW w \in Node, LogCommit(w)
  PROVE  CopyInv'
<1>1. PICK l \in unlogged[w] :
        WriteLine(w, l.txn, l.val) /\ unlogged' = [unlogged EXCEPT ![w] = @ \ {l}]
  BY DEF LogCommit
<1>2. l.txn \in Txn /\ l.val \in Value BY <1>1, CopyTypes DEF Line
<1>3. UNCHANGED <<active, payments, worker, draft, held>>
  BY DEF LogCommit, roleVars, ledgerVars, workerVars
<1>4. /\ logged'[w][l.txn] # NoValue
      /\ \A n \in Node, t \in Txn : ~(n = w /\ t = l.txn) => logged'[n][t] = logged[n][t]
  BY <1>1, <1>2, CopyTypes, ValueAssumption DEF WriteLine
<1>5. /\ \A n \in Node \ {w} : unlogged'[n] = unlogged[n]
      /\ unlogged'[w] = unlogged[w] \ {l}
  BY <1>1, CopyTypes
<1>6. DraftFresh' /\ HeldFresh' /\ HeldActive'
  BY <1>3 DEF CopyInv, DraftFresh, HeldFresh, HeldActive, IsCommitted, PastSaving
<1>7. OneHandler'
  BY <1>1, <1>3, <1>5 DEF CopyInv, OneHandler
<1>8. CommitsLogged'
  BY <1>2, <1>3, <1>4, <1>5 DEF CopyInv, CommitsLogged, IsCommitted
<1> QED BY <1>6, <1>7, <1>8 DEF CopyInv

LEMMA CopyRecovery ==
  ASSUME TypeInv, CopyInv, NEW m \in net, HandleRecoveryData(m)
  PROVE  CopyInv'
<1> DEFINE d == m.dst
           merged == [t \in Txn |-> Recovered(payments[d][t], m.payments[t])]
           changed == {t \in Txn : merged[t] # payments[d][t]}
<1>1. d \in Node
  <2>1. m \in Datagram BY DEF TypeInv, TypeOK, NodeTypeOK
  <2> QED BY <2>1, DatagramFields
<1>2. /\ UNCHANGED <<active, worker, draft, held, logged>>
      /\ held[d] = {} /\ unlogged[d] = {}
  BY DEF HandleRecoveryData, roleVars, workerVars, Deliver, Idle
<1>3. /\ \A n \in Node \ {d} : payments'[n] = payments[n] /\ unlogged'[n] = unlogged[n]
      /\ payments'[d] = merged
      /\ unlogged'[d] = {[txn |-> t, val |-> merged[t].val] : t \in changed}
  BY <1>1, CopyTypes DEF HandleRecoveryData
<1>4. \A t \in Txn : /\ merged[t] = payments[d][t] \/ merged[t].status = "committed"
                     /\ t \in changed \/ merged[t] = payments[d][t]
  BY DEF Recovered, Committed
<1>5. ASSUME NEW t \in changed PROVE \E l \in unlogged'[d] : l.txn = t
  <2>1. [txn |-> t, val |-> merged[t].val] \in unlogged'[d] BY <1>3
  <2> QED BY <2>1
<1> HIDE DEF merged, changed, d
<1>6. DraftFresh'
  BY <1>1, <1>2, <1>3, <1>4 DEF CopyInv, DraftFresh, IsCommitted
<1>7. HeldFresh'
  BY <1>1, <1>2, <1>3 DEF CopyInv, HeldFresh, IsCommitted, PastSaving
<1>8. HeldActive' /\ OneHandler'
  BY <1>1, <1>2, <1>3 DEF CopyInv, HeldActive, OneHandler
<1>9. CommitsLogged'
  BY <1>1, <1>2, <1>3, <1>4, <1>5 DEF CopyInv, CommitsLogged, IsCommitted
<1> QED BY <1>6, <1>7, <1>8, <1>9 DEF CopyInv

(* The commit goroutine.                                                   *)
LEMMA CopyWorker ==
  ASSUME TypeInv, CopyInv, NEW w \in Node, NEW s \in Txn, Worker(w, s)
  PROVE  CopyInv'
<1>1. /\ payments \in [Node -> [Txn -> Entry]]
      /\ worker \in [Node -> [Txn -> WorkerState]]
      /\ draft \in [Node -> [Txn -> Value \cup {NoValue}]]
      /\ logged \in [Node -> [Txn -> Value \cup {NoValue}]]
  BY CopyTypes
<1>2. UNCHANGED <<active, held, unlogged>>
  BY DEF Worker, WorkerTick, WorkerTimeout, MarkCommittedRead, MarkCommittedSave, MarkCommittedLog,
     BroadcastCommit, roleVars
<1>3. \A n \in Node, t \in Txn : ~(n = w /\ t = s) =>
        /\ payments'[n][t] = payments[n][t]
        /\ worker'[n][t] = worker[n][t]
        /\ draft'[n][t] = draft[n][t]
        /\ logged'[n][t] = logged[n][t]
  <2>1. CASE MarkCommittedRead(w, s)
    BY <1>1, <2>1 DEF MarkCommittedRead, ledgerVars
  <2>2. CASE MarkCommittedSave(w, s)
    BY <1>1, <2>2 DEF MarkCommittedSave, SavePayment
  <2>3. CASE MarkCommittedLog(w, s)
    BY <1>1, <2>3 DEF MarkCommittedLog, WriteLine, ledgerVars
  <2>4. CASE WorkerTick(w, s) \/ WorkerTimeout(w, s) \/ BroadcastCommit(w, s)
    BY <1>1, <2>4 DEF WorkerTick, WorkerTimeout, BroadcastCommit, ledgerVars
  <2> QED BY <2>1, <2>2, <2>3, <2>4 DEF Worker
<1>4. HeldActive' /\ OneHandler'
  BY <1>2 DEF CopyInv, HeldActive, OneHandler
<1>5. \A n \in Node : \A c \in held[n] : c.txn \in Txn
  BY CopyTypes DEF Copy
<1>6. payments[w][s] \in Entry BY <1>1
<1> DEFINE p == payments[w][s]
           q == payments'[w][s]
<1>7. CASE WorkerTick(w, s) \/ WorkerTimeout(w, s) \/ BroadcastCommit(w, s)
  <2>1. /\ q = p /\ draft'[w][s] = draft[w][s] /\ logged'[w][s] = logged[w][s]
        /\ worker'[w][s] \in {"marking", "timedout", "done"}
        /\ worker'[w][s] = "done" <=> worker[w][s] = "broadcasting"
        /\ worker[w][s] \in {"waiting", "broadcasting"}
    BY <1>1, <1>7 DEF WorkerTick, WorkerTimeout, BroadcastCommit, ledgerVars
  <2>2. DraftFresh' BY <1>3, <2>1 DEF CopyInv, DraftFresh, IsCommitted
  <2>3. HeldFresh' BY <1>2, <1>3, <1>5, <2>1 DEF CopyInv, HeldFresh, IsCommitted, PastSaving
  <2>4. CommitsLogged' BY <1>2, <1>3, <2>1 DEF CopyInv, CommitsLogged, IsCommitted
  <2> QED BY <1>4, <2>2, <2>3, <2>4 DEF CopyInv
<1>8. CASE MarkCommittedRead(w, s) /\ Marks(w, s)
  <2>1. /\ q = p /\ logged'[w][s] = logged[w][s]
        /\ worker'[w][s] = "saving" /\ draft'[w][s] = p.val
        /\ p.status = "pending" /\ p = Pending(p.val)
    <3>1. /\ worker' = [worker EXCEPT ![w][s] = "saving"]
          /\ draft' = [draft EXCEPT ![w][s] = p.val]
          /\ UNCHANGED <<payments, logged>>
      BY <1>8 DEF MarkCommittedRead, ledgerVars
    <3>2. p.status = "pending" BY <1>8 DEF Marks
    <3> QED BY <1>1, <1>6, <3>1, <3>2, EntryShape
  <2>2. DraftFresh' BY <1>3, <2>1 DEF CopyInv, DraftFresh, IsCommitted
  <2>3. HeldFresh'
    <3>1. p.status = "pending" => \A v : p # Committed(v) BY DEF Committed
    <3> QED BY <1>2, <1>3, <1>5, <2>1, <3>1 DEF CopyInv, HeldFresh, IsCommitted, PastSaving
  <2>4. CommitsLogged' BY <1>2, <1>3, <2>1 DEF CopyInv, CommitsLogged, IsCommitted
  <2> QED BY <1>4, <2>2, <2>3, <2>4 DEF CopyInv
<1>9. CASE MarkCommittedRead(w, s) /\ ~Marks(w, s)
  <2>1. /\ q = p /\ draft'[w][s] = draft[w][s] /\ logged'[w][s] = logged[w][s]
        /\ worker[w][s] = "marking" /\ worker'[w][s] = "broadcasting"
    <3>1. /\ worker[w][s] = "marking"
          /\ worker' = [worker EXCEPT ![w][s] = "broadcasting"]
          /\ UNCHANGED <<payments, draft, logged>>
      BY <1>9 DEF MarkCommittedRead, ledgerVars
    <3> QED BY <1>1, <3>1
  <2>2. DraftFresh' BY <1>3, <2>1 DEF CopyInv, DraftFresh, IsCommitted
  <2>3. HeldFresh' BY <1>2, <1>3, <1>5, <2>1 DEF CopyInv, HeldFresh, IsCommitted, PastSaving
  <2>4. CommitsLogged' BY <1>2, <1>3, <2>1 DEF CopyInv, CommitsLogged, IsCommitted
  <2> QED BY <1>4, <2>2, <2>3, <2>4 DEF CopyInv
<1>10. CASE MarkCommittedSave(w, s)
  <2>1. /\ q = Committed(draft[w][s]) /\ q.status = "committed"
        /\ logged'[w][s] = logged[w][s]
        /\ worker[w][s] = "saving" /\ worker'[w][s] = "logging"
        /\ draft'[w][s] = draft[w][s]
    BY <1>1, <1>10 DEF MarkCommittedSave, SavePayment, Committed
  <2>2. DraftFresh' BY <1>3, <2>1 DEF CopyInv, DraftFresh, IsCommitted
  <2>3. HeldFresh'
    <3>1. ASSUME NEW c \in held[w], c.txn = s, c.shouldLog
          PROVE  c.val = draft[w][s]
      <4>1. \/ p.status = "absent"
            \/ p = Pending(c.val)
            \/ p = Committed(c.val) /\ worker[w][s] # "saving"
        BY <3>1 DEF CopyInv, HeldFresh
      <4>2. p = Pending(draft[w][s]) \/ p.status = "committed"
        BY <2>1 DEF CopyInv, DraftFresh, IsCommitted
      <4> QED BY <2>1, <4>1, <4>2 DEF Pending
    <3> QED BY <1>2, <1>3, <1>5, <2>1, <3>1 DEF CopyInv, HeldFresh, IsCommitted, PastSaving
  <2>4. CommitsLogged' BY <1>2, <1>3, <2>1 DEF CopyInv, CommitsLogged, IsCommitted
  <2> QED BY <1>4, <2>2, <2>3, <2>4 DEF CopyInv
<1>11. CASE MarkCommittedLog(w, s)
  <2>1. draft[w][s] # NoValue
    BY <1>11, ValueAssumption DEF MarkCommittedLog, TypeInv, DraftHeld
  <2>2. /\ q = p /\ logged'[w][s] # NoValue
        /\ worker[w][s] = "logging" /\ worker'[w][s] = "broadcasting"
    BY <1>1, <1>11, <2>1 DEF MarkCommittedLog, WriteLine, ledgerVars
  <2>3. DraftFresh' BY <1>3, <2>2 DEF CopyInv, DraftFresh, IsCommitted
  <2>4. HeldFresh' BY <1>2, <1>3, <1>5, <2>2 DEF CopyInv, HeldFresh, IsCommitted, PastSaving
  <2>5. CommitsLogged' BY <1>2, <1>3, <2>2 DEF CopyInv, CommitsLogged, IsCommitted
  <2> QED BY <1>4, <2>3, <2>4, <2>5 DEF CopyInv
<1> QED BY <1>7, <1>8, <1>9, <1>10, <1>11 DEF Worker

(* A NODE_FAIL waits for the handler.                                      *)
LEMMA CopyControl ==
  ASSUME CopyInv, NEW c \in Control, HandleControl(c) \/ LoseControl(c), RoleTypeOK
  PROVE  CopyInv'
<1>1. UNCHANGED <<payments, worker, draft, held, unlogged, logged>>
  BY DEF HandleControl, HandleNodeFail, HandleNodeRejoin, HandleLeaderChange, LoseControl,
     ledgerVars, workerVars
<1>2. c.dst \in Node BY ControlFields
<1>3. \A n \in Node : held[n] # {} /\ active[n] => active'[n]
  BY <1>2 DEF HandleControl, HandleNodeFail, HandleNodeRejoin, HandleLeaderChange, LoseControl,
     TakeControl, Idle, SetNodeFailed, SetNodeRejoined, SetLeader, roleVars
<1> QED BY <1>1, <1>3, CopyElsewhere

LEMMA CopyStep == TypeInv /\ CopyInv /\ [Next]_vars => CopyInv'
<1> SUFFICES ASSUME TypeInv, CopyInv, [Next]_vars PROVE CopyInv' OBVIOUS
<1> USE DEF roleVars, ledgerVars, workerVars
<1> DEFINE Elsewhere == UNCHANGED <<active, payments, worker, draft, held, unlogged, logged>>
<1>1. Elsewhere => CopyInv' BY CopyElsewhere
<1>2. CASE NodeStep
  <2>1. ASSUME NEW m \in net,
               \/ HandlePaymentAck(m) \/ HandleRecoveryRequest(m) \/ HandleRefused(m) \/ Lose(m)
        PROVE  Elsewhere
    BY <2>1 DEF HandlePaymentAck, HandleRecoveryRequest, HandleRefused, Lose
  <2>2. ASSUME NEW n \in Node,
               \/ RejoinRecovery(n) \/ StartupRecovery(n) \/ SendHeartbeats(n)
               \/ \E l \in LeaderId : HandleHeartbeat(n, l)
        PROVE  Elsewhere
    BY <2>2 DEF RejoinRecovery, StartupRecovery, SendHeartbeats, HandleHeartbeat, AdoptLeader
  <2>3. RoleTypeOK BY DEF TypeInv, TypeOK, NodeTypeOK
  <2> HIDE DEF Elsewhere
  <2> QED
    BY <1>1, <1>2, <2>1, <2>2, <2>3, CopyNewPayment, CopyCommitRead, CopyRecovery, CopySave, CopyLog,
       CopyWorker, CopyControl DEF NodeStep, NodeNext, HandleDatagram, FinishHandling
<1>3. CASE ApiStep \/ UNCHANGED vars
  BY <1>1, <1>3 DEF ApiStep, vars, nodeVars
<1> QED BY <1>2, <1>3 DEF Next

THEOREM CopyInvariance == Spec => [](TypeInv /\ CopyInv)
<1>1. Init => CopyInv BY CopyInit
<1>2. TypeInv /\ CopyInv /\ [Next]_vars => CopyInv' BY CopyStep
<1> QED BY <1>1, <1>2, TypeInvariance, PTL DEF Spec

(* Between reading an entry and saving it as committed, a commit goroutine *)
(* is overtaken by nothing but another commit of the same payment.         *)
THEOREM DraftStaysFresh == Spec => []DraftFresh
<1>1. CopyInv => DraftFresh BY DEF CopyInv
<1> QED BY <1>1, CopyInvariance, PTL

(* Whatever a goroutine or a handler commits has reached the log file, or  *)
(* the one who saved it has its line still to write.                       *)
THEOREM CommitsReachLog == Spec => []CommitsLogged
<1>1. CopyInv => CommitsLogged BY DEF CopyInv
<1> QED BY <1>1, CopyInvariance, PTL

(* A committed value is replaced by the late write of a commit goroutine,  *)
(* or by the COMMIT handler that this write overtook, which puts back what *)
(* it had read; by nobody else, in any interleaving.                       *)
THEOREM CommittedValueTwoWriters == Spec => CommittedValueStable
<1> DEFINE Step(n, t) == IsCommitted(n, t) /\ payments'[n][t] # payments[n][t]
                           => LateMark(n, t) \/ PutBack(n, t)
<1>1. TypeInv /\ CopyInv /\ [Next]_vars => [\A n \in Node, t \in Txn : Step(n, t)]_vars
  <2> SUFFICES ASSUME TypeInv, CopyInv, [Next]_vars, NEW n \in Node, NEW t \in Txn,
                      IsCommitted(n, t), payments'[n][t] # payments[n][t]
               PROVE  LateMark(n, t) \/ PutBack(n, t)
    OBVIOUS
  <2>1. CommittedByWorker(n, t) \/ CommittedByHandler(n, t)
    <3>1. EntryChange(n, t) BY EntryStep
    <3> QED BY <3>1 DEF EntryChange, Unchanged, Filled, CommittedByMessage, IsCommitted
  <2>2. CASE CommittedByWorker(n, t)
    BY <2>2 DEF CommittedByWorker, LateMark
  <2>3. CASE CommittedByHandler(n, t)
    <3>1. PICK c \in held[n] : c.txn = t /\ payments'[n][t] = Committed(c.val)
      BY <2>3 DEF CommittedByHandler
    <3>2. payments[n][t] # Committed(c.val) BY <3>1
    <3>3. payments[n][t] # Pending(c.val) /\ payments[n][t].status # "absent"
      BY DEF IsCommitted, Pending
    <3>4. ~c.shouldLog /\ worker[n][t] \in PastSaving
      BY <3>1, <3>2, <3>3 DEF CopyInv, HeldFresh
    <3> QED BY <3>1, <3>4 DEF PutBack
  <2> QED BY <2>1, <2>2, <2>3
<1> QED BY <1>1, CopyInvariance, PTL DEF Spec, CommittedValueStable

(* On a failed node no commit goroutine starts to save, and the ledger is  *)
(* written only by one that found the node active before it failed.        *)
THEOREM FailedNodeKeepsLedger == Spec => FailedNodeFrozen
<1> DEFINE Step(n, t) == ~active[n] =>
                           /\ worker'[n][t] = "saving" => worker[n][t] = "saving"
                           /\ payments'[n][t] # payments[n][t] => worker[n][t] = "saving"
<1>1. TypeInv /\ CopyInv /\ [Next]_vars => [\A n \in Node, t \in Txn : Step(n, t)]_vars
  <2> SUFFICES ASSUME TypeInv, CopyInv, [Next]_vars, NEW n \in Node, NEW t \in Txn, ~active[n]
               PROVE  /\ worker'[n][t] = "saving" => worker[n][t] = "saving"
                      /\ payments'[n][t] # payments[n][t] => worker[n][t] = "saving"
    OBVIOUS
  <2>1. payments'[n][t] # payments[n][t] => worker[n][t] = "saving"
    <3>1. EntryChange(n, t) BY EntryStep
    <3>2. ~CommittedByHandler(n, t) BY DEF CommittedByHandler, CopyInv, HeldActive
    <3> QED BY <3>1, <3>2 DEF EntryChange, Unchanged, Filled, CommittedByMessage, CommittedByWorker
  <2>2. worker'[n][t] = "saving" => worker[n][t] = "saving"
    BY SavingStep
  <2> QED BY <2>1, <2>2
<1> QED BY <1>1, CopyInvariance, PTL DEF Spec, FailedNodeFrozen
=============================================================================
