--------------------------- MODULE RestartProofs ---------------------------
(***************************************************************************)
(* Theorems about NodeRestart: the types, what the log files keep, and     *)
(* what a commit rests on when node processes lose their memory.           *)
(***************************************************************************)
EXTENDS NodeRestart, CommitProofs

USE DEF handlerVars, logVars, PastSaving

(* Every step is one of Cluster's, none at all, or a restart.              *)
LEMMA RestartSteps ==
  ASSUME [RestartNext]_restartVars
  PROVE  /\ \/ [Next]_vars /\ UNCHANGED restarted
            \/ \E n \in Node : RestartNode(n)
         /\ paid' = paid \/ Recorded
BY DEF RestartNext, ClusterStep, restartVars

-----------------------------------------------------------------------------
(* Types, as in Cluster.                                                   *)
RestartTypeInv ==
  /\ TypeInv
  /\ restarted \subseteq Node
  /\ paid \in [Node -> SUBSET Txn]

LEMMA RestartControlType ==
  ASSUME NodeTypeOK, NEW n \in Node, LosesDatagrams(n)
  PROVE  net' \subseteq net /\ ctrl' \in [Control -> Nat]
<1> DEFINE waiting == {c \in Control : c.dst = n /\ ctrl[c] > 0}
<1>1. net' \subseteq net BY DEF LosesDatagrams
<1>2. PICK left \in [waiting -> UNION {0..ctrl[c] : c \in waiting}] :
        ctrl' = [c \in Control |-> IF c \in waiting THEN left[c] ELSE ctrl[c]]
  BY DEF LosesDatagrams
<1>3. \A c \in waiting : left[c] \in Nat
  <2> SUFFICES ASSUME NEW c \in waiting PROVE left[c] \in Nat OBVIOUS
  <2>1. left[c] \in UNION {0..ctrl[d] : d \in waiting} BY <1>2
  <2>2. PICK d \in waiting : left[c] \in 0..ctrl[d] BY <2>1
  <2> QED BY <2>2
<1>4. ctrl \in [Control -> Nat] BY DEF NodeTypeOK
<1> HIDE DEF waiting
<1> QED BY <1>1, <1>2, <1>3, <1>4

LEMMA RestartNodeTypes ==
  ASSUME TypeInv, NEW n \in Node, RestartNode(n)
  PROVE  TypeInv'
<1>1. NodeTypeOK /\ ApiTypeOK /\ DraftHeld /\ TypeOK BY DEF TypeInv, TypeOK
<1>2. net' \subseteq Datagram /\ ctrl' \in [Control -> Nat]
  <2>1. net \subseteq Datagram BY <1>1 DEF NodeTypeOK
  <2> QED BY <1>1, <2>1, RestartControlType DEF RestartNode
<1>3. /\ payments' \in [Node -> [Txn -> Entry]]
      /\ acks' \in [Node -> [Txn -> Nat]]
      /\ worker' \in [Node -> [Txn -> WorkerState]]
      /\ draft' \in [Node -> [Txn -> Value \cup {NoValue}]]
  <2>1. "idle" \in WorkerState BY DEF WorkerState
  <2>2. Absent \in Entry BY EntryTypes
  <2> HIDE DEF WorkerState, Entry, Absent
  <2> QED BY <1>1, <2>1, <2>2 DEF RestartNode, NodeTypeOK
<1>4. RoleTypeOK'
  BY <1>1, FirstLeaderIsNode DEF RestartNode, ResetRole, StartRole, NodeTypeOK, RoleTypeOK, LeaderId
<1>5. /\ startup' \in [Node -> BOOLEAN] /\ recovering' \in [Node -> Nat]
      /\ claims' \subseteq LeaderId /\ dups' \in Nat
  BY <1>1 DEF RestartNode, NodeTypeOK
<1>6. /\ held' \in [Node -> SUBSET Copy]
      /\ unlogged' \in [Node -> SUBSET Line]
  <2> HIDE DEF Copy, Line
  <2> QED BY <1>1 DEF RestartNode, NodeTypeOK
<1>7. /\ logged' \in [Node -> [Txn -> Value \cup {NoValue}]]
      /\ since' \in [Node -> [Txn -> 0..LogWindow]]
  <2>1. WriteStartLine(n) /\ UNCHANGED logged BY DEF RestartNode, OpenLog, WriteStartLine
  <2> QED BY <1>1, <2>1, LineTypes DEF NodeTypeOK
<1>8. NodeTypeOK' BY <1>2, <1>3, <1>4, <1>5, <1>6, <1>7 DEF NodeTypeOK
<1>9. ApiTypeOK' BY <1>1 DEF RestartNode, apiVars, ApiTypeOK
<1>10. DraftHeld' BY <1>1 DEF RestartNode, NodeTypeOK, DraftHeld
<1> QED BY <1>8, <1>9, <1>10 DEF TypeInv, TypeOK

LEMMA RestartTypeStep ==
  ASSUME RestartTypeInv, [RestartNext]_restartVars
  PROVE  RestartTypeInv'
<1>1. TypeInv' BY RestartSteps, TypeStep, RestartNodeTypes DEF RestartTypeInv
<1>2. restarted' \subseteq Node BY RestartSteps DEF RestartTypeInv, RestartNode
<1>3. paid' \in [Node -> SUBSET Txn] BY RestartSteps DEF RestartTypeInv, Recorded
<1> QED BY <1>1, <1>2, <1>3 DEF RestartTypeInv

THEOREM RestartTypeInvariance == RestartSpec => []RestartTypeInv
<1>1. RestartInit => RestartTypeInv BY TypeInit DEF RestartInit, RestartTypeInv
<1>2. RestartTypeInv /\ [RestartNext]_restartVars => RestartTypeInv' BY RestartTypeStep
<1> QED BY <1>1, <1>2, PTL DEF RestartSpec

(* Every variable keeps its type through any restart of nodes and of the   *)
(* API server.                                                             *)
THEOREM RestartTypeCorrect == RestartSpec => []RestartTypeOK
<1>1. RestartTypeInv => RestartTypeOK BY DEF RestartTypeInv, TypeInv, RestartTypeOK
<1> QED BY <1>1, RestartTypeInvariance, PTL

-----------------------------------------------------------------------------
(* What the log files keep.  A restart leaves a node without a handler and *)
(* without a commit to log, but with the lines that were written.          *)
LEMMA CopyRestart ==
  ASSUME TypeInv, CopyInv, NEW m \in Node, RestartNode(m)
  PROVE  CopyInv'
<1>1. /\ \A t \in Txn : payments'[m][t].status = "absent" /\ worker'[m][t] = "idle"
      /\ held'[m] = {} /\ unlogged'[m] = {}
  BY CopyTypes DEF RestartNode, Absent
<1>2. \A n \in Node \ {m} :
        /\ payments'[n] = payments[n] /\ worker'[n] = worker[n] /\ draft'[n] = draft[n]
        /\ held'[n] = held[n] /\ unlogged'[n] = unlogged[n] /\ active'[n] = active[n]
  <2>1. RoleTypeOK BY DEF TypeInv, TypeOK, NodeTypeOK
  <2> QED BY <2>1, CopyTypes DEF RestartNode, ResetRole, RoleTypeOK
<1>3. logged' = logged BY DEF RestartNode, OpenLog, WriteStartLine
<1>4. \A n \in Node : \A c \in held[n] : c.txn \in Txn BY CopyTypes DEF Copy
<1>5. DraftFresh' BY <1>1, <1>2 DEF CopyInv, DraftFresh, IsCommitted
<1>6. HeldFresh' BY <1>1, <1>2, <1>4 DEF CopyInv, HeldFresh, IsCommitted
<1>7. HeldActive' /\ OneHandler' BY <1>1, <1>2 DEF CopyInv, HeldActive, OneHandler
<1>8. CommitsLogged' BY <1>1, <1>2, <1>3 DEF CopyInv, CommitsLogged, IsCommitted
<1> QED BY <1>5, <1>6, <1>7, <1>8 DEF CopyInv

(* A line, once written, stays.                                            *)
LEMMA LogKept ==
  ASSUME TypeInv, NEW n \in Node, NEW t \in Txn, logged[n][t] # NoValue,
         ([Next]_vars) \/ \E m \in Node : RestartNode(m)
  PROVE  logged'[n][t] # NoValue
<1>1. logged \in [Node -> [Txn -> Value \cup {NoValue}]] BY CopyTypes
<1>2. ASSUME NEW w \in Node, NEW s \in Txn, NEW v \in Value, WriteLine(w, s, v)
      PROVE  logged'[n][t] # NoValue
  BY <1>1, <1>2, ValueAssumption DEF WriteLine
<1>3. CASE UNCHANGED logged BY <1>3
<1>4. ASSUME NEW w \in Node, FinishHandling(w) PROVE logged'[n][t] # NoValue
  <2>1. CASE CommitSave(w) BY <1>3, <2>1 DEF CommitSave
  <2>2. CASE LogCommit(w)
    <3>1. PICK l \in unlogged[w] : WriteLine(w, l.txn, l.val) BY <2>2 DEF LogCommit
    <3>2. l.txn \in Txn /\ l.val \in Value BY <3>1, CopyTypes DEF Line
    <3> QED BY <1>2, <3>1, <3>2
  <2> QED BY <1>4, <2>1, <2>2 DEF FinishHandling
<1>5. ASSUME NEW w \in Node, NEW s \in Txn, Worker(w, s) PROVE logged'[n][t] # NoValue
  <2>1. CASE MarkCommittedLog(w, s)
    <3>1. draft[w][s] \in Value BY <2>1 DEF MarkCommittedLog, TypeInv, DraftHeld
    <3> QED BY <1>2, <2>1, <3>1 DEF MarkCommittedLog
  <2>2. CASE ~MarkCommittedLog(w, s)
    BY <1>3, <1>5, <2>2 DEF Worker, WorkerTick, WorkerTimeout, MarkCommittedRead,
       MarkCommittedSave, BroadcastCommit
  <2> QED BY <2>1, <2>2
<1>6. ASSUME NEW m \in Node, RestartNode(m) PROVE logged'[n][t] # NoValue
  BY <1>3, <1>6 DEF RestartNode, OpenLog, WriteStartLine
<1>7. CASE [Next]_vars
  <2>1. \/ \E w \in Node : FinishHandling(w)
        \/ \E w \in Node, s \in Txn : Worker(w, s)
        \/ UNCHANGED logged
    BY <1>7 DEF Next, NodeStep, NodeNext, HandleDatagram, HandlePaymentCreate,
       HandleReplicatedPayment, HandlePaymentAck, HandleCommitPayment, HandleRecoveryRequest,
       HandleRecoveryData, HandleRefused, Lose, HandleControl, HandleNodeFail, HandleNodeRejoin,
       HandleLeaderChange, LoseControl, RejoinRecovery, StartupRecovery, SendHeartbeats,
       HandleHeartbeat, ApiStep, vars, nodeVars
  <2> QED BY <1>3, <1>4, <1>5, <2>1
<1> QED BY <1>6, <1>7

(* paid has the payments each node ever finished committing.  The node has *)
(* a line of each, of this run of its process or of an earlier one.        *)
PaidLogged == \A n \in Node : \A t \in paid[n] : logged[n][t] # NoValue

PaidInv == CopyInv /\ PaidLogged

LEMMA PaidStep ==
  ASSUME RestartTypeInv, RestartTypeInv', PaidInv, [RestartNext]_restartVars
  PROVE  PaidInv'
<1>1. TypeInv /\ CopyInv BY DEF RestartTypeInv, PaidInv
<1>2. ([Next]_vars) \/ \E m \in Node : RestartNode(m) BY RestartSteps
<1>3. CopyInv' BY <1>1, <1>2, CopyStep, CopyRestart
<1>4. PaidLogged'
  <2> SUFFICES ASSUME NEW n \in Node, NEW t \in paid'[n] PROVE logged'[n][t] # NoValue
    BY DEF PaidLogged
  <2>1. t \in Txn BY DEF RestartTypeInv
  <2>2. t \in paid[n] \/ Finished(n, t)' BY RestartSteps DEF Recorded
  <2>3. t \in paid[n] => logged[n][t] # NoValue BY DEF PaidInv, PaidLogged
  <2>4. Finished(n, t)' => logged'[n][t] # NoValue
    BY <1>3, <2>1 DEF CopyInv, CommitsLogged, Finished
  <2> QED BY <1>1, <1>2, <2>1, <2>2, <2>3, <2>4, LogKept
<1> QED BY <1>3, <1>4 DEF PaidInv

(* A payment reaches a leader from the API server only, and only while no  *)
(* running node has it logged as committed.                                *)
LEMMA NodesDoNotCreate ==
  ASSUME NodeNext, NEW k \in net', k \notin net
  PROVE  k.type # "PAYMENT_CREATE"
<1> USE DEF netVars
<1>1. ASSUME NEW m \in net, HandleDatagram(m) PROVE k.type # "PAYMENT_CREATE"
  <2>1. \/ k \in ReplicateToFollowers(m.dst, m.txn, m.val)
        \/ k = Ack(m.dst, m.src, m.txn)
        \/ k = RecoveryData(m.dst, m.src, CommittedPayments(m.dst))
    BY <1>1 DEF HandleDatagram, HandlePaymentCreate, HandleReplicatedPayment, HandlePaymentAck,
       HandleCommitPayment, HandleRecoveryRequest, HandleRecoveryData, HandleRefused, Deliver
  <2> QED BY <2>1 DEF ReplicateToFollowers, Replicate, Ack, RecoveryData
<1>2. ASSUME NEW n \in Node, NEW t \in Txn, Worker(n, t) PROVE k.type # "PAYMENT_CREATE"
  <2>1. k \in CommitToFollowers(n, t)
    BY <1>2 DEF Worker, WorkerTick, WorkerTimeout, MarkCommittedRead, MarkCommittedSave,
       MarkCommittedLog, BroadcastCommit, Send
  <2> QED BY <2>1 DEF CommitToFollowers, CommitsTo, Commit
<1>3. ASSUME NEW n \in Node, RejoinRecovery(n) \/ StartupRecovery(n)
      PROVE  k.type # "PAYMENT_CREATE"
  <2>1. k \in RequestRecovery(n) BY <1>3 DEF RejoinRecovery, StartupRecovery, Send
  <2> QED BY <2>1 DEF RequestRecovery, RecoveryRequest
<1> QED
  BY <1>1, <1>2, <1>3 DEF NodeNext, Lose, HandleControl, HandleNodeFail, HandleNodeRejoin,
     HandleLeaderChange, LoseControl, FinishHandling, CommitSave, LogCommit, SendHeartbeats,
     HandleHeartbeat

LEMMA CreateIsAccepted ==
  ASSUME [RestartNext]_restartVars, NEW l \in Node, NEW t \in Txn, NEW v \in Value,
         Create(l, t, v) \in net', Create(l, t, v) \notin net
  PROVE  Synced[t].status = "absent"
<1>1. ASSUME NEW n \in Node, RestartNode(n) PROVE FALSE
  BY <1>1 DEF RestartNode, LosesDatagrams
<1>2. CASE NodeStep
  <2>1. Create(l, t, v).type = "PAYMENT_CREATE" BY DEF Create
  <2> QED BY <1>2, <2>1, NodesDoNotCreate DEF NodeStep
<1>3. CASE ApiStep
  <2>1. PICK s \in Txn, w \in Value : CreatePayment(s, w)
    BY <1>3 DEF ApiStep, ApiNext, FailNode, RejoinNode, GetDashboard, GetLeader, ApiRestart
  <2>2. Create(l, t, v) = Create(Recalculated, s, w) BY <2>1 DEF CreatePayment, Send
  <2>3. t = s BY <2>2 DEF Create
  <2> QED BY <2>1, <2>3 DEF CreatePayment, Accepts
<1>4. CASE UNCHANGED vars BY <1>4 DEF vars, nodeVars, netVars
<1> QED BY <1>1, <1>2, <1>3, <1>4, RestartSteps DEF Next

LEMMA LoggedIsNotAccepted ==
  ASSUME NEW n \in Node, NEW t \in Txn, status[n] = "Running", logged[n][t] # NoValue,
         InWindow(n, t)
  PROVE  Synced[t].status # "absent"
<1>1. n \in LoggedBy(t) BY DEF LoggedBy, Running, Logged
<1>2. Synced[t] = Committed(Logged(LastOf(LoggedBy(t)), t)) BY <1>1 DEF Synced
<1> QED BY <1>2 DEF Committed

(* Through any restarts of nodes and of the API server, a payment that a   *)
(* running node ever finished committing is not sent to a leader again     *)
(* while its line is among the last LogWindow of the node's log file: of   *)
(* what a process loses, that file has the commits it logged.              *)
THEOREM PaidOnce == RestartSpec => NotAcceptedAgain
<1> DEFINE Step ==
      \A n \in Node, t \in Txn :
        status[n] = "Running" /\ t \in paid[n] /\ InWindow(n, t)
          => \A l \in Node, v \in Value : Create(l, t, v) \in net' => Create(l, t, v) \in net
<1>1. RestartInit => PaidInv
  BY CopyInit DEF RestartInit, PaidInv, PaidLogged
<1>2. RestartTypeInv /\ RestartTypeInv' /\ PaidInv /\ [RestartNext]_restartVars => PaidInv'
  BY PaidStep
<1>3. PaidInv /\ [RestartNext]_restartVars => [Step]_restartVars
  BY CreateIsAccepted, LoggedIsNotAccepted DEF PaidInv, PaidLogged
<1> QED BY <1>1, <1>2, <1>3, RestartTypeInvariance, PTL DEF RestartSpec, NotAcceptedAgain

-----------------------------------------------------------------------------
(* The nodes that hold t or have lost their memory.  Unlike Holders, this  *)
(* set never shrinks.                                                      *)
Kept(t) == Holders(t) \cup restarted

(* A commit goroutine, an acknowledgement, counted or in flight, and a     *)
(* replica on its way all tell of nodes in Kept.  Those of an earlier run  *)
(* of a leader's process may still come in after its restart, when it has  *)
(* no entry and no goroutine: RoundStarted and AckBalance are not true     *)
(* here.                                                                   *)
RoundKept(n, t) == acks[n][t] # 0 \/ worker[n][t] # "idle" => n \in Kept(t)
SecondKept(n, t) == acks[n][t] >= 2 => \E m \in Kept(t) : m # n
ReplicaKept(m) == m.type = "PAYMENT_REPLICATE" => m.src \in Kept(m.txn) /\ m.src # m.dst
AckKept(m) ==
  m.type = "PAYMENT_ACK" => {m.src, m.dst} \subseteq Kept(m.txn) /\ m.src # m.dst

RoundsKept ==
  /\ \A n \in Node, t \in Txn : RoundKept(n, t) /\ SecondKept(n, t)
  /\ \A m \in net : ReplicaKept(m) /\ AckKept(m)

DecidedKept == \A t \in Txn : Decided(t) => Cardinality(Kept(t)) >= Required

KeptGrows == \A t \in Txn : Kept(t) \subseteq Kept(t)'

LEMMA KeptFinite ==
  ASSUME RestartTypeInv, NEW t
  PROVE  Kept(t) \subseteq Node /\ IsFiniteSet(Kept(t)) /\ Cardinality(Kept(t)) \in Nat
<1>1. Kept(t) \subseteq Node BY DEF Kept, Holders, RestartTypeInv
<1> QED BY <1>1, NodeFinite, FS_Subset, FS_CardinalityType

LEMMA KeptGrowsStep ==
  ASSUME RestartTypeInv, [RestartNext]_restartVars
  PROVE  KeptGrows
<1> SUFFICES ASSUME NEW t \in Txn, NEW p \in Kept(t) PROVE p \in Kept(t)'
  BY DEF KeptGrows
<1>1. TypeInv /\ payments \in [Node -> [Txn -> Entry]]
  BY DEF RestartTypeInv, TypeInv, TypeOK, NodeTypeOK
<1>2. CASE p \in restarted
  <2>1. restarted \subseteq restarted' BY RestartSteps DEF RestartNode
  <2> QED BY <1>2, <2>1 DEF Kept
<1>3. CASE p \in Holders(t)
  <2>1. CASE [Next]_vars
    <3>1. Holders(t) \subseteq Holders(t)' BY <1>1, <2>1, HoldersGrowStep DEF HoldersGrow
    <3> QED BY <1>3, <3>1 DEF Kept
  <2>2. ASSUME NEW n \in Node, RestartNode(n) PROVE p \in Kept(t)'
    <3>1. CASE p = n BY <2>2, <3>1 DEF RestartNode, Kept
    <3>2. CASE p # n
      <4>1. payments'[p] = payments[p] BY <1>1, <1>3, <2>2, <3>2 DEF RestartNode, Holders
      <4> QED BY <1>3, <4>1 DEF Holders, HasPayment, Kept
    <3> QED BY <3>1, <3>2
  <2> QED BY <2>1, <2>2, RestartSteps
<1> QED BY <1>2, <1>3 DEF Kept

(* What a step leaves alone stays true.                                    *)
LEMMA DatagramsKept ==
  ASSUME NodeTypeOK, RoundsKept, KeptGrows, NEW k \in net
  PROVE  ReplicaKept(k)' /\ AckKept(k)'
<1>1. ReplicaKept(k) /\ AckKept(k) BY DEF RoundsKept
<1>2. k.type \in {"PAYMENT_REPLICATE", "PAYMENT_ACK"} => k.txn \in Txn
  BY DatagramFields DEF NodeTypeOK
<1>3. k.type \in {"PAYMENT_REPLICATE", "PAYMENT_ACK"} => Kept(k.txn) \subseteq Kept(k.txn)'
  BY <1>2 DEF KeptGrows
<1> QED BY <1>1, <1>3 DEF ReplicaKept, AckKept

LEMMA CountersKept ==
  ASSUME RoundsKept, KeptGrows, NEW n \in Node, NEW t \in Txn,
         acks'[n][t] = acks[n][t], worker'[n][t] = "idle" \/ worker[n][t] # "idle"
  PROVE  RoundKept(n, t)' /\ SecondKept(n, t)'
<1>1. RoundKept(n, t) /\ SecondKept(n, t) /\ Kept(t) \subseteq Kept(t)'
  BY DEF RoundsKept, KeptGrows
<1> QED BY <1>1 DEF RoundKept, SecondKept

(* Replicas and acknowledgements: the handlers of a round.                 *)
LEMMA CreateKeeps ==
  ASSUME NodeTypeOK, NodeTypeOK', RoundsKept, KeptGrows, NEW m \in net, HandlePaymentCreate(m)
  PROVE  RoundsKept'
<1> DEFINE l == m.dst
           s == m.txn
<1>1. m \in Datagram /\ l \in Node /\ s \in Txn
  BY DatagramFields DEF HandlePaymentCreate, NodeTypeOK
<1>2. l \in Kept(s)'
  <2>1. HasPayment(l, s)'
    BY <1>1 DEF HandlePaymentCreate, SavePayment, HasPayment, NodeTypeOK, Pending
  <2> QED BY <1>1, <2>1 DEF Kept, Holders
<1>3. /\ acks'[l][s] = 1
      /\ \A n \in Node, t \in Txn :
           ~(n = l /\ t = s) => acks'[n][t] = acks[n][t] /\ worker'[n][t] = worker[n][t]
  BY <1>1 DEF HandlePaymentCreate, NodeTypeOK, OwnAck
<1>4. ASSUME NEW n \in Node, NEW t \in Txn PROVE RoundKept(n, t)' /\ SecondKept(n, t)'
  <2> HIDE DEF l, s
  <2>1. CASE n = l /\ t = s BY <1>2, <1>3, <2>1 DEF RoundKept, SecondKept
  <2>2. CASE ~(n = l /\ t = s)
    <3>1. RoundKept(n, t) /\ SecondKept(n, t) /\ Kept(t) \subseteq Kept(t)'
      BY DEF RoundsKept, KeptGrows
    <3> QED BY <1>3, <2>2, <3>1 DEF RoundKept, SecondKept
  <2> QED BY <2>1, <2>2
<1>5. ASSUME NEW k \in net' PROVE ReplicaKept(k)' /\ AckKept(k)'
  <2>1. CASE k \in net BY <2>1, DatagramsKept
  <2>2. CASE k \notin net
    <3>1. k \in ReplicateToFollowers(l, s, m.val)
      BY <2>2 DEF HandlePaymentCreate, Deliver
    <3>2. k.type = "PAYMENT_REPLICATE" /\ k.src = l /\ k.txn = s /\ k.dst # l
      BY <3>1 DEF ReplicateToFollowers, PeersExcluding, Replicate
    <3> QED BY <1>2, <3>2 DEF ReplicaKept, AckKept
  <2> QED BY <2>1, <2>2
<1> QED BY <1>4, <1>5 DEF RoundsKept

LEMMA ReplicaKeeps ==
  ASSUME NodeTypeOK, NodeTypeOK', RoundsKept, KeptGrows, NEW m \in net, HandleReplicatedPayment(m)
  PROVE  RoundsKept'
<1>1. m \in Datagram /\ m.dst \in Node /\ m.src \in Node /\ m.txn \in Txn
  BY DatagramFields DEF HandleReplicatedPayment, NodeTypeOK
<1>2. m.dst \in Kept(m.txn)'
  <2>1. HasPayment(m.dst, m.txn)'
    BY <1>1 DEF HandleReplicatedPayment, SavePayment, HasPayment, NodeTypeOK, Replicated, Pending
  <2> QED BY <1>1, <2>1 DEF Kept, Holders
<1>3. m.src \in Kept(m.txn)' /\ m.src # m.dst
  BY <1>1 DEF RoundsKept, ReplicaKept, KeptGrows, HandleReplicatedPayment
<1>4. ASSUME NEW k \in net' PROVE ReplicaKept(k)' /\ AckKept(k)'
  <2>1. CASE k \in net BY <2>1, DatagramsKept
  <2>2. CASE k \notin net
    <3>1. k = Ack(m.dst, m.src, m.txn) BY <2>2 DEF HandleReplicatedPayment, Deliver
    <3>2. k.type = "PAYMENT_ACK" /\ k.src = m.dst /\ k.dst = m.src /\ k.txn = m.txn
      BY <3>1 DEF Ack
    <3> QED BY <1>2, <1>3, <3>2 DEF ReplicaKept, AckKept
  <2> QED BY <2>1, <2>2
<1>5. acks' = acks /\ worker' = worker BY DEF HandleReplicatedPayment, workerVars
<1> QED BY <1>4, <1>5, CountersKept DEF RoundsKept

(* The only step that counts: from then on both ends of the datagram do,   *)
(* whatever was counted before.                                            *)
LEMMA AckKeeps ==
  ASSUME NodeTypeOK, NodeTypeOK', RoundsKept, KeptGrows, NEW m \in net, HandlePaymentAck(m)
  PROVE  RoundsKept'
<1>1. m \in Datagram /\ m.type = "PAYMENT_ACK" /\ m.dst \in Node /\ m.txn \in Txn
  BY DatagramFields DEF HandlePaymentAck, NodeTypeOK
<1>2. m.src \in Kept(m.txn)' /\ m.dst \in Kept(m.txn)' /\ m.src # m.dst
  BY <1>1 DEF RoundsKept, AckKept, KeptGrows
<1>3. worker' = worker /\ acks' = [acks EXCEPT ![m.dst][m.txn] = @ + 1]
  BY DEF HandlePaymentAck, workerVars
<1>4. ASSUME NEW n \in Node, NEW t \in Txn PROVE RoundKept(n, t)' /\ SecondKept(n, t)'
  <2>1. CASE n = m.dst /\ t = m.txn BY <1>2, <2>1 DEF RoundKept, SecondKept
  <2>2. CASE ~(n = m.dst /\ t = m.txn)
    <3>1. acks'[n][t] = acks[n][t] BY <1>1, <1>3, <2>2 DEF NodeTypeOK
    <3>2. RoundKept(n, t) /\ SecondKept(n, t) /\ Kept(t) \subseteq Kept(t)'
      BY DEF RoundsKept, KeptGrows
    <3> QED BY <1>3, <3>1, <3>2 DEF RoundKept, SecondKept
  <2> QED BY <2>1, <2>2
<1>5. ASSUME NEW k \in net' PROVE ReplicaKept(k)' /\ AckKept(k)'
  <2>1. k \in net BY DEF HandlePaymentAck, Deliver
  <2> QED BY <2>1, DatagramsKept
<1> QED BY <1>4, <1>5 DEF RoundsKept

(* The steps that take no part in a round add other datagrams at most.     *)
LEMMA OthersKeep ==
  ASSUME NodeTypeOK, RoundsKept, KeptGrows, acks' = acks,
         \A n \in Node, t \in Txn : worker[n][t] = "idle" => worker'[n][t] = "idle",
         \A k \in net' : k \in net \/ k.type \notin {"PAYMENT_REPLICATE", "PAYMENT_ACK"}
  PROVE  RoundsKept'
<1>1. ASSUME NEW n \in Node, NEW t \in Txn PROVE RoundKept(n, t)' /\ SecondKept(n, t)'
  BY CountersKept
<1>2. ASSUME NEW k \in net' PROVE ReplicaKept(k)' /\ AckKept(k)'
  <2>1. CASE k \in net BY <2>1, DatagramsKept
  <2>2. CASE k \notin net BY <2>2 DEF ReplicaKept, AckKept
  <2> QED BY <2>1, <2>2
<1> QED BY <1>1, <1>2 DEF RoundsKept

LEMMA ClusterKeeps ==
  ASSUME TypeInv, TypeInv', RoundsKept, KeptGrows, [Next]_vars
  PROVE  RoundsKept'
<1> USE DEF workerVars, ledgerVars, netVars
<1>1. NodeTypeOK /\ NodeTypeOK' BY DEF TypeInv, TypeOK
<1> DEFINE OtherDatagrams ==
      \A k \in net' : k \in net \/ k.type \notin {"PAYMENT_REPLICATE", "PAYMENT_ACK"}
<1>2. ASSUME NEW m \in net, HandleDatagram(m) \/ Lose(m) PROVE RoundsKept'
  <2>1. CASE HandlePaymentCreate(m) BY <1>1, <2>1, CreateKeeps
  <2>2. CASE HandleReplicatedPayment(m) BY <1>1, <2>2, ReplicaKeeps
  <2>3. CASE HandlePaymentAck(m) BY <1>1, <2>3, AckKeeps
  <2>4. CASE \/ HandleCommitPayment(m) \/ HandleRecoveryRequest(m) \/ HandleRecoveryData(m)
             \/ HandleRefused(m) \/ Lose(m)
    <3>1. acks' = acks /\ worker' = worker
      BY <2>4 DEF HandleCommitPayment, HandleRecoveryRequest, HandleRecoveryData, HandleRefused, Lose
    <3>2. OtherDatagrams
      <4>1. net' \subseteq net \cup {RecoveryData(m.dst, m.src, CommittedPayments(m.dst))}
        BY <2>4 DEF HandleCommitPayment, HandleRecoveryRequest, HandleRecoveryData, HandleRefused,
           Lose, Deliver
      <4>2. RecoveryData(m.dst, m.src, CommittedPayments(m.dst)).type = "RECOVERY_DATA"
        BY DEF RecoveryData
      <4> HIDE DEF RecoveryData
      <4> QED BY <4>1, <4>2
    <3> QED BY <1>1, <3>1, <3>2, OthersKeep
  <2> QED BY <1>2, <2>1, <2>2, <2>3, <2>4 DEF HandleDatagram
<1>3. ASSUME NEW n \in Node, NEW t \in Txn, Worker(n, t) PROVE RoundsKept'
  <2> USE <1>3 DEF Worker, WorkerTick, WorkerTimeout, MarkCommittedRead, MarkCommittedSave,
                   MarkCommittedLog, BroadcastCommit
  <2>1. acks' = acks OBVIOUS
  <2>2. \A p \in Node, s \in Txn : worker[p][s] = "idle" => worker'[p][s] = "idle"
    <3>1. worker[n][t] # "idle" OBVIOUS
    <3>2. PICK w : worker' = [worker EXCEPT ![n][t] = w] OBVIOUS
    <3> QED BY ONLY <1>1, <3>1, <3>2 DEF NodeTypeOK
  <2>3. OtherDatagrams
    <3>1. net' \subseteq net \cup CommitToFollowers(n, t) BY DEF Send
    <3>2. \A k \in CommitToFollowers(n, t) : k.type = "PAYMENT_COMMIT"
      BY ONLY DEF CommitToFollowers, CommitsTo, Commit
    <3> QED BY ONLY <3>1, <3>2
  <2> QED BY <1>1, <2>1, <2>2, <2>3, OthersKeep
<1>4. ASSUME \/ \E c \in Control : HandleControl(c) \/ LoseControl(c)
             \/ \E n \in Node : \/ RejoinRecovery(n)
                                \/ StartupRecovery(n)
                                \/ SendHeartbeats(n)
                                \/ \E l \in LeaderId : HandleHeartbeat(n, l)
             \/ ApiStep
             \/ UNCHANGED vars
      PROVE  RoundsKept'
  <2>1. acks' = acks /\ worker' = worker
    BY <1>4 DEF HandleControl, HandleNodeFail, HandleNodeRejoin, HandleLeaderChange, LoseControl,
       RejoinRecovery, StartupRecovery, SendHeartbeats, HandleHeartbeat, ApiStep, vars, nodeVars
  <2>2. OtherDatagrams BY <1>4, TimersAndApiSend
  <2> QED BY <1>1, <2>1, <2>2, OthersKeep
<1>5. ASSUME NEW n \in Node, FinishHandling(n) PROVE RoundsKept'
  <2>1. acks' = acks /\ worker' = worker /\ net' = net
    BY <1>5 DEF FinishHandling, CommitSave, LogCommit
  <2> QED BY <1>1, <2>1, OthersKeep
<1> QED BY <1>2, <1>3, <1>4, <1>5 DEF Next, NodeStep, NodeNext

(* A restart resets one node's counters and goroutines, and drops          *)
(* datagrams.                                                              *)
LEMMA RestartKeeps ==
  ASSUME TypeInv, RoundsKept, KeptGrows, NEW n \in Node, RestartNode(n)
  PROVE  RoundsKept'
<1>1. NodeTypeOK BY DEF TypeInv, TypeOK
<1>2. net' \subseteq net BY DEF RestartNode, LosesDatagrams
<1>3. ASSUME NEW p \in Node, NEW t \in Txn PROVE RoundKept(p, t)' /\ SecondKept(p, t)'
  <2>1. CASE p = n
    <3>1. acks'[p][t] = 0 /\ worker'[p][t] = "idle"
      BY <1>1, <2>1 DEF RestartNode, NodeTypeOK
    <3> QED BY <3>1 DEF RoundKept, SecondKept
  <2>2. CASE p # n
    <3>1. acks'[p][t] = acks[p][t] /\ worker'[p][t] = worker[p][t]
      BY <1>1, <2>2 DEF RestartNode, NodeTypeOK
    <3> QED BY <3>1, CountersKept
  <2> QED BY <2>1, <2>2
<1>4. ASSUME NEW k \in net' PROVE ReplicaKept(k)' /\ AckKept(k)'
  BY <1>1, <1>2, DatagramsKept
<1> QED BY <1>3, <1>4 DEF RoundsKept

-----------------------------------------------------------------------------
(* A majority of two is two nodes in Kept, whatever the counter counted.   *)
LEMMA MajorityKept ==
  ASSUME Required <= 2, RestartTypeInv, RoundsKept, NEW n \in Node, NEW t \in Txn,
         HasMajority(n, t)
  PROVE  Cardinality(Kept(t)) >= Required
<1>1. acks[n][t] \in Nat /\ acks[n][t] >= Required
  BY DEF RestartTypeInv, TypeInv, TypeOK, NodeTypeOK, HasMajority
<1>2. n \in Kept(t)
  <2>1. acks[n][t] # 0 BY <1>1, RequiredType
  <2> QED BY <2>1 DEF RoundsKept, RoundKept
<1>3. IsFiniteSet(Kept(t)) /\ Cardinality(Kept(t)) \in Nat BY KeptFinite
<1>4. CASE Required = 1
  <2>1. Cardinality({n}) = 1 BY FS_Singleton
  <2>2. Cardinality({n}) <= Cardinality(Kept(t))
    <3>1. {n} \subseteq Kept(t) BY <1>2
    <3> QED BY <1>3, <3>1, FS_Subset
  <2> QED BY <1>3, <1>4, <2>1, <2>2
<1>5. CASE Required = 2
  <2>1. acks[n][t] >= 2 BY <1>1, <1>5
  <2>2. PICK m \in Kept(t) : m # n BY <2>1 DEF RoundsKept, SecondKept
  <2>3. IsFiniteSet({n}) /\ Cardinality({n}) = 1 BY FS_Singleton
  <2>4. Cardinality({n} \cup {m}) = Cardinality({n}) + 1 BY <2>2, <2>3, FS_AddElement
  <2>5. {n} \cup {m} \subseteq Kept(t) BY <1>2, <2>2
  <2>6. Cardinality({n} \cup {m}) <= Cardinality(Kept(t)) BY <1>3, <2>5, FS_Subset
  <2> QED BY <1>3, <1>5, <2>3, <2>4, <2>6
<1> QED BY <1>4, <1>5, RequiredType

(* Nothing is decided by a restart.                                        *)
LEMMA RestartDecidesNothing ==
  ASSUME TypeInv, NEW n \in Node, RestartNode(n), NEW t \in Txn, Decided(t)'
  PROVE  Decided(t)
<1>1. NodeTypeOK /\ ApiTypeOK BY DEF TypeInv, TypeOK
<1>2. CommitInFlight(t)' => CommitInFlight(t)
  BY DEF RestartNode, LosesDatagrams, CommitInFlight
<1>3. apiPayments' = apiPayments BY DEF RestartNode, apiVars
<1>4. ASSUME NEW p \in Node, IsCommitted(p, t)' \/ Convinced(p, t)'
      PROVE  IsCommitted(p, t) \/ Convinced(p, t)
  <2>1. CASE p = n
    <3>1. payments'[p][t] = Absent /\ worker'[p][t] = "idle"
      BY <1>1, <2>1 DEF RestartNode, NodeTypeOK
    <3> QED BY <1>4, <3>1 DEF IsCommitted, Convinced, Absent
  <2>2. CASE p # n
    <3>1. payments'[p] = payments[p] /\ worker'[p] = worker[p]
      BY <1>1, <2>2 DEF RestartNode, NodeTypeOK
    <3> QED BY <1>4, <3>1 DEF IsCommitted, Convinced
  <2> QED BY <2>1, <2>2
<1>5. InHand(t)' => InHand(t)
  <2>1. logged' = logged BY DEF RestartNode, OpenLog, WriteStartLine
  <2>2. \A p \in Node : held'[p] \subseteq held[p] /\ unlogged'[p] \subseteq unlogged[p]
    BY <1>1 DEF RestartNode, NodeTypeOK
  <2> QED BY <2>1, <2>2 DEF InHand
<1> QED BY <1>2, <1>3, <1>4, <1>5 DEF Decided

LEMMA DecidedKeptStep ==
  ASSUME Required <= 2, RestartTypeInv, RestartTypeInv', RoundsKept, DecidedKept,
         [RestartNext]_restartVars
  PROVE  DecidedKept'
<1> SUFFICES ASSUME NEW t \in Txn, Decided(t)' PROVE Cardinality(Kept(t)') >= Required
  BY DEF DecidedKept, Required
<1>1. Decided(t) \/ \E n \in Node : HasMajority(n, t)
  BY RestartSteps, DecidedStep, RestartDecidesNothing DEF RestartTypeInv
<1>2. Cardinality(Kept(t)) >= Required BY <1>1, MajorityKept DEF DecidedKept
<1>3. Kept(t) \subseteq Kept(t)' BY KeptGrowsStep DEF KeptGrows
<1>4. Kept(t)' \subseteq Node BY DEF RestartTypeInv, Kept, Holders
<1>5. IsFiniteSet(Kept(t)') /\ Cardinality(Kept(t)') \in Nat
  BY <1>4, NodeFinite, FS_Subset, FS_CardinalityType
<1>6. Cardinality(Kept(t)) <= Cardinality(Kept(t)') BY <1>3, <1>5, FS_Subset
<1> QED BY <1>2, <1>5, <1>6, KeptFinite, RequiredType

LEMMA KeptInit == RestartInit => RoundsKept /\ DecidedKept
<1> SUFFICES ASSUME RestartInit PROVE RoundsKept /\ DecidedKept OBVIOUS
<1>1. RoundsKept
  BY DEF RestartInit, Init, NodeInit, RoundsKept, RoundKept, SecondKept
<1>2. \A t \in Txn : ~Decided(t)
  BY DEF RestartInit, Init, NodeInit, ApiInit, Decided, IsCommitted, Convinced, CommitInFlight,
     InHand, Absent
<1> QED BY <1>1, <1>2 DEF DecidedKept

(* With up to three nodes, a payment is committed, announced, listed or    *)
(* logged only when a majority of the nodes held it, and each of these     *)
(* holds it still unless its process was restarted: whatever is lost,      *)
(* repeated or counted by a process that no longer knows what it counts.   *)
THEOREM CommitSurvivesRestarts ==
  Required <= 2 => (RestartSpec => []HeldUnlessRestarted)
<1> SUFFICES ASSUME Required <= 2 PROVE RestartSpec => []HeldUnlessRestarted OBVIOUS
<1>1. RestartInit => RoundsKept /\ DecidedKept BY KeptInit
<1>2. /\ RestartTypeInv /\ RestartTypeInv' /\ RoundsKept /\ DecidedKept
      /\ [RestartNext]_restartVars
      => RoundsKept' /\ DecidedKept'
  <2> SUFFICES ASSUME RestartTypeInv, RestartTypeInv', RoundsKept, DecidedKept,
                      [RestartNext]_restartVars
               PROVE  RoundsKept' /\ DecidedKept'
    OBVIOUS
  <2>1. RoundsKept'
    BY RestartSteps, KeptGrowsStep, ClusterKeeps, RestartKeeps DEF RestartTypeInv
  <2> QED BY <2>1, DecidedKeptStep
<1>3. DecidedKept => HeldUnlessRestarted
  BY DEF DecidedKept, HeldUnlessRestarted, Decided, CommitKnown, Kept
<1> QED BY <1>1, <1>2, <1>3, RestartTypeInvariance, PTL DEF RestartSpec
=============================================================================
