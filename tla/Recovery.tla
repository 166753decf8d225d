------------------------------ MODULE Recovery ------------------------------
(***************************************************************************)
(* internal/fault/recovery.go with its callers in cmd/node/main.go: a node *)
(* that starts late or rejoins asks the leader it knows for the committed  *)
(* payments and merges them into its ledger.                               *)
(*                                                                         *)
(* The merge holds the node's lock throughout and is one step; the lines   *)
(* it logs reach the log file one by one, where the API server and a crash *)
(* of the process can find some of them written and others not.            *)
(***************************************************************************)
EXTENDS NodeState

(* The datagram RequestRecovery sends, if any.                             *)
RequestRecovery(n) ==
  IF active[n] /\ knownLeader[n] # NoLeader THEN {RecoveryRequest(n, knownLeader[n])} ELSE {}

(* The goroutine of a NODE_REJOIN, after its 300 ms.                       *)
RejoinRecovery(n) ==
  /\ recovering[n] > 0
  /\ recovering' = [recovering EXCEPT ![n] = @ - 1]
  /\ Send(RequestRecovery(n))
  /\ UNCHANGED <<roleVars, ledgerVars, workerVars, handlerVars, logVars, startup, ctrl, claims, dups>>

(* The goroutine main starts, after its 3 s: only a follower asks.         *)
StartupRecovery(n) ==
  /\ startup[n]
  /\ startup' = [startup EXCEPT ![n] = FALSE]
  /\ Send(IF role[n] = "follower" THEN RequestRecovery(n) ELSE {})
  /\ UNCHANGED <<roleVars, ledgerVars, workerVars, handlerVars, logVars, recovering, ctrl, claims, dups>>

(* The committed payments HandleRecoveryRequest puts in its answer.        *)
(* Mutation: the pending ones as well.                                     *)
AllPayments(n) == [t \in Txn |-> payments[n][t].val]
CommittedPayments(n) ==
  [t \in Txn |-> IF IsCommitted(n, t) THEN payments[n][t].val ELSE NoValue]

(* main.go asks isLeader first, HandleRecoveryRequest only isActive.       *)
HandleRecoveryRequest(m) ==
  LET n == m.dst IN
  /\ m.type = "RECOVERY_REQ"
  /\ IsLeader(n)
  /\ Deliver(m, {RecoveryData(n, m.src, CommittedPayments(n))})
  /\ UNCHANGED <<roleVars, ledgerVars, workerVars, handlerVars, logVars, timerVars, ctrl, claims>>

(* HandleRecoveryData's merge of one record: a committed entry stays, a    *)
(* pending one takes every field of the record.  Mutations: the record is  *)
(* not checked; the ledger is replaced.                                    *)
RecoveredUnchecked(e, v) == IF e.status # "committed" THEN Committed(v) ELSE e
RecoveredReplacing(e, v) == IF v # NoValue THEN Committed(v) ELSE Absent
Recovered(e, v) == IF v # NoValue /\ e.status # "committed" THEN Committed(v) ELSE e

HandleRecoveryData(m) ==
  LET n == m.dst
      merged == [t \in Txn |-> Recovered(payments[n][t], m.payments[t])]
      changed == {t \in Txn : merged[t] # payments[n][t]} IN
  /\ m.type = "RECOVERY_DATA"
  /\ active[n]
  /\ payments' = [payments EXCEPT ![n] = merged]
  /\ unlogged' = [unlogged EXCEPT ![n] = {[txn |-> t, val |-> merged[t].val] : t \in changed}]
  /\ Deliver(m, {})
  /\ UNCHANGED <<roleVars, acks, workerVars, held, logVars, timerVars, ctrl, claims>>
=============================================================================
