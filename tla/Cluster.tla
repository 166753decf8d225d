------------------------------ MODULE Cluster ------------------------------
(***************************************************************************)
(* The running system: the node processes and the API server, which share  *)
(* the network.  What must hold of the ledgers, and what must happen.      *)
(***************************************************************************)
EXTENDS PaymentNode, ApiServer

vars == <<nodeVars, apiVars>>

Init == NodeInit /\ ApiInit

NodeStep == NodeNext /\ UNCHANGED apiVars
ApiStep == ApiNext /\ UNCHANGED <<roleVars, ledgerVars, workerVars, handlerVars, logVars, timerVars, claims, dups>>

Next == NodeStep \/ ApiStep

Spec == Init /\ [][Next]_vars

(***************************************************************************)
(* Fairness.  A node's UDP goroutine keeps reading while datagrams wait; a *)
(* commit goroutine's ticker and timer both fire, so it does not stay in   *)
(* one place; sleeping goroutines wake up; the dashboard polls.  Which     *)
(* datagram is read next, and whether anybody fails a node or asks for a   *)
(* payment, is left open.                                                  *)
(***************************************************************************)
HandleOneDatagram(n) ==
  /\ FinishHandling(n) \/ \E m \in net : m.dst = n /\ HandleDatagram(m)
  /\ UNCHANGED apiVars
HandleOneControl(n) == \E c \in Control : c.dst = n /\ HandleControl(c) /\ UNCHANGED apiVars
OneWorkerStep(n, t) == Worker(n, t) /\ UNCHANGED apiVars
WakeUp(n) == (RejoinRecovery(n) \/ StartupRecovery(n)) /\ UNCHANGED apiVars
Poll == GetDashboard /\ UNCHANGED <<roleVars, ledgerVars, workerVars, handlerVars, logVars, timerVars, claims, dups>>

Fairness ==
  /\ \A n \in Node : WF_vars(HandleOneDatagram(n))
  /\ \A n \in Node : WF_vars(HandleOneControl(n))
  /\ \A n \in Node, t \in Txn : WF_vars(OneWorkerStep(n, t))
  /\ \A n \in Node : WF_vars(WakeUp(n))
  /\ WF_vars(Poll)

FairSpec == Spec /\ Fairness
-----------------------------------------------------------------------------
(* Every variable keeps its type.                                          *)
TypeOK == NodeTypeOK /\ ApiTypeOK

(* Service.acks counts datagrams, not peers: it exceeds the number of      *)
(* nodes that hold the payment by at most the datagrams the network        *)
(* delivered a second time.                                                *)
AckCountSound ==
  \A n \in Node, t \in Txn : acks[n][t] <= Cardinality(Holders(t)) + dups

(* A COMMIT or a RECOVERY_DATA in flight that commits t.                   *)
CommitInFlight(t) ==
  \E m \in net : \/ m.type = "PAYMENT_COMMIT" /\ m.txn = t
                 \/ m.type = "RECOVERY_DATA" /\ m.payments[t] # NoValue

(* A payment is committed anywhere, or on its way to be, or shown as       *)
(* committed by the dashboard.                                             *)
CommitKnown(t) ==
  \/ \E n \in Node : IsCommitted(n, t)
  \/ CommitInFlight(t)
  \/ apiPayments[t].status = "committed"

(* That is so only when a majority of the nodes holds the payment.         *)
CommittedOnMajority == \A t \in Txn : CommitKnown(t) => Cardinality(Holders(t)) >= Required

(* Between MarkCommitted's read and its write the entry is the one that    *)
(* was read, unless another leader's commit has reached it meanwhile.      *)
DraftFresh ==
  \A n \in Node, t \in Txn :
    worker[n][t] = "saving" =>
      payments[n][t] = Pending(draft[n][t]) \/ IsCommitted(n, t)

(* No step of any actor makes a ledger forget a payment or turns a         *)
(* committed payment back to pending.                                      *)
LedgerMonotone ==
  [][\A n \in Node, t \in Txn :
       /\ HasPayment(n, t) => HasPayment(n, t)'
       /\ IsCommitted(n, t) => IsCommitted(n, t)']_vars

(* The value of a committed entry is replaced in two cases only.  A commit *)
(* goroutine saves a copy older than the commit that overtook it; or, once *)
(* it has done so, the COMMIT handler that had read the overtaking commit  *)
(* before puts it back.                                                    *)
PastSaving == {"logging", "broadcasting", "done"}

LateMark(n, t) == worker[n][t] = "saving" /\ payments'[n][t] = Committed(draft[n][t])
PutBack(n, t) ==
  /\ worker[n][t] \in PastSaving
  /\ \E c \in held[n] : c.txn = t /\ ~c.shouldLog /\ payments'[n][t] = Committed(c.val)

CommittedValueStable ==
  [][\A n \in Node, t \in Txn :
       IsCommitted(n, t) /\ payments'[n][t] # payments[n][t] => LateMark(n, t) \/ PutBack(n, t)]_vars

(* Every committed entry has a line in its node's log, for a restarted API *)
(* server to find, or the one who committed it is about to write it.       *)
CommitsLogged ==
  \A n \in Node, t \in Txn :
    IsCommitted(n, t) =>
      \/ logged[n][t] # NoValue
      \/ worker[n][t] = "logging"
      \/ \E l \in unlogged[n] : l.txn = t

(* On a failed node no commit goroutine passes its isNodeActive check, and *)
(* the ledger changes only by one that passed it before the failure.       *)
FailedNodeFrozen ==
  [][\A n \in Node, t \in Txn :
       ~active[n] =>
         /\ worker'[n][t] = "saving" => worker[n][t] = "saving"
         /\ payments'[n][t] # payments[n][t] => worker[n][t] = "saving"]_vars

(* Each payment's copies go through the life the module Ledger describes.  *)
Statuses == [n \in Node |-> [t \in Txn |-> payments[n][t].status]]
Abstract == INSTANCE Ledger WITH ledger <- Statuses
ImplementsLedger == Abstract!Spec

-----------------------------------------------------------------------------
(* While no node fails and no datagram is lost, a payment a leader is      *)
(* collecting acknowledgements for is committed on every node, unless its  *)
(* commit goroutine gives up after 5 s.                                    *)
TimedOut(t) == \E n \in Node : worker[n][t] = "timedout"

CommittedEverywhere ==
  \A t \in Txn :
    (\E n \in Node : worker[n][t] = "waiting")
      ~> (TimedOut(t) \/ \A n \in Node : IsCommitted(n, t))

(* Under the same conditions the dashboard ends up showing a payment it    *)
(* accepted as committed, through any restart of the API server.           *)
DashboardSettles ==
  \A t \in Txn :
    apiPayments[t].status = "pending" ~> (TimedOut(t) \/ apiPayments[t].status = "committed")
=============================================================================
