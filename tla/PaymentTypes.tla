---------------------------- MODULE PaymentTypes ----------------------------
(***************************************************************************)
(* The ledger entries (internal/types/payment.go) and the datagrams        *)
(* (internal/types/message.go) that nodes and the API server exchange, but *)
(* for the control datagrams, which are in NodeRole.                       *)
(*                                                                         *)
(* A datagram keeps the fields a handler reads.  A payment's amount and    *)
(* owner are one member of Value; the fields that are copied along with    *)
(* them (currency, timestamp, version, stripe id) are part of it.          *)
(***************************************************************************)
EXTENDS ClusterConfig

CONSTANTS
  Txn,       \* transaction ids
  Value,     \* what a client may ask to pay: (amount, owner)
  NoValue    \* what stands for "no value" in an absent ledger entry
ASSUME ValueAssumption == NoValue \notin Value

-----------------------------------------------------------------------------
(* Ledger entries.  "absent" is a transaction id the Payments map lacks.   *)
Absent == [status |-> "absent", val |-> NoValue]
Pending(v) == [status |-> "pending", val |-> v]
Committed(v) == [status |-> "committed", val |-> v]

Entry == [status : {"absent"}, val : {NoValue}] \cup [status : {"pending", "committed"}, val : Value]

-----------------------------------------------------------------------------
(* Datagrams between nodes, and the PAYMENT_CREATE of the API server.      *)
Create(n, t, v) ==
  [type |-> "PAYMENT_CREATE", dst |-> n, txn |-> t, val |-> v]
Replicate(n, m, t, v) ==
  [type |-> "PAYMENT_REPLICATE", src |-> n, dst |-> m, txn |-> t, val |-> v]
Ack(n, m, t) ==
  [type |-> "PAYMENT_ACK", src |-> n, dst |-> m, txn |-> t]
Commit(n, m, t, v) ==
  [type |-> "PAYMENT_COMMIT", src |-> n, dst |-> m, txn |-> t, val |-> v]
RecoveryRequest(n, m) ==
  [type |-> "RECOVERY_REQ", src |-> n, dst |-> m]
RecoveryData(n, m, list) ==
  [type |-> "RECOVERY_DATA", src |-> n, dst |-> m, payments |-> list]

(* The "payments" list of a RECOVERY_DATA: the committed value of each     *)
(* transaction it carries, NoValue for the others.                         *)
PaymentList == [Txn -> Value \cup {NoValue}]

Datagram ==
       [type : {"PAYMENT_CREATE"}, dst : Node, txn : Txn, val : Value]
  \cup [type : {"PAYMENT_REPLICATE"}, src : Node, dst : Node, txn : Txn, val : Value]
  \cup [type : {"PAYMENT_ACK"}, src : Node, dst : Node, txn : Txn]
  \cup [type : {"PAYMENT_COMMIT"}, src : Node, dst : Node, txn : Txn, val : Value]
  \cup [type : {"RECOVERY_REQ"}, src : Node, dst : Node]
  \cup [type : {"RECOVERY_DATA"}, src : Node, dst : Node, payments : PaymentList]
=============================================================================
