----------------------------- MODULE NodeState -----------------------------
(***************************************************************************)
(* The state of the node processes (one record of types.Node each, the     *)
(* acknowledgement map of the replication service, the goroutines main.go  *)
(* starts), their log files and the UDP network between them.              *)
(*                                                                         *)
(* A node handles its datagrams one at a time on the goroutine of its UDP  *)
(* server, which reads no datagram before the last one is dealt with.  The *)
(* goroutines that run beside it have steps of their own: see worker,      *)
(* startup and recovering.                                                 *)
(***************************************************************************)
EXTENDS PaymentTypes, NodeRole

CONSTANTS
  MaxDups,        \* bound: datagrams delivered a second time, over a run
  Lossy,          \* whether the network may lose a datagram
  Hearing,        \* bound: the nodes that heartbeats of others reach
  Starting,       \* the nodes up for less than 3 s when a behaviour begins
  LogWindow       \* lines of a log file that are looked at: 500 in the code
ASSUME NetworkAssumption == MaxDups \in Nat /\ Lossy \in BOOLEAN
ASSUME StartingAssumption == Starting \subseteq Node /\ Hearing \subseteq Node
ASSUME LogWindowAssumption == LogWindow \in Nat \ {0}

VARIABLES
  payments,     \* Node.Payments
  acks,         \* Service.acks
  worker,       \* the commit goroutine of each transaction a node created
  draft,        \* the value in the copy that goroutine's MarkCommitted holds
  held,         \* the copy HandleCommitPayment is about to save, if it runs
  unlogged,     \* the lines the UDP goroutine's handler has still to log
  logged,       \* the last line of a payment in the node's log file
  since,        \* how many lines were written after it (at all, if there
                \* is no such line), up to LogWindow
  startup,      \* is the recovery goroutine main starts still asleep?
  recovering,   \* how many goroutines a NODE_REJOIN started are still asleep
  net,          \* datagrams in flight; reordered, lost, delivered twice
  ctrl,         \* copies in flight of each control datagram
  claims,       \* leaders that heartbeats have named, see Heartbeat
  dups          \* datagrams delivered a second time so far

ledgerVars == <<payments, acks>>
workerVars == <<worker, draft>>
handlerVars == <<held, unlogged>>
logVars == <<logged, since>>
timerVars == <<startup, recovering>>
netVars == <<net, ctrl, claims, dups>>
nodeVars == <<roleVars, ledgerVars, workerVars, handlerVars, logVars, timerVars, netVars>>

(* The commit goroutine: "waiting" on its ticker, "marking" between        *)
(* HasMajority and MarkCommitted's read of the entry, "saving" between     *)
(* that read and the write, "logging" between the write and its log line,  *)
(* "broadcasting" before BroadcastCommit reads the entry, then gone:       *)
(* "done", or "timedout" without a majority.                               *)
WorkerState ==
  {"idle", "waiting", "marking", "saving", "logging", "broadcasting", "done", "timedout"}

(* The payment in HandleCommitPayment's hands with its shouldLog, and what *)
(* logCommittedPayment writes.                                             *)
Copy == [txn : Txn, val : Value, shouldLog : BOOLEAN]
Line == [txn : Txn, val : Value]

NodeTypeOK ==
  /\ RoleTypeOK
  /\ payments \in [Node -> [Txn -> Entry]]
  /\ acks \in [Node -> [Txn -> Nat]]
  /\ worker \in [Node -> [Txn -> WorkerState]]
  /\ draft \in [Node -> [Txn -> Value \cup {NoValue}]]
  /\ held \in [Node -> SUBSET Copy]
  /\ unlogged \in [Node -> SUBSET Line]
  /\ logged \in [Node -> [Txn -> Value \cup {NoValue}]]
  /\ since \in [Node -> [Txn -> 0..LogWindow]]
  /\ startup \in [Node -> BOOLEAN]
  /\ recovering \in [Node -> Nat]
  /\ net \subseteq Datagram
  /\ ctrl \in [Control -> Nat]
  /\ claims \subseteq LeaderId
  /\ dups \in Nat

-----------------------------------------------------------------------------
(* nodeStore *)
HasPayment(n, t) == payments[n][t].status # "absent"
IsCommitted(n, t) == payments[n][t].status = "committed"
SavePayment(n, t, e) == payments' = [payments EXCEPT ![n][t] = e]

(* The nodes whose ledger holds a transaction.                             *)
Holders(t) == {n \in Node : HasPayment(n, t)}

-----------------------------------------------------------------------------
(* A log file: a line is appended.  Of a transaction only its last line    *)
(* counts, and only while it is among the file's last LogWindow lines.     *)
OneMore(k) == IF k < LogWindow THEN k + 1 ELSE k

WriteLine(n, t, v) ==
  /\ logged' = [logged EXCEPT ![n][t] = v]
  /\ since' = [since EXCEPT ![n] = [u \in Txn |-> IF u = t THEN 0 ELSE OneMore(@[u])]]

(* UDPServer.Start's "UDP server listening" line.                          *)
WriteStartLine(n) ==
  /\ since' = [since EXCEPT ![n] = [u \in Txn |-> OneMore(@[u])]]
  /\ UNCHANGED logged

-----------------------------------------------------------------------------
(* The handler of the last datagram has returned.                          *)
Idle(n) == held[n] = {} /\ unlogged[n] = {}

(* UDPClient.Send and UDPServer's read loop.  A datagram that is read      *)
(* leaves the network unless the network delivers it a second time.        *)
Send(out) == net' = net \cup out

Deliver(m, out) ==
  /\ m \in net
  /\ Idle(m.dst)
  /\ \/ net' = (net \ {m}) \cup out /\ dups' = dups
     \/ dups < MaxDups /\ net' = net \cup out /\ dups' = dups + 1

Lose(m) ==
  /\ Lossy
  /\ m \in net
  /\ net' = net \ {m}
  /\ UNCHANGED <<roleVars, ledgerVars, workerVars, handlerVars, logVars, timerVars, ctrl, claims, dups>>

(* One copy of a control datagram reaches its node, or is lost.            *)
OneCopyLess(c) ==
  /\ ctrl[c] > 0
  /\ ctrl' = [ctrl EXCEPT ![c] = @ - 1]

TakeControl(c) == Idle(c.dst) /\ OneCopyLess(c)

LoseControl(c) ==
  /\ Lossy
  /\ OneCopyLess(c)
  /\ UNCHANGED <<roleVars, ledgerVars, workerVars, handlerVars, logVars, timerVars, net, claims, dups>>
=============================================================================
