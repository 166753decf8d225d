---------------------------- MODULE NodeRestart ----------------------------
(***************************************************************************)
(* Cluster with node processes that die and are started again (cmd/node is *)
(* run by hand, one process per node).  A process keeps its ledger, its    *)
(* acknowledgements and its goroutines in memory only: a restart loses     *)
(* them, and with them a copy that may have made a payment's majority.     *)
(* What survives is the log file, which the API server reads.              *)
(***************************************************************************)
EXTENDS Cluster

CONSTANTS
  Restarting,   \* bound: the nodes whose process may restart, once each
  MaxFaults     \* bound: these restarts, those of the API server and
                \* failures by request, taken together
ASSUME RestartAssumption == Restarting \subseteq Node /\ MaxFaults \in Nat

VARIABLES
  restarted,   \* the nodes whose process was restarted
  paid         \* history: the payments each node ever finished committing

restartVars == <<vars, restarted, paid>>

RestartTypeOK ==
  /\ TypeOK
  /\ restarted \subseteq Node
  /\ paid \in [Node -> SUBSET Txn]

RestartInit ==
  /\ Init
  /\ restarted = {}
  /\ paid = [n \in Node |-> {}]

-----------------------------------------------------------------------------
(* The process of n dies and main runs again.  A dead node takes no step,  *)
(* so that the time it is down is taken together with its start; of what   *)
(* was sent to it meanwhile, or waited in its socket, any part is gone.    *)
(* Mutation: the log file is opened with O_TRUNC instead of O_APPEND.      *)
OpenLogTruncated(n) ==
  /\ logged' = [logged EXCEPT ![n] = [t \in Txn |-> NoValue]]
  /\ since' = [since EXCEPT ![n] = [t \in Txn |-> 1]]
OpenLog(n) == WriteStartLine(n)

LosesDatagrams(n) ==
  LET waiting == {c \in Control : c.dst = n /\ ctrl[c] > 0} IN
  /\ \E gone \in SUBSET {m \in net : m.dst = n} : net' = net \ gone
  /\ \E left \in [waiting -> UNION {0..ctrl[c] : c \in waiting}] :
       /\ \A c \in waiting : left[c] <= ctrl[c]
       /\ ctrl' = [c \in Control |-> IF c \in waiting THEN left[c] ELSE ctrl[c]]

RestartNode(n) ==
  /\ n \in Restarting \ restarted
  /\ restarted' = restarted \cup {n}
  /\ ResetRole(n)
  /\ payments' = [payments EXCEPT ![n] = [t \in Txn |-> Absent]]
  /\ acks' = [acks EXCEPT ![n] = [t \in Txn |-> 0]]
  /\ worker' = [worker EXCEPT ![n] = [t \in Txn |-> "idle"]]
  /\ draft' = [draft EXCEPT ![n] = [t \in Txn |-> NoValue]]
  /\ startup' = [startup EXCEPT ![n] = TRUE]
  /\ recovering' = [recovering EXCEPT ![n] = 0]
  /\ held' = [held EXCEPT ![n] = {}]
  /\ unlogged' = [unlogged EXCEPT ![n] = {}]
  /\ OpenLog(n)
  /\ LosesDatagrams(n)
  /\ UNCHANGED <<claims, dups, apiVars>>

ClusterStep == Next /\ UNCHANGED restarted

(* The commit of t at n is finished: who saved it has gone on.             *)
Finished(n, t) ==
  /\ IsCommitted(n, t)
  /\ worker[n][t] # "logging"
  /\ \A l \in unlogged[n] : l.txn # t

Recorded == paid' = [n \in Node |-> paid[n] \cup {t \in Txn : Finished(n, t)'}]

Faults == fails + apiRestarts + Cardinality(restarted)

RestartNext ==
  /\ ClusterStep \/ \E n \in Node : RestartNode(n)
  /\ Recorded
  /\ Faults' <= MaxFaults

RestartSpec == RestartInit /\ [][RestartNext]_restartVars

(* Cluster's fairness; nobody is owed a restart.                           *)
Owed(A) == A /\ UNCHANGED restarted /\ Recorded

FairRestartSpec ==
  /\ RestartSpec
  /\ \A n \in Node : WF_restartVars(Owed(HandleOneDatagram(n)))
  /\ \A n \in Node : WF_restartVars(Owed(HandleOneControl(n)))
  /\ \A n \in Node, t \in Txn : WF_restartVars(Owed(OneWorkerStep(n, t)))
  /\ \A n \in Node : WF_restartVars(Owed(WakeUp(n)))

-----------------------------------------------------------------------------
(* A payment that is known to be committed was held by a majority: each of *)
(* these nodes holds it still or has lost its memory since.  It is claimed *)
(* of up to three nodes, the shipped configuration: with five, a restarted *)
(* leader may count acknowledgements of two rounds together.               *)
HeldUnlessRestarted ==
  \A t \in Txn : CommitKnown(t) => Cardinality(Holders(t) \cup restarted) >= Required

(* Through any restart of nodes and of the API server, a payment that a    *)
(* node the API server takes for running ever finished committing is not   *)
(* sent to a leader again, as long as its line is among the last LogWindow *)
(* of that node's log.                                                     *)
NotAcceptedAgain ==
  [][\A n \in Node, t \in Txn :
       status[n] = "Running" /\ t \in paid[n] /\ InWindow(n, t)
         => \A l \in Node, v \in Value : Create(l, t, v) \in net' => Create(l, t, v) \in net]_restartVars

(* While the first leader stays up and its process runs, and no datagram   *)
(* is lost but those to a dead process, a node that is up in the end has   *)
(* every payment the leader committed, for good, however often it failed   *)
(* and whenever it was restarted.                                          *)
LeaderStaysUp ==
  [](status[FirstLeader] = "Running" /\ active[FirstLeader] /\ FirstLeader \notin restarted)

CatchUpAfterRestart ==
  LeaderStaysUp =>
    \A n \in Node, t \in Txn :
      (<>[]active[n] /\ <>IsCommitted(FirstLeader, t)) => <>[]IsCommitted(n, t)
=============================================================================
