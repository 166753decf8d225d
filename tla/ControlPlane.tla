---------------------------- MODULE ControlPlane ----------------------------
(***************************************************************************)
(* Who leads: what the API server believes (internal/api/handler.go), what *)
(* it has told the nodes, and what they do.  Node processes start and die  *)
(* in any order, and the API server learns of a start only from the node's *)
(* log, of which it looks at the last Window lines.                        *)
(*                                                                         *)
(* The API server sends on the loopback interface, where datagrams to one  *)
(* node stay in order: each node has a queue.  The module Cluster lets     *)
(* them overtake each other.                                               *)
(***************************************************************************)
EXTENDS NodeRole, Sequences

CONSTANTS
  Window,          \* the log lines hasNodeStarted looks at: 50
  ControlCopies,   \* sends of a NODE_FAIL or NODE_REJOIN: 5 in the code
  MaxWaiting,      \* bound: payments the nodes have not read
  MaxFaults        \* bound: failures by request, starts of node processes
                   \* and restarts of the API server, taken together
ASSUME ControlAssumption ==
  /\ Window \in Nat \ {0} /\ ControlCopies \in Nat \ {0}
  /\ MaxWaiting \in Nat /\ MaxFaults \in Nat

VARIABLES
  status,        \* NodeView.Status
  leader,        \* State.leader
  running,       \* is the node's process there?
  lines,         \* lines in a node's log since "UDP server listening"
  queue,         \* datagrams of the API server a node has not read
  told,          \* history: the leader last announced to the nodes
  informed,      \* history: who has been told so and neither failed nor died since
  faults         \* how many of them there were

apiVars == <<status, leader>>
processVars == <<running, lines>>
historyVars == <<told, informed>>
vars == <<roleVars, apiVars, processVars, queue, historyVars, faults>>

(* A PAYMENT_CREATE; due is not part of it: it notes whether the API       *)
(* server had announced the leader it sends to.                            *)
Create(n, due) == [type |-> "PAYMENT_CREATE", dst |-> n, due |-> due]
Datagram == Control \cup [type : {"PAYMENT_CREATE"}, dst : Node, due : BOOLEAN]

TypeOK ==
  /\ RoleTypeOK
  /\ status \in [Node -> {"Offline", "Running", "Failed"}]
  /\ leader \in LeaderId
  /\ running \in [Node -> BOOLEAN]
  /\ lines \in [Node -> 0..Window]
  /\ queue \in [Node -> Seq(Datagram)]
  /\ \A n \in Node : \A i \in DOMAIN queue[n] : queue[n][i].dst = n
  /\ told \in LeaderId /\ informed \subseteq {n \in Node : running[n]}
  /\ faults \in 0..MaxFaults

-----------------------------------------------------------------------------
(* hasNodeStarted: Window or more lines hide the start.  A node that never *)
(* started has no line, which is the same to see.                          *)
HasNodeStarted(n) == lines[n] < Window

(* refreshNodeStartupState, whatever the node was before unless it failed. *)
Started(n) == IF HasNodeStarted(n) THEN "Running" ELSE "Offline"
Refreshed == [n \in Node |-> IF status[n] = "Failed" THEN "Failed" ELSE Started(n)]
RunningIn(st) == {n \in Node : st[n] = "Running"}

(* recalculateLeaderFromRunningNodes for a leader l.  Mutations: the first *)
(* running node leads; a missing leader is followed by the next node.      *)
FirstRunning(l, S) == IF S = {} THEN NoLeader ELSE FirstOf(S)
NextLeader(l, S) == IF S = {} THEN NoLeader ELSE IF l \in S THEN l ELSE l + 1
Recalculated(l, S) == IF l \in S THEN l ELSE FirstRunning(l, S)
LeaderNow == Recalculated(leader, RunningIn(Refreshed))

(* What a node will be when it has read its queue.                         *)
WillBeActive(n) ==
  LET q == queue[n] IN
  /\ active[n] \/ \E j \in DOMAIN q : q[j].type = "NODE_REJOIN"
  /\ \A i \in DOMAIN q :
       q[i].type = "NODE_FAIL" => \E j \in DOMAIN q : j > i /\ q[j].type = "NODE_REJOIN"

(* The nodes in S are started before the API server.                       *)
Init ==
  \E S \in SUBSET Node :
    /\ active = [n \in Node |-> TRUE]
    /\ role = [n \in Node |-> StartRole(n)]
    /\ knownLeader = [n \in Node |-> FirstLeader]
    /\ running = [n \in Node |-> n \in S]
    /\ lines = [n \in Node |-> IF n \in S THEN 0 ELSE Window]
    /\ status = [n \in Node |-> Started(n)]
    /\ leader = FirstRunning(NoLeader, S)
    /\ queue = [n \in Node |-> <<>>]
    /\ told = FirstLeader /\ informed = S
    /\ faults = 0

-----------------------------------------------------------------------------
(* UDPClient.Send to each node: what is sent to no process is lost.        *)
SendAll(sent) == queue' = [n \in Node |-> IF running[n] THEN queue[n] \o sent[n] ELSE queue[n]]

Copies(c) == [i \in 1..ControlCopies |-> c]

(* sendControlMessage to n, then notifyLeaderChange to the nodes in S.     *)
(* Mutations: the other way round; the new leader itself is left out.      *)
NoticeFirst(c, S, l) ==
  [n \in Node |-> (IF n \in S THEN <<LeaderChange(n, l)>> ELSE <<>>)
                    \o (IF n = c.dst THEN Copies(c) ELSE <<>>)]
NoticeToFollowers(c, S, l) ==
  [n \in Node |-> (IF n = c.dst THEN Copies(c) ELSE <<>>)
                    \o (IF n \in S \ {l} THEN <<LeaderChange(n, l)>> ELSE <<>>)]
ControlThenNotice(c, S, l) ==
  [n \in Node |-> (IF n = c.dst THEN Copies(c) ELSE <<>>)
                    \o (IF n \in S THEN <<LeaderChange(n, l)>> ELSE <<>>)]

(* Those of S whom the announcement reaches and who are not failed.        *)
Reached(S) == {n \in S : running[n] /\ WillBeActive(n)}

Fault == faults < MaxFaults /\ faults' = faults + 1

FailNode(n) ==
  LET others == RunningIn(Refreshed) \ {n} IN
  /\ Fault
  /\ Refreshed[n] = "Running"
  /\ status' = [Refreshed EXCEPT ![n] = "Failed"]
  /\ IF LeaderNow = n
       THEN /\ leader' = FirstRunning(NoLeader, others)
            /\ told' = leader'
            /\ SendAll(ControlThenNotice(NodeFail(n), others, leader'))
            /\ informed' = Reached(others)
       ELSE /\ leader' = LeaderNow
            /\ SendAll(ControlThenNotice(NodeFail(n), {}, NoLeader))
            /\ informed' = informed \ {n}
            /\ UNCHANGED told
  /\ UNCHANGED <<roleVars, processVars>>

(* RejoinNode looks at no log: status and leader are those of the last     *)
(* request.                                                                *)
RejoinNode(n) ==
  LET S == RunningIn(status) \cup {n} IN
  /\ status[n] = "Failed"
  /\ status' = [status EXCEPT ![n] = "Running"]
  /\ SendAll(ControlThenNotice(NodeRejoin(n), S, leader))
  /\ told' = leader
  /\ informed' = Reached(S \ {n}) \cup {m \in {n} : running[m]}
  /\ UNCHANGED <<roleVars, leader, processVars, faults>>

(* Any request for the dashboard's data.                                   *)
GetDashboard ==
  /\ status' = Refreshed
  /\ leader' = LeaderNow
  /\ UNCHANGED <<roleVars, processVars, queue, historyVars, faults>>

PaymentsWaiting ==
  UNION {{<<n, i>> : i \in {j \in DOMAIN queue[n] : queue[n][j].type = "PAYMENT_CREATE"}} : n \in Node}

CreatePayment ==
  /\ LeaderNow # NoLeader
  /\ Cardinality(RunningIn(Refreshed)) >= Required
  /\ Cardinality(PaymentsWaiting) < MaxWaiting
  /\ status' = Refreshed
  /\ leader' = LeaderNow
  /\ SendAll([n \in Node |-> IF n = LeaderNow
                               THEN <<Create(n, n = told /\ n \in informed)>> ELSE <<>>])
  /\ UNCHANGED <<roleVars, processVars, historyVars, faults>>

(* newState: the logs of all the nodes are looked at afresh.               *)
ApiRestart ==
  /\ Fault
  /\ status' = [n \in Node |-> Started(n)]
  /\ leader' = FirstRunning(NoLeader, {n \in Node : HasNodeStarted(n)})
  /\ UNCHANGED <<roleVars, processVars, queue, historyVars>>

-----------------------------------------------------------------------------
(* main, up to the server that logs its start.                             *)
Start(n) ==
  /\ ~running[n]
  /\ Fault
  /\ running' = [running EXCEPT ![n] = TRUE]
  /\ lines' = [lines EXCEPT ![n] = 0]
  /\ informed' = IF told = FirstLeader THEN informed \cup {n} ELSE informed
  /\ UNCHANGED <<roleVars, apiVars, queue, told>>

(* The process dies with its memory and its socket; its log stays as it    *)
(* is.  Its role is left as main sets it at the next start.                *)
Die(n) ==
  /\ running[n]
  /\ ResetRole(n)
  /\ running' = [running EXCEPT ![n] = FALSE]
  /\ queue' = [queue EXCEPT ![n] = <<>>]
  /\ informed' = informed \ {n}
  /\ UNCHANGED <<apiVars, lines, told, faults>>

(* A node logs a line for each payment it commits.                         *)
LogLine(n) ==
  /\ running[n]
  /\ lines[n] < Window
  /\ lines' = [lines EXCEPT ![n] = @ + 1]
  /\ UNCHANGED <<roleVars, apiVars, running, queue, historyVars, faults>>

(* The dispatcher of main, for the datagrams of the API server.            *)
HandleControl(n) ==
  /\ queue[n] # <<>>
  /\ queue' = [queue EXCEPT ![n] = Tail(@)]
  /\ LET m == Head(queue[n]) IN
       \/ m.type = "NODE_FAIL" /\ SetNodeFailed(n)
       \/ m.type = "NODE_REJOIN" /\ SetNodeRejoined(n)
       \/ m.type = "LEADER_CHANGE" /\ SetLeader(n, m.leader)
       \/ m.type = "PAYMENT_CREATE" /\ UNCHANGED roleVars
  /\ UNCHANGED <<apiVars, processVars, historyVars, faults>>

(* A heartbeat of m, taken as read when it is sent: Detector has delays.   *)
HandleHeartbeat(n, m) ==
  /\ running[n] /\ active[n]
  /\ running[m] /\ active[m]
  /\ AdoptLeader(n, knownLeader[m])
  /\ UNCHANGED <<apiVars, processVars, queue, historyVars, faults>>

Next ==
  \/ \E n \in Node : FailNode(n) \/ RejoinNode(n)
  \/ GetDashboard
  \/ CreatePayment
  \/ ApiRestart
  \/ \E n \in Node : Start(n) \/ Die(n) \/ LogLine(n)
  \/ \E n \in Node : HandleControl(n)
  \/ \E n \in Node : \E m \in PeersExcluding(n) : HandleHeartbeat(n, m)

Spec == Init /\ [][Next]_vars

-----------------------------------------------------------------------------
(* A node that was told who leads, and has read its queue, leads if and    *)
(* only if it is that node, whatever heartbeats name and however often it  *)
(* failed, rejoined or was restarted.                                      *)
SettledRoles ==
  \A n \in informed :
    queue[n] = <<>> => active[n] /\ (role[n] = "leader" <=> n = told)

(* A payment that the API server sent to the leader it had announced       *)
(* reaches a node that leads.                                              *)
FirstIsCreate(n) == queue[n] # <<>> /\ Head(queue[n]).type = "PAYMENT_CREATE"

AnnouncedLeaderTakes ==
  \A n \in Node : FirstIsCreate(n) /\ Head(queue[n]).due => IsLeader(n)

(* "payment request sent to leader": any payment does.                     *)
PaymentReachesLeader == \A n \in Node : FirstIsCreate(n) => IsLeader(n)

(* The API server drops a leader only if it is asked to fail that node, or *)
(* no longer sees its start in the log, or restarts.                       *)
LeaderKept ==
  [][leader # NoLeader /\ leader' # leader
       => status'[leader] = "Failed" \/ ~HasNodeStarted(leader) \/ ApiRestart]_vars
=============================================================================
