------------------------------ MODULE Detector ------------------------------
(***************************************************************************)
(* internal/fault/detector.go: the heartbeats of the node processes, the   *)
(* leader id they carry and the failures they reveal, in real time.  One   *)
(* unit of time is a second.                                               *)
(*                                                                         *)
(* Time passes for all at once (Tick) and only when nothing is due: a      *)
(* ticker that has run down fires first, and a heartbeat is not older than *)
(* MaxDelay when it is read.  The tickers are relative, so that no clock   *)
(* grows; what the API server does to a node, and the death and restart of *)
(* its process, may come at any time.                                      *)
(***************************************************************************)
EXTENDS NodeRole

CONSTANTS
  Interval,    \* Config.HeartbeatInterval: 2
  Timeout,     \* Config.HeartbeatTimeout: 5
  Period,      \* of the failure monitor's ticker: 1
  MaxDelay,    \* how long a heartbeat takes at most
  MaxLost,     \* how many of a node's heartbeats to another get lost in a row
  MaxEvents    \* bound: control messages, deaths and restarts over a run
ASSUME DetectorAssumption ==
  /\ Interval \in Nat \ {0} /\ Timeout \in Nat /\ Period \in Nat \ {0}
  /\ MaxDelay \in Nat /\ MaxLost \in Nat /\ MaxEvents \in Nat

VARIABLES
  running,      \* is the node's process there?
  heard,        \* whom Node.LastHeartbeat has an entry for
  age,          \* how long ago that entry was written, up to Timeout + 1
  peerStatus,   \* Detector.peerStatus
  beatIn,       \* until the ticker of the heartbeat loop fires
  checkIn,      \* until the ticker of the failure monitor fires
  beats,        \* heartbeats in flight
  lost,         \* how many heartbeats of m to n got lost since one arrived
  since,        \* history: since when a node is up or down, up to Long
  events        \* control messages, deaths and restarts so far

monitorVars == <<heard, age, peerStatus>>
tickerVars == <<beatIn, checkIn>>
linkVars == <<beats, lost>>
vars == <<roleVars, running, monitorVars, tickerVars, linkVars, since, events>>

(* Within Settle a heartbeat of a node that is up arrives; after Long the  *)
(* monitor has seen the timeout of a node that is down.                    *)
Settle == (MaxLost + 1) * Interval + MaxDelay
Long == MaxDelay + Timeout + Period + 1

Up(n) == running[n] /\ active[n]

Heartbeat == [src : Node, dst : Node, leader : LeaderId, age : 0..MaxDelay]

TypeOK ==
  /\ RoleTypeOK
  /\ running \in [Node -> BOOLEAN]
  /\ heard \in [Node -> SUBSET Node] /\ \A n \in Node : heard[n] \subseteq PeersExcluding(n)
  /\ age \in [Node -> [Node -> 0..Timeout + 1]]
  /\ peerStatus \in [Node -> [Node -> {"alive", "failed"}]]
  /\ beatIn \in [Node -> 0..Interval]
  /\ checkIn \in [Node -> 0..Period]
  /\ beats \subseteq {b \in Heartbeat : b.src # b.dst}
  /\ lost \in [Node -> [Node -> 0..MaxLost]]
  /\ since \in [Node -> 0..Long]
  /\ events \in 0..MaxEvents

(* NewDetector, and the tickers started at any time before.                *)
Init ==
  /\ active = [n \in Node |-> TRUE]
  /\ role = [n \in Node |-> StartRole(n)]
  /\ knownLeader = [n \in Node |-> FirstLeader]
  /\ running = [n \in Node |-> TRUE]
  /\ heard = [n \in Node |-> {}]
  /\ age = [n \in Node |-> [m \in Node |-> 0]]
  /\ peerStatus = [n \in Node |-> [m \in Node |-> "alive"]]
  /\ beatIn \in [Node -> 1..Interval]
  /\ checkIn \in [Node -> 1..Period]
  /\ beats = {}
  /\ lost = [n \in Node |-> [m \in Node |-> 0]]
  /\ since = [n \in Node |-> 0]
  /\ events = 0

-----------------------------------------------------------------------------
(* The heartbeat loop.  Mutations: a failed node sends, too; the leader id *)
(* of a heartbeat is its sender.                                           *)
BeatingAlways(n) == TRUE
Beating(n) == active[n]
SenderSent(n) == n
LeaderSent(n) == knownLeader[n]

SendHeartbeats(n) ==
  /\ running[n] /\ beatIn[n] = 0
  /\ beatIn' = [beatIn EXCEPT ![n] = Interval]
  /\ beats' = IF Beating(n)
                THEN beats \cup [src : {n}, dst : PeersExcluding(n), leader : {LeaderSent(n)}, age : {0}]
                ELSE beats
  /\ UNCHANGED <<roleVars, running, monitorVars, checkIn, lost, since, events>>

(* A node that is not up drops the heartbeat.                              *)
HandleHeartbeat(b) ==
  LET n == b.dst IN
  /\ beats' = beats \ {b}
  /\ lost' = [lost EXCEPT ![n][b.src] = 0]
  /\ IF Up(n)
       THEN /\ heard' = [heard EXCEPT ![n] = @ \cup {b.src}]
            /\ age' = [age EXCEPT ![n][b.src] = 0]
            /\ AdoptLeader(n, b.leader)
            /\ peerStatus' = [peerStatus EXCEPT ![n][b.src] = "alive"]
       ELSE UNCHANGED <<monitorVars, roleVars>>
  /\ UNCHANGED <<running, tickerVars, since, events>>

LoseHeartbeat(b) ==
  /\ lost[b.dst][b.src] < MaxLost
  /\ beats' = beats \ {b}
  /\ lost' = [lost EXCEPT ![b.dst][b.src] = @ + 1]
  /\ UNCHANGED <<roleVars, running, monitorVars, tickerVars, since, events>>

(* The failure monitor: a peer never heard of keeps its status.  Mutation: *)
(* the timeout itself is too long.                                         *)
OverdueAtTimeout(n, m) == age[n][m] >= Timeout
Overdue(n, m) == age[n][m] > Timeout

CheckFailures(n) ==
  /\ running[n] /\ checkIn[n] = 0
  /\ checkIn' = [checkIn EXCEPT ![n] = Period]
  /\ peerStatus' = IF active[n]
                     THEN [peerStatus EXCEPT ![n] =
                             [m \in Node |-> IF m \notin heard[n] THEN @[m]
                                             ELSE IF Overdue(n, m) THEN "failed" ELSE "alive"]]
                     ELSE peerStatus
  /\ UNCHANGED <<roleVars, running, heard, age, beatIn, linkVars, since, events>>

Sooner(a, b) == IF a <= b THEN a ELSE b

Tick ==
  /\ \A n \in Node : running[n] => beatIn[n] > 0 /\ checkIn[n] > 0
  /\ \A b \in beats : b.age < MaxDelay
  /\ beatIn' = [n \in Node |-> IF running[n] THEN beatIn[n] - 1 ELSE beatIn[n]]
  /\ checkIn' = [n \in Node |-> IF running[n] THEN checkIn[n] - 1 ELSE checkIn[n]]
  /\ age' = [n \in Node |-> [m \in Node |->
               IF m \in heard[n] THEN Sooner(age[n][m] + 1, Timeout + 1) ELSE 0]]
  /\ beats' = {[b EXCEPT !.age = @ + 1] : b \in beats}
  /\ since' = [n \in Node |-> Sooner(since[n] + 1, Long)]
  /\ UNCHANGED <<roleVars, running, heard, peerStatus, lost, events>>

-----------------------------------------------------------------------------
(* What happens to a node from outside.                                    *)
Event == events < MaxEvents /\ events' = events + 1

(* since starts again when the node comes up or goes down.                 *)
Since(n) == since' = IF Up(n)' = Up(n) THEN since ELSE [since EXCEPT ![n] = 0]

HandleControl(n) ==
  /\ Event
  /\ running[n]
  /\ \/ SetNodeFailed(n)
     \/ SetNodeRejoined(n)
     \/ \E l \in LeaderId : SetLeader(n, l)
  /\ UNCHANGED <<running, monitorVars, tickerVars, linkVars>>
  /\ Since(n)

(* A process dies with all it has in memory: what is left is what main,    *)
(* NewDetector and the tickers start with.                                 *)
Die(n) ==
  /\ Event
  /\ running[n]
  /\ running' = [running EXCEPT ![n] = FALSE]
  /\ ResetRole(n)
  /\ heard' = [heard EXCEPT ![n] = {}]
  /\ age' = [age EXCEPT ![n] = [m \in Node |-> 0]]
  /\ peerStatus' = [peerStatus EXCEPT ![n] = [m \in Node |-> "alive"]]
  /\ beatIn' = [beatIn EXCEPT ![n] = Interval]
  /\ checkIn' = [checkIn EXCEPT ![n] = Period]
  /\ UNCHANGED linkVars
  /\ Since(n)

Start(n) ==
  /\ Event
  /\ ~running[n]
  /\ running' = [running EXCEPT ![n] = TRUE]
  /\ UNCHANGED <<roleVars, monitorVars, tickerVars, linkVars>>
  /\ Since(n)

Timed ==
  \/ \E n \in Node : SendHeartbeats(n) \/ CheckFailures(n)
  \/ \E b \in beats : HandleHeartbeat(b) \/ LoseHeartbeat(b)
  \/ Tick

Next == Timed \/ \E n \in Node : HandleControl(n) \/ Die(n) \/ Start(n)

Spec == Init /\ [][Next]_vars

-----------------------------------------------------------------------------
(* If the timeout leaves room for the heartbeats that may get lost, a node *)
(* that has been up for a while takes a peer that has been up for a while  *)
(* for alive.  The while is needed: LastHeartbeat is not touched when a    *)
(* node fails and rejoins, so that its next check finds all peers failed.  *)
Accuracy ==
  Settle <= Timeout =>
    \A n \in Node : \A m \in PeersExcluding(n) :
      Up(n) /\ Up(m) /\ since[n] > Settle /\ since[m] > Settle => peerStatus[n][m] = "alive"

(* A node that is up takes a peer that has been down for longer than the   *)
(* timeout for failed, if the running process has ever heard of it.        *)
Completeness ==
  \A n \in Node : \A m \in heard[n] :
    (Up(n) /\ since[n] > Period /\ ~Up(m) /\ since[m] > MaxDelay + Timeout + Period)
      => peerStatus[n][m] = "failed"

(* Heartbeats alone never unmake an agreement on the leader: once all that *)
(* are up, and all heartbeats in flight, name the same node, they do so    *)
(* until a control message comes or a process starts.                      *)
Agreed(l) ==
  /\ \A n \in Node : Up(n) => knownLeader[n] = l
  /\ \A b \in beats : b.leader = l

AgreementLasts == [][Timed => \A l \in LeaderId : Agreed(l) => Agreed(l)']_vars
=============================================================================
