# Verification of the fault-tolerant payment system

TLA+ modules of the payment cluster in `src/`, TLC runs on small instances and
TLAPS proofs for every size. `PROJECT.json` lists the runs, the theorems, the
source lines of every definition and the hazards the properties are for.

## 1. The system

### Components

| Part | State | Operations | Properties that make it correct |
|---|---|---|---|
| Node process, `cmd/node/main.go` | `types.Node`: role, active, known leader, `Payments`; goroutines | dispatch of one UDP datagram at a time; fail, rejoin, leader change; a commit goroutine per created payment; recovery goroutines | a failed node does not change its ledger; the role is what the last control message says |
| Replication service, `internal/replication/service.go` | `acks` per transaction, the node's ledger | create, replicate, acknowledge, count, commit, broadcast | committed only on a majority; never back to pending; what is saved is what was read |
| Recovery manager, `internal/fault/recovery.go` | none of its own | request from the known leader, answer with the committed payments, merge | only committed payments travel; the merge never undoes a commit; a node that is back catches up |
| Failure detector, `internal/fault/detector.go` | `LastHeartbeat`, `peerStatus` | heartbeat every 2 s with the known leader; adopt the leader of any heartbeat; every second fail peers not heard of for 5 s | right about peers that have been up, or down, for a while; an agreement on the leader is not unmade |
| API server, `internal/api/handler.go` | view of each node, leader, term, payments (memory); reads the last lines of the nodes' logs | dashboard, create, fail, rejoin, promote | a payment it accepted is shown as committed in the end; its leader is one the nodes follow |
| UDP transport, `internal/transport` | none | send, read loop | none: it may lose, reorder and duplicate |
| Consensus, `internal/consensus` (drivers only) | `RaftState`, election timers, heartbeat loops, votes | become follower/candidate/leader, vote, election, heartbeats | one leader per term; one vote per term; role and leader id agree |
| Clocks, `internal/clock` (drivers only) | offset, last timestamp, buffered entries | sync, `Now`, `Update`, `Flush` | timestamps grow; batches come out in order |
| Storage, `internal/storage` (drivers only) | map, JSON file | save, get, list | a map |
| Dashboard, `web/app.js` | none | poll every 3 s, post | polling goes on |

The node binary does **not** use `internal/consensus`, `internal/clock` or
`internal/storage`: the API server decides which node leads and tells the nodes
by NODE_FAIL, NODE_REJOIN and LEADER_CHANGE datagrams.

### How they interact

A client posts a payment to the API server, which records it as pending and
sends PAYMENT_CREATE to the node it takes for the leader. The leader saves the
payment, sends PAYMENT_REPLICATE to all peers and starts a goroutine that looks
every 100 ms whether `acks` has reached a majority; after 5 s it gives up.
Followers save and answer PAYMENT_ACK. On a majority the goroutine calls
MarkCommitted and BroadcastCommit. A rejoined or started follower sends
RECOVERY_REQ to the leader it knows and merges RECOVERY_DATA. The API server
learns of commits from the nodes' logs, and also that a node has started.

### Where it is hard

* goroutines of one node share its ledger; `MarkCommitted` and
  `HandleCommitPayment` read, then write, then log, each under a lock of its own;
* a commit is saved first and logged afterwards, and the log is all that survives;
* failing and rejoining happen between any two steps, and their control
  datagrams are sent several times and arrive late or out of order;
* UDP loses, reorders and duplicates; acknowledgements are counted, not attributed;
* leaders overlap: nobody stamps messages with a term;
* a node process keeps its ledger in memory and loses it when it dies;
* node processes and the API server start in any order, and the API server
  sees a start only in the last 50 lines of a log;
* the API server forgets its payments when it restarts;
* heartbeats are late or lost, and the time a peer was last heard of outlives failures;
* timeouts race with answers, and a timed-out payment is never taken up again.

`PROJECT.json` has each hazard with its line and the properties aimed at it.

## 2. The modules

| Module | Models | State and actions |
|---|---|---|
| `ClusterConfig` | `internal/config` and what `main.go` derives from it | nodes, leader ids, control messages, the roles at the start |
| `NodeRole` | a node's role, `active`, known leader | what the control messages, a heartbeat and the start of `main` set them to |
| `PaymentTypes` | `internal/types` | ledger entries, datagrams, `Required` (majority) |
| `NodeState` | `types.Node`, `Service.acks`, the transport | the variables, `Send`, `Deliver`, `Lose`, the log files (`WriteLine`) |
| `Replication` | `service.go` and the commit goroutine of `main.go` | one action per handler, three for HandleCommitPayment; six for the goroutine |
| `Recovery` | `recovery.go` and its goroutines | request (rejoin, startup), answer, merge |
| `PaymentNode` | `main.go`: dispatcher, control messages, heartbeats | composes Replication and Recovery; `HandleRefused` is every early return |
| `ApiServer` | `handler.go` | fail, rejoin, create, dashboard, leader, restart |
| `Cluster` | all of them | Spec, fairness, properties |
| `NodeRestart` | `Cluster` with node processes that die and start again | `RestartNode` resets all that is in memory, opens the log to append |
| `ControlPlane` | `handler.go`'s view of who runs and who leads, against the roles the nodes have | starts and deaths of processes, the log window, one queue of API datagrams per node |
| `Detector` | `detector.go` in discrete time | heartbeat and monitor tickers, delays, losses, control messages, deaths |
| `MCCluster`, `MCConsensus`, `MCOrderedLog` | | symmetry, drivers and plans for the runs |
| `Ledger` | what the cluster promises | absent → pending → committed; a commit needs a majority of stored copies |
| `Consensus` | `internal/consensus`, driven as by `cmd/test_member4` | methods of `RaftState`, timers, campaign, heartbeat loops |
| `HLC` | `internal/clock/hlc.go`, `sync.go`, and a timestamp's way through JSON | `StampOf` (Now), `MergeOf` (Update), `Decoded` (float64), clock steps |
| `OrderedLog` | `buffer.go` and the event log and recovery of `cmd/test_integration_final` | two goroutines stamp and add, a periodic flush, recovery datagrams |
| `ConfigProofs`, `ClusterProofs`, `CommitProofs`, `RestartProofs`, `LogProofs`, `ConsensusProofs`, `ControlPlaneProofs`, `DetectorProofs` | | theorems |

`NodeRole` is shared: what a NODE_FAIL, NODE_REJOIN, LEADER_CHANGE, a heartbeat
or a start does to a node is written once and used by `PaymentNode`,
`NodeRestart`, `ControlPlane` and `Detector`, each of which asks another question
of it: what becomes of payments, of memory, of the lead, and of time.

**Atomicity.** A node's UDP server runs one handler at a time, so a node takes a
datagram only when the last handler has returned (`Idle`). HandleCommitPayment
reads, writes and logs in three steps: `held` is the copy it is about to save,
`unlogged` what it has still to log. HandleRecoveryData holds the node's lock for
its whole merge, which is one step; its log lines go to `unlogged` and reach the
file one by one. The other handlers are one step: each writes only an entry that
is absent, for which no commit goroutine runs. The commit goroutine of a
transaction (`worker`) is at `waiting` (ticker loop), `marking` (HasMajority said
yes, MarkCommitted not begun), `saving` (between MarkCommitted's read and its
write, the copy is in `draft`), `logging` (between that write and its log line),
`broadcasting`, `done` or `timedout`: handlers and failures run between any two
of these. In MarkCommitted and BroadcastCommit the isNodeActive check and the read
after it are one step: a ledger stands still while its node is failed, but for the
goroutine's own write, so the read may as well have come before the NODE_FAIL.
`startup` and `recovering` are the sleeping recovery goroutines. The API server's handlers hold `State.mu`: one step each. In `Consensus` each method
of `RaftState` is a step, and what the callers do in several calls is several
steps. Death and restart of a process are one step of `NodeRestart`, since a dead
node does nothing: of the datagrams for it any part is gone afterwards. In
`ControlPlane` and `Detector`, where it matters who is down and for how long,
they are two.

**Network.** `net` is a set: any order, identical datagrams merged; `MaxDups`
bounds second deliveries; with `Lossy` any datagram may vanish. `ctrl` counts
the copies in flight of each control datagram (the code sends five, the model
`ControlCopies`). `claims` keeps which leader ids heartbeats have named: a node
may hear any of them at any time, since a heartbeat may be delayed and repeated.
`ControlPlane` asks what the API server's orders achieve when they arrive in
order: its datagrams go over the loopback interface (handler.go sends to
127.0.0.1), where those to one socket keep their order, so each node has a queue.

**Time.** `Detector` counts seconds. A step of time waits for every ticker that
has run down and for every heartbeat that is `MaxDelay` old, which is the
assumption that the goroutines run when they are due. What takes no time, may
happen at any time. Ages are counted only as far as the comparisons reach.

**Data.** A payment's amount and owner are one member of `Value`. The fields of
a ledger entry that no handler tests are part of it.

**Environment.** In `Cluster` all nodes run when a behaviour begins and the API
server has found them in their logs; in `ControlPlane` any of them run, and the
API server has just started and found these. `Starting` are the nodes whose 3 s
start delay is not over.

**Logs.** Of a node's log file the model keeps what the API server can find
there: `logged` is the last line of a payment, `since` how many lines came after
it, up to `LogWindow` (500 in the code); beyond that the line is not looked at.
The lines of commits and of starts are all a node writes, but for socket and
parse errors (server.go:49, :55). A file is opened to append, so a restart keeps
it. `ControlPlane` has the other use of a
log, the line of a start among the last 50.

## 3. The runs

`Detector` and `ControlPlane` are checked for deadlock. The others may stop
(CHECK_DEADLOCK FALSE): payments, faults and events are bounded, and when they
are used up and nothing is in flight there is nothing left to do.

| Run | Instance | Distinct states | Shows |
|---|---|---|---|
| `ClusterLive` | 3 nodes, 2 values, 1 duplicate, 1 API restart, fair | 95 k | TypeOK, AckCountSound, CommittedOnMajority, LedgerMonotone, ImplementsLedger, CommittedEverywhere, DashboardSettles |
| `ClusterFailover` | 3 nodes, 1 payment, 1 failure (any node) with rejoin | 917 k | CommittedOnMajority, FailedNodeFrozen, ImplementsLedger |
| `ClusterRecreate` | 2 nodes, 1 payment with 2 values, losses, 1 failure, 1 API restart | 1.4 M | AckCountSound, DraftFresh, CommitsLogged, CommittedValueStable, LedgerMonotone |
| `ClusterRestart` | 2 nodes, 2 copies of control messages, 2 of: the failure of node 2, a restart of either process, an API restart; fair | 100 k | RestartTypeOK, HeldUnlessRestarted, CatchUpAfterRestart |
| `ClusterLogs` | 2 nodes, 2 payments, 2 lines looked at, 2 of: a restart of either process, an API restart | 276 k | NotAcceptedAgain |
| `Detector` | 2 nodes, heartbeats every 2 s, timeout 5 s, monitor every 1 s, 1 s delay, 1 loss in a row, 2 control messages, deaths or starts | 2.6 M | TypeOK, Accuracy, Completeness, AgreementLasts |
| `ControlPlane` | 3 nodes, window of 1 line, 2 failures, starts or API restarts | 4.9 M | TypeOK, SettledRoles, AnnouncedLeaderTakes, LeaderKept |
| `ControlPlaneStartup` | the same | | violation of PaymentReachesLeader |
| `Log` | 2 nodes, offsets 0 and 3, float64 step 4; 5 events of 2 goroutines, or 1 event or recovery | 942 k | TypeOK, NoStampTwice, NothingLost, LateByOne, StampsGrow, ReceivedNotLongBefore |
| `LogRounding` | the same | | violation of RemoteTimeMerged |
| `Consensus` | 5 nodes; 3 candidates and 2 voters over terms 1 and 2, or 2 candidates that vote, with heartbeats, term 1 | 13.6 k | TypeOK, OneLeaderPerTerm, LeaderKnowsItself |
| `ConsensusForgottenVote` | 3 nodes, heartbeats | | violation of VoteOfTheTerm |

What the properties say:

* **AckCountSound**: the acknowledgement count of a payment exceeds the nodes
  that hold it by at most the number of duplicated datagrams.
* **CommittedOnMajority**: whatever is committed on a node, in flight as a
  commit or recovery, or shown as committed, is held by a majority.
  **HeldUnlessRestarted** is what a death of processes leaves of it: each of that
  majority holds it still, or has lost its memory since (with up to three nodes).
* **DraftFresh**, **CommittedValueStable**, **FailedNodeFrozen**: two goroutines
  read, then write, the same entry. What MarkCommitted saves is still the entry
  unless another commit overtook it. A committed value is replaced in two ways
  only: by MarkCommitted, with the older copy it had read; and by
  HandleCommitPayment, which had read the committed entry before that and puts
  it back. On a failed node no goroutine passes the check of line 223, and only
  one that had passed it before writes the ledger.
* **CommitsLogged**: every committed entry has a line in its node's log, or
  whoever saved it is about to write the line. A handler that finds the entry
  committed logs nothing, and relies on the other to do so.
* **LedgerMonotone**, **ImplementsLedger**: no step loses a payment or a commit;
  the ledgers implement `Ledger`. (Without restarts of node processes.)
* **NotAcceptedAgain**: what a node that counts as running has ever finished
  committing, that is saved and logged, is not sent to a leader again while its
  line is among the lines looked at, through restarts of both sides.
* **CommittedEverywhere**, **DashboardSettles**, **CatchUpAfterRestart**: liveness, below.
* **Accuracy**, **Completeness**: the monitor is right about a peer, up or down,
  once both have been so for a while. The while is what the code needs: after a
  rejoin a node's first check finds every peer overdue, since `LastHeartbeat` stood still.
  Completeness leaves out peers never heard of, which the code never fails.
* **AgreementLasts**: once all nodes and all heartbeats in flight name one leader,
  heartbeats do not change that. That they bring an agreement about is not
  claimed: two nodes may swap their leader ids for ever.
* **SettledRoles**: a node that was told who leads, and has read its queue, is
  active and leads if and only if it is that node. **AnnouncedLeaderTakes**: a payment sent to
  a leader that was announced arrives at a node that leads. **LeaderKept**: the API server
  changes a leader only on a failure, a start it no longer sees, or its own restart.
* **NoStampTwice**, **NothingLost**, **LateByOne**: the event log has every event
  once, with a timestamp of its own, and a flush prints at most one event behind
  later ones: that of the goroutine it overtook between stamping and adding.
* **StampsGrow**, **ReceivedNotLongBefore**: a clock never comes back, and a
  receipt leaves it at most half a float64 step behind the sending.
* **OneLeaderPerTerm**, **LeaderKnowsItself**: see the findings for how far they go.

The properties stop short of what the code does not give. With two leaders (a
rejoined node 1 resumes the lead until a LEADER_CHANGE reaches it) and an API
server that has restarted, one transaction may be created with two values;
a follower acknowledges the second value while holding the first, so two nodes can
commit different values, and a stale draft may rewrite one, which the COMMIT
handler may undo; the ledger and the log may then disagree. A NODE_FAIL may be
overtaken by the goroutine's write. A process that dies between saving a commit
and logging it leaves no line, and a restarted API server accepts the payment
again; it also does so once the line is out of the window. No document of the
repository claims otherwise, so the properties state what *does* hold: two known
ways to rewrite a value, one check passed before the failure, and what is logged
and looked at is not paid twice.

**Bounds.** Three nodes is the shipped configuration; two nodes suffice where
leader overlap is wanted, since there a majority is everybody. One failure with
a rejoin gives two leaders, stale controls and late recoveries. One duplicate
suffices to count a message twice. Two values tell conflicting creations apart.
`Faulty` and `Restarting` name the nodes that may fail or die, `MaxFails` how many
failures there are, and `MaxFaults` (of `NodeRestart`) how many failures and restarts
together: any two of them meet. With two nodes one restart already loses the copy that
made the majority, and two copies of a NODE_FAIL and NODE_REJOIN fail and rejoin a
node twice. A `Window` of one line hides a start with one commit;
`LogWindow` is 2 where logs matter, so that the line of one payment is pushed out
by that of the other and a start, and 1 elsewhere. `Hearing` are the nodes that
heartbeats of others reach: a known leader is only used by a node that starts,
rejoins or resumes the lead. It is {1} in the two largest runs, where with one
failure node 1 alone may learn of a leader it did not know. `MaxWaiting` is how
many payments the nodes of `ControlPlane` have not read. `MaxFaults` = 2 (of `ControlPlane`)
lets all nodes fail together with those that never started, and a
restarted API server meet what is left. The detector's intervals are those of the
shipped configuration; two events are a failure and a rejoin, or a death and
a start. `Plans` and `Setups` (with its `terms`) bound the events of the log and
the elections.

**Fairness** (`FairSpec`). Each node's UDP goroutine keeps handling datagrams,
control and payment ones alike; each commit goroutine moves (ticker and timer
fire); sleeping goroutines wake; the dashboard polls (`setInterval`, 3 s).
Nothing is assumed about clients, failures or the choice of datagram. That
either the ticker or the timeout wins is left open, hence the escape
`TimedOut`: the code gives up after 5 s, and a payment then stays pending.
CommittedEverywhere and DashboardSettles are run without failures and losses:
with them the code promises neither. `FairRestartSpec` assumes the same of nodes
and goroutines and owes nobody a restart; CatchUpAfterRestart assumes a first
leader that stays up and whose process runs, since a restarted leader has
nothing to answer with.

**Findings.** `LogRounding`: a timestamp's nanoseconds are decoded as a float64
(message.go:49, test_integration_final/main.go:497) and rounded, today to a multiple of
256 ns; a receiver whose clock lies behind (the driver sets offsets of 0, 50 and
-30 ms) ends up behind the time of sending. In the model a step is 4 ns and the
offset 3 ns, which is the same situation with small numbers. `ConsensusForgottenVote`: `BecomeFollower` (raft.go:55) clears the
vote in the same term, against the comment at raft.go:24. `ControlPlaneStartup`:
when node1 does not run, the API server silently takes the first node it
finds for the leader (handler.go:730-734), without the LEADER_CHANGE that only FailNode and
RejoinNode send; that node follows node1 and drops the payments which the API
server reports as sent to the leader (handler.go:362).

Limits met on the way: OneLeaderPerTerm is stated for drivers without heartbeats
(`Quiet`) whose voters do not campaign. With heartbeats, which a leader sends with
a role checked before (heartbeat.go:56), a second candidate of the term can win,
and a voter whose own timer runs becomes a candidate between the two looks at its
role (election.go:64, :66).

## 4. The proofs

TLAPS proves these for every number of nodes, payments, values, faults and
copies, from the assumptions the modules state on their constants:
`NodeAssumption`, `ValueAssumption`, `NetworkAssumption`, `StartingAssumption`,
`LogWindowAssumption`,
`ApiAssumption`, for restarts `RestartAssumption`, for the clocks `ClockAssumption`
and `LogAssumption`, for elections `ConsensusAssumption`, for the control plane
`ControlAssumption` and for the detector `DetectorAssumption`. They say what kind of
number or set each constant is. What a theorem needs beyond that is in its statement.

* `ClusterProofs`: **TypeCorrect**. TypeOK is not inductive, since
  MarkCommitted's write puts `draft` into the ledger: `TypeInv` adds `DraftHeld`,
  a goroutine at `saving` or `logging` holds a value. One lemma per group of actions.
  `EntryChange` lists what one step of anybody may do to one ledger entry
  (nothing, fill an absent one, commit a pending one, write a draft or a
  handler's copy). **LedgerNeverGoesBack** follows from it. What the copies in the
  hands of goroutine and handler have to do with the entry is `CopyInv`:
  `DraftFresh`; `HeldFresh`, a copy to be logged is the entry still or what the
  goroutine made of it, and one that was committed already is the entry unless a
  goroutine replaced it; `HeldActive`, no handler is halfway on a failed node,
  since the same goroutine handles NODE_FAIL; `OneHandler`, it is at its save or
  at its log lines, not both; and `CommitsLogged`. They are proved together, one
  lemma per group of actions, because each needs the others: a handler that finds
  the entry committed logs nothing, and CommitsLogged then needs the line of
  whoever committed it. **DraftStaysFresh**, **CommitsReachLog**,
  **CommittedValueTwoWriters** and **FailedNodeKeepsLedger** follow.
* `CommitProofs`: **AckCountBound**. The counter alone is not inductive: an
  acknowledgement in flight will be counted later. `AckBalance` says that the
  count together with the replicas and acknowledgements in flight is at most the
  nodes that hold the payment or will be reached by a replica, plus the
  duplicates. `AckHonest` (an acknowledgement comes from a node that holds the
  payment) rests on HandleReplicatedPayment saving before it answers;
  `RoundStarted` on CreatePayment's check for duplicates.
  **CommitNeedsMajority** and **ClusterImplementsLedger**, both under
  `AcksCountNodes == MaxDups = 0 \/ Required <= 2`. With a majority of two a count of two
  means a second holder (`OtherHolder`), duplicates or not: that is the
  shipped configuration. With a majority of three one duplicated datagram
  does break it: TLC finds the behaviour with four nodes in a second. The
  strengthening `DecidedOnMajority` covers goroutines past HasMajority,
  commits and recovery data in flight and the dashboard's list. In the
  refinement an entry's status is the ledger's, a RECOVERY_DATA commits several
  payments at once.
  `InHand` adds to what is in flight the commit a handler has read and not yet
  saved, and the lines that are or will be in a log.
* `RestartProofs`: **RestartTypeCorrect**, **PaidOnce** and **CommitSurvivesRestarts**.
  Most of `CommitProofs`' invariant is false when processes die: the holders of a
  payment grow fewer, and a leader that was restarted gets acknowledgements
  for a round it knows nothing of. `Kept`, the holders and the nodes
  that were restarted, never shrinks (`KeptGrowsStep`), and counters and datagrams
  tell of nodes in it (`RoundsKept`). The theorem has the hypothesis `Required <= 2`,
  with or without duplicates. With five nodes it is false, as TLC finds: the leader
  and the API server are restarted, the same payment is created again, and the
  leader counts an acknowledgement of the round it lost with one of the new round, both
  from the same node. PaidOnce rests on `PaidInv`: CopyInv, through
  restarts too (`CopyRestart`: a dead process leaves no copy and no ledger), and
  `PaidLogged`, that what was ever finished has a line in the log, which no
  restart takes away (`LogKept`).
* `LogProofs`: for the clocks **StampsAlwaysGrow** and **ReceiptWithinHalfAStep**, from
  the lemmas on Now, Update and the rounding; `ClockInv` is the part of TypeOK they
  need. For the log **LogTypes**, **NoStampEverTwice**, **NothingEverLost**. The model of
  sort.Slice gives each entry its place; `PlaceInjective` shows that no two
  entries share one, `SortingRearranges` that every place is taken, so a flush
  neither repeats nor drops an entry. `NodeLog` is the invariant: every timestamp
  in hand, buffered or printed is at most the clock's last one, which the next
  one exceeds whatever the physical clock does. **FlushLateByOne** is not inductive:
  two goroutines with an old timestamp each would both come too late. `OneIsLast` says
  that of two which hold a timestamp one holds the last there is, since a timestamp
  is taken under the clock's lock; that one cannot be overtaken (`AtMostOneLate`).
  `FlushOvertaken` follows a flush through the sorting.
* `ConsensusProofs`: **ElectionTypes**, **LeaderAlwaysKnowsItself** and
  **OneLeaderInEveryTerm**, for any number of nodes and terms and any driver. A majority
  of votes is not inductive: a voter goes on to later terms and forgets whom it
  voted for. The invariant `OthersBlocked` says instead that no other candidate of
  a leader's term can reach a majority any more, with the votes it has and those
  it may still obtain (`Obtainable`: of voters in earlier terms, or in this one with their
  vote free or its own). Voters only make that set smaller (`VotersKept`); the
  winner's votes are out of the others' reach and two disjoint majorities do
  not fit into the nodes (`DisjointMinority`). `QuietCall` and `QuietVotes` say where
  HandleVoteRequest's separate steps may find the voter.
* `ControlPlaneProofs`: **ControlTypes**, **InformedNodesHaveTheirRole**,
  **AnnouncedLeadersTakePayments** and **LeaderOnlyDroppedWithCause**, for any number of nodes,
  copies and faults and any window. What a node is now says little while control messages
  wait in its queue, so the invariant is about what it will be: `Settles` holds of a queue up
  to its k-th datagram if every NODE_FAIL in it is made good by a later NODE_REJOIN and
  every control message is followed by a LEADER_CHANGE to the right leader. It holds of the
  whole queue for a node that was told (`InformedReady`), and up to a payment for the
  leader it is due to (`DueReady`). `SettlesRead` shows that reading keeps it,
  `SettlesPrefix` that sending does, `NoticeSettles` and `RejoinSettles` that the API server's
  order, control message before notice, establishes it whatever was queued.
* `DetectorProofs`: **DetectorTypes**, **FailuresNoticed**, **NoFalseAlarm** and
  **AgreementKept**, for any intervals, delays and losses. What the monitor shows
  depends on when it last looked and on what it had heard by then, so the
  invariant (`DetectorInv`) keeps account of both. For a node that is down: no
  heartbeat is younger than its death (`DownBeats`), hence no entry much younger
  (`DownAge`), and once the entry is overdue the next check is less than a period
  away (`DownStatus`). For one that is up, `UpHeard` counts the heartbeats that got lost
  since the last arrival, those in flight and the next one: each stands for one
  interval, and nobody is left unheard for longer than all together. It says so
  from every age of those in flight on, because the one that arrives next need
  not be the oldest. `Settle <= Timeout`, in Accuracy itself, is then enough for
  every check to find the entry young.

Model-checked only: liveness, that is CommittedEverywhere, DashboardSettles and
CatchUpAfterRestart. It rests on fairness and so on ENABLED, which is out of the
prover's reach. Every other property of the passing runs has its theorem; where
the theorem has a hypothesis on the number of nodes or duplicates, the runs' bounds meet it.

## 5. Not modelled, and the plan

Not modelled: JSON, sockets, datagram sizes (so that a RECOVERY_DATA beyond 64 KB
is not lost), log text and the lines of socket and parse errors,
amounts rounded to two decimals in the log, rendering; timing other than
"may happen now" outside of `Detector`; `internal/storage` (used by drivers only); `log.go` and
`consistency.go` (empty files); the client (empty); SyncNodeRole of
`internal/consensus`, which only demonstration drivers call.

Done in this order: types, node state, replication, recovery, node, API server,
cluster, abstract ledger, consensus, the proofs about the cluster, clocks and
their proofs, restarts of node processes, control plane, detector, proofs
about elections, the event log, the control plane, restarts and the detector;
handlers and logging in steps of their own. Left:

1. SyncNodeRole of `internal/consensus`.
2. The abstract view of the dashboard, refined by the API server and the cluster.
