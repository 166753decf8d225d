---------------------------- MODULE Replication ----------------------------
(***************************************************************************)
(* internal/replication/service.go with its callers in cmd/node/main.go:   *)
(* a leader saves a payment as pending, replicates it, counts the          *)
(* acknowledgements, and its commit goroutine commits it on a majority.    *)
(*                                                                         *)
(* Handlers run on the node's UDP goroutine, the commit goroutine beside   *)
(* them.  HasMajority, the read, the write and the log line of             *)
(* MarkCommitted, and BroadcastCommit are separate steps, and so are the   *)
(* read, the write and the log line of HandleCommitPayment; those of the   *)
(* two goroutines interleave.  The other handlers are one step each: each  *)
(* of them writes only an entry that is absent, for which no commit        *)
(* goroutine runs.  In MarkCommitted and BroadcastCommit the isNodeActive  *)
(* check and the GetPayment that follows it are one step: a ledger does    *)
(* not change while its node is failed (but for the goroutine's own        *)
(* write), so a read that a NODE_FAIL overtakes can be moved before that   *)
(* NODE_FAIL.  The datagrams one call sends are put in flight together:    *)
(* one sent later is one the network delays.                               *)
(***************************************************************************)
EXTENDS NodeState

IsNodeActive(n) == active[n]

(* main.go's isLeader test and CreatePayment's two early returns.          *)
(* Mutation: a duplicate is not noticed.                                   *)
MayCreateAgain(n, t) == IsLeader(n) /\ t \in Txn
MayCreate(n, t) == IsLeader(n) /\ ~HasPayment(n, t)

(* The datagrams of ReplicatePaymentToFollowers.                           *)
ReplicateToFollowers(n, t, v) == {Replicate(n, m, t, v) : m \in PeersExcluding(n)}

(* The acknowledgement count of a payment its node has just created.       *)
OwnAck == 1

(* CreatePayment, and the commit goroutine main.go starts for it.          *)
HandlePaymentCreate(m) ==
  LET n == m.dst
      t == m.txn IN
  /\ m.type = "PAYMENT_CREATE"
  /\ MayCreate(n, t)
  /\ SavePayment(n, t, Pending(m.val))
  /\ acks' = [acks EXCEPT ![n][t] = OwnAck]
  /\ worker' = [worker EXCEPT ![n][t] = "waiting"]
  /\ Deliver(m, ReplicateToFollowers(n, t, m.val))
  /\ UNCHANGED <<roleVars, draft, handlerVars, logVars, timerVars, ctrl, claims>>

(* What HandleReplicatedPayment leaves in the ledger: a known transaction  *)
(* is not overwritten.  Mutations: it is; nothing is ever saved.           *)
ReplicatedOverwriting(e, v) == Pending(v)
ReplicatedUnsaved(e, v) == e
Replicated(e, v) == IF e.status = "absent" THEN Pending(v) ELSE e

HandleReplicatedPayment(m) ==
  LET n == m.dst
      t == m.txn IN
  /\ m.type = "PAYMENT_REPLICATE"
  /\ IsNodeActive(n)
  /\ SavePayment(n, t, Replicated(payments[n][t], m.val))
  /\ Deliver(m, {Ack(n, m.src, t)})
  /\ UNCHANGED <<roleVars, acks, workerVars, handlerVars, logVars, timerVars, ctrl, claims>>

HandlePaymentAck(m) ==
  /\ m.type = "PAYMENT_ACK"
  /\ IsNodeActive(m.dst)
  /\ acks' = [acks EXCEPT ![m.dst][m.txn] = @ + 1]
  /\ Deliver(m, {})
  /\ UNCHANGED <<roleVars, payments, workerVars, handlerVars, logVars, timerVars, ctrl, claims>>

(* The copy HandleCommitPayment makes of the entry it reads: the value of  *)
(* a COMMIT is used only for a transaction the ledger lacks, and nothing   *)
(* is logged for one that is committed already.  Mutations: the value of   *)
(* the COMMIT is always used; only a new transaction is logged.            *)
CopyOfLatest(e, t, v) == [txn |-> t, val |-> v, shouldLog |-> e.status # "committed"]
CopyLoggedIfNew(e, t, v) ==
  [txn |-> t, val |-> IF e.status = "absent" THEN v ELSE e.val, shouldLog |-> e.status = "absent"]
CopyOf(e, t, v) ==
  [txn |-> t, val |-> IF e.status = "absent" THEN v ELSE e.val, shouldLog |-> e.status # "committed"]

(* HandleCommitPayment up to GetPayment and what it makes of it.           *)
HandleCommitPayment(m) ==
  LET n == m.dst
      t == m.txn IN
  /\ m.type = "PAYMENT_COMMIT"
  /\ IsNodeActive(n)
  /\ held' = [held EXCEPT ![n] = {CopyOf(payments[n][t], t, m.val)}]
  /\ Deliver(m, {})
  /\ UNCHANGED <<roleVars, ledgerVars, workerVars, unlogged, logVars, timerVars, ctrl, claims>>

(* Its SavePayment, which looks at neither the entry nor the node again.   *)
CommitSave(n) ==
  \E c \in held[n] :
    /\ SavePayment(n, c.txn, Committed(c.val))
    /\ held' = [held EXCEPT ![n] = {}]
    /\ unlogged' = [unlogged EXCEPT ![n] = IF c.shouldLog THEN {[txn |-> c.txn, val |-> c.val]} ELSE {}]
    /\ UNCHANGED <<roleVars, acks, workerVars, logVars, timerVars, netVars>>

(* A log line of the UDP goroutine: the one of HandleCommitPayment, or one *)
(* of those HandleRecoveryData writes.                                     *)
LogCommit(n) ==
  \E l \in unlogged[n] :
    /\ WriteLine(n, l.txn, l.val)
    /\ unlogged' = [unlogged EXCEPT ![n] = @ \ {l}]
    /\ UNCHANGED <<roleVars, ledgerVars, workerVars, held, timerVars, netVars>>

-----------------------------------------------------------------------------
(* The commit goroutine *)

(* Mutation: the node's own copy is counted twice.                         *)
HasMajorityWithSelf(n, t) == acks[n][t] + 1 >= Required
HasMajority(n, t) == acks[n][t] >= Required

(* case <-ticker.C *)
WorkerTick(n, t) ==
  /\ worker[n][t] = "waiting"
  /\ HasMajority(n, t)
  /\ worker' = [worker EXCEPT ![n][t] = "marking"]
  /\ UNCHANGED <<roleVars, ledgerVars, draft, handlerVars, logVars, timerVars, netVars>>

(* case <-timeout.  Go's select takes either channel when both are ready,  *)
(* so a majority does not stop the timeout.                                *)
WorkerTimeout(n, t) ==
  /\ worker[n][t] = "waiting"
  /\ worker' = [worker EXCEPT ![n][t] = "timedout"]
  /\ UNCHANGED <<roleVars, ledgerVars, draft, handlerVars, logVars, timerVars, netVars>>

(* MarkCommitted does not return early.  Mutation: a failed node does not. *)
MarksUnchecked(n, t) == payments[n][t].status = "pending"
Marks(n, t) == IsNodeActive(n) /\ payments[n][t].status = "pending"

(* MarkCommitted up to GetPayment and the two returns that follow it.      *)
MarkCommittedRead(n, t) ==
  /\ worker[n][t] = "marking"
  /\ IF Marks(n, t)
       THEN /\ worker' = [worker EXCEPT ![n][t] = "saving"]
            /\ draft' = [draft EXCEPT ![n][t] = payments[n][t].val]
       ELSE /\ worker' = [worker EXCEPT ![n][t] = "broadcasting"]
            /\ UNCHANGED draft
  /\ UNCHANGED <<roleVars, ledgerVars, handlerVars, logVars, timerVars, netVars>>

(* MarkCommitted's SavePayment of the copy it read.                        *)
MarkCommittedSave(n, t) ==
  /\ worker[n][t] = "saving"
  /\ SavePayment(n, t, Committed(draft[n][t]))
  /\ worker' = [worker EXCEPT ![n][t] = "logging"]
  /\ UNCHANGED <<roleVars, acks, draft, handlerVars, logVars, timerVars, netVars>>

(* Its log line, of the same copy.                                         *)
MarkCommittedLog(n, t) ==
  /\ worker[n][t] = "logging"
  /\ WriteLine(n, t, draft[n][t])
  /\ worker' = [worker EXCEPT ![n][t] = "broadcasting"]
  /\ draft' = [draft EXCEPT ![n][t] = NoValue]
  /\ UNCHANGED <<roleVars, ledgerVars, handlerVars, timerVars, netVars>>

(* The datagrams of BroadcastCommit, nothing on a failed node.  Their      *)
(* status is the literal "committed", whatever the entry says.  Mutation:  *)
(* the loop misses the last peer.                                          *)
CommitsTo(n, t, peers) ==
  IF IsNodeActive(n) /\ HasPayment(n, t)
    THEN {Commit(n, m, t, payments[n][t].val) : m \in peers}
    ELSE {}
CommitToAllButLast(n, t) == CommitsTo(n, t, PeersExcluding(n) \ {LastOf(PeersExcluding(n))})
CommitToFollowers(n, t) == CommitsTo(n, t, PeersExcluding(n))

BroadcastCommit(n, t) ==
  /\ worker[n][t] = "broadcasting"
  /\ Send(CommitToFollowers(n, t))
  /\ worker' = [worker EXCEPT ![n][t] = "done"]
  /\ UNCHANGED <<roleVars, ledgerVars, draft, handlerVars, logVars, timerVars, ctrl, claims, dups>>
=============================================================================
