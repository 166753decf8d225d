----------------------------- MODULE OrderedLog -----------------------------
(***************************************************************************)
(* The ordered event log of cmd/test_integration_final: nodes stamp events *)
(* with their hybrid logical clock and add them to a reorder buffer        *)
(* (internal/clock/buffer.go) that is flushed periodically.  A recovering  *)
(* node takes over the timestamps of the recovery data it receives.        *)
(*                                                                         *)
(* Two goroutines of a node record events, the script of main and the UDP  *)
(* handler.  Stamping and adding an event are separate steps.              *)
(***************************************************************************)
EXTENDS HLC, Sequences, FiniteSets

CONSTANTS
  Server,       \* the node asked for recovery: node2
  Payments,     \* how many payments it answers with
  MaxTime,      \* bound: how far time advances
  Plans         \* bound: events and recovery requests each node starts of its own

ASSUME LogAssumption ==
  /\ Server \in Node /\ Payments \in Nat
  /\ MaxTime \in Nat /\ Plans \subseteq [Node -> Nat]

Thread == {"script", "handler"}

VARIABLES
  at,        \* where a goroutine is: "idle", "recording" or "adding"
  stamp,     \* the timestamp it adds next, (0, 0) when it has none
  left,      \* recovery data the server's handler still has to send
  client,    \* the node it sends them to
  entries,   \* Buffer.entries, an entry being its timestamp
  printed,   \* what flushes have handed to the printer
  net,       \* recovery datagrams in flight
  events     \* how many of its own each node still starts

threadVars == <<at, stamp, left, client>>
vars == <<clockVars, threadVars, entries, printed, net, events>>

Request(n) == [type |-> "RECOVERY_REQ", src |-> n, dst |-> Server]
Data(n, ts) == [type |-> "RECOVERY_DATA", dst |-> n, stamp |-> ts]

Datagram ==
       [type : {"RECOVERY_REQ"}, src : Node, dst : {Server}]
  \cup [type : {"RECOVERY_DATA"}, dst : Node, stamp : Timestamp]

TypeOK ==
  /\ ClockTypeOK
  /\ at \in [Node -> [Thread -> {"idle", "recording", "adding"}]]
  /\ stamp \in [Node -> [Thread -> Timestamp]]
  /\ left \in Nat
  /\ client \in Node
  /\ entries \in [Node -> Seq(Timestamp)]
  /\ printed \in [Node -> Seq(Timestamp)]
  /\ net \subseteq Datagram
  /\ events \in [Node -> Nat]

Init ==
  /\ ClockInit
  /\ at = [n \in Node |-> [g \in Thread |-> "idle"]]
  /\ stamp = [n \in Node |-> [g \in Thread |-> Stamp(0, 0)]]
  /\ left = 0
  /\ client = Server
  /\ entries = [n \in Node |-> <<>>]
  /\ printed = [n \in Node |-> <<>>]
  /\ net = {}
  /\ events \in Plans

-----------------------------------------------------------------------------
(* A goroutine calls recordEvent next.                                     *)
WillRecord(n, g) == at' = [at EXCEPT ![n][g] = "recording"]

(* A goroutine is between two things it does.                              *)
Ready(n, g) == at[n][g] = "idle" /\ (g = "handler" /\ n = Server => left = 0)

(* An event of the node's own, or of a replication message.                *)
Event(n, g) ==
  /\ events[n] > 0
  /\ Ready(n, g)
  /\ WillRecord(n, g)
  /\ events' = [events EXCEPT ![n] = @ - 1]
  /\ UNCHANGED <<clockVars, stamp, left, client, entries, printed, net>>

(* requestRecoveryFromNode2: its timestamp travels, but is never read.     *)
RequestRecovery(n) ==
  /\ n # Server
  /\ events[n] > 0
  /\ Ready(n, "script")
  /\ Now(n)
  /\ net' = net \cup {Request(n)}
  /\ WillRecord(n, "script")
  /\ events' = [events EXCEPT ![n] = @ - 1]
  /\ UNCHANGED <<stamp, left, client, entries, printed>>

(* The event is recorded whether the node leads or not; only a leader      *)
(* answers.                                                                *)
HandleRecoveryRequest(m) ==
  /\ m.type = "RECOVERY_REQ"
  /\ Ready(m.dst, "handler")
  /\ net' = net \ {m}
  /\ WillRecord(m.dst, "handler")
  /\ left' \in {0, Payments}
  /\ client' = m.src
  /\ UNCHANGED <<clockVars, stamp, entries, printed, events>>

(* One payment of handleRecoveryRequest's loop.  Mutation: one too many.   *)
AnotherAfterLast == left >= 0
AnotherPayment == left > 0
SendRecoveryData ==
  /\ AnotherPayment
  /\ at[Server]["handler"] = "idle"
  /\ Now(Server)
  /\ net' = net \cup {Data(client, last'[Server])}
  /\ left' = left - 1
  /\ WillRecord(Server, "handler")
  /\ UNCHANGED <<stamp, client, entries, printed, events>>

HandleRecoveryData(m) ==
  /\ m.type = "RECOVERY_DATA"
  /\ Ready(m.dst, "handler")
  /\ net' = net \ {m}
  /\ Update(m.dst, Decoded(m.stamp))
  /\ WillRecord(m.dst, "handler")
  /\ UNCHANGED <<stamp, left, client, entries, printed, events>>

(* recordEvent: HLC.Now, then Buffer.Add.                                  *)
StampEvent(n, g) ==
  /\ at[n][g] = "recording"
  /\ Now(n)
  /\ stamp' = [stamp EXCEPT ![n][g] = last'[n]]
  /\ at' = [at EXCEPT ![n][g] = "adding"]
  /\ UNCHANGED <<left, client, entries, printed, net, events>>

Add(n, g) ==
  /\ at[n][g] = "adding"
  /\ entries' = [entries EXCEPT ![n] = Append(@, stamp[n][g])]
  /\ stamp' = [stamp EXCEPT ![n][g] = Stamp(0, 0)]
  /\ at' = [at EXCEPT ![n][g] = "idle"]
  /\ UNCHANGED <<clockVars, left, client, printed, net, events>>

-----------------------------------------------------------------------------
(* sort.Slice by timestamp: an entry's place is one more than the number   *)
(* of entries before it.  Entries that tie stay as they are, one of the    *)
(* orders sort.Slice may leave them in.                                    *)
Place(s, i) ==
  1 + Cardinality({j \in DOMAIN s : Before(s[j], s[i]) \/ (j < i /\ ~Before(s[i], s[j]))})
InPlace(s) == [k \in DOMAIN s |-> s[CHOOSE i \in DOMAIN s : Place(s, i) = k]]

(* Mutations: the entries stay as they were added; the last one is missed. *)
AsAdded(s) == s
AllButLast(s) == SubSeq(InPlace(s), 1, Len(s) - 1)
Sorted(s) == InPlace(s)

Emptied(s) == <<>>

(* RunPeriodicFlush: Flush, then the printer for each entry.               *)
Flush(n) ==
  /\ entries[n] # <<>>
  /\ printed' = [printed EXCEPT ![n] = @ \o Sorted(entries[n])]
  /\ entries' = [entries EXCEPT ![n] = Emptied(@)]
  /\ UNCHANGED <<clockVars, threadVars, net, events>>

Tick ==
  /\ time < MaxTime
  /\ time' = time + 1
  /\ UNCHANGED <<offset, last, threadVars, entries, printed, net, events>>

Adjust(n) == Sync(n) /\ UNCHANGED <<threadVars, entries, printed, net, events>>

Next ==
  \/ \E n \in Node, g \in Thread : Event(n, g)
  \/ \E n \in Node : RequestRecovery(n)
  \/ \E m \in net : HandleRecoveryRequest(m)
  \/ SendRecoveryData
  \/ \E m \in net : HandleRecoveryData(m)
  \/ \E n \in Node, g \in Thread : StampEvent(n, g)
  \/ \E n \in Node, g \in Thread : Add(n, g)
  \/ \E n \in Node : Flush(n)
  \/ \E n \in Node : Adjust(n)
  \/ Tick

Spec == Init /\ [][Next]_vars

-----------------------------------------------------------------------------
(* However the clock is adjusted and whichever goroutine asks, the hybrid  *)
(* clock of a node moves on or stays, and never comes back.                *)
StampsGrow ==
  [][\A n \in Node : last'[n] # last[n] => Before(last[n], last'[n])]_vars

(* No two events of a node have the same timestamp, be they in the hands   *)
(* of a goroutine, in the buffer or printed, and none is printed twice.    *)
Recorded(n) ==
  printed[n] \o entries[n]
    \o (IF at[n]["script"] = "adding" THEN <<stamp[n]["script"]>> ELSE <<>>)
    \o (IF at[n]["handler"] = "adding" THEN <<stamp[n]["handler"]>> ELSE <<>>)
NoStampTwice ==
  \A n \in Node : \A i, j \in DOMAIN Recorded(n) : i < j => Recorded(n)[i] # Recorded(n)[j]

(* No step loses an entry a goroutine has added.                           *)
Entries(s) == {s[i] : i \in DOMAIN s}
NothingLost ==
  [][\A n \in Node :
       Entries(entries[n]) \cup Entries(printed[n])
         \subseteq Entries(entries'[n]) \cup Entries(printed'[n])]_vars

(* The printed log is not in order: an event may be added after a flush    *)
(* that printed later ones.  But of the two goroutines only one can have   *)
(* been between stamping and adding, so that each flush prints at most one *)
(* event too late.                                                         *)
Overtaken(s) == {k \in DOMAIN s : \E i \in 1 .. k - 1 : Before(s[k], s[i])}
LateByOne ==
  [][\A n \in Node :
       Cardinality(Overtaken(printed'[n])) <= Cardinality(Overtaken(printed[n])) + 1]_vars

(* The clock of a node that receives recovery data lies at most half a     *)
(* float64 step before the timestamp they were sent with.                  *)
Received(m) == m \in net /\ m \notin net' /\ m.type = "RECOVERY_DATA"
ReceivedNotLongBefore ==
  [][\A m \in net :
       Received(m) => 2 * (m.stamp.Physical - last'[m.dst].Physical) <= Grain]_vars

(* "Update merges a remote timestamp into the local HLC state": the clock  *)
(* of a node that receives recovery data is not left behind the time they  *)
(* were sent at, whatever the offsets.                                     *)
RemoteTimeMerged ==
  [][\A m \in net : Received(m) => m.stamp.Physical <= last'[m.dst].Physical]_vars
=============================================================================
