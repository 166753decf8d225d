----------------------------- MODULE LogProofs -----------------------------
(***************************************************************************)
(* The hybrid clocks and the event log of a node, for any number of nodes, *)
(* events and offsets: a clock's timestamps grow whatever its physical     *)
(* clock does, JSON costs half a float64 step, sorting a buffer rearranges *)
(* it, no timestamp is recorded twice, no event is lost, and at most one   *)
(* is printed too late.                                                    *)
(***************************************************************************)
EXTENDS OrderedLog, TLAPS, FiniteSetTheorems, SequenceTheorems


(* HLC.Now: the next timestamp is later than the last.                     *)
LEMMA NowIsLater ==
  ASSUME NEW l \in Timestamp, NEW now \in Nat
  PROVE  StampOf(l, now) \in Timestamp /\ Before(l, StampOf(l, now))
BY DEF StampOf, Stamp, Timestamp, Before

(* HLC.Update: the result is later than both timestamps it merges.         *)
LEMMA UpdateIsLater ==
  ASSUME NEW l \in Timestamp, NEW remote \in Timestamp, NEW now \in Nat
  PROVE  /\ MergeOf(l, remote, now) \in Timestamp
         /\ Before(l, MergeOf(l, remote, now))
         /\ Before(remote, MergeOf(l, remote, now))
         /\ remote.Physical <= MergeOf(l, remote, now).Physical
BY DEF MergeOf, MaxOf, Stamp, Timestamp, Before

(* The nearest float64 is at most half a step below.                       *)
LEMMA RoundedNear ==
  ASSUME NEW p \in Nat
  PROVE  Rounded(p) \in Nat /\ 2 * (p - Rounded(p)) <= Grain
<1>1. Grain \in Nat /\ Grain > 0 BY ClockAssumption
<1>2. p % Grain \in 0 .. Grain - 1 /\ p % Grain <= p
  BY <1>1
<1> QED BY <1>1, <1>2 DEF Rounded

(* What Update is given for a timestamp that was sent.                     *)
LEMMA DecodedType ==
  ASSUME NEW ts \in Timestamp
  PROVE  /\ Decoded(ts) \in Timestamp
         /\ 2 * (ts.Physical - Decoded(ts).Physical) <= Grain
<1>1. ts.Physical \in Nat /\ ts.Logical \in Nat BY DEF Timestamp
<1> QED BY <1>1, RoundedNear DEF Decoded, Stamp, Timestamp

-----------------------------------------------------------------------------
(* The part of TypeOK the clocks need: what they show, and what travels.   *)
ClockInv == ClockTypeOK /\ net \subseteq Datagram /\ client \in Node

(* What is known of a datagram from its type.                              *)
LEMMA DatagramFields ==
  ASSUME NEW m \in Datagram
  PROVE  \/ m.type = "RECOVERY_REQ" /\ m.src \in Node /\ m.dst \in Node
         \/ m.type = "RECOVERY_DATA" /\ m.dst \in Node /\ m.stamp \in Timestamp
<1>1. Server \in Node BY LogAssumption
<1>2. CASE m \in [type : {"RECOVERY_REQ"}, src : Node, dst : {Server}]
  BY <1>1, <1>2
<1>3. CASE m \in [type : {"RECOVERY_DATA"}, dst : Node, stamp : Timestamp]
  BY <1>3
<1> QED BY <1>2, <1>3 DEF Datagram

(* A clock shows a natural number, as its offset is one.                   *)
LEMMA LocalTimeType ==
  ASSUME ClockTypeOK, NEW n \in Node
  PROVE  LocalTime(n) \in Nat
<1>1. time \in Nat /\ offset[n] \in Offsets BY DEF ClockTypeOK
<1>2. offset[n] \in Nat BY <1>1, ClockAssumption
<1> QED BY <1>1, <1>2 DEF LocalTime

(* A step of HLC.Now.                                                      *)
LEMMA NowStep ==
  ASSUME ClockTypeOK, NEW n \in Node, Now(n)
  PROVE  /\ ClockTypeOK'
         /\ last'[n] \in Timestamp
         /\ \A k \in Node : last'[k] # last[k] => Before(last[k], last'[k])
<1>1. last[n] \in Timestamp /\ LocalTime(n) \in Nat
  BY LocalTimeType DEF ClockTypeOK
<1>2. StampOf(last[n], LocalTime(n)) \in Timestamp /\ Before(last[n], StampOf(last[n], LocalTime(n)))
  BY <1>1, NowIsLater
<1> QED BY <1>2 DEF Now, ClockTypeOK

(* A step of HLC.Update with a decoded timestamp.                          *)
LEMMA UpdateStep ==
  ASSUME ClockTypeOK, NEW n \in Node, NEW ts \in Timestamp, Update(n, Decoded(ts))
  PROVE  /\ ClockTypeOK'
         /\ \A k \in Node : last'[k] # last[k] => Before(last[k], last'[k])
         /\ 2 * (ts.Physical - last'[n].Physical) <= Grain
<1> DEFINE merged == MergeOf(last[n], Decoded(ts), LocalTime(n))
<1>1. last[n] \in Timestamp /\ LocalTime(n) \in Nat /\ Decoded(ts) \in Timestamp
  BY LocalTimeType, DecodedType DEF ClockTypeOK
<1>2. /\ merged \in Timestamp
      /\ Before(last[n], merged)
      /\ Decoded(ts).Physical <= merged.Physical
  BY <1>1, UpdateIsLater
<1>3. last' = [last EXCEPT ![n] = merged] /\ UNCHANGED <<time, offset>>
  BY DEF Update
<1>4. last'[n] = merged BY <1>3 DEF ClockTypeOK
<1>5. 2 * (ts.Physical - last'[n].Physical) <= Grain
  <2>1. /\ ts.Physical \in Nat /\ merged.Physical \in Nat /\ Decoded(ts).Physical \in Nat
        /\ Grain \in Nat
    BY <1>1, <1>2, ClockAssumption DEF Timestamp
  <2> HIDE DEF merged
  <2> QED BY <1>2, <1>4, <2>1, DecodedType
<1> HIDE DEF merged
<1> QED BY <1>2, <1>3, <1>5 DEF ClockTypeOK

(* What any step does to the clocks, the datagrams and the client.         *)
LEMMA ClockStep ==
  ASSUME ClockInv, [Next]_vars
  PROVE  /\ ClockInv'
         /\ \A k \in Node : last'[k] # last[k] => Before(last[k], last'[k])
         /\ \A m \in net : Received(m) => 2 * (m.stamp.Physical - last'[m.dst].Physical) <= Grain
<1> USE DEF ClockInv
<1>1. \A m \in net : \/ m.type = "RECOVERY_REQ" /\ m.src \in Node /\ m.dst \in Node
                     \/ m.type = "RECOVERY_DATA" /\ m.dst \in Node /\ m.stamp \in Timestamp
  <2> TAKE m \in net
  <2>1. m \in Datagram OBVIOUS
  <2> QED BY <2>1, DatagramFields
<1>2. CASE UNCHANGED <<clockVars, net>> /\ client' = client
  BY <1>2 DEF clockVars, ClockTypeOK, Received
<1>3. ASSUME NEW n \in Node, RequestRecovery(n)
      PROVE  /\ ClockInv'
             /\ \A k \in Node : last'[k] # last[k] => Before(last[k], last'[k])
             /\ net \subseteq net'
  <2>1. Request(n) \in Datagram BY DEF Request, Datagram
  <2> QED BY <1>3, <2>1, NowStep DEF RequestRecovery
<1>4. ASSUME NEW m \in net, HandleRecoveryRequest(m)
      PROVE  /\ ClockInv'
             /\ \A k \in Node : last'[k] = last[k]
             /\ \A d \in net \ net' : d.type = "RECOVERY_REQ"
  BY <1>1, <1>4 DEF HandleRecoveryRequest, clockVars, ClockTypeOK
<1>5. ASSUME SendRecoveryData
      PROVE  /\ ClockInv'
             /\ \A k \in Node : last'[k] # last[k] => Before(last[k], last'[k])
             /\ net \subseteq net'
  <2>1. Server \in Node BY LogAssumption
  <2>2. /\ ClockTypeOK' /\ last'[Server] \in Timestamp
        /\ \A k \in Node : last'[k] # last[k] => Before(last[k], last'[k])
    BY <1>5, <2>1, NowStep DEF SendRecoveryData
  <2>3. Data(client, last'[Server]) \in Datagram
    BY <2>2 DEF Data, Datagram
  <2> QED BY <1>5, <2>2, <2>3 DEF SendRecoveryData
<1>6. ASSUME NEW m \in net, HandleRecoveryData(m)
      PROVE  /\ ClockInv'
             /\ \A k \in Node : last'[k] # last[k] => Before(last[k], last'[k])
             /\ \A d \in net \ net' : d = m
             /\ 2 * (m.stamp.Physical - last'[m.dst].Physical) <= Grain
  <2>1. m.dst \in Node /\ m.stamp \in Timestamp
    BY <1>1, <1>6 DEF HandleRecoveryData
  <2>2. /\ ClockTypeOK'
        /\ \A k \in Node : last'[k] # last[k] => Before(last[k], last'[k])
        /\ 2 * (m.stamp.Physical - last'[m.dst].Physical) <= Grain
    BY <1>6, <2>1, UpdateStep DEF HandleRecoveryData
  <2> QED BY <1>6, <2>2 DEF HandleRecoveryData
<1>7. ASSUME NEW n \in Node, NEW g \in Thread, StampEvent(n, g)
      PROVE  /\ ClockInv'
             /\ \A k \in Node : last'[k] # last[k] => Before(last[k], last'[k])
             /\ net' = net
  BY <1>7, NowStep DEF StampEvent
<1>8. CASE Tick
  BY <1>8 DEF Tick, threadVars, ClockTypeOK, Received
<1>9. ASSUME NEW n \in Node, Adjust(n)
      PROVE  /\ ClockInv'
             /\ last' = last /\ net' = net
  BY <1>9 DEF Adjust, Sync, threadVars, ClockTypeOK
<1>10. CASE \/ \E n \in Node, g \in Thread : Event(n, g) \/ Add(n, g)
            \/ \E n \in Node : Flush(n)
            \/ UNCHANGED vars
  <2>1. UNCHANGED <<clockVars, net>> /\ client' = client
    BY <1>10 DEF Event, Add, Flush, vars, threadVars
  <2> QED BY <1>2, <2>1
<1> QED
  BY <1>3, <1>4, <1>5, <1>6, <1>7, <1>8, <1>9, <1>10 DEF Next, Received

(* Clocks, timestamps and recovery datagrams keep their types.             *)
THEOREM ClockInvariance == Spec => []ClockInv
<1>1. Init => ClockInv
  BY LogAssumption DEF Init, ClockInit, ClockInv, ClockTypeOK, Timestamp, Stamp
<1>2. ClockInv /\ [Next]_vars => ClockInv' BY ClockStep
<1> QED BY <1>1, <1>2, PTL DEF Spec

(* The timestamps of a node grow, whatever is done to its physical clock.  *)
THEOREM StampsAlwaysGrow == Spec => StampsGrow
<1>1. ClockInv /\ [Next]_vars
        => [\A n \in Node : last'[n] # last[n] => Before(last[n], last'[n])]_vars
  BY ClockStep
<1> QED BY <1>1, ClockInvariance, PTL DEF Spec, StampsGrow

(* A received timestamp is merged up to half a float64 step, for whatever  *)
(* offsets and however many nodes.                                         *)
THEOREM ReceiptWithinHalfAStep == Spec => ReceivedNotLongBefore
<1>1. ClockInv /\ [Next]_vars
        => [\A m \in net :
              Received(m) => 2 * (m.stamp.Physical - last'[m.dst].Physical) <= Grain]_vars
  BY ClockStep
<1> QED BY <1>1, ClockInvariance, PTL DEF Spec, ReceivedNotLongBefore

-----------------------------------------------------------------------------

(* Before is a strict total order of timestamps.                           *)
LEMMA BeforeOrder ==
  ASSUME NEW a \in Timestamp, NEW b \in Timestamp, NEW c \in Timestamp
  PROVE  /\ ~Before(a, a)
         /\ Before(a, b) => ~Before(b, a)
         /\ Before(a, b) /\ Before(b, c) => Before(a, c)
         /\ ~Before(a, b) /\ ~Before(b, a) => a = b
BY DEF Before, Timestamp

-----------------------------------------------------------------------------
(* The buffer's sorting.  Entry j of s comes before entry i.               *)
Sooner(s, j, i) == Before(s[j], s[i]) \/ (j < i /\ ~Before(s[i], s[j]))
Earlier(s, i) == {j \in DOMAIN s : Sooner(s, j, i)}

(* That, too, is a strict total order.                                     *)
LEMMA SoonerOrder ==
  ASSUME NEW s \in Seq(Timestamp),
         NEW i \in DOMAIN s, NEW j \in DOMAIN s, NEW k \in DOMAIN s
  PROVE  /\ ~Sooner(s, i, i)
         /\ Sooner(s, i, j) /\ Sooner(s, j, k) => Sooner(s, i, k)
         /\ i # j => Sooner(s, i, j) \/ Sooner(s, j, i)
<1>1. s[i] \in Timestamp /\ s[j] \in Timestamp /\ s[k] \in Timestamp
  BY ElementOfSeq, LenProperties
<1>2. i \in Nat /\ j \in Nat /\ k \in Nat
  BY LenProperties
<1>3. ~Sooner(s, i, i)
  BY <1>1, <1>2, BeforeOrder DEF Sooner
<1>4. ASSUME Sooner(s, i, j), Sooner(s, j, k) PROVE Sooner(s, i, k)
  <2>1. CASE Before(s[i], s[j]) /\ Before(s[j], s[k])
    BY <1>1, <2>1, BeforeOrder DEF Sooner
  <2>2. CASE Before(s[i], s[j]) /\ ~Before(s[j], s[k]) /\ ~Before(s[k], s[j])
    <3>1. s[j] = s[k] BY <1>1, <2>2, BeforeOrder
    <3> QED BY <2>2, <3>1 DEF Sooner
  <2>3. CASE ~Before(s[i], s[j]) /\ ~Before(s[j], s[i])
    <3>1. s[i] = s[j] /\ i < j BY <1>1, <1>4, <2>3, BeforeOrder DEF Sooner
    <3> QED BY <1>2, <1>4, <3>1 DEF Sooner
  <2> QED BY <1>1, <1>4, <2>1, <2>2, <2>3, BeforeOrder DEF Sooner
<1>5. i # j => Sooner(s, i, j) \/ Sooner(s, j, i)
  BY <1>1, <1>2, BeforeOrder DEF Sooner
<1> QED BY <1>3, <1>4, <1>5

(* Every entry has a place among 1 .. Len(s), and no two have the same.    *)
LEMMA PlaceInjective ==
  ASSUME NEW s \in Seq(Timestamp)
  PROVE  /\ \A i \in DOMAIN s : Place(s, i) \in DOMAIN s
         /\ \A i, j \in DOMAIN s : Place(s, i) = Place(s, j) => i = j
<1>1. /\ Len(s) \in Nat /\ DOMAIN s = 1 .. Len(s)
      /\ IsFiniteSet(DOMAIN s) /\ Cardinality(DOMAIN s) = Len(s)
  <2>1. Len(s) \in Nat /\ DOMAIN s = 1 .. Len(s)
    BY LenProperties
  <2>2. IsFiniteSet(1 .. Len(s)) /\ Cardinality(1 .. Len(s)) = Len(s)
    BY <2>1, FS_Interval
  <2> QED BY <2>1, <2>2
<1>2. ASSUME NEW i \in DOMAIN s
      PROVE  /\ Place(s, i) = 1 + Cardinality(Earlier(s, i))
             /\ IsFiniteSet(Earlier(s, i)) /\ Cardinality(Earlier(s, i)) \in Nat
  <2>1. Place(s, i) = 1 + Cardinality(Earlier(s, i))
    BY DEF Place, Earlier, Sooner
  <2>2. Earlier(s, i) \in SUBSET DOMAIN s BY DEF Earlier
  <2> QED BY <1>1, <2>1, <2>2, FS_Subset, FS_CardinalityType
<1>3. ASSUME NEW i \in DOMAIN s PROVE Place(s, i) \in DOMAIN s
  <2>1. Earlier(s, i) \in SUBSET (DOMAIN s \ {i})
    BY SoonerOrder DEF Earlier
  <2>2. IsFiniteSet(DOMAIN s \ {i}) /\ Cardinality(DOMAIN s \ {i}) = Len(s) - 1
    BY <1>1, FS_RemoveElement
  <2>3. Cardinality(Earlier(s, i)) <= Len(s) - 1
    BY <2>1, <2>2, FS_Subset
  <2> QED BY <1>1, <1>2, <2>3
<1>4. ASSUME NEW i \in DOMAIN s, NEW j \in DOMAIN s, Sooner(s, i, j)
      PROVE  Place(s, i) # Place(s, j)
  <2>1. Earlier(s, i) \in SUBSET Earlier(s, j)
    BY <1>4, SoonerOrder DEF Earlier
  <2>2. i \in Earlier(s, j) /\ i \notin Earlier(s, i)
    BY <1>4, SoonerOrder DEF Earlier
  <2>3. Cardinality(Earlier(s, i)) # Cardinality(Earlier(s, j))
    BY <1>2, <2>1, <2>2, FS_Subset
  <2> QED BY <1>2, <2>3
<1>5. ASSUME NEW i \in DOMAIN s, NEW j \in DOMAIN s, Place(s, i) = Place(s, j) PROVE i = j
  BY <1>4, <1>5, SoonerOrder
<1> QED BY <1>3, <1>5

(* So every place is taken.                                                *)
LEMMA PlaceTaken ==
  ASSUME NEW s \in Seq(Timestamp), NEW k \in DOMAIN s
  PROVE  \E i \in DOMAIN s : Place(s, i) = k
<1> DEFINE D == DOMAIN s
           f == [i \in D |-> Place(s, i)]
<1>1. D = 1 .. Len(s) /\ IsFiniteSet(D)
  BY LenProperties, FS_Interval
<1>2. f \in Injection(D, D)
  BY PlaceInjective DEF Injection, IsInjective
<1>3. f \in Surjection(D, D)
  <2> HIDE DEF f, D
  <2> QED BY <1>1, <1>2, FS_Injection
<1> QED BY <1>3 DEF Surjection

(* Where the entry comes from that sorting puts in place k.                *)
Source(s, k) == CHOOSE i \in DOMAIN s : Place(s, i) = k

(* The sorted sequence is the same one read from these places.             *)
LEMMA SortingRearranges ==
  ASSUME NEW s \in Seq(Timestamp)
  PROVE  /\ Sorted(s) \in Seq(Timestamp) /\ Len(Sorted(s)) = Len(s)
         /\ \A k \in DOMAIN s : Source(s, k) \in DOMAIN s /\ Sorted(s)[k] = s[Source(s, k)]
         /\ \A k, l \in DOMAIN s : Source(s, k) = Source(s, l) => k = l
         /\ \A i \in DOMAIN s : \E k \in DOMAIN s : Source(s, k) = i
<1> DEFINE D == DOMAIN s
<1>1. Len(s) \in Nat /\ D = 1 .. Len(s) /\ IsFiniteSet(D)
  BY LenProperties, FS_Interval
<1>4. ASSUME NEW k \in D PROVE \E i \in D : Place(s, i) = k
  BY <1>4, PlaceTaken
<1>5. \A k \in D : Source(s, k) \in D /\ Place(s, Source(s, k)) = k
  BY <1>4 DEF Source
<1>6. Sorted(s) = [k \in D |-> s[Source(s, k)]]
  BY DEF Sorted, InPlace, Source
<1>7. \A k \in D : s[Source(s, k)] \in Timestamp
  BY <1>1, <1>5, ElementOfSeq
<1>8. Sorted(s) \in [1 .. Len(s) -> Timestamp]
  BY <1>1, <1>6, <1>7
<1>9. Sorted(s) \in Seq(Timestamp)
  BY <1>1, <1>8, SeqDef
<1>10. Len(Sorted(s)) = Len(s)
  BY <1>1, <1>8, <1>9, LenProperties
<1>11. ASSUME NEW i \in D PROVE Place(s, i) \in D /\ Source(s, Place(s, i)) = i
  <2>1. Place(s, i) \in D BY PlaceInjective
  <2>2. Source(s, Place(s, i)) \in D /\ Place(s, Source(s, Place(s, i))) = Place(s, i)
    BY <1>5, <2>1
  <2> QED BY <2>1, <2>2, PlaceInjective
<1> QED BY <1>5, <1>6, <1>9, <1>10, <1>11

-----------------------------------------------------------------------------
(* Sequences without repetitions.                                          *)
Distinct(s) == \A i, j \in DOMAIN s : i < j => s[i] # s[j]

(* What is in a concatenation, and when it repeats nothing.                *)
LEMMA DistinctConcat ==
  ASSUME NEW s \in Seq(Timestamp), NEW t \in Seq(Timestamp)
  PROVE  /\ s \o t \in Seq(Timestamp)
         /\ Entries(s \o t) = Entries(s) \cup Entries(t)
         /\ Distinct(s) /\ Distinct(t) /\ Entries(s) \cap Entries(t) = {} => Distinct(s \o t)
<1>1. /\ Len(s) \in Nat /\ DOMAIN s = 1 .. Len(s)
      /\ Len(t) \in Nat /\ DOMAIN t = 1 .. Len(t)
  BY LenProperties
<1>2. /\ s \o t \in Seq(Timestamp) /\ DOMAIN (s \o t) = 1 .. Len(s) + Len(t)
      /\ \A i \in 1 .. Len(s) + Len(t) :
           (s \o t)[i] = IF i <= Len(s) THEN s[i] ELSE t[i - Len(s)]
  <2>1. s \o t \in Seq(Timestamp) /\ Len(s \o t) = Len(s) + Len(t)
    BY ConcatProperties
  <2> QED BY <2>1, ConcatProperties, LenProperties
<1>3. Entries(s \o t) = Entries(s) \cup Entries(t)
  <2>1. ASSUME NEW i \in DOMAIN (s \o t) PROVE (s \o t)[i] \in Entries(s) \cup Entries(t)
    <3>1. CASE i <= Len(s) BY <1>1, <1>2, <3>1 DEF Entries
    <3>2. CASE i > Len(s)
      <4>1. i - Len(s) \in DOMAIN t /\ (s \o t)[i] = t[i - Len(s)] BY <1>1, <1>2, <3>2
      <4> QED BY <4>1 DEF Entries
    <3> QED BY <1>1, <1>2, <3>1, <3>2
  <2>2. ASSUME NEW i \in DOMAIN s PROVE s[i] \in Entries(s \o t)
    <3>1. i \in DOMAIN (s \o t) /\ (s \o t)[i] = s[i] BY <1>1, <1>2
    <3> QED BY <3>1 DEF Entries
  <2>3. ASSUME NEW i \in DOMAIN t PROVE t[i] \in Entries(s \o t)
    <3>1. i + Len(s) \in DOMAIN (s \o t) /\ (s \o t)[i + Len(s)] = t[i] BY <1>1, <1>2
    <3> QED BY <3>1 DEF Entries
  <2> QED BY <2>1, <2>2, <2>3 DEF Entries
<1>4. ASSUME Distinct(s), Distinct(t), Entries(s) \cap Entries(t) = {},
             NEW i \in DOMAIN (s \o t), NEW j \in DOMAIN (s \o t), i < j
      PROVE  (s \o t)[i] # (s \o t)[j]
  <2>1. CASE j <= Len(s)
    BY <1>1, <1>2, <1>4, <2>1 DEF Distinct
  <2>2. CASE i <= Len(s) /\ j > Len(s)
    <3>1. i \in DOMAIN s /\ j - Len(s) \in DOMAIN t BY <1>1, <1>2, <2>2
    <3>2. (s \o t)[i] = s[i] /\ (s \o t)[j] = t[j - Len(s)] BY <1>1, <1>2, <2>2
    <3>3. s[i] \in Entries(s) /\ t[j - Len(s)] \in Entries(t) BY <3>1 DEF Entries
    <3> QED BY <1>4, <3>2, <3>3
  <2>3. CASE i > Len(s)
    <3>1. i - Len(s) \in DOMAIN t /\ j - Len(s) \in DOMAIN t /\ i - Len(s) < j - Len(s)
      BY <1>1, <1>2, <1>4, <2>3
    <3>2. (s \o t)[i] = t[i - Len(s)] /\ (s \o t)[j] = t[j - Len(s)] BY <1>1, <1>2, <1>4, <2>3
    <3> QED BY <1>4, <3>1, <3>2 DEF Distinct
  <2> QED BY <1>1, <1>2, <2>1, <2>2, <2>3
<1> QED BY <1>2, <1>3, <1>4 DEF Distinct

(* One timestamp, and none.                                                *)
LEMMA DistinctOne ==
  ASSUME NEW x \in Timestamp
  PROVE  <<x>> \in Seq(Timestamp) /\ Entries(<<x>>) = {x} /\ Distinct(<<x>>)
<1>1. <<x>> \in Seq(Timestamp) /\ DOMAIN <<x>> = {1} /\ <<x>>[1] = x
  OBVIOUS
<1> QED BY <1>1 DEF Entries, Distinct

(* No timestamp at all.                                                    *)
LEMMA DistinctNone == <<>> \in Seq(Timestamp) /\ Entries(<<>>) = {} /\ Distinct(<<>>)
<1>1. <<>> \in Seq(Timestamp) /\ DOMAIN <<>> = {}
  OBVIOUS
<1> QED BY <1>1 DEF Entries, Distinct

(* Sorting keeps the entries, and repeats none.                            *)
LEMMA SortingKeeps ==
  ASSUME NEW s \in Seq(Timestamp)
  PROVE  /\ Entries(Sorted(s)) = Entries(s)
         /\ Distinct(s) => Distinct(Sorted(s))
<1>1. /\ Len(s) \in Nat /\ DOMAIN s = 1 .. Len(s) /\ DOMAIN Sorted(s) = DOMAIN s
  BY SortingRearranges, LenProperties
<1>2. Entries(Sorted(s)) = Entries(s)
  <2>1. ASSUME NEW k \in DOMAIN Sorted(s) PROVE Sorted(s)[k] \in Entries(s)
    <3>1. Source(s, k) \in DOMAIN s /\ Sorted(s)[k] = s[Source(s, k)]
      BY <1>1, SortingRearranges
    <3> QED BY <3>1 DEF Entries
  <2>2. ASSUME NEW i \in DOMAIN s PROVE s[i] \in Entries(Sorted(s))
    <3>1. PICK k \in DOMAIN s : Source(s, k) = i
      BY SortingRearranges
    <3>2. Sorted(s)[k] = s[i] BY <3>1, SortingRearranges
    <3> QED BY <1>1, <3>2 DEF Entries
  <2> QED BY <2>1, <2>2 DEF Entries
<1>3. ASSUME Distinct(s), NEW k \in DOMAIN s, NEW l \in DOMAIN s, k < l
      PROVE  Sorted(s)[k] # Sorted(s)[l]
  <2>1. /\ Source(s, k) \in DOMAIN s /\ Source(s, l) \in DOMAIN s
        /\ Source(s, k) # Source(s, l)
    BY <1>1, <1>3, SortingRearranges
  <2>2. s[Source(s, k)] # s[Source(s, l)]
    BY <1>1, <1>3, <2>1 DEF Distinct
  <2> QED BY <2>2, SortingRearranges
<1> QED BY <1>1, <1>2, <1>3 DEF Distinct

-----------------------------------------------------------------------------
(* TypeOK: each step, given what it does to the clocks (ClockStep).        *)
LEMMA LogTypeStep ==
  ASSUME TypeOK, [Next]_vars
  PROVE  TypeOK'
<1> USE DEF TypeOK, Thread
<1>1. ClockInv BY DEF ClockInv
<1>2. ClockTypeOK' /\ net' \subseteq Datagram /\ client' \in Node
  BY <1>1, ClockStep DEF ClockInv
<1>3. Payments \in Nat /\ Server \in Node BY LogAssumption
<1>4. ASSUME NEW n \in Node, NEW g \in Thread, Event(n, g) PROVE TypeOK'
  BY <1>2, <1>4 DEF Event, Ready, WillRecord
<1>5. ASSUME NEW n \in Node, RequestRecovery(n) PROVE TypeOK'
  BY <1>2, <1>5 DEF RequestRecovery, Ready, WillRecord
<1>6. ASSUME NEW m \in net, HandleRecoveryRequest(m) PROVE TypeOK'
  <2>1. left' \in Nat
    BY <1>3, <1>6 DEF HandleRecoveryRequest
  <2>2. at' \in [Node -> [Thread -> {"idle", "recording", "adding"}]]
    BY <1>6 DEF HandleRecoveryRequest, WillRecord
  <2> QED BY <1>2, <1>6, <2>1, <2>2 DEF HandleRecoveryRequest
<1>7. CASE SendRecoveryData
  BY <1>2, <1>3, <1>7 DEF SendRecoveryData, AnotherPayment, WillRecord
<1>8. ASSUME NEW m \in net, HandleRecoveryData(m) PROVE TypeOK'
  BY <1>2, <1>8 DEF HandleRecoveryData, WillRecord
<1>9. ASSUME NEW n \in Node, NEW g \in Thread, StampEvent(n, g) PROVE TypeOK'
  <2>1. last'[n] \in Timestamp BY <1>2 DEF ClockTypeOK
  <2> QED BY <1>2, <1>9, <2>1 DEF StampEvent
<1>10. ASSUME NEW n \in Node, NEW g \in Thread, Add(n, g) PROVE TypeOK'
  <2>1. Append(entries[n], stamp[n][g]) \in Seq(Timestamp) /\ Stamp(0, 0) \in Timestamp
    BY AppendProperties DEF Stamp, Timestamp
  <2> QED BY <1>2, <1>10, <2>1 DEF Add
<1>11. ASSUME NEW n \in Node, Flush(n) PROVE TypeOK'
  <2>1. printed[n] \o Sorted(entries[n]) \in Seq(Timestamp)
    BY SortingRearranges, ConcatProperties
  <2>2. Emptied(entries[n]) \in Seq(Timestamp)
    BY DEF Emptied
  <2> QED BY <1>2, <1>11, <2>1, <2>2 DEF Flush, threadVars
<1>12. CASE Tick \/ (\E n \in Node : Adjust(n)) \/ UNCHANGED vars
  <2>1. UNCHANGED <<threadVars, entries, printed, net, events>>
    BY <1>12 DEF Tick, Adjust, vars
  <2> QED BY <1>2, <2>1 DEF threadVars
<1> QED
  BY <1>4, <1>5, <1>6, <1>7, <1>8, <1>9, <1>10, <1>11, <1>12 DEF Next

(* TypeOK in the first states.                                             *)
LEMMA LogTypeInit == Init => TypeOK
<1> SUFFICES ASSUME Init PROVE TypeOK
  OBVIOUS
<1>1. ClockTypeOK /\ Stamp(0, 0) \in Timestamp
  BY DEF Init, ClockInit, ClockTypeOK, Timestamp, Stamp
<1>2. <<>> \in Seq(Timestamp) OBVIOUS
<1> QED BY <1>1, <1>2, LogAssumption DEF Init, TypeOK

(* TypeOK of the event log, for any number of nodes, plans and offsets.    *)
THEOREM LogTypes == Spec => []TypeOK
<1>1. TypeOK /\ [Next]_vars => TypeOK' BY LogTypeStep
<1> QED BY <1>1, LogTypeInit, PTL DEF Spec

-----------------------------------------------------------------------------
(* Why no timestamp is recorded twice: all there are, printed, buffered or *)
(* in a goroutine's hands, are no later than the clock's last one, and the *)
(* next one is later.                                                      *)
Adding(n, g) == at[n][g] = "adding"
NodeLog(n) ==
  /\ Distinct(printed[n]) /\ Distinct(entries[n])
  /\ Entries(printed[n]) \cap Entries(entries[n]) = {}
  /\ \A ts \in Entries(printed[n]) \cup Entries(entries[n]) : ~Before(last[n], ts)
  /\ \A g \in Thread :
       Adding(n, g) => /\ ~Before(last[n], stamp[n][g])
                       /\ stamp[n][g] \notin Entries(printed[n]) \cup Entries(entries[n])
  /\ Adding(n, "script") /\ Adding(n, "handler") => stamp[n]["script"] # stamp[n]["handler"]
LogInv == TypeOK /\ \A n \in Node : NodeLog(n)

(* Entries of a sequence of timestamps are timestamps.                     *)
LEMMA EntriesType ==
  ASSUME NEW s \in Seq(Timestamp)
  PROVE  Entries(s) \subseteq Timestamp
BY ElementOfSeq, LenProperties DEF Entries

(* Steps that leave a node's log alone: its clock may move on.             *)
LEMMA StepsOfOthers ==
  ASSUME LogInv, NEW k \in Node, last'[k] \in Timestamp,
         last'[k] = last[k] \/ Before(last[k], last'[k]),
         printed'[k] = printed[k], entries'[k] = entries[k], stamp'[k] = stamp[k],
         \A g \in Thread : Adding(k, g)' => Adding(k, g)
  PROVE  NodeLog(k)'
<1>1. /\ last[k] \in Timestamp
      /\ printed[k] \in Seq(Timestamp) /\ entries[k] \in Seq(Timestamp)
      /\ \A g \in Thread : stamp[k][g] \in Timestamp
  BY DEF LogInv, TypeOK, ClockTypeOK
<1>2. \A ts \in Timestamp : ~Before(last[k], ts) => ~Before(last'[k], ts)
  BY <1>1, BeforeOrder
<1>3. Entries(printed[k]) \cup Entries(entries[k]) \subseteq Timestamp
  BY <1>1, EntriesType
<1>4. NodeLog(k) BY DEF LogInv
<1> QED BY <1>1, <1>2, <1>3, <1>4 DEF NodeLog, Thread

(* The steps that neither stamp, nor add, nor flush.                       *)
QuietStep ==
  \/ \E n \in Node, g \in Thread : Event(n, g)
  \/ \E n \in Node : RequestRecovery(n)
  \/ \E m \in net : HandleRecoveryRequest(m) \/ HandleRecoveryData(m)
  \/ SendRecoveryData \/ Tick
  \/ \E n \in Node : Adjust(n)
  \/ UNCHANGED vars

LEMMA QuietSteps ==
  ASSUME TypeOK, QuietStep
  PROVE  /\ UNCHANGED <<printed, entries, stamp>>
         /\ \A k \in Node, g \in Thread : Adding(k, g)' => Adding(k, g)
<1> USE DEF QuietStep
<1>1. UNCHANGED <<printed, entries, stamp>>
  BY DEF Event, RequestRecovery, HandleRecoveryRequest, HandleRecoveryData, SendRecoveryData,
     Tick, Adjust, threadVars, vars
<1>2. \A k \in Node, g \in Thread : Adding(k, g)' => Adding(k, g)
  <2>1. CASE at' = at BY <2>1 DEF Adding
  <2>2. ASSUME NEW n, NEW h, WillRecord(n, h)
        PROVE  \A k \in Node, g \in Thread : Adding(k, g)' => Adding(k, g)
    BY <2>2 DEF WillRecord, Adding, TypeOK
  <2> QED
    BY <2>1, <2>2 DEF Event, RequestRecovery, HandleRecoveryRequest, HandleRecoveryData,
       SendRecoveryData, Tick, Adjust, threadVars, vars
<1> QED BY <1>1, <1>2

(* The steps: stamping, adding, flushing, and the others.                  *)
LEMMA LogStep ==
  ASSUME LogInv, [Next]_vars
  PROVE  LogInv'
<1>1. TypeOK /\ TypeOK' BY LogTypeStep DEF LogInv
<1>2. \A k \in Node : last'[k] # last[k] => Before(last[k], last'[k])
  BY <1>1, ClockStep DEF ClockInv, TypeOK
<1>3. \A k \in Node : /\ last[k] \in Timestamp /\ last'[k] \in Timestamp
                     /\ printed[k] \in Seq(Timestamp) /\ entries[k] \in Seq(Timestamp)
                     /\ \A g \in Thread : stamp[k][g] \in Timestamp
  BY <1>1 DEF TypeOK, ClockTypeOK
<1>4. ASSUME UNCHANGED <<printed, entries, stamp>>,
             \A k \in Node, g \in Thread : Adding(k, g)' => Adding(k, g)
      PROVE  \A k \in Node : NodeLog(k)'
  BY <1>2, <1>3, <1>4, StepsOfOthers
<1>5. ASSUME NEW n \in Node, NEW g \in Thread, StampEvent(n, g)
      PROVE  \A k \in Node : NodeLog(k)'
  <2>1. /\ stamp' = [stamp EXCEPT ![n][g] = last'[n]]
        /\ at' = [at EXCEPT ![n][g] = "adding"]
        /\ UNCHANGED <<printed, entries>>
    BY <1>5 DEF StampEvent
  <2>2. Before(last[n], last'[n])
    BY <1>1, <1>3, <1>5, NowIsLater, LocalTimeType DEF StampEvent, Now, TypeOK, ClockTypeOK
  <2>3. \A ts \in Timestamp : ~Before(last[n], ts) => ts # last'[n] /\ ~Before(last'[n], ts)
    BY <1>3, <2>2, BeforeOrder
  <2>4. Entries(printed[n]) \cup Entries(entries[n]) \subseteq Timestamp
    BY <1>3, EntriesType
  <2>5. NodeLog(n) BY DEF LogInv
  <2>6. /\ stamp'[n][g] = last'[n] /\ Adding(n, g)'
        /\ \A h \in Thread \ {g} : stamp'[n][h] = stamp[n][h] /\ (Adding(n, h)' <=> Adding(n, h))
    BY <1>1, <2>1 DEF TypeOK, Adding
  <2>7. ~Before(last'[n], last'[n]) BY <1>3, BeforeOrder
  <2>8. NodeLog(n)'
    BY <1>3, <2>1, <2>3, <2>4, <2>5, <2>6, <2>7 DEF NodeLog, Thread
  <2>9. ASSUME NEW k \in Node \ {n} PROVE NodeLog(k)'
    <3>1. stamp'[k] = stamp[k] /\ at'[k] = at[k] BY <1>1, <2>1 DEF TypeOK
    <3> QED BY <1>2, <1>3, <2>1, <3>1, StepsOfOthers DEF Adding
  <2> QED BY <2>8, <2>9
<1>6. ASSUME NEW n \in Node, NEW g \in Thread, Add(n, g)
      PROVE  \A k \in Node : NodeLog(k)'
  <2>1. /\ entries' = [entries EXCEPT ![n] = Append(@, stamp[n][g])]
        /\ stamp' = [stamp EXCEPT ![n][g] = Stamp(0, 0)]
        /\ at' = [at EXCEPT ![n][g] = "idle"]
        /\ Adding(n, g)
        /\ UNCHANGED <<last, printed>>
    BY <1>6 DEF Add, clockVars, Adding
  <2>2. NodeLog(n) BY DEF LogInv
  <2> DEFINE x == stamp[n][g]
  <2>3. x \in Timestamp BY <1>3
  <2>4. entries'[n] = entries[n] \o <<x>>
    BY <1>1, <1>3, <2>1, <2>3, AppendIsConcat DEF TypeOK
  <2>5. x \notin Entries(printed[n]) \cup Entries(entries[n]) /\ ~Before(last[n], x)
    BY <2>1, <2>2 DEF NodeLog
  <2>6. Entries(entries'[n]) = Entries(entries[n]) \cup {x} /\ Distinct(entries'[n])
    <3>1. <<x>> \in Seq(Timestamp) /\ Entries(<<x>>) = {x} /\ Distinct(<<x>>)
      BY <2>3, DistinctOne
    <3>2. Distinct(entries[n]) /\ Entries(entries[n]) \cap {x} = {}
      BY <2>2, <2>5 DEF NodeLog
    <3> HIDE DEF x
    <3>3. entries[n] \in Seq(Timestamp) BY <1>3
    <3> DEFINE one == <<x>>
    <3>4. entries'[n] = entries[n] \o one BY <2>4
    <3> HIDE DEF one
    <3>5. Distinct(entries[n] \o one) /\ Entries(entries[n] \o one) = Entries(entries[n]) \cup Entries(one)
      BY <3>1, <3>2, <3>3, DistinctConcat DEF one
    <3> QED BY <3>1, <3>4, <3>5 DEF one
  <2>7. /\ ~Adding(n, g)'
        /\ \A h \in Thread \ {g} : stamp'[n][h] = stamp[n][h] /\ (Adding(n, h)' <=> Adding(n, h))
    BY <1>1, <2>1 DEF TypeOK, Adding
  <2>8. \A h \in Thread \ {g} : Adding(n, h) => stamp[n][h] # x
    BY <2>1, <2>2 DEF NodeLog, Thread
  <2>9. NodeLog(n)'
    BY <2>1, <2>2, <2>5, <2>6, <2>7, <2>8 DEF NodeLog, Thread
  <2>10. ASSUME NEW k \in Node \ {n} PROVE NodeLog(k)'
    <3>1. stamp'[k] = stamp[k] /\ at'[k] = at[k] /\ entries'[k] = entries[k]
      BY <1>1, <2>1 DEF TypeOK
    <3> QED BY <1>3, <2>1, <3>1, StepsOfOthers DEF Adding
  <2> QED BY <2>9, <2>10
<1>7. ASSUME NEW n \in Node, Flush(n)
      PROVE  \A k \in Node : NodeLog(k)'
  <2>1. /\ printed' = [printed EXCEPT ![n] = @ \o Sorted(entries[n])]
        /\ entries' = [entries EXCEPT ![n] = Emptied(@)]
        /\ UNCHANGED <<last, stamp, at>>
    BY <1>7 DEF Flush, clockVars, threadVars
  <2>2. NodeLog(n) BY DEF LogInv
  <2>3. /\ Sorted(entries[n]) \in Seq(Timestamp) /\ Distinct(Sorted(entries[n]))
        /\ Entries(Sorted(entries[n])) \subseteq Entries(entries[n])
    BY <1>3, <2>2, SortingRearranges, SortingKeeps DEF NodeLog
  <2>4. printed'[n] = printed[n] \o Sorted(entries[n]) /\ entries'[n] = <<>>
    BY <1>1, <2>1 DEF TypeOK, Emptied
  <2>5. /\ Entries(printed'[n]) = Entries(printed[n]) \cup Entries(Sorted(entries[n]))
        /\ Distinct(printed'[n])
    BY <1>3, <2>2, <2>3, <2>4, DistinctConcat DEF NodeLog
  <2>6. Entries(entries'[n]) = {} /\ Distinct(entries'[n])
    BY <2>4, DistinctNone
  <2>7. NodeLog(n)'
    BY <2>1, <2>2, <2>3, <2>5, <2>6 DEF NodeLog, Adding
  <2>8. ASSUME NEW k \in Node \ {n} PROVE NodeLog(k)'
    <3>1. printed'[k] = printed[k] /\ entries'[k] = entries[k]
      BY <1>1, <2>1 DEF TypeOK
    <3> QED BY <1>3, <2>1, <3>1, StepsOfOthers DEF Adding
  <2> QED BY <2>7, <2>8
<1>8. ASSUME QuietStep PROVE \A k \in Node : NodeLog(k)'
  BY <1>1, <1>4, <1>8, QuietSteps
<1> QED
  BY <1>1, <1>5, <1>6, <1>7, <1>8 DEF Next, QuietStep, LogInv

(* The invariant says what the property asks for.                          *)
LEMMA RecordedDistinct ==
  ASSUME LogInv
  PROVE  NoStampTwice
<1> SUFFICES ASSUME NEW n \in Node PROVE Distinct(Recorded(n))
  BY DEF NoStampTwice, Distinct
<1>1. NodeLog(n) BY DEF LogInv
<1> DEFINE p == printed[n]
           e == entries[n]
           a == IF at[n]["script"] = "adding" THEN <<stamp[n]["script"]>> ELSE <<>>
           b == IF at[n]["handler"] = "adding" THEN <<stamp[n]["handler"]>> ELSE <<>>
<1>2. /\ p \in Seq(Timestamp) /\ e \in Seq(Timestamp)
      /\ stamp[n]["script"] \in Timestamp /\ stamp[n]["handler"] \in Timestamp
  BY DEF LogInv, TypeOK, Thread
<1>3. /\ a \in Seq(Timestamp) /\ Distinct(a)
      /\ Entries(a) = IF Adding(n, "script") THEN {stamp[n]["script"]} ELSE {}
  BY <1>2, DistinctOne, DistinctNone DEF Adding
<1>4. /\ b \in Seq(Timestamp) /\ Distinct(b)
      /\ Entries(b) = IF Adding(n, "handler") THEN {stamp[n]["handler"]} ELSE {}
  BY <1>2, DistinctOne, DistinctNone DEF Adding
<1>5. /\ Distinct(p) /\ Distinct(e) /\ Entries(p) \cap Entries(e) = {}
      /\ Entries(a) \cap (Entries(p) \cup Entries(e)) = {}
      /\ Entries(b) \cap (Entries(p) \cup Entries(e) \cup Entries(a)) = {}
  BY <1>1, <1>3, <1>4 DEF NodeLog, Thread
<1>6. Recorded(n) = ((p \o e) \o a) \o b BY DEF Recorded
<1> HIDE DEF p, e, a, b
<1>7. /\ p \o e \in Seq(Timestamp) /\ Distinct(p \o e)
      /\ Entries(p \o e) = Entries(p) \cup Entries(e)
  BY <1>2, <1>5, DistinctConcat
<1>8. /\ (p \o e) \o a \in Seq(Timestamp) /\ Distinct((p \o e) \o a)
      /\ Entries((p \o e) \o a) = Entries(p) \cup Entries(e) \cup Entries(a)
  BY <1>3, <1>5, <1>7, DistinctConcat
<1>9. Distinct(((p \o e) \o a) \o b)
  BY <1>4, <1>5, <1>8, DistinctConcat
<1> QED BY <1>6, <1>9

(* The invariant of the logs holds.                                        *)
THEOREM LogInvariance == Spec => []LogInv
<1>1. Init => LogInv
  <2> SUFFICES ASSUME Init PROVE \A n \in Node : NodeLog(n)
    BY LogTypeInit DEF LogInv
  <2>1. ASSUME NEW n \in Node PROVE NodeLog(n)
    <3>1. printed[n] = <<>> /\ entries[n] = <<>> /\ \A g \in Thread : ~Adding(n, g)
      BY DEF Init, Adding
    <3>2. Entries(<<>>) = {} /\ Distinct(<<>>)
      BY DistinctNone
    <3> QED BY <3>1, <3>2 DEF NodeLog, Thread
  <2> QED BY <2>1
<1>2. LogInv /\ [Next]_vars => LogInv' BY LogStep
<1> QED BY <1>1, <1>2, PTL DEF Spec

(* No timestamp is recorded twice, however the goroutines, the flush and   *)
(* the adjustments of the clock interleave.                                *)
THEOREM NoStampEverTwice == Spec => []NoStampTwice
<1>1. LogInv => NoStampTwice BY RecordedDistinct
<1> QED BY <1>1, LogInvariance, PTL

(* No entry a goroutine has added is lost: a flush prints all of them.     *)
THEOREM NothingEverLost == Spec => NothingLost
<1>1. ASSUME TypeOK, [Next]_vars, NEW n \in Node
      PROVE  Entries(entries[n]) \cup Entries(printed[n])
               \subseteq Entries(entries'[n]) \cup Entries(printed'[n])
  <2>1. printed[n] \in Seq(Timestamp) /\ entries[n] \in Seq(Timestamp)
    BY <1>1 DEF TypeOK
  <2>2. CASE UNCHANGED <<entries, printed>>
    BY <2>2
  <2>3. ASSUME NEW k \in Node, NEW g \in Thread, Add(k, g)
        PROVE  Entries(entries[n]) \subseteq Entries(entries'[n]) /\ printed' = printed
    <3> DEFINE one == <<stamp[k][g]>>
    <3>1. one \in Seq(Timestamp)
      BY <1>1 DEF TypeOK
    <3>2. CASE k = n
      <4>1. entries'[n] = entries[n] \o one /\ printed' = printed
        BY <1>1, <2>1, <2>3, <3>2, AppendIsConcat DEF Add, TypeOK
      <4> HIDE DEF one
      <4>2. Entries(entries[n] \o one) = Entries(entries[n]) \cup Entries(one)
        BY <2>1, <3>1, DistinctConcat
      <4> QED BY <4>1, <4>2
    <3>3. CASE k # n
      <4>1. entries'[n] = entries[n] /\ printed' = printed
        BY <1>1, <2>3, <3>3 DEF Add, TypeOK
      <4> QED BY <4>1
    <3> QED BY <3>2, <3>3
  <2>4. ASSUME NEW k \in Node, Flush(k)
        PROVE  Entries(entries[n]) \cup Entries(printed[n])
                 \subseteq Entries(entries'[n]) \cup Entries(printed'[n])
    <3>1. CASE k = n
      <4>1. printed'[n] = printed[n] \o Sorted(entries[n])
        BY <1>1, <2>4, <3>1 DEF Flush, TypeOK
      <4>2. Sorted(entries[n]) \in Seq(Timestamp) /\ Entries(Sorted(entries[n])) = Entries(entries[n])
        BY <2>1, SortingRearranges, SortingKeeps
      <4>3. Entries(printed[n] \o Sorted(entries[n])) = Entries(printed[n]) \cup Entries(Sorted(entries[n]))
        BY <2>1, <4>2, DistinctConcat
      <4> QED BY <4>1, <4>2, <4>3
    <3>2. CASE k # n
      <4>1. entries'[n] = entries[n] /\ printed'[n] = printed[n]
        BY <1>1, <2>4, <3>2 DEF Flush, TypeOK
      <4> QED BY <4>1
    <3> QED BY <3>1, <3>2
  <2>5. CASE \/ \E k \in Node, g \in Thread : Event(k, g) \/ StampEvent(k, g)
             \/ \E k \in Node : RequestRecovery(k)
             \/ \E m \in net : HandleRecoveryRequest(m) \/ HandleRecoveryData(m)
             \/ SendRecoveryData \/ Tick
             \/ \E k \in Node : Adjust(k)
             \/ UNCHANGED vars
    <3>1. UNCHANGED <<entries, printed>>
      BY <2>5 DEF Event, StampEvent, RequestRecovery, HandleRecoveryRequest, HandleRecoveryData,
         SendRecoveryData, Tick, Adjust, vars
    <3> QED BY <2>2, <3>1
  <2> QED BY <1>1, <2>3, <2>4, <2>5 DEF Next
<1>2. TypeOK /\ [Next]_vars
        => [\A n \in Node :
              Entries(entries[n]) \cup Entries(printed[n])
                \subseteq Entries(entries'[n]) \cup Entries(printed'[n])]_vars
  BY <1>1
<1> QED BY <1>2, LogTypes, PTL DEF Spec, NothingLost

-----------------------------------------------------------------------------
(* How late the printed log can be.  A flush prints what is added; what is *)
(* late by then is in the hands of a goroutine.  When both have a          *)
(* timestamp in their hands, the later of the two is the last of all the   *)
(* node has, since its goroutine has not added one after it: so that the   *)
(* other is late at most.                                                  *)
InHand(n) == {stamp[n][g] : g \in {h \in Thread : Adding(n, h)}}
Added(n) == Entries(printed[n]) \cup Entries(entries[n])
LastOfAll(n, g) == \A x \in Added(n) : Before(x, stamp[n][g])

Late(n) ==
  {x \in Entries(entries[n]) \cup InHand(n) : \E p \in Entries(printed[n]) : Before(x, p)}

AtMostOneLate(n) == \A x, y \in Late(n) : x = y
OneIsLast(n) ==
  Adding(n, "script") /\ Adding(n, "handler") =>
    LastOfAll(n, "script") \/ LastOfAll(n, "handler")

LateInv == \A n \in Node : AtMostOneLate(n) /\ OneIsLast(n)

(* Steps that leave a node's log alone.                                    *)
LEMMA LateUnchanged ==
  ASSUME LateInv, NEW k \in Node,
         printed'[k] = printed[k], entries'[k] = entries[k], stamp'[k] = stamp[k],
         \A g \in Thread : Adding(k, g)' => Adding(k, g)
  PROVE  AtMostOneLate(k)' /\ OneIsLast(k)'
<1>1. AtMostOneLate(k) /\ OneIsLast(k) BY DEF LateInv
<1>2. InHand(k)' \subseteq InHand(k) BY DEF InHand
<1>3. Late(k)' \subseteq Late(k) BY <1>2 DEF Late
<1>4. AtMostOneLate(k)' BY <1>1, <1>3 DEF AtMostOneLate
<1>5. OneIsLast(k)' BY <1>1 DEF OneIsLast, LastOfAll, Added, Thread
<1> QED BY <1>4, <1>5

(* A new timestamp is later than all there are.                            *)
LEMMA LateStamp ==
  ASSUME LogInv, LogInv', LateInv, NEW n \in Node, NEW g \in Thread, StampEvent(n, g)
  PROVE  AtMostOneLate(n)' /\ OneIsLast(n)'
<1>1. TypeOK /\ NodeLog(n) /\ AtMostOneLate(n) BY DEF LogInv, LateInv
<1>2. /\ last[n] \in Timestamp /\ last'[n] \in Timestamp
      /\ Entries(printed[n]) \cup Entries(entries[n]) \subseteq Timestamp
  BY EntriesType DEF LogInv, TypeOK, ClockTypeOK
<1>3. Before(last[n], last'[n])
  BY <1>1, <1>2, NowIsLater, LocalTimeType DEF StampEvent, Now, TypeOK, ClockTypeOK
<1>4. /\ printed' = printed /\ entries' = entries
      /\ stamp'[n][g] = last'[n]
      /\ \A h \in Thread \ {g} : stamp'[n][h] = stamp[n][h] /\ (Adding(n, h)' <=> Adding(n, h))
  BY <1>1 DEF StampEvent, TypeOK, Adding
<1>5. \A x \in Added(n) : Before(x, last'[n])
  <2>1. \A x \in Added(n) : ~Before(last[n], x) BY <1>1 DEF NodeLog, Added
  <2> QED BY <1>2, <1>3, <2>1, BeforeOrder DEF Added
<1>6. LastOfAll(n, g)' BY <1>4, <1>5 DEF LastOfAll, Added
<1>7. OneIsLast(n)' BY <1>6 DEF OneIsLast, Thread
<1>8. InHand(n)' \subseteq InHand(n) \cup {last'[n]} BY <1>4 DEF InHand
<1>9. \A p \in Entries(printed[n]) : ~Before(last'[n], p)
  BY <1>2, <1>5, BeforeOrder DEF Added
<1>10. Late(n)' \subseteq Late(n) BY <1>4, <1>8, <1>9 DEF Late
<1>11. AtMostOneLate(n)' BY <1>1, <1>10 DEF AtMostOneLate
<1> QED BY <1>7, <1>11

(* Adding a timestamp takes it from the goroutine's hands to the buffer.   *)
LEMMA LateAdd ==
  ASSUME LogInv, LateInv, NEW n \in Node, NEW g \in Thread, Add(n, g)
  PROVE  AtMostOneLate(n)' /\ OneIsLast(n)'
<1>1. TypeOK /\ AtMostOneLate(n) BY DEF LogInv, LateInv
<1>2. printed' = printed /\ Adding(n, g) /\ ~Adding(n, g)'
  BY <1>1 DEF Add, Adding, TypeOK
<1>3. Entries(entries'[n]) = Entries(entries[n]) \cup {stamp[n][g]}
  <2> DEFINE x == stamp[n][g]
             one == <<x>>
  <2>1. x \in Timestamp /\ entries[n] \in Seq(Timestamp) BY <1>1 DEF TypeOK
  <2>2. entries'[n] = Append(entries[n], x) BY <1>1 DEF Add, TypeOK
  <2>3. one \in Seq(Timestamp) /\ Entries(one) = {x} BY <2>1, DistinctOne
  <2> HIDE DEF x
  <2>4. entries'[n] = entries[n] \o one BY <2>1, <2>2, AppendIsConcat
  <2> HIDE DEF one
  <2>5. Entries(entries[n] \o one) = Entries(entries[n]) \cup Entries(one)
    BY <2>1, <2>3, DistinctConcat
  <2> QED BY <2>3, <2>4, <2>5 DEF x
<1>4. \A h \in Thread \ {g} : stamp'[n][h] = stamp[n][h] /\ (Adding(n, h)' <=> Adding(n, h))
  BY <1>1 DEF Add, TypeOK, Adding
<1>5. InHand(n)' \subseteq InHand(n) /\ stamp[n][g] \in InHand(n)
  BY <1>2, <1>4 DEF InHand
<1>6. Late(n)' \subseteq Late(n) BY <1>2, <1>3, <1>5 DEF Late
<1>7. AtMostOneLate(n)' BY <1>1, <1>6 DEF AtMostOneLate
<1>8. OneIsLast(n)' BY <1>2 DEF OneIsLast, Thread
<1> QED BY <1>7, <1>8

(* A flush leaves nothing to print but what goroutines have in their hands.*)
LEMMA LateFlush ==
  ASSUME LogInv, LateInv, NEW n \in Node, Flush(n)
  PROVE  AtMostOneLate(n)' /\ OneIsLast(n)'
<1>1. TypeOK /\ OneIsLast(n) BY DEF LogInv, LateInv
<1>2. printed[n] \in Seq(Timestamp) /\ entries[n] \in Seq(Timestamp)
      /\ \A g \in Thread : stamp[n][g] \in Timestamp
  BY <1>1 DEF TypeOK
<1>3. /\ printed'[n] = printed[n] \o Sorted(entries[n]) /\ entries'[n] = <<>>
      /\ stamp' = stamp /\ at' = at
  BY <1>1 DEF Flush, TypeOK, Emptied, threadVars
<1>4. Entries(printed'[n]) = Added(n) /\ Entries(entries'[n]) = {}
  <2>1. Sorted(entries[n]) \in Seq(Timestamp) /\ Entries(Sorted(entries[n])) = Entries(entries[n])
    BY <1>2, SortingRearranges, SortingKeeps
  <2> QED BY <1>2, <1>3, <2>1, DistinctConcat, DistinctNone DEF Added
<1>5. Added(n) \subseteq Timestamp BY <1>2, EntriesType DEF Added
<1>6. OneIsLast(n)' BY <1>1, <1>3, <1>4 DEF OneIsLast, LastOfAll, Added, Adding
<1>7. Late(n)' = {x \in InHand(n) : \E p \in Added(n) : Before(x, p)}
  BY <1>3, <1>4 DEF Late, InHand, Adding
<1>8. ASSUME NEW g \in Thread, LastOfAll(n, g) PROVE stamp[n][g] \notin Late(n)'
  BY <1>2, <1>5, <1>7, <1>8, BeforeOrder DEF LastOfAll
<1>9. AtMostOneLate(n)'
  <2> SUFFICES ASSUME NEW x \in Late(n)', NEW y \in Late(n)' PROVE x = y
    BY DEF AtMostOneLate
  <2>1. PICK g \in Thread : Adding(n, g) /\ x = stamp[n][g] BY <1>7 DEF InHand
  <2>2. PICK h \in Thread : Adding(n, h) /\ y = stamp[n][h] BY <1>7 DEF InHand
  <2> QED BY <1>1, <1>8, <2>1, <2>2 DEF OneIsLast, Thread
<1> QED BY <1>6, <1>9

LEMMA LateStep ==
  ASSUME LogInv, LogInv', LateInv, [Next]_vars
  PROVE  LateInv'
<1> SUFFICES ASSUME NEW k \in Node PROVE AtMostOneLate(k)' /\ OneIsLast(k)'
  BY DEF LateInv
<1>1. TypeOK BY DEF LogInv
<1>2. ASSUME NEW n \in Node, NEW g \in Thread, StampEvent(n, g)
      PROVE  AtMostOneLate(k)' /\ OneIsLast(k)'
  <2>1. CASE k = n BY <1>2, <2>1, LateStamp
  <2>2. CASE k # n
    <3>1. /\ printed'[k] = printed[k] /\ entries'[k] = entries[k] /\ stamp'[k] = stamp[k]
          /\ at'[k] = at[k]
      BY <1>1, <1>2, <2>2 DEF StampEvent, TypeOK
    <3> QED BY <3>1, LateUnchanged DEF Adding
  <2> QED BY <2>1, <2>2
<1>3. ASSUME NEW n \in Node, NEW g \in Thread, Add(n, g)
      PROVE  AtMostOneLate(k)' /\ OneIsLast(k)'
  <2>1. CASE k = n BY <1>3, <2>1, LateAdd
  <2>2. CASE k # n
    <3>1. /\ printed'[k] = printed[k] /\ entries'[k] = entries[k] /\ stamp'[k] = stamp[k]
          /\ at'[k] = at[k]
      BY <1>1, <1>3, <2>2 DEF Add, TypeOK
    <3> QED BY <3>1, LateUnchanged DEF Adding
  <2> QED BY <2>1, <2>2
<1>4. ASSUME NEW n \in Node, Flush(n)
      PROVE  AtMostOneLate(k)' /\ OneIsLast(k)'
  <2>1. CASE k = n BY <1>4, <2>1, LateFlush
  <2>2. CASE k # n
    <3>1. /\ printed'[k] = printed[k] /\ entries'[k] = entries[k] /\ stamp'[k] = stamp[k]
          /\ at'[k] = at[k]
      BY <1>1, <1>4, <2>2 DEF Flush, TypeOK, threadVars
    <3> QED BY <3>1, LateUnchanged DEF Adding
  <2> QED BY <2>1, <2>2
<1>5. CASE QuietStep BY <1>1, <1>5, QuietSteps, LateUnchanged
<1> QED BY <1>2, <1>3, <1>4, <1>5 DEF Next, QuietStep

(* Sorting sorts.                                                          *)
LEMMA SortedInOrder ==
  ASSUME NEW s \in Seq(Timestamp), NEW k \in DOMAIN s, NEW l \in DOMAIN s, k < l
  PROVE  ~Before(Sorted(s)[l], Sorted(s)[k])
<1> DEFINE i == Source(s, k)
           j == Source(s, l)
<1>1. /\ i \in DOMAIN s /\ Sorted(s)[k] = s[i]
      /\ j \in DOMAIN s /\ Sorted(s)[l] = s[j]
  BY SortingRearranges
<1>2. Place(s, i) = k /\ Place(s, j) = l
  <2>1. \A h \in DOMAIN s : \E p \in DOMAIN s : Place(s, p) = h
    BY PlaceTaken
  <2> QED BY <2>1 DEF Source
<1> HIDE DEF i, j
<1>3. ASSUME Before(s[j], s[i]) PROVE FALSE
  <2>1. Sooner(s, j, i) BY <1>3 DEF Sooner
  <2>2. Earlier(s, j) \subseteq Earlier(s, i)
    BY <1>1, <2>1, SoonerOrder DEF Earlier
  <2>3. IsFiniteSet(DOMAIN s) BY LenProperties, FS_Interval
  <2>4. \A p \in DOMAIN s : /\ Place(s, p) = 1 + Cardinality(Earlier(s, p))
                            /\ IsFiniteSet(Earlier(s, p)) /\ Cardinality(Earlier(s, p)) \in Nat
    <3> SUFFICES ASSUME NEW p \in DOMAIN s
                 PROVE  /\ Place(s, p) = 1 + Cardinality(Earlier(s, p))
                        /\ IsFiniteSet(Earlier(s, p)) /\ Cardinality(Earlier(s, p)) \in Nat
      OBVIOUS
    <3>1. Earlier(s, p) \in SUBSET DOMAIN s BY DEF Earlier
    <3> QED BY <2>3, <3>1, FS_Subset, FS_CardinalityType DEF Place, Earlier, Sooner
  <2>5. Cardinality(Earlier(s, j)) <= Cardinality(Earlier(s, i))
    BY <1>1, <2>2, <2>4, FS_Subset
  <2> QED BY <1>1, <1>2, <2>4, <2>5, LenProperties
<1> QED BY <1>1, <1>3

LEMMA OvertakenFinite ==
  ASSUME NEW s \in Seq(Timestamp)
  PROVE  IsFiniteSet(Overtaken(s)) /\ Cardinality(Overtaken(s)) \in Nat
<1>1. Len(s) \in Nat /\ DOMAIN s = 1 .. Len(s) BY LenProperties
<1>2. IsFiniteSet(1 .. Len(s)) BY <1>1, FS_Interval
<1>3. Overtaken(s) \subseteq 1 .. Len(s) BY <1>1 DEF Overtaken
<1> QED BY <1>2, <1>3, FS_Subset, FS_CardinalityType

(* What a flush prints too late: an entry that was late in the buffer.     *)
LEMMA FlushOvertaken ==
  ASSUME LogInv, LateInv, NEW n \in Node, Flush(n)
  PROVE  Cardinality(Overtaken(printed'[n])) <= Cardinality(Overtaken(printed[n])) + 1
<1> DEFINE p == printed[n]
           s == Sorted(entries[n])
           q == p \o s
           new == {k \in Overtaken(q) : k > Len(p)}
<1>1. TypeOK /\ NodeLog(n) /\ AtMostOneLate(n) BY DEF LogInv, LateInv
<1>2. printed'[n] = q BY <1>1 DEF Flush, TypeOK
<1>3. p \in Seq(Timestamp) /\ entries[n] \in Seq(Timestamp)
  BY <1>1 DEF TypeOK
<1>4. /\ s \in Seq(Timestamp) /\ Entries(s) = Entries(entries[n]) /\ Distinct(s)
      /\ DOMAIN s = DOMAIN entries[n]
  BY <1>1, <1>3, SortingRearranges, SortingKeeps, LenProperties DEF NodeLog
<1>5. \A k, l \in DOMAIN s : k < l => ~Before(s[l], s[k])
  BY <1>3, <1>4, SortedInOrder
<1>6. \A x \in Entries(s) : (\E y \in Entries(p) : Before(x, y)) => x \in Late(n)
  BY <1>4 DEF Late
<1> HIDE DEF s
<1>7. /\ Len(p) \in Nat /\ DOMAIN p = 1 .. Len(p)
      /\ Len(s) \in Nat /\ DOMAIN s = 1 .. Len(s)
  BY <1>3, <1>4, LenProperties
<1>8. /\ q \in Seq(Timestamp) /\ DOMAIN q = 1 .. Len(p) + Len(s)
      /\ \A i \in DOMAIN q : q[i] = IF i <= Len(p) THEN p[i] ELSE s[i - Len(p)]
  <2>1. q \in Seq(Timestamp) /\ Len(q) = Len(p) + Len(s) BY <1>3, <1>4, ConcatProperties
  <2>2. DOMAIN q = 1 .. Len(p) + Len(s) BY <2>1, LenProperties
  <2> QED BY <1>3, <1>4, <2>1, <2>2, ConcatProperties
<1> HIDE DEF p, q
<1>9. ASSUME NEW k \in new
      PROVE  k - Len(p) \in DOMAIN s /\ s[k - Len(p)] \in Late(n)
  <2>1. k \in DOMAIN q /\ k > Len(p) BY DEF Overtaken
  <2>2. PICK i \in 1 .. k - 1 : Before(q[k], q[i]) BY DEF Overtaken
  <2>3. i \in DOMAIN q /\ k - Len(p) \in DOMAIN s /\ q[k] = s[k - Len(p)]
    BY <1>7, <1>8, <2>1
  <2>4. i <= Len(p)
    <3> SUFFICES ASSUME i > Len(p) PROVE FALSE BY <1>7, <2>2
    <3>1. i - Len(p) \in DOMAIN s /\ i - Len(p) < k - Len(p) /\ q[i] = s[i - Len(p)]
      BY <1>7, <1>8, <2>1, <2>3
    <3> QED BY <1>5, <2>2, <2>3, <3>1
  <2>5. i \in DOMAIN p /\ q[i] = p[i] BY <1>7, <1>8, <2>3, <2>4
  <2>6. p[i] \in Entries(p) /\ s[k - Len(p)] \in Entries(s) BY <2>3, <2>5 DEF Entries
  <2>7. Before(s[k - Len(p)], p[i]) BY <2>2, <2>3, <2>5
  <2> QED BY <1>6, <2>3, <2>6, <2>7
<1>10. \A k, l \in new : k = l
  <2> SUFFICES ASSUME NEW k \in new, NEW l \in new PROVE k = l OBVIOUS
  <2>1. s[k - Len(p)] = s[l - Len(p)] BY <1>1, <1>9 DEF AtMostOneLate
  <2>2. k - Len(p) \in DOMAIN s /\ l - Len(p) \in DOMAIN s BY <1>9
  <2>3. k \in Nat /\ l \in Nat BY <1>8, <1>7 DEF Overtaken
  <2>4. k - Len(p) = l - Len(p) BY <1>4, <1>7, <2>1, <2>2 DEF Distinct
  <2> QED BY <1>7, <2>3, <2>4
<1>11. Overtaken(q) \subseteq Overtaken(p) \cup new
  <2> SUFFICES ASSUME NEW k \in Overtaken(q), k \notin new PROVE k \in Overtaken(p)
    OBVIOUS
  <2>1. k \in DOMAIN q /\ ~(k > Len(p)) BY DEF Overtaken
  <2>2. PICK i \in 1 .. k - 1 : Before(q[k], q[i]) BY DEF Overtaken
  <2>3. k \in DOMAIN p /\ i \in DOMAIN q /\ i <= Len(p) BY <1>7, <1>8, <2>1
  <2>4. q[k] = p[k] /\ q[i] = p[i] BY <1>7, <1>8, <2>1, <2>3
  <2> QED BY <2>2, <2>3, <2>4 DEF Overtaken
<1> HIDE DEF new
<1>12. IsFiniteSet(Overtaken(p)) /\ Cardinality(Overtaken(p)) \in Nat
  BY <1>3, OvertakenFinite
<1>13. IsFiniteSet(new) /\ Cardinality(new) <= 1 /\ Cardinality(new) \in Nat
  <2>1. CASE new = {} BY <2>1, FS_EmptySet
  <2>2. CASE new # {}
    <3>1. PICK k \in new : new = {k} BY <1>10, <2>2
    <3>2. IsFiniteSet({k}) /\ Cardinality({k}) = 1 BY FS_Singleton
    <3> QED BY <3>1, <3>2
  <2> QED BY <2>1, <2>2
<1>14. /\ IsFiniteSet(Overtaken(p) \cup new)
       /\ Cardinality(Overtaken(p) \cup new) <= Cardinality(Overtaken(p)) + 1
  <2>1. /\ IsFiniteSet(Overtaken(p) \cup new) /\ IsFiniteSet(Overtaken(p) \cap new)
        /\ Cardinality(Overtaken(p) \cup new)
             = Cardinality(Overtaken(p)) + Cardinality(new) - Cardinality(Overtaken(p) \cap new)
    BY <1>12, <1>13, FS_Union, FS_Intersection
  <2>2. Cardinality(Overtaken(p) \cap new) \in Nat BY <2>1, FS_CardinalityType
  <2> QED BY <1>12, <1>13, <2>1, <2>2
<1>15. Cardinality(Overtaken(q)) <= Cardinality(Overtaken(p) \cup new)
  BY <1>11, <1>14, FS_Subset
<1>16. Cardinality(Overtaken(q)) \in Nat /\ Cardinality(Overtaken(p) \cup new) \in Nat
  BY <1>8, <1>14, OvertakenFinite, FS_CardinalityType
<1>17. Cardinality(Overtaken(q)) <= Cardinality(Overtaken(p)) + 1
  BY <1>12, <1>14, <1>15, <1>16
<1> QED BY <1>2, <1>17 DEF p

(* A flush prints one event too late at most, however the goroutines       *)
(* interleave with it and whatever is done to the clock: of two that hold  *)
(* a timestamp, one holds the last there is.                               *)
THEOREM FlushLateByOne == Spec => LateByOne
<1> DEFINE Step ==
      \A n \in Node :
        Cardinality(Overtaken(printed'[n])) <= Cardinality(Overtaken(printed[n])) + 1
<1>1. Init => LateInv
  <2> SUFFICES ASSUME Init, NEW n \in Node PROVE AtMostOneLate(n) /\ OneIsLast(n)
    BY DEF LateInv
  <2>1. entries[n] = <<>> /\ \A g \in Thread : ~Adding(n, g) BY DEF Init, Adding
  <2>2. Late(n) = {} BY <2>1, DistinctNone DEF Late, InHand
  <2> QED BY <2>1, <2>2 DEF AtMostOneLate, OneIsLast, Thread
<1>2. LogInv /\ LogInv' /\ LateInv /\ [Next]_vars => LateInv' BY LateStep
<1>3. LogInv /\ LateInv /\ [Next]_vars => [Step]_vars
  <2> SUFFICES ASSUME LogInv, LateInv, [Next]_vars, NEW n \in Node
               PROVE  Cardinality(Overtaken(printed'[n])) <= Cardinality(Overtaken(printed[n])) + 1
    OBVIOUS
  <2>1. TypeOK /\ printed[n] \in Seq(Timestamp) BY DEF LogInv, TypeOK
  <2>2. CASE printed'[n] = printed[n] BY <2>1, <2>2, OvertakenFinite
  <2>3. ASSUME NEW k \in Node, Flush(k), printed'[n] # printed[n] PROVE k = n
    BY <2>1, <2>3 DEF Flush, TypeOK
  <2>4. CASE QuietStep BY <2>1, <2>2, <2>4, QuietSteps
  <2>5. ASSUME NEW k \in Node, NEW g \in Thread, StampEvent(k, g) \/ Add(k, g)
        PROVE  printed' = printed
    BY <2>5 DEF StampEvent, Add
  <2> QED BY <2>2, <2>3, <2>4, <2>5, FlushOvertaken DEF Next, QuietStep
<1> QED BY <1>1, <1>2, <1>3, LogInvariance, PTL DEF Spec, LateByOne
=============================================================================
