---------------------------- MODULE CommitProofs ----------------------------
(***************************************************************************)
(* What a commit rests on: a majority of holders.                          *)
(*                                                                         *)
(* The counter of a leader is not inductive alone: it grows when a         *)
(* PAYMENT_ACK arrives.  AckBalance counts what is still under way as      *)
(* well.  Every replica and every acknowledgement in flight will count at  *)
(* most once, and reaches or has reached a node of its own; only a         *)
(* datagram delivered twice breaks that balance, and dups pays for it.     *)
(***************************************************************************)
EXTENDS ClusterProofs

USE DEF handlerVars, logVars, PastSaving

(* The datagrams of the replication round that n runs for t.               *)
InRound(n, t, k) ==
  \/ k.type = "PAYMENT_REPLICATE" /\ k.src = n /\ k.txn = t
  \/ k.type = "PAYMENT_ACK" /\ k.dst = n /\ k.txn = t

InFlight(n, t) == {k \in net : InRound(n, t, k)}
Targets(n, t) == {k.dst : k \in {j \in InFlight(n, t) : j.type = "PAYMENT_REPLICATE"}}

(* The nodes that hold t or to which its replica is on the way.            *)
Reached(n, t) == Holders(t) \cup Targets(n, t)

AckBalance(n, t) == acks[n][t] + Cardinality(InFlight(n, t)) <= dups + Cardinality(Reached(n, t))

(* A round begins with CreatePayment: before it there is nothing to count, *)
(* and after it the node holds the payment.                                *)
RoundStarted(n, t) ==
  IF worker[n][t] = "idle"
    THEN acks[n][t] = 0 /\ InFlight(n, t) = {}
    ELSE HasPayment(n, t)

(* Only a node that holds a payment acknowledges it, and to another node.  *)
AckHonest == \A k \in net : k.type = "PAYMENT_ACK" => HasPayment(k.src, k.txn) /\ k.src # k.dst
ReplicateToOther == \A k \in net : k.type = "PAYMENT_REPLICATE" => k.src # k.dst

(* Two acknowledgements are of two nodes: the node's own and another's.    *)
OtherHolder(n, t) ==
  acks[n][t] >= 2 => \E m \in Node \ {n} : HasPayment(n, t) /\ HasPayment(m, t)

AckInv ==
  /\ IsFiniteSet(net)
  /\ AckHonest
  /\ ReplicateToOther
  /\ \A n \in Node, t \in Txn : AckBalance(n, t) /\ RoundStarted(n, t) /\ OtherHolder(n, t)

-----------------------------------------------------------------------------
(* A function's values are at most as many as its arguments.               *)
LEMMA ImageBound ==
  ASSUME NEW S, IsFiniteSet(S), NEW f, DOMAIN f = S, f = [x \in S |-> f[x]]
  PROVE  /\ IsFiniteSet({f[x] : x \in S})
         /\ Cardinality({f[x] : x \in S}) <= Cardinality(S)
<1>1. f \in Surjection(S, {f[x] : x \in S})
  BY DEF Surjection
<1> QED BY <1>1, FS_Surjection

(* Adding an element adds at most one to the size.                         *)
LEMMA AddBound ==
  ASSUME NEW S, NEW x, IsFiniteSet(S)
  PROVE  /\ IsFiniteSet(S \cup {x})
         /\ Cardinality(S \cup {x}) \in Nat
         /\ Cardinality(S \cup {x}) <= Cardinality(S) + 1
<1>1. Cardinality(S) \in Nat BY FS_CardinalityType
<1> QED BY <1>1, FS_AddElement, FS_CardinalityType

LEMMA HoldersFinite ==
  ASSUME NEW t
  PROVE  /\ Holders(t) \subseteq Node
         /\ IsFiniteSet(Holders(t))
         /\ Cardinality(Holders(t)) \in Nat
BY NodeFinite, FS_Subset, FS_CardinalityType DEF Holders

LEMMA InFlightFinite ==
  ASSUME IsFiniteSet(net), NEW n, NEW t
  PROVE  IsFiniteSet(InFlight(n, t)) /\ Cardinality(InFlight(n, t)) \in Nat
BY FS_Subset, FS_CardinalityType DEF InFlight

LEMMA ReachedFinite ==
  ASSUME NodeTypeOK, NEW n, NEW t
  PROVE  /\ Reached(n, t) \subseteq Node
         /\ IsFiniteSet(Reached(n, t))
         /\ Cardinality(Reached(n, t)) \in Nat
<1>1. Targets(n, t) \subseteq Node
  BY DatagramFields DEF Targets, InFlight, NodeTypeOK
<1> QED BY <1>1, HoldersFinite, NodeFinite, FS_Subset, FS_CardinalityType DEF Reached

(* Each replica in flight reaches one node.                                *)
LEMMA ReachedBound ==
  ASSUME NodeTypeOK, IsFiniteSet(net), NEW n, NEW t
  PROVE  Cardinality(Reached(n, t)) <= Cardinality(Holders(t)) + Cardinality(InFlight(n, t))
<1> DEFINE R == {j \in InFlight(n, t) : j.type = "PAYMENT_REPLICATE"}
           f == [k \in R |-> k.dst]
<1>1. IsFiniteSet(R) /\ Cardinality(R) <= Cardinality(InFlight(n, t)) /\ Cardinality(R) \in Nat
  BY InFlightFinite, FS_Subset, FS_CardinalityType
<1>2. Targets(n, t) = {f[k] : k \in R}
  BY DEF Targets
<1>3. IsFiniteSet(Targets(n, t)) /\ Cardinality(Targets(n, t)) <= Cardinality(R)
  <2>1. DOMAIN f = R /\ f = [x \in R |-> f[x]] OBVIOUS
  <2> HIDE DEF f, R
  <2> QED BY <1>1, <1>2, <2>1, ImageBound
<1>4. /\ Cardinality(Reached(n, t)) =
           Cardinality(Holders(t)) + Cardinality(Targets(n, t)) - Cardinality(Holders(t) \cap Targets(n, t))
      /\ Cardinality(Holders(t) \cap Targets(n, t)) \in Nat
      /\ Cardinality(Targets(n, t)) \in Nat
  BY <1>3, HoldersFinite, FS_Union, FS_Intersection, FS_CardinalityType DEF Reached
<1> HIDE DEF R
<1> QED BY <1>1, <1>3, <1>4, HoldersFinite, InFlightFinite

(* The balance gives the bound on the counter.                             *)
LEMMA BalanceBound ==
  ASSUME TypeOK, AckInv
  PROVE  AckCountSound
<1> SUFFICES ASSUME NEW n \in Node, NEW t \in Txn
             PROVE  acks[n][t] <= Cardinality(Holders(t)) + dups
  BY DEF AckCountSound
<1> USE DEF TypeOK
<1>1. acks[n][t] + Cardinality(InFlight(n, t)) <= dups + Cardinality(Reached(n, t))
  BY DEF AckInv, AckBalance
<1>2. Cardinality(Reached(n, t)) <= Cardinality(Holders(t)) + Cardinality(InFlight(n, t))
  BY ReachedBound DEF AckInv
<1>3. acks[n][t] \in Nat /\ dups \in Nat BY DEF NodeTypeOK
<1> QED BY <1>1, <1>2, <1>3, HoldersFinite, ReachedFinite, InFlightFinite DEF AckInv

-----------------------------------------------------------------------------
(* A step keeps the balance of a round if it takes at most one datagram    *)
(* from it, and adds and counts nothing.                                   *)
LEMMA BalanceKept ==
  ASSUME NodeTypeOK, NodeTypeOK', AckInv, NEW n \in Node, NEW t \in Txn, NEW m,
         acks'[n][t] = acks[n][t], dups' >= dups, Holders(t) \subseteq Holders(t)',
         InFlight(n, t)' \in {InFlight(n, t), InFlight(n, t) \ {m}}
  PROVE  AckBalance(n, t)'
<1>1. AckBalance(n, t) /\ IsFiniteSet(net) BY DEF AckInv
<1>2. acks[n][t] \in Nat /\ dups \in Nat /\ dups' \in Nat BY DEF NodeTypeOK
<1>3. /\ Cardinality(InFlight(n, t)) \in Nat /\ IsFiniteSet(InFlight(n, t))
      /\ Cardinality(Reached(n, t)) \in Nat /\ IsFiniteSet(Reached(n, t))
  BY <1>1, InFlightFinite, ReachedFinite
<1>4. IsFiniteSet(Reached(n, t)') /\ Cardinality(Reached(n, t)') \in Nat
  <2>1. Reached(n, t)' \subseteq Node
    <3>1. Targets(n, t)' \subseteq Node
      BY DatagramFields DEF Targets, InFlight, NodeTypeOK
    <3> QED BY <3>1 DEF Reached, Holders
  <2> QED BY <2>1, NodeFinite, FS_Subset, FS_CardinalityType
<1>5. CASE InFlight(n, t)' = InFlight(n, t)
  <2>1. Reached(n, t) \subseteq Reached(n, t)'
    BY <1>5 DEF Reached, Targets
  <2>2. Cardinality(Reached(n, t)) <= Cardinality(Reached(n, t)')
    BY <1>4, <2>1, FS_Subset
  <2> QED BY <1>1, <1>2, <1>3, <1>4, <1>5, <2>2 DEF AckBalance
<1>6. CASE InFlight(n, t)' = InFlight(n, t) \ {m} /\ m \in InFlight(n, t)
  <2>1. Cardinality(InFlight(n, t)') = Cardinality(InFlight(n, t)) - 1
    BY <1>3, <1>6, FS_RemoveElement
  <2>2. Reached(n, t) \subseteq Reached(n, t)' \cup {m.dst}
    BY <1>6 DEF Reached, Targets
  <2>3. /\ IsFiniteSet(Reached(n, t)' \cup {m.dst})
        /\ Cardinality(Reached(n, t)' \cup {m.dst}) \in Nat
        /\ Cardinality(Reached(n, t)' \cup {m.dst}) <= Cardinality(Reached(n, t)') + 1
    BY <1>4, FS_AddElement
  <2>4. Cardinality(Reached(n, t)) <= Cardinality(Reached(n, t)') + 1
    BY <1>3, <1>4, <2>2, <2>3, FS_Subset
  <2> QED BY <1>1, <1>2, <1>3, <1>4, <2>1, <2>4 DEF AckBalance
<1> QED BY <1>5, <1>6

(* Payments that were held are held after a step, so what AckInv says of   *)
(* holders and of datagrams that stay in flight stays true.                *)
HoldersGrow == \A t \in Txn : Holders(t) \subseteq Holders(t)'

LEMMA HasPaymentKept ==
  ASSUME HoldersGrow, NEW n \in Node, NEW t \in Txn, HasPayment(n, t)
  PROVE  HasPayment(n, t)'
BY DEF HoldersGrow, Holders

(* Steps that neither replicate, acknowledge nor count.                    *)
LEMMA OutsideRounds ==
  ASSUME NodeTypeOK, NodeTypeOK', AckInv, HoldersGrow, NEW m, NEW out,
         IsFiniteSet(out),
         \A k \in out : k.type \notin {"PAYMENT_REPLICATE", "PAYMENT_ACK"},
         net \ {m} \subseteq net', net' \subseteq net \cup out,
         acks' = acks, dups' >= dups,
         \A n \in Node, t \in Txn : worker'[n][t] = "idle" <=> worker[n][t] = "idle"
  PROVE  AckInv'
<1>1. IsFiniteSet(net')
  <2>1. IsFiniteSet(net \cup out) BY FS_Union DEF AckInv
  <2> QED BY <2>1, FS_Subset
<1>2. \A k \in net' : k.type \in {"PAYMENT_REPLICATE", "PAYMENT_ACK"} => k \in net
  OBVIOUS
<1>3. ReplicateToOther'
  BY <1>2 DEF AckInv, ReplicateToOther
<1>4. AckHonest'
  <2> SUFFICES ASSUME NEW k \in net', k.type = "PAYMENT_ACK"
               PROVE  HasPayment(k.src, k.txn)' /\ k.src # k.dst
    BY DEF AckHonest
  <2>1. k \in net BY <1>2
  <2>2. k.src \in Node /\ k.txn \in Txn BY <2>1, DatagramFields DEF NodeTypeOK
  <2> QED BY <2>1, <2>2, HasPaymentKept DEF AckInv, AckHonest
<1>5. ASSUME NEW n \in Node, NEW t \in Txn
      PROVE  AckBalance(n, t)' /\ RoundStarted(n, t)' /\ OtherHolder(n, t)'
  <2>1. InFlight(n, t)' \subseteq InFlight(n, t)
    BY <1>2 DEF InFlight, InRound
  <2>2. InFlight(n, t) \ {m} \subseteq InFlight(n, t)'
    BY DEF InFlight
  <2>3. InFlight(n, t)' \in {InFlight(n, t), InFlight(n, t) \ {m}}
    BY <2>1, <2>2
  <2>4. AckBalance(n, t)'
    BY <2>3, BalanceKept DEF HoldersGrow
  <2>5. RoundStarted(n, t)'
    BY <2>1, HasPaymentKept DEF AckInv, RoundStarted
  <2>6. OtherHolder(n, t)'
    BY HasPaymentKept DEF AckInv, OtherHolder
  <2> QED BY <2>4, <2>5, <2>6
<1> QED BY <1>1, <1>3, <1>4, <1>5 DEF AckInv

(* HandlePaymentAck counts a datagram, which leaves the balance, unless it *)
(* is delivered again, which dups pays for.                                *)
LEMMA AckCounted ==
  ASSUME NodeTypeOK, NodeTypeOK', AckInv, HoldersGrow, NEW m \in net, HandlePaymentAck(m)
  PROVE  AckInv'
<1> DEFINE l == m.dst
           s == m.txn
<1>1. /\ m \in Datagram /\ m.type = "PAYMENT_ACK"
      /\ l \in Node /\ s \in Txn /\ m.src \in Node
  BY DatagramFields DEF HandlePaymentAck, NodeTypeOK
<1>2. payments' = payments /\ worker' = worker
  BY DEF HandlePaymentAck, workerVars
<1>3. /\ acks'[l][s] = acks[l][s] + 1
      /\ \A n \in Node, t \in Txn : ~(n = l /\ t = s) => acks'[n][t] = acks[n][t]
  BY <1>1 DEF HandlePaymentAck, NodeTypeOK
<1>4. \/ net' = net \ {m} /\ dups' = dups
      \/ net' = net /\ dups' = dups + 1
  BY DEF HandlePaymentAck, Deliver
<1>5. dups \in Nat /\ dups' >= dups BY <1>4 DEF NodeTypeOK
<1>6. IsFiniteSet(net') BY <1>4, FS_RemoveElement DEF AckInv
<1>7. AckHonest' /\ ReplicateToOther'
  BY <1>2, <1>4 DEF AckInv, AckHonest, ReplicateToOther, HasPayment
<1>8. m \in InFlight(l, s)
  BY <1>1 DEF InFlight, InRound
<1>9. HasPayment(l, s) /\ HasPayment(m.src, s) /\ m.src # l
  BY <1>1, <1>8 DEF AckInv, AckHonest, RoundStarted
<1>10. ASSUME NEW n \in Node, NEW t \in Txn
       PROVE  AckBalance(n, t)' /\ RoundStarted(n, t)' /\ OtherHolder(n, t)'
  <2> HIDE DEF l, s
  <2>1. CASE ~(n = l /\ t = s)
    <3>1. InFlight(n, t)' = InFlight(n, t)
      BY <1>1, <1>4, <2>1 DEF InFlight, InRound, l, s
    <3>2. AckBalance(n, t)'
      BY <1>3, <1>5, <2>1, <3>1, BalanceKept DEF HoldersGrow
    <3> QED BY <1>2, <1>3, <2>1, <3>1, <3>2 DEF AckInv, RoundStarted, OtherHolder, HasPayment
  <2>2. CASE n = l /\ t = s
    <3>1. AckBalance(n, t)'
      <4>1. Targets(n, t)' = Targets(n, t)
        BY <1>1, <1>4 DEF Targets, InFlight
      <4>2. Reached(n, t)' = Reached(n, t)
        BY <1>2, <4>1 DEF Reached, Holders, HasPayment
      <4>3. \/ InFlight(n, t)' = InFlight(n, t) \ {m} /\ dups' = dups
            \/ InFlight(n, t)' = InFlight(n, t) /\ dups' = dups + 1
        BY <1>4 DEF InFlight
      <4>4. Cardinality(InFlight(n, t) \ {m}) = Cardinality(InFlight(n, t)) - 1
        BY <1>8, <2>2, InFlightFinite, FS_RemoveElement DEF AckInv
      <4>5. /\ Cardinality(InFlight(n, t)) \in Nat /\ Cardinality(Reached(n, t)) \in Nat
            /\ acks[n][t] \in Nat
        BY InFlightFinite, ReachedFinite DEF AckInv, NodeTypeOK
      <4>6. acks[n][t] + Cardinality(InFlight(n, t)) <= dups + Cardinality(Reached(n, t))
        BY DEF AckInv, AckBalance
      <4>7. acks'[n][t] = acks[n][t] + 1 BY <1>3, <2>2
      <4>8. acks'[n][t] + Cardinality(InFlight(n, t)') <= dups' + Cardinality(Reached(n, t))
        <5>1. CASE InFlight(n, t)' = InFlight(n, t) \ {m} /\ dups' = dups
          <6>1. Cardinality(InFlight(n, t)') = Cardinality(InFlight(n, t)) - 1
            BY <4>4, <5>1
          <6> QED BY <1>5, <4>5, <4>6, <4>7, <5>1, <6>1
        <5>2. CASE InFlight(n, t)' = InFlight(n, t) /\ dups' = dups + 1
          <6>1. Cardinality(InFlight(n, t)') = Cardinality(InFlight(n, t))
            BY <5>2
          <6> QED BY <1>5, <4>5, <4>6, <4>7, <5>2, <6>1
        <5> QED BY <4>3, <5>1, <5>2
      <4> QED BY <4>2, <4>8 DEF AckBalance
    <3>2. RoundStarted(n, t)'
      BY <1>2, <1>8, <1>9, <2>2 DEF AckInv, RoundStarted, HasPayment
    <3>3. OtherHolder(n, t)'
      <4>1. HasPayment(l, s)' /\ HasPayment(m.src, s)' BY <1>2, <1>9 DEF HasPayment
      <4> QED BY <1>1, <1>9, <2>2, <4>1 DEF OtherHolder
    <3> QED BY <3>1, <3>2, <3>3
  <2> QED BY <2>1, <2>2
<1> QED BY <1>6, <1>7, <1>10 DEF AckInv

(* HandleReplicatedPayment turns a replica into an acknowledgement, of a   *)
(* node that now holds the payment.                                        *)
LEMMA ReplicaAcknowledged ==
  ASSUME NodeTypeOK, NodeTypeOK', AckInv, HoldersGrow, NEW m \in net, HandleReplicatedPayment(m)
  PROVE  AckInv'
<1> DEFINE l == m.src
           p == m.dst
           s == m.txn
           a == Ack(p, l, s)
<1>1. /\ m \in Datagram /\ m.type = "PAYMENT_REPLICATE"
      /\ l \in Node /\ p \in Node /\ s \in Txn
  BY DatagramFields DEF HandleReplicatedPayment, NodeTypeOK
<1>2. acks' = acks /\ worker' = worker
  BY DEF HandleReplicatedPayment, workerVars
<1>3. HasPayment(p, s)'
  BY <1>1 DEF HandleReplicatedPayment, SavePayment, HasPayment, NodeTypeOK, Replicated, Pending
<1>4. \/ net' = (net \ {m}) \cup {a} /\ dups' = dups
      \/ net' = net \cup {a} /\ dups' = dups + 1
  BY DEF HandleReplicatedPayment, Deliver
<1>5. dups \in Nat /\ dups' >= dups BY <1>4 DEF NodeTypeOK
<1>6. /\ a.type = "PAYMENT_ACK" /\ a.src = p /\ a.dst = l /\ a.txn = s
      /\ p # l
  BY <1>1 DEF Ack, AckInv, ReplicateToOther
<1> HIDE DEF a
<1>7. IsFiniteSet(net')
  <2>1. IsFiniteSet(net) /\ IsFiniteSet(net \ {m})
    BY FS_RemoveElement DEF AckInv
  <2>2. IsFiniteSet(net \cup {a}) /\ IsFiniteSet((net \ {m}) \cup {a})
    BY <2>1, FS_AddElement
  <2> QED BY <1>4, <2>2
<1>8. ReplicateToOther'
  BY <1>4, <1>6 DEF AckInv, ReplicateToOther
<1>9. AckHonest'
  <2> SUFFICES ASSUME NEW k \in net', k.type = "PAYMENT_ACK"
               PROVE  HasPayment(k.src, k.txn)' /\ k.src # k.dst
    BY DEF AckHonest
  <2>1. CASE k = a BY <1>3, <1>6, <2>1
  <2>2. CASE k \in net
    <3>1. k.src \in Node /\ k.txn \in Txn BY <2>2, DatagramFields DEF NodeTypeOK
    <3> QED BY <2>2, <3>1, HasPaymentKept DEF AckInv, AckHonest
  <2> QED BY <1>4, <2>1, <2>2
<1>10. m \in InFlight(l, s)
  BY <1>1 DEF InFlight, InRound
<1>11. ASSUME NEW n \in Node, NEW t \in Txn
       PROVE  AckBalance(n, t)' /\ RoundStarted(n, t)' /\ OtherHolder(n, t)'
  <2> HIDE DEF l, s, p
  <2>1. OtherHolder(n, t)'
    BY <1>2, HasPaymentKept DEF AckInv, OtherHolder
  <2>2. CASE ~(n = l /\ t = s)
    <3>1. InFlight(n, t)' = InFlight(n, t)
      BY <1>1, <1>4, <1>6, <2>2 DEF InFlight, InRound, l, s
    <3>2. AckBalance(n, t)'
      BY <1>2, <1>5, <3>1, BalanceKept DEF HoldersGrow
    <3> QED BY <1>2, <2>1, <3>1, <3>2, HasPaymentKept DEF AckInv, RoundStarted
  <2>3. CASE n = l /\ t = s
    <3>1. RoundStarted(n, t)'
      BY <1>2, <1>10, <2>3, HasPaymentKept DEF AckInv, RoundStarted
    <3>2. Reached(n, t) \subseteq Reached(n, t)'
      <4>1. ASSUME NEW k \in InFlight(n, t), k.type = "PAYMENT_REPLICATE"
            PROVE  k.dst \in Reached(n, t)'
        <5>1. CASE k = m
          BY <1>1, <1>3, <2>3, <5>1 DEF Reached, Holders, p
        <5>2. CASE k # m
          <6>1. k \in InFlight(n, t)' BY <1>4, <5>2 DEF InFlight
          <6> QED BY <4>1, <6>1 DEF Reached, Targets
        <5> QED BY <5>1, <5>2
      <4>2. Holders(t) \subseteq Holders(t)' BY DEF HoldersGrow
      <4> QED BY <4>1, <4>2 DEF Reached, Targets
    <3>3. /\ IsFiniteSet(Reached(n, t)') /\ Cardinality(Reached(n, t)') \in Nat
          /\ Cardinality(Reached(n, t)) <= Cardinality(Reached(n, t)')
          /\ Cardinality(Reached(n, t)) \in Nat
      <4>1. Reached(n, t)' \subseteq Node
        <5>1. Targets(n, t)' \subseteq Node
          BY DatagramFields DEF Targets, InFlight, NodeTypeOK
        <5> QED BY <5>1 DEF Reached, Holders
      <4> QED BY <3>2, <4>1, NodeFinite, FS_Subset, FS_CardinalityType
    <3>4. /\ IsFiniteSet(InFlight(n, t)) /\ Cardinality(InFlight(n, t)) \in Nat
          /\ acks[n][t] \in Nat
      BY InFlightFinite DEF AckInv, NodeTypeOK
    <3>5. acks[n][t] + Cardinality(InFlight(n, t)) <= dups + Cardinality(Reached(n, t))
      BY DEF AckInv, AckBalance
    <3>6. CASE net' = (net \ {m}) \cup {a} /\ dups' = dups
      <4>1. InFlight(n, t)' = (InFlight(n, t) \ {m}) \cup {a}
        BY <1>6, <2>3, <3>6 DEF InFlight, InRound
      <4> DEFINE Rest == InFlight(n, t) \ {m}
      <4>5. IsFiniteSet(Rest) /\ Cardinality(Rest) = Cardinality(InFlight(n, t)) - 1
        BY <1>10, <2>3, <3>4, FS_RemoveElement
      <4>6. IsFiniteSet(Rest \cup {a}) /\ Cardinality(Rest \cup {a}) <= Cardinality(Rest) + 1
        <5> HIDE DEF Rest
        <5> QED BY <4>5, AddBound
      <4>2. Cardinality(InFlight(n, t)') <= Cardinality(InFlight(n, t))
        <5>1. Cardinality(Rest \cup {a}) \in Nat BY <4>6, FS_CardinalityType
        <5> QED BY <3>4, <4>1, <4>5, <4>6, <5>1
      <4>3. Cardinality(InFlight(n, t)') \in Nat
        BY <4>1, <4>6, FS_CardinalityType
      <4>4. AckBalance(n, t)'
        BY <1>2, <1>5, <3>3, <3>4, <3>5, <3>6, <4>2, <4>3 DEF AckBalance
      <4> QED BY <2>1, <3>1, <4>4
    <3>7. CASE net' = net \cup {a} /\ dups' = dups + 1
      <4>1. InFlight(n, t)' = InFlight(n, t) \cup {a}
        BY <1>6, <2>3, <3>7 DEF InFlight, InRound
      <4>4. /\ IsFiniteSet(InFlight(n, t) \cup {a})
            /\ Cardinality(InFlight(n, t) \cup {a}) <= Cardinality(InFlight(n, t)) + 1
        BY <3>4, AddBound
      <4>2. /\ Cardinality(InFlight(n, t)') <= Cardinality(InFlight(n, t)) + 1
            /\ Cardinality(InFlight(n, t)') \in Nat
        BY <4>1, <4>4, FS_CardinalityType
      <4>3. AckBalance(n, t)'
        BY <1>2, <1>5, <3>3, <3>4, <3>5, <3>7, <4>2 DEF AckBalance
      <4> QED BY <2>1, <3>1, <4>3
    <3> QED BY <1>4, <3>6, <3>7
  <2> QED BY <2>2, <2>3
<1> QED BY <1>7, <1>8, <1>9, <1>11 DEF AckInv

(* CreatePayment starts a round: one acknowledgement, the node's own, and  *)
(* a replica on its way to each peer.                                      *)
LEMMA RoundBegins ==
  ASSUME NodeTypeOK, NodeTypeOK', AckInv, HoldersGrow, NEW m \in net, HandlePaymentCreate(m)
  PROVE  AckInv'
<1> DEFINE l == m.dst
           s == m.txn
           out == ReplicateToFollowers(l, s, m.val)
<1>1. /\ m \in Datagram /\ m.type = "PAYMENT_CREATE" /\ l \in Node /\ s \in Txn
  BY DatagramFields DEF HandlePaymentCreate, NodeTypeOK
<1>2. /\ acks'[l][s] = 1 /\ worker'[l][s] = "waiting"
      /\ \A n \in Node, t \in Txn :
           ~(n = l /\ t = s) => acks'[n][t] = acks[n][t] /\ worker'[n][t] = worker[n][t]
  BY <1>1 DEF HandlePaymentCreate, NodeTypeOK, OwnAck
<1>3. HasPayment(l, s)'
  BY <1>1 DEF HandlePaymentCreate, SavePayment, HasPayment, NodeTypeOK, Pending
<1>4. \/ net' = (net \ {m}) \cup out /\ dups' = dups
      \/ net' = net \cup out /\ dups' = dups + 1
  BY DEF HandlePaymentCreate, Deliver
<1>5. dups \in Nat /\ dups' \in Nat /\ dups' >= dups BY <1>4 DEF NodeTypeOK
<1>6. \A k \in out : k.type = "PAYMENT_REPLICATE" /\ k.src = l /\ k.txn = s /\ k.dst \in Node \ {l}
  BY DEF ReplicateToFollowers, PeersExcluding, Replicate
<1>7. /\ IsFiniteSet(out) /\ Cardinality(out) \in Nat
      /\ Cardinality(out) <= N - 1
      /\ {k.dst : k \in out} = Node \ {l}
  <2> DEFINE P == PeersExcluding(l)
             f == [p \in P |-> Replicate(l, p, s, m.val)]
  <2>1. IsFiniteSet(P) /\ Cardinality(P) = N - 1
    BY <1>1, NodeFinite, FS_RemoveElement DEF PeersExcluding
  <2>2. out = {f[p] : p \in P} BY DEF ReplicateToFollowers
  <2>3. IsFiniteSet(out) /\ Cardinality(out) <= Cardinality(P)
    <3>1. DOMAIN f = P /\ f = [x \in P |-> f[x]] OBVIOUS
    <3> HIDE DEF f, P, out
    <3> QED BY <2>1, <2>2, <3>1, ImageBound
  <2>4. {k.dst : k \in out} = Node \ {l}
    <3>1. \A p \in P : f[p] \in out /\ f[p].dst = p
      BY <2>2 DEF Replicate
    <3>2. \A k \in out : k.dst \in P
      BY <2>2 DEF Replicate
    <3>3. P = Node \ {l} BY DEF PeersExcluding
    <3> HIDE DEF P, f, out
    <3> QED BY <3>1, <3>2, <3>3
  <2> HIDE DEF P, out
  <2> QED BY <2>1, <2>3, <2>4, FS_CardinalityType
<1> HIDE DEF out
<1>8. InFlight(l, s) = {} /\ worker[l][s] = "idle"
  BY <1>1 DEF HandlePaymentCreate, MayCreate, AckInv, RoundStarted
<1>9. IsFiniteSet(net')
  <2>1. IsFiniteSet(net) /\ IsFiniteSet(net \ {m})
    BY FS_RemoveElement DEF AckInv
  <2>2. IsFiniteSet(net \cup out) /\ IsFiniteSet((net \ {m}) \cup out)
    BY <1>7, <2>1, FS_Union
  <2> QED BY <1>4, <2>2
<1>10. ReplicateToOther'
  BY <1>4, <1>6 DEF AckInv, ReplicateToOther
<1>11. AckHonest'
  <2> SUFFICES ASSUME NEW k \in net', k.type = "PAYMENT_ACK"
               PROVE  HasPayment(k.src, k.txn)' /\ k.src # k.dst
    BY DEF AckHonest
  <2>1. k \in net BY <1>4, <1>6
  <2>2. k.src \in Node /\ k.txn \in Txn BY <2>1, DatagramFields DEF NodeTypeOK
  <2> QED BY <2>1, <2>2, HasPaymentKept DEF AckInv, AckHonest
<1>12. ASSUME NEW n \in Node, NEW t \in Txn
       PROVE  AckBalance(n, t)' /\ RoundStarted(n, t)' /\ OtherHolder(n, t)'
  <2> HIDE DEF l, s
  <2>1. CASE ~(n = l /\ t = s)
    <3>1. InFlight(n, t)' = InFlight(n, t)
      BY <1>1, <1>4, <1>6, <2>1 DEF InFlight, InRound
    <3>2. AckBalance(n, t)'
      BY <1>2, <1>5, <2>1, <3>1, BalanceKept DEF HoldersGrow
    <3> QED BY <1>2, <2>1, <3>1, <3>2, HasPaymentKept DEF AckInv, RoundStarted, OtherHolder
  <2>2. CASE n = l /\ t = s
    <3>1. InFlight(n, t)' = out
      BY <1>1, <1>4, <1>6, <1>8, <2>2 DEF InFlight, InRound
    <3>2. Reached(n, t)' = Node
      <4>1. Targets(n, t)' = Node \ {l} BY <1>6, <1>7, <3>1 DEF Targets
      <4>2. Holders(t)' \subseteq Node /\ l \in Holders(t)'
        BY <1>1, <1>3, <2>2 DEF Holders
      <4> QED BY <4>1, <4>2 DEF Reached
    <3>3. AckBalance(n, t)'
      BY <1>2, <1>5, <1>7, <2>2, <3>1, <3>2, NodeFinite, NodeAssumption DEF AckBalance
    <3> QED BY <1>2, <1>3, <2>2, <3>3 DEF RoundStarted, OtherHolder
  <2> QED BY <2>1, <2>2
<1> QED BY <1>9, <1>10, <1>11, <1>12 DEF AckInv

LEMMA HoldersGrowStep ==
  ASSUME TypeInv, [Next]_vars
  PROVE  HoldersGrow
<1> SUFFICES ASSUME NEW t \in Txn, NEW n \in Node, HasPayment(n, t)
             PROVE  HasPayment(n, t)'
  BY DEF HoldersGrow, Holders
<1>1. EntryChange(n, t) BY EntryStep
<1>2. CommittedByWorker(n, t) \/ CommittedByHandler(n, t) => payments'[n][t].status = "committed"
  <2>1. \A v : Committed(v).status = "committed" BY DEF Committed
  <2> QED BY <2>1, Zenon DEF CommittedByWorker, CommittedByHandler
<1> QED BY <1>1, <1>2 DEF EntryChange, Unchanged, Filled, CommittedByMessage, HasPayment

(* The steps that take no part in a round.                                 *)
LEMMA NoRoundDatagram ==
  ASSUME NodeTypeOK, NodeTypeOK', AckInv, HoldersGrow, NEW m \in net,
         \/ HandleCommitPayment(m)
         \/ HandleRecoveryRequest(m)
         \/ HandleRecoveryData(m)
         \/ HandleRefused(m)
         \/ Lose(m)
  PROVE  AckInv'
<1> USE DEF workerVars, ledgerVars
<1>1. acks' = acks /\ worker' = worker
  BY DEF HandleCommitPayment, HandleRecoveryRequest, HandleRecoveryData, HandleRefused, Lose
<1> DEFINE out == IF HandleRecoveryRequest(m)
                    THEN {RecoveryData(m.dst, m.src, CommittedPayments(m.dst))} ELSE {}
<1>2. IsFiniteSet(out) BY FS_EmptySet, FS_Singleton
<1>3. \A k \in out : k.type \notin {"PAYMENT_REPLICATE", "PAYMENT_ACK"}
  BY DEF RecoveryData
<1>4. net \ {m} \subseteq net' /\ net' \subseteq net \cup out
  <2>1. HandleRecoveryRequest(m) => Deliver(m, out) BY DEF HandleRecoveryRequest
  <2>2. ~HandleRecoveryRequest(m) => Deliver(m, {}) \/ Lose(m)
    BY DEF HandleCommitPayment, HandleRecoveryData, HandleRefused
  <2> HIDE DEF out
  <2> QED BY <2>1, <2>2 DEF Deliver, Lose
<1>5. dups' >= dups
  BY DEF HandleCommitPayment, HandleRecoveryRequest, HandleRecoveryData, HandleRefused, Lose,
     Deliver, NodeTypeOK
<1> HIDE DEF out
<1> QED BY <1>1, <1>2, <1>3, <1>4, <1>5, OutsideRounds

LEMMA NoRoundWorker ==
  ASSUME NodeTypeOK, NodeTypeOK', AckInv, HoldersGrow, NEW n \in Node, NEW t \in Txn, Worker(n, t)
  PROVE  AckInv'
<1> USE DEF workerVars, ledgerVars, netVars
<1>1. acks' = acks /\ dups' = dups
  BY DEF Worker, WorkerTick, WorkerTimeout, MarkCommittedRead, MarkCommittedSave,
     MarkCommittedLog, BroadcastCommit
<1>2. \A a \in Node, b \in Txn : worker'[a][b] = "idle" <=> worker[a][b] = "idle"
  <2>1. worker[n][t] # "idle"
    BY DEF Worker, WorkerTick, WorkerTimeout, MarkCommittedRead, MarkCommittedSave,
       MarkCommittedLog, BroadcastCommit
  <2>2. PICK s \in WorkerState \ {"idle"} : worker' = [worker EXCEPT ![n][t] = s]
    BY DEF Worker, WorkerTick, WorkerTimeout, MarkCommittedRead, MarkCommittedSave,
       MarkCommittedLog, BroadcastCommit, WorkerState
  <2> QED BY <2>1, <2>2 DEF NodeTypeOK
<1> DEFINE out == CommitToFollowers(n, t)
<1>3. IsFiniteSet(out)
  <2> DEFINE P == PeersExcluding(n)
             f == [p \in P |-> Commit(n, p, t, payments[n][t].val)]
  <2>1. IsFiniteSet(P) BY NodeFinite, FS_RemoveElement DEF PeersExcluding
  <2>2. IsFiniteSet({f[p] : p \in P})
    <3>1. DOMAIN f = P /\ f = [x \in P |-> f[x]] OBVIOUS
    <3> HIDE DEF f, P
    <3> QED BY <2>1, <3>1, ImageBound
  <2>3. out \subseteq {f[p] : p \in P} BY DEF CommitToFollowers, CommitsTo
  <2> QED BY <2>2, <2>3, FS_Subset
<1>4. \A k \in out : k.type \notin {"PAYMENT_REPLICATE", "PAYMENT_ACK"}
  BY DEF CommitToFollowers, CommitsTo, Commit
<1>5. net \subseteq net' /\ net' \subseteq net \cup out
  BY DEF Worker, WorkerTick, WorkerTimeout, MarkCommittedRead, MarkCommittedSave,
     MarkCommittedLog, BroadcastCommit, Send
<1> HIDE DEF out
<1>6. dups' >= dups BY <1>1 DEF NodeTypeOK
<1> QED BY <1>1, <1>2, <1>3, <1>4, <1>5, <1>6, OutsideRounds

LEMMA NoRoundFinish ==
  ASSUME NodeTypeOK, NodeTypeOK', AckInv, HoldersGrow, NEW n \in Node, FinishHandling(n)
  PROVE  AckInv'
<1>1. acks' = acks /\ worker' = worker /\ dups' = dups /\ net' = net
  BY DEF FinishHandling, CommitSave, LogCommit, ledgerVars, workerVars, netVars
<1>2. dups' >= dups BY <1>1 DEF NodeTypeOK
<1>3. net \ {0} \subseteq net' /\ net' \subseteq net \cup {} BY <1>1
<1> QED BY <1>1, <1>2, <1>3, FS_EmptySet, OutsideRounds

(* Control datagrams, timers, heartbeats, the API server, and no step.     *)
LEMMA NoRoundOther ==
  ASSUME TypeOK, NodeTypeOK', AckInv, HoldersGrow,
         \/ \E c \in Control : HandleControl(c) \/ LoseControl(c)
         \/ \E n \in Node : \/ RejoinRecovery(n)
                            \/ StartupRecovery(n)
                            \/ SendHeartbeats(n)
                            \/ \E l \in LeaderId : HandleHeartbeat(n, l)
         \/ ApiStep
         \/ UNCHANGED vars
  PROVE  AckInv'
<1> USE DEF workerVars, ledgerVars, netVars
<1>1. acks' = acks /\ worker' = worker /\ dups' = dups
  BY DEF HandleControl, HandleNodeFail, HandleNodeRejoin, HandleLeaderChange, LoseControl,
     RejoinRecovery, StartupRecovery, SendHeartbeats, HandleHeartbeat, ApiStep, vars, nodeVars
<1>2. PICK out : /\ IsFiniteSet(out)
                 /\ \A k \in out : k.type \notin {"PAYMENT_REPLICATE", "PAYMENT_ACK"}
                 /\ net' = net \cup out
  <2>1. ASSUME NEW n
        PROVE  /\ IsFiniteSet(RequestRecovery(n))
               /\ \A k \in RequestRecovery(n) : k.type \notin {"PAYMENT_REPLICATE", "PAYMENT_ACK"}
    <3>1. RequestRecovery(n) \in {{}, {RecoveryRequest(n, knownLeader[n])}}
      BY DEF RequestRecovery
    <3>2. RecoveryRequest(n, knownLeader[n]).type \notin {"PAYMENT_REPLICATE", "PAYMENT_ACK"}
      BY DEF RecoveryRequest
    <3>3. IsFiniteSet({RecoveryRequest(n, knownLeader[n])}) BY FS_Singleton
    <3> QED BY <3>1, <3>2, <3>3, FS_EmptySet
  <2>2. ASSUME NEW n, NEW t, NEW v
        PROVE  /\ IsFiniteSet({Create(n, t, v)})
               /\ \A k \in {Create(n, t, v)} : k.type \notin {"PAYMENT_REPLICATE", "PAYMENT_ACK"}
    <3>1. Create(n, t, v).type \notin {"PAYMENT_REPLICATE", "PAYMENT_ACK"}
      BY DEF Create
    <3>2. IsFiniteSet({Create(n, t, v)}) BY FS_Singleton
    <3> QED BY <3>1, <3>2
  <2>3. CASE net' = net
    BY <2>3, FS_EmptySet
  <2>4. ASSUME NEW n \in Node, RejoinRecovery(n) \/ StartupRecovery(n), net' # net
        PROVE  net' = net \cup RequestRecovery(n)
    BY <2>4 DEF RejoinRecovery, StartupRecovery, Send
  <2>5. CASE ApiStep /\ net' # net
    <3>1. PICK t \in Txn, v \in Value : CreatePayment(t, v)
      BY <2>5 DEF ApiStep, ApiNext, FailNode, RejoinNode, GetDashboard, GetLeader, ApiRestart
    <3>2. net' = net \cup {Create(Recalculated, t, v)}
      BY <3>1 DEF CreatePayment, Send
    <3> QED BY <2>2, <3>2
  <2>6. CASE net' # net /\ ~ApiStep
    <3>1. PICK n \in Node : RejoinRecovery(n) \/ StartupRecovery(n)
      BY <2>6 DEF HandleControl, HandleNodeFail, HandleNodeRejoin, HandleLeaderChange, LoseControl,
         SendHeartbeats, HandleHeartbeat, vars, nodeVars
    <3> QED BY <2>1, <2>4, <2>6, <3>1
  <2> QED BY <2>3, <2>5, <2>6
<1>3. dups' >= dups BY <1>1 DEF TypeOK, NodeTypeOK
<1>4. NodeTypeOK BY DEF TypeOK
<1>5. net \ {0} \subseteq net' /\ net' \subseteq net \cup out
  BY <1>2
<1> QED BY <1>1, <1>2, <1>3, <1>4, <1>5, OutsideRounds

LEMMA AckStep ==
  ASSUME TypeInv, TypeInv', AckInv, [Next]_vars
  PROVE  AckInv'
<1>1. TypeOK /\ NodeTypeOK /\ NodeTypeOK' BY DEF TypeInv, TypeOK
<1>2. HoldersGrow BY HoldersGrowStep
<1>3. CASE NodeStep
  <2>1. NodeNext BY <1>3 DEF NodeStep
  <2>2. ASSUME NEW m \in net, HandleDatagram(m) \/ Lose(m) PROVE AckInv'
    BY <1>1, <1>2, <2>2, RoundBegins, ReplicaAcknowledged, AckCounted, NoRoundDatagram
       DEF HandleDatagram
  <2>3. ASSUME NEW n \in Node, NEW t \in Txn, Worker(n, t) PROVE AckInv'
    BY <1>1, <1>2, <2>3, NoRoundWorker
  <2> QED BY <1>1, <1>2, <2>1, <2>2, <2>3, NoRoundFinish, NoRoundOther DEF NodeNext
<1>4. CASE ApiStep \/ UNCHANGED vars
  BY <1>1, <1>2, <1>4, NoRoundOther
<1> QED BY <1>3, <1>4 DEF Next

LEMMA AckInit == Init => AckInv
<1> SUFFICES ASSUME Init PROVE AckInv OBVIOUS
<1>1. net = {} /\ dups = 0 BY DEF Init, NodeInit
<1>2. IsFiniteSet(net) /\ AckHonest /\ ReplicateToOther
  BY <1>1, FS_EmptySet DEF AckHonest, ReplicateToOther
<1>3. ASSUME NEW n \in Node, NEW t \in Txn
      PROVE  AckBalance(n, t) /\ RoundStarted(n, t) /\ OtherHolder(n, t)
  <2>1. acks[n][t] = 0 /\ worker[n][t] = "idle" BY DEF Init, NodeInit
  <2>2. InFlight(n, t) = {} BY <1>1 DEF InFlight
  <2>3. Cardinality(Reached(n, t)) \in Nat
    BY TypeInit, ReachedFinite DEF TypeInv, TypeOK
  <2> QED BY <1>1, <2>1, <2>2, <2>3, FS_EmptySet DEF AckBalance, RoundStarted, OtherHolder
<1> QED BY <1>2, <1>3 DEF AckInv

THEOREM AckInvariance == Spec => [](TypeInv /\ AckInv)
<1>1. Init => TypeInv /\ AckInv BY TypeInit, AckInit
<1>2. TypeInv /\ AckInv /\ [Next]_vars => (TypeInv /\ AckInv)'
  BY TypeStep, AckStep
<1> QED BY <1>1, <1>2, PTL DEF Spec

(* A leader's acknowledgement count exceeds the nodes that hold the        *)
(* payment by no more than the datagrams delivered twice, on any number of *)
(* nodes: without duplicates, HasMajority speaks of a majority of nodes.   *)
THEOREM AckCountBound == Spec => []AckCountSound
<1>1. TypeInv /\ AckInv => AckCountSound BY BalanceBound DEF TypeInv
<1> QED BY <1>1, AckInvariance, PTL

-----------------------------------------------------------------------------

(* A commit goroutine that has seen a majority.                            *)
Convinced(n, t) == worker[n][t] \in {"marking", "saving"} \cup PastSaving

(* A COMMIT handler is about to save t or to log it, or it has been.       *)
InHand(t) ==
  \E n \in Node : \/ \E c \in held[n] : c.txn = t
                  \/ \E l \in unlogged[n] : l.txn = t
                  \/ logged[n][t] # NoValue

(* Somebody has decided to commit t, or has seen it committed.             *)
Decided(t) ==
  \/ \E n \in Node : IsCommitted(n, t) \/ Convinced(n, t)
  \/ CommitInFlight(t)
  \/ apiPayments[t].status = "committed"
  \/ InHand(t)

DecidedOnMajority == \A t \in Txn : Decided(t) => Cardinality(Holders(t)) >= Required

DupsBounded == dups <= MaxDups

MajorityInv == DupsBounded /\ DecidedOnMajority

(* The assumption the safety of the ack counter needs: no datagram is      *)
(* delivered twice, or the majority is two nodes, as for the three nodes   *)
(* of config.Load.                                                         *)
AcksCountNodes == MaxDups = 0 \/ Required <= 2

-----------------------------------------------------------------------------
LEMMA RequiredType == Required \in Nat /\ Required >= 1
<1>1. Cardinality(Node) \in Nat BY NodeFinite, FS_CardinalityType
<1> QED BY <1>1 DEF Required

(* Nobody but a commit goroutine decides by itself, and it does so on a    *)
(* majority: every other step that commits, or announces or lists a        *)
(* commit, repeats a decision that was there.                              *)
LEMMA DecidedByDatagram ==
  ASSUME TypeInv, NEW m \in net, HandleDatagram(m) \/ Lose(m), UNCHANGED apiPayments,
         NEW t \in Txn, Decided(t)'
  PROVE  Decided(t)
<1> USE DEF workerVars, ledgerVars
<1>0. UNCHANGED <<held, unlogged, logged>> => (InHand(t)' => InHand(t)) BY DEF InHand
<1>1. m \in Datagram /\ NodeTypeOK BY DEF TypeInv, TypeOK, NodeTypeOK
<1>2. CASE HandlePaymentCreate(m)
  <2>1. m.txn \in Txn /\ m.dst \in Node BY <1>1, <1>2, DatagramFields DEF HandlePaymentCreate
  <2>2. \A n \in Node : IsCommitted(n, t)' => IsCommitted(n, t)
    BY <1>1, <1>2, <2>1 DEF HandlePaymentCreate, SavePayment, IsCommitted, Pending, NodeTypeOK
  <2>3. \A n \in Node : Convinced(n, t)' => Convinced(n, t)
    BY <1>1, <1>2, <2>1 DEF HandlePaymentCreate, Convinced, NodeTypeOK
  <2>4. CommitInFlight(t)' => CommitInFlight(t)
    <3>1. net' \subseteq net \cup ReplicateToFollowers(m.dst, m.txn, m.val)
      BY <1>2 DEF HandlePaymentCreate, Deliver
    <3>2. \A k \in ReplicateToFollowers(m.dst, m.txn, m.val) : k.type = "PAYMENT_REPLICATE"
      BY DEF ReplicateToFollowers, Replicate
    <3> QED BY <3>1, <3>2 DEF CommitInFlight
  <2>5. UNCHANGED <<held, unlogged, logged>> BY <1>2 DEF HandlePaymentCreate
  <2> QED BY <1>0, <2>2, <2>3, <2>4, <2>5 DEF Decided
<1>3. CASE HandleReplicatedPayment(m)
  <2>1. m.txn \in Txn /\ m.dst \in Node BY <1>1, <1>3, DatagramFields DEF HandleReplicatedPayment
  <2>2. \A n \in Node : IsCommitted(n, t)' => IsCommitted(n, t)
    BY <1>1, <1>3, <2>1
       DEF HandleReplicatedPayment, SavePayment, IsCommitted, Replicated, Pending, NodeTypeOK
  <2>3. worker' = worker BY <1>3 DEF HandleReplicatedPayment
  <2>4. CommitInFlight(t)' => CommitInFlight(t)
    <3>1. net' \subseteq net \cup {Ack(m.dst, m.src, m.txn)}
      BY <1>3 DEF HandleReplicatedPayment, Deliver
    <3>2. Ack(m.dst, m.src, m.txn).type = "PAYMENT_ACK" BY DEF Ack
    <3> QED BY <3>1, <3>2 DEF CommitInFlight
  <2>5. UNCHANGED <<held, unlogged, logged>> BY <1>3 DEF HandleReplicatedPayment
  <2> QED BY <1>0, <2>2, <2>3, <2>4, <2>5 DEF Decided, Convinced
<1>4. CASE HandleCommitPayment(m)
  <2>1. m.txn \in Txn /\ m.dst \in Node BY <1>1, <1>4, DatagramFields DEF HandleCommitPayment
  <2>2. /\ payments' = payments /\ worker' = worker /\ net' \subseteq net
        /\ UNCHANGED <<unlogged, logged>>
    BY <1>4 DEF HandleCommitPayment, Deliver
  <2>3. CommitInFlight(m.txn) BY <1>4 DEF HandleCommitPayment, CommitInFlight
  <2>4. \A n \in Node : \A c \in held'[n] : c \in held[n] \/ c.txn = m.txn
    BY <1>1, <1>4, <2>1 DEF HandleCommitPayment, CopyOf, NodeTypeOK
  <2>5. InHand(t)' => InHand(t) \/ t = m.txn BY <2>2, <2>4 DEF InHand
  <2> QED BY <2>2, <2>3, <2>5 DEF Decided, Convinced, CommitInFlight, IsCommitted
<1>5. CASE HandleRecoveryRequest(m)
  <2>1. CommitInFlight(t)' => CommitInFlight(t) \/ IsCommitted(m.dst, t)
    <3> DEFINE a == RecoveryData(m.dst, m.src, CommittedPayments(m.dst))
    <3>1. net' \subseteq net \cup {a}
      BY <1>5 DEF HandleRecoveryRequest, Deliver
    <3>2. a.type = "RECOVERY_DATA" /\ (a.payments[t] # NoValue => IsCommitted(m.dst, t))
      BY DEF RecoveryData, CommittedPayments
    <3> HIDE DEF a
    <3> QED BY <3>1, <3>2 DEF CommitInFlight
  <2>2. m.dst \in Node BY <1>1, DatagramFields
  <2>3. /\ payments' = payments /\ worker' = worker
        /\ UNCHANGED <<held, unlogged, logged>>
    BY <1>5 DEF HandleRecoveryRequest
  <2> QED BY <1>0, <2>1, <2>2, <2>3 DEF Decided, Convinced, IsCommitted
<1>6. CASE HandleRecoveryData(m)
  <2>1. m.dst \in Node BY <1>1, DatagramFields
  <2>2. \A n \in Node : IsCommitted(n, t)' => IsCommitted(n, t) \/ m.payments[t] # NoValue
    BY <1>1, <1>6, <2>1 DEF HandleRecoveryData, IsCommitted, Recovered, NodeTypeOK
  <2>3. m.payments[t] # NoValue => CommitInFlight(t)
    BY <1>6 DEF HandleRecoveryData, CommitInFlight
  <2>4. worker' = worker /\ net' \subseteq net /\ UNCHANGED <<held, logged>>
    BY <1>6 DEF HandleRecoveryData, Deliver
  <2>5. \A n \in Node : \A l \in unlogged'[n] : l \in unlogged[n] \/ m.payments[l.txn] # NoValue
    <3> DEFINE merged == [u \in Txn |-> Recovered(payments[m.dst][u], m.payments[u])]
               changed == {u \in Txn : merged[u] # payments[m.dst][u]}
    <3>1. unlogged' = [unlogged EXCEPT ![m.dst] = {[txn |-> u, val |-> merged[u].val] : u \in changed}]
      BY <1>6 DEF HandleRecoveryData
    <3>2. \A u \in changed : m.payments[u] # NoValue
      BY DEF Recovered
    <3> HIDE DEF merged, changed
    <3>3. \A l \in {[txn |-> u, val |-> merged[u].val] : u \in changed} : l.txn \in changed
      OBVIOUS
    <3> QED BY <1>1, <2>1, <3>1, <3>2, <3>3 DEF NodeTypeOK
  <2>6. InHand(t)' => InHand(t) \/ m.payments[t] # NoValue BY <2>4, <2>5 DEF InHand
  <2> QED BY <2>2, <2>3, <2>4, <2>6 DEF Decided, Convinced, CommitInFlight
<1>7. CASE HandlePaymentAck(m) \/ HandleRefused(m) \/ Lose(m)
  <2>1. /\ payments' = payments /\ worker' = worker /\ net' \subseteq net
        /\ UNCHANGED <<held, unlogged, logged>>
    BY <1>7 DEF HandlePaymentAck, HandleRefused, Lose, Deliver
  <2> QED BY <1>0, <2>1 DEF Decided, Convinced, CommitInFlight, IsCommitted
<1> QED BY <1>2, <1>3, <1>4, <1>5, <1>6, <1>7 DEF HandleDatagram

(* What a handler still has to save or log, it has decided already.        *)
LEMMA DecidedByFinish ==
  ASSUME TypeInv, NEW w \in Node, FinishHandling(w), UNCHANGED apiPayments,
         NEW t \in Txn, Decided(t)'
  PROVE  Decided(t)
<1>1. NodeTypeOK BY DEF TypeInv, TypeOK
<1>2. worker' = worker /\ net' = net
  BY DEF FinishHandling, CommitSave, LogCommit, workerVars, netVars
<1>3. CASE CommitSave(w)
  <2>1. PICK c \in held[w] :
          /\ SavePayment(w, c.txn, Committed(c.val))
          /\ held' = [held EXCEPT ![w] = {}]
          /\ unlogged' = [unlogged EXCEPT ![w] = IF c.shouldLog THEN {[txn |-> c.txn, val |-> c.val]} ELSE {}]
    BY <1>3 DEF CommitSave
  <2>2. c.txn \in Txn BY <1>1, <2>1 DEF NodeTypeOK, Copy
  <2>3. InHand(c.txn) BY <2>1 DEF InHand
  <2>4. \A n \in Node : IsCommitted(n, t)' => IsCommitted(n, t) \/ t = c.txn
    BY <1>1, <2>1, <2>2 DEF SavePayment, IsCommitted, NodeTypeOK
  <2>5. \A n \in Node : /\ held'[n] \subseteq held[n]
                        /\ \A l \in unlogged'[n] : l \in unlogged[n] \/ l.txn = c.txn
    BY <1>1, <2>1 DEF NodeTypeOK
  <2>6. InHand(t)' => InHand(t) \/ t = c.txn
    BY <1>3, <2>5 DEF InHand, CommitSave
  <2> QED BY <1>2, <2>3, <2>4, <2>6 DEF Decided, Convinced, CommitInFlight
<1>4. CASE LogCommit(w)
  <2>1. PICK l \in unlogged[w] :
          WriteLine(w, l.txn, l.val) /\ unlogged' = [unlogged EXCEPT ![w] = @ \ {l}]
    BY <1>4 DEF LogCommit
  <2>2. \A n \in Node : unlogged'[n] \subseteq unlogged[n] BY <1>1, <2>1 DEF NodeTypeOK
  <2>3. \A n \in Node : logged'[n][t] # NoValue => logged[n][t] # NoValue \/ (n = w /\ t = l.txn)
    BY <1>1, <2>1 DEF WriteLine, NodeTypeOK
  <2>4. payments' = payments /\ held' = held BY <1>4 DEF LogCommit, ledgerVars
  <2>5. InHand(t)' => InHand(t) BY <2>1, <2>2, <2>3, <2>4 DEF InHand
  <2> QED BY <1>2, <2>4, <2>5 DEF Decided, Convinced, CommitInFlight, IsCommitted
<1> QED BY <1>3, <1>4 DEF FinishHandling

(* The commit goroutine decides when it finds a majority.                  *)
LEMMA DecidedByWorker ==
  ASSUME TypeInv, NEW w \in Node, NEW s \in Txn, Worker(w, s), UNCHANGED apiPayments,
         NEW t \in Txn, Decided(t)'
  PROVE  Decided(t) \/ HasMajority(w, t)
<1> USE DEF workerVars, ledgerVars, netVars
<1>0. UNCHANGED <<held, unlogged, logged>> => (InHand(t)' => InHand(t)) BY DEF InHand
<1>1. NodeTypeOK BY DEF TypeInv, TypeOK
<1>2. CASE WorkerTick(w, s)
  <2>1. \A n \in Node : Convinced(n, t)' => Convinced(n, t) \/ (n = w /\ t = s)
    BY <1>1, <1>2 DEF WorkerTick, Convinced, NodeTypeOK
  <2>2. HasMajority(w, s) BY <1>2 DEF WorkerTick
  <2>3. payments' = payments /\ net' = net /\ UNCHANGED <<held, unlogged, logged>>
    BY <1>2 DEF WorkerTick
  <2> QED BY <1>0, <2>1, <2>2, <2>3 DEF Decided, CommitInFlight, IsCommitted
<1>3. CASE WorkerTimeout(w, s)
  <2>1. \A n \in Node : Convinced(n, t)' => Convinced(n, t)
    BY <1>1, <1>3 DEF WorkerTimeout, Convinced, NodeTypeOK
  <2>2. payments' = payments /\ net' = net /\ UNCHANGED <<held, unlogged, logged>>
    BY <1>3 DEF WorkerTimeout
  <2> QED BY <1>0, <2>1, <2>2 DEF Decided, CommitInFlight, IsCommitted
<1>4. CASE \/ MarkCommittedRead(w, s) \/ MarkCommittedSave(w, s)
           \/ MarkCommittedLog(w, s) \/ BroadcastCommit(w, s)
  <2> USE DEF MarkCommittedRead, MarkCommittedSave, MarkCommittedLog, BroadcastCommit
  <2>1. Convinced(w, s) BY <1>4 DEF Convinced, PastSaving
  <2>2. CASE t = s BY <2>1, <2>2 DEF Decided
  <2>3. CASE t # s
    <3>1. \A n \in Node : /\ worker'[n][t] = worker[n][t]
                          /\ payments'[n][t] = payments[n][t]
                          /\ logged'[n][t] = logged[n][t]
      <4>1. /\ worker \in [Node -> [Txn -> WorkerState]]
            /\ payments \in [Node -> [Txn -> Entry]]
            /\ logged \in [Node -> [Txn -> Value \cup {NoValue}]]
        BY <1>1 DEF NodeTypeOK
      <4>2. \/ payments' = payments
            \/ payments' = [payments EXCEPT ![w][s] = Committed(draft[w][s])]
        BY <1>4 DEF SavePayment
      <4>3. PICK x : worker' = [worker EXCEPT ![w][s] = x]
        BY <1>4
      <4>4. logged' = logged \/ logged' = [logged EXCEPT ![w][s] = draft[w][s]]
        BY <1>4 DEF WriteLine
      <4>5. \A n \in Node : worker'[n][t] = worker[n][t] BY <2>3, <4>1, <4>3
      <4>6. \A n \in Node : payments'[n][t] = payments[n][t]
        <5> HIDE DEF Committed
        <5> QED BY <2>3, <4>1, <4>2
      <4>7. \A n \in Node : logged'[n][t] = logged[n][t] BY <2>3, <4>1, <4>4
      <4> QED BY <4>5, <4>6, <4>7
    <3>2. \A k \in net' : k \in net \/ (k.type = "PAYMENT_COMMIT" /\ k.txn = s)
      BY <1>4 DEF Send, CommitToFollowers, CommitsTo, Commit
    <3>3. CommitInFlight(t)' => CommitInFlight(t)
      BY <2>3, <3>2 DEF CommitInFlight
    <3>4. InHand(t)' => InHand(t)
      <4>1. UNCHANGED <<held, unlogged>> BY <1>4
      <4> QED BY <3>1, <4>1 DEF InHand
    <3> QED BY <3>1, <3>3, <3>4 DEF Decided, Convinced, IsCommitted
  <2> QED BY <2>2, <2>3
<1> QED BY <1>2, <1>3, <1>4 DEF Worker

(* Timers and the API server send recovery requests and new payments only. *)
LEMMA TimersAndApiSend ==
  ASSUME \/ \E c \in Control : HandleControl(c) \/ LoseControl(c)
         \/ \E n \in Node : \/ RejoinRecovery(n)
                            \/ StartupRecovery(n)
                            \/ SendHeartbeats(n)
                            \/ \E l \in LeaderId : HandleHeartbeat(n, l)
         \/ ApiStep
         \/ UNCHANGED vars
  PROVE  \A k \in net' : k \in net \/ k.type \in {"RECOVERY_REQ", "PAYMENT_CREATE"}
<1> USE DEF netVars
<1>1. \A n : \A k \in RequestRecovery(n) : k.type = "RECOVERY_REQ"
  BY DEF RequestRecovery, RecoveryRequest
<1>2. \A n, s, v : Create(n, s, v).type = "PAYMENT_CREATE" BY DEF Create
<1>3. ASSUME NEW n \in Node, RejoinRecovery(n) \/ StartupRecovery(n)
      PROVE  net' \subseteq net \cup RequestRecovery(n)
  BY <1>3 DEF RejoinRecovery, StartupRecovery, Send
<1>4. CASE ApiStep
  <2>1. net' = net \/ \E s \in Txn, v \in Value : net' = net \cup {Create(Recalculated, s, v)}
    BY <1>4 DEF ApiStep, ApiNext, FailNode, RejoinNode, CreatePayment, GetDashboard, GetLeader,
       ApiRestart, Send
  <2> QED BY <1>2, <2>1
<1>5. CASE net' = net BY <1>5
<1>6. net' = net \/ ApiStep \/ \E n \in Node : RejoinRecovery(n) \/ StartupRecovery(n)
  BY DEF HandleControl, HandleNodeFail, HandleNodeRejoin, HandleLeaderChange, LoseControl,
     SendHeartbeats, HandleHeartbeat, vars, nodeVars
<1> QED BY <1>1, <1>3, <1>4, <1>5, <1>6

LEMMA DecidedByOther ==
  ASSUME TypeInv, NEW t \in Txn, Decided(t)',
         \/ /\ UNCHANGED apiPayments
            /\ \/ \E c \in Control : HandleControl(c) \/ LoseControl(c)
               \/ \E n \in Node : \/ RejoinRecovery(n)
                                  \/ StartupRecovery(n)
                                  \/ SendHeartbeats(n)
                                  \/ \E l \in LeaderId : HandleHeartbeat(n, l)
         \/ ApiStep
         \/ UNCHANGED vars
  PROVE  Decided(t)
<1> USE DEF workerVars, ledgerVars, netVars
<1>0. InHand(t)' => InHand(t)
  <2>1. UNCHANGED <<held, unlogged, logged>>
    BY DEF HandleControl, HandleNodeFail, HandleNodeRejoin, HandleLeaderChange, LoseControl,
       RejoinRecovery, StartupRecovery, SendHeartbeats, HandleHeartbeat, ApiStep, vars, nodeVars
  <2> QED BY <2>1 DEF InHand
<1>1. payments' = payments /\ worker' = worker
  BY DEF HandleControl, HandleNodeFail, HandleNodeRejoin, HandleLeaderChange, LoseControl,
     RejoinRecovery, StartupRecovery, SendHeartbeats, HandleHeartbeat, ApiStep, vars, nodeVars
<1>2. \A k \in net' : k \in net \/ k.type \in {"RECOVERY_REQ", "PAYMENT_CREATE"}
  BY TimersAndApiSend
<1>3. CommitInFlight(t)' => CommitInFlight(t)
  BY <1>2 DEF CommitInFlight
<1>4. apiPayments'[t].status = "committed" =>
        apiPayments[t].status = "committed" \/ InHand(t)
  <2>1. CASE UNCHANGED apiPayments \/ UNCHANGED vars
    BY <2>1 DEF vars, apiVars
  <2>2. CASE ApiStep
    <3>1. Synced[t].status = "committed" =>
            apiPayments[t].status = "committed" \/ InHand(t)
      <4>1. CASE LoggedBy(t) = {} BY <4>1 DEF Synced
      <4>2. CASE LoggedBy(t) # {}
        BY <4>2 DEF LoggedBy, Logged, Running, InHand
      <4> QED BY <4>1, <4>2
    <3>2. \/ apiPayments' = apiPayments
          \/ apiPayments' = Synced
          \/ \E s \in Txn, v \in Value : apiPayments' = [Synced EXCEPT ![s] = Pending(v)]
          \/ apiPayments' = [s \in Txn |-> Absent]
      BY <2>2 DEF ApiStep, ApiNext, FailNode, RejoinNode, CreatePayment, GetDashboard, GetLeader,
         ApiRestart
    <3>3. DOMAIN Synced = Txn BY DEF Synced
    <3>4. Absent.status # "committed" /\ \A v : Pending(v).status # "committed"
      BY DEF Absent, Pending
    <3> HIDE DEF Synced, Absent, Pending
    <3>5. CASE \E s \in Txn, v \in Value : apiPayments' = [Synced EXCEPT ![s] = Pending(v)]
      <4>1. PICK s \in Txn, v \in Value : apiPayments' = [Synced EXCEPT ![s] = Pending(v)]
        BY <3>5
      <4>2. apiPayments'[t] = Pending(v) \/ apiPayments'[t] = Synced[t]
        BY <3>3, <4>1
      <4> QED BY <3>1, <3>4, <4>2
    <3> QED BY <3>1, <3>2, <3>4, <3>5
  <2> QED BY <2>1, <2>2
<1> QED BY <1>0, <1>1, <1>3, <1>4 DEF Decided, Convinced, IsCommitted

LEMMA DecidedStep ==
  ASSUME TypeInv, [Next]_vars, NEW t \in Txn, Decided(t)'
  PROVE  Decided(t) \/ \E n \in Node : HasMajority(n, t)
<1>1. CASE NodeStep
  <2>1. NodeNext /\ UNCHANGED apiPayments BY <1>1 DEF NodeStep, apiVars
  <2> QED BY <2>1, DecidedByDatagram, DecidedByFinish, DecidedByWorker, DecidedByOther DEF NodeNext
<1>2. CASE ApiStep \/ UNCHANGED vars
  BY <1>2, DecidedByOther
<1> QED BY <1>1, <1>2 DEF Next

-----------------------------------------------------------------------------
(* A leader that counts a majority of acknowledgements has one, if the     *)
(* counter counts nodes.  With a majority of two no duplicate can pass for *)
(* it: the second acknowledgement of any kind comes from another node.     *)
LEMMA MajorityHolds ==
  ASSUME AcksCountNodes, TypeInv, AckInv, DupsBounded, NEW n \in Node, NEW t \in Txn,
         HasMajority(n, t)
  PROVE  Cardinality(Holders(t)) >= Required
<1>1. acks[n][t] \in Nat /\ dups \in Nat /\ acks[n][t] >= Required
  BY DEF TypeInv, TypeOK, NodeTypeOK, HasMajority
<1>2. CASE MaxDups = 0
  <2>1. AckCountSound BY BalanceBound DEF TypeInv
  <2>2. acks[n][t] <= Cardinality(Holders(t)) + dups BY <2>1 DEF AckCountSound
  <2>3. dups = 0 BY <1>1, <1>2 DEF DupsBounded
  <2> QED BY <1>1, <2>2, <2>3, RequiredType, HoldersFinite
<1>3. CASE Required <= 2
  <2>1. HasPayment(n, t)
    <3>1. acks[n][t] # 0 BY <1>1, RequiredType
    <3> QED BY <3>1 DEF AckInv, RoundStarted
  <2>2. CASE Required = 1
    <3>1. {n} \subseteq Holders(t) BY <2>1 DEF Holders
    <3>2. Cardinality({n}) = 1 BY FS_Singleton
    <3>3. Cardinality({n}) <= Cardinality(Holders(t)) BY <3>1, HoldersFinite, FS_Subset
    <3> QED BY <2>2, <3>2, <3>3, HoldersFinite
  <2>3. CASE Required = 2
    <3>1. acks[n][t] >= 2 BY <1>1, <2>3
    <3>2. PICK m \in Node \ {n} : HasPayment(m, t)
      BY <3>1 DEF AckInv, OtherHolder
    <3>3. {n, m} \subseteq Holders(t) BY <2>1, <3>2 DEF Holders
    <3>4. Cardinality({n, m}) = 2
      <4>1. IsFiniteSet({n}) /\ Cardinality({n}) = 1 BY FS_Singleton
      <4>2. Cardinality({n} \cup {m}) = Cardinality({n}) + 1
        BY <3>2, <4>1, FS_AddElement
      <4>3. {n} \cup {m} = {n, m} OBVIOUS
      <4> QED BY <4>1, <4>2, <4>3
    <3>5. Cardinality({n, m}) <= Cardinality(Holders(t)) BY <3>3, HoldersFinite, FS_Subset
    <3> QED BY <2>3, <3>4, <3>5, HoldersFinite
  <2> QED BY <1>3, <2>2, <2>3, RequiredType
<1> QED BY <1>2, <1>3 DEF AcksCountNodes

LEMMA HoldersCountGrows ==
  ASSUME TypeInv, [Next]_vars, NEW t \in Txn
  PROVE  Cardinality(Holders(t)) <= Cardinality(Holders(t)')
<1>1. Holders(t) \subseteq Holders(t)' BY HoldersGrowStep DEF HoldersGrow
<1>2. IsFiniteSet(Holders(t)')
  <2>1. Holders(t)' \subseteq Node BY DEF Holders
  <2> QED BY <2>1, NodeFinite, FS_Subset
<1> QED BY <1>1, <1>2, FS_Subset

LEMMA DupsStep ==
  ASSUME TypeInv, [Next]_vars, DupsBounded
  PROVE  DupsBounded'
<1>1. dups' = dups \/ (dups < MaxDups /\ dups' = dups + 1)
  BY DEF Next, NodeStep, NodeNext, HandleDatagram, HandlePaymentCreate, HandleReplicatedPayment,
     HandlePaymentAck, HandleCommitPayment, HandleRecoveryRequest, HandleRecoveryData, HandleRefused,
     Deliver, Lose, HandleControl, HandleNodeFail, HandleNodeRejoin, HandleLeaderChange, LoseControl,
     Worker, WorkerTick, WorkerTimeout, MarkCommittedRead, MarkCommittedSave, MarkCommittedLog,
     BroadcastCommit, FinishHandling, CommitSave, LogCommit, RejoinRecovery, StartupRecovery, SendHeartbeats, HandleHeartbeat, netVars, ApiStep, vars, nodeVars
<1>2. dups \in Nat BY DEF TypeInv, TypeOK, NodeTypeOK
<1> QED BY <1>1, <1>2, NetworkAssumption DEF DupsBounded

LEMMA MajorityStep ==
  ASSUME AcksCountNodes, TypeInv, TypeInv', AckInv, MajorityInv, [Next]_vars
  PROVE  MajorityInv'
<1>1. DupsBounded' BY DupsStep DEF MajorityInv
<1>2. ASSUME NEW t \in Txn, Decided(t)'
      PROVE  Cardinality(Holders(t)') >= Required
  <2>1. Cardinality(Holders(t)) >= Required
    <3>1. Decided(t) \/ \E n \in Node : HasMajority(n, t) BY <1>2, DecidedStep
    <3> QED BY <3>1, MajorityHolds DEF MajorityInv, DecidedOnMajority
  <2>2. Cardinality(Holders(t)) <= Cardinality(Holders(t)') BY HoldersCountGrows
  <2>3. Cardinality(Holders(t)') \in Nat
    <3>1. Holders(t)' \subseteq Node BY DEF Holders
    <3> QED BY <3>1, NodeFinite, FS_Subset, FS_CardinalityType
  <2> QED BY <2>1, <2>2, <2>3, RequiredType, HoldersFinite
<1>3. DecidedOnMajority'
  BY <1>2 DEF DecidedOnMajority, Required
<1> QED BY <1>1, <1>3 DEF MajorityInv

LEMMA MajorityInit == Init => MajorityInv
<1> SUFFICES ASSUME Init PROVE MajorityInv OBVIOUS
<1>1. DupsBounded BY NetworkAssumption DEF Init, NodeInit, DupsBounded
<1>2. \A t \in Txn : ~Decided(t)
  BY DEF Init, NodeInit, ApiInit, Decided, IsCommitted, Convinced, CommitInFlight, InHand, Absent
<1> QED BY <1>1, <1>2 DEF MajorityInv, DecidedOnMajority

(* A payment is committed, announced or listed as committed only while a   *)
(* majority of the nodes holds it, for any number of nodes when no         *)
(* datagram is delivered twice, and for up to three nodes even then.       *)
THEOREM CommitNeedsMajority ==
  AcksCountNodes => (Spec => []CommittedOnMajority)
<1> SUFFICES ASSUME AcksCountNodes PROVE Spec => []CommittedOnMajority OBVIOUS
<1>1. Init => MajorityInv BY MajorityInit
<1>2. TypeInv /\ TypeInv' /\ AckInv /\ MajorityInv /\ [Next]_vars => MajorityInv'
  BY MajorityStep
<1>3. MajorityInv => CommittedOnMajority
  BY DEF MajorityInv, DecidedOnMajority, Decided, CommittedOnMajority, CommitKnown
<1> QED BY <1>1, <1>2, <1>3, AckInvariance, PTL DEF Spec

-----------------------------------------------------------------------------
(* The refinement: each step of the cluster is a step of Ledger, or leaves *)
(* the statuses alone.                                                     *)
LEMMA StatusesOf ==
  ASSUME NEW n \in Node, NEW t \in Txn
  PROVE  Statuses[n][t] = payments[n][t].status /\ Statuses'[n][t] = payments'[n][t].status
BY DEF Statuses

LEMMA StoringIsHolding ==
  ASSUME NEW t \in Txn
  PROVE  Abstract!Storing(t) = Holders(t)
BY StatusesOf DEF Abstract!Storing, Holders, HasPayment

(* A step that turns one absent entry into a pending one.                  *)
LEMMA StoreStep ==
  ASSUME TypeInv, NEW n \in Node, NEW t \in Txn, NEW v, SavePayment(n, t, Pending(v)),
         ~HasPayment(n, t)
  PROVE  Abstract!Store(n, t)
<1> USE DEF TypeInv, TypeOK, NodeTypeOK
<1>1. Statuses[n][t] = "absent"
  <2>1. payments[n][t] \in Entry OBVIOUS
  <2> QED BY <2>1, StatusesOf, EntryTypes DEF HasPayment
<1>2. Statuses' = [Statuses EXCEPT ![n][t] = "pending"]
  <2>1. payments' = [payments EXCEPT ![n][t] = Pending(v)] BY DEF SavePayment
  <2>2. Pending(v).status = "pending" BY DEF Pending
  <2> HIDE DEF Pending
  <2> QED BY <2>1, <2>2 DEF Statuses
<1> QED BY <1>1, <1>2 DEF Abstract!Store

(* A step that commits some payments of one node.                          *)
LEMMA CommitStep ==
  ASSUME TypeInv, DecidedOnMajority, NEW n \in Node, NEW T \in SUBSET Txn,
         \A t \in T : Decided(t),
         \A t \in T : payments'[n][t].status = "committed",
         \A p \in Node, t \in Txn : p # n \/ t \notin T => payments'[p][t] = payments[p][t]
  PROVE  Abstract!Commit(n, T)
<1>1. ASSUME NEW t \in T PROVE Abstract!Majority(Abstract!Storing(t))
  <2>1. Cardinality(Holders(t)) >= Required BY DEF DecidedOnMajority
  <2>2. Abstract!Storing(t) = Holders(t) BY StoringIsHolding
  <2>3. Abstract!Cardinality(Holders(t)) = Cardinality(Holders(t))
        /\ Abstract!Cardinality(Node) = Cardinality(Node)
    BY DEF Abstract!Cardinality, Cardinality
  <2> QED BY <2>1, <2>2, <2>3 DEF Abstract!Majority, Required
<1>2. Statuses' = [Statuses EXCEPT ![n] = [t \in Txn |-> IF t \in T THEN "committed" ELSE @[t]]]
  <2>1. \A p \in Node, t \in Txn :
          payments'[p][t].status =
            IF p = n /\ t \in T THEN "committed" ELSE payments[p][t].status
    OBVIOUS
  <2>2. Statuses[n] = [t \in Txn |-> payments[n][t].status] BY DEF Statuses
  <2>3. \A t \in Txn : (IF t \in T THEN "committed" ELSE Statuses[n][t]) = payments'[n][t].status
    BY <2>1, <2>2
  <2>4. [t \in Txn |-> IF t \in T THEN "committed" ELSE Statuses[n][t]] =
          [t \in Txn |-> payments'[n][t].status]
    BY <2>3
  <2>5. \A p \in Node \ {n} : [t \in Txn |-> payments'[p][t].status] = Statuses[p]
    BY <2>1 DEF Statuses
  <2>6. Statuses' = [p \in Node |-> [t \in Txn |-> payments'[p][t].status]] BY DEF Statuses
  <2>7. DOMAIN Statuses = Node BY DEF Statuses
  <2> DEFINE F == [t \in Txn |-> payments'[n][t].status]
             G == [p \in Node |-> [t \in Txn |-> payments'[p][t].status]]
  <2>8. G = [Statuses EXCEPT ![n] = F]
    <3>1. \A p \in Node : G[p] = IF p = n THEN F ELSE Statuses[p] BY <2>5
    <3>2. G = [p \in Node |-> G[p]] OBVIOUS
    <3> HIDE DEF F, G
    <3>3. [Statuses EXCEPT ![n] = F] = [p \in Node |-> IF p = n THEN F ELSE Statuses[p]]
      BY <2>7
    <3>4. G = [p \in Node |-> IF p = n THEN F ELSE Statuses[p]]
      BY <3>1, <3>2
    <3> QED BY <3>3, <3>4
  <2> QED BY <2>4, <2>6, <2>8
<1> QED BY <1>1, <1>2 DEF Abstract!Commit

LEMMA RefinementDatagram ==
  ASSUME TypeInv, DecidedOnMajority, NEW m \in net,
         \/ HandlePaymentCreate(m)
         \/ HandleReplicatedPayment(m)
         \/ HandleRecoveryData(m)
  PROVE  Abstract!Next \/ UNCHANGED Statuses
<1> USE DEF TypeInv, TypeOK, NodeTypeOK
<1>1. m \in Datagram /\ m.dst \in Node BY DatagramFields
<1>2. CASE HandlePaymentCreate(m)
  <2>1. m.txn \in Txn /\ ~HasPayment(m.dst, m.txn) /\ SavePayment(m.dst, m.txn, Pending(m.val))
    BY <1>1, <1>2, DatagramFields DEF HandlePaymentCreate, MayCreate
  <2> QED BY <1>1, <2>1, StoreStep DEF Abstract!Next
<1>3. CASE HandleReplicatedPayment(m)
  <2>1. m.txn \in Txn /\ SavePayment(m.dst, m.txn, Replicated(payments[m.dst][m.txn], m.val))
    BY <1>1, <1>3, DatagramFields DEF HandleReplicatedPayment
  <2>2. CASE HasPayment(m.dst, m.txn)
    <3>1. payments' = payments BY <1>1, <2>1, <2>2 DEF SavePayment, Replicated, HasPayment
    <3> QED BY <3>1 DEF Statuses
  <2>3. CASE ~HasPayment(m.dst, m.txn)
    <3>1. SavePayment(m.dst, m.txn, Pending(m.val)) BY <2>1, <2>3 DEF Replicated, HasPayment
    <3> QED BY <1>1, <2>1, <2>3, <3>1, StoreStep DEF Abstract!Next
  <2> QED BY <2>2, <2>3
<1>4. CASE HandleRecoveryData(m)
  <2> DEFINE T == {t \in Txn : m.payments[t] # NoValue /\ ~IsCommitted(m.dst, t)}
  <2>1. \A t \in T : Decided(t)
    BY <1>4 DEF HandleRecoveryData, Decided, CommitInFlight
  <2>2. /\ \A t \in T : payments'[m.dst][t].status = "committed"
        /\ \A p \in Node, t \in Txn :
             p # m.dst \/ t \notin T => payments'[p][t] = payments[p][t]
    BY <1>1, <1>4 DEF HandleRecoveryData, Recovered, Committed, IsCommitted
  <2>3. Abstract!Commit(m.dst, T)
    <3> HIDE DEF TypeInv, T
    <3>1. T \in SUBSET Txn BY DEF T
    <3> QED BY <1>1, <2>1, <2>2, <3>1, CommitStep
  <2>4. T \in SUBSET Txn OBVIOUS
  <2> HIDE DEF T
  <2> QED BY <1>1, <2>3, <2>4 DEF Abstract!Next
<1> QED BY <1>2, <1>3, <1>4

LEMMA RefinementStep ==
  ASSUME TypeInv, DecidedOnMajority, [Next]_vars
  PROVE  Abstract!Next \/ UNCHANGED Statuses
<1>1. CASE UNCHANGED payments BY <1>1 DEF Statuses
<1>2. ASSUME NEW m \in net, HandleDatagram(m) PROVE Abstract!Next \/ UNCHANGED Statuses
  BY <1>1, <1>2, RefinementDatagram DEF HandleDatagram, HandlePaymentAck, HandleCommitPayment,
     HandleRecoveryRequest, HandleRefused, ledgerVars
<1>3. ASSUME NEW n \in Node, NEW t \in Txn, Worker(n, t)
      PROVE  Abstract!Next \/ UNCHANGED Statuses
  <2>1. CASE ~MarkCommittedSave(n, t)
    BY <1>1, <1>3, <2>1 DEF Worker, WorkerTick, WorkerTimeout, MarkCommittedRead, MarkCommittedLog,
       BroadcastCommit, ledgerVars
  <2>2. CASE MarkCommittedSave(n, t)
    <3>1. Decided(t) BY <2>2 DEF MarkCommittedSave, Decided, Convinced
    <3>2. payments \in [Node -> [Txn -> Entry]] BY DEF TypeInv, TypeOK, NodeTypeOK
    <3>3. /\ payments'[n][t].status = "committed"
          /\ \A p \in Node, s \in Txn : p # n \/ s # t => payments'[p][s] = payments[p][s]
      BY <2>2, <3>2 DEF MarkCommittedSave, SavePayment, Committed
    <3>4. Abstract!Commit(n, {t}) BY <3>1, <3>3, CommitStep
    <3> QED BY <3>4 DEF Abstract!Next
  <2> QED BY <2>1, <2>2
<1>4. ASSUME NEW n \in Node, FinishHandling(n)
      PROVE  Abstract!Next \/ UNCHANGED Statuses
  <2>1. CASE LogCommit(n)
    BY <1>1, <2>1 DEF LogCommit, ledgerVars
  <2>2. CASE CommitSave(n)
    <3>1. PICK c \in held[n] : SavePayment(n, c.txn, Committed(c.val))
      BY <2>2 DEF CommitSave
    <3>2. /\ payments \in [Node -> [Txn -> Entry]]
          /\ c.txn \in Txn
      BY <3>1 DEF TypeInv, TypeOK, NodeTypeOK, Copy
    <3>3. Decided(c.txn) BY <3>1 DEF Decided, InHand
    <3>4. /\ payments'[n][c.txn].status = "committed"
          /\ \A p \in Node, s \in Txn : p # n \/ s # c.txn => payments'[p][s] = payments[p][s]
      BY <3>1, <3>2 DEF SavePayment, Committed
    <3>5. Abstract!Commit(n, {c.txn}) BY <3>2, <3>3, <3>4, CommitStep
    <3> QED BY <3>2, <3>5 DEF Abstract!Next
  <2> QED BY <1>4, <2>1, <2>2 DEF FinishHandling
<1> QED
  BY <1>1, <1>2, <1>3, <1>4 DEF Next, NodeStep, NodeNext, Lose, HandleControl, HandleNodeFail,
     HandleNodeRejoin, HandleLeaderChange, LoseControl, RejoinRecovery, StartupRecovery,
     SendHeartbeats, HandleHeartbeat, ApiStep, vars, nodeVars, ledgerVars

(* Every node's copy of every payment goes from absent to pending to       *)
(* committed, and is committed only on a stored majority: the cluster      *)
(* implements Ledger.                                                      *)
THEOREM ClusterImplementsLedger ==
  AcksCountNodes => (Spec => ImplementsLedger)
<1> SUFFICES ASSUME AcksCountNodes PROVE Spec => ImplementsLedger OBVIOUS
<1>1. Init => Abstract!Init
  BY DEF Init, NodeInit, Abstract!Init, Statuses, Absent
<1>2. TypeInv /\ MajorityInv /\ [Next]_vars => [Abstract!Next]_Statuses
  BY RefinementStep DEF MajorityInv
<1>3. Init => MajorityInv BY MajorityInit
<1>4. TypeInv /\ TypeInv' /\ AckInv /\ MajorityInv /\ [Next]_vars => MajorityInv'
  BY MajorityStep
<1> QED BY <1>1, <1>2, <1>3, <1>4, AckInvariance, PTL DEF Spec, ImplementsLedger, Abstract!Spec
=============================================================================
