------------------------ MODULE ControlPlaneProofs ------------------------
(***************************************************************************)
(* The lead, for any number of nodes, copies, faults and log lines: a node *)
(* that was told who leads has that role once it has read its queue, and   *)
(* is a leader when a payment sent on the strength of it arrives.  And the *)
(* API server drops a leader only with cause.                              *)
(***************************************************************************)
EXTENDS ControlPlane, ConfigProofs, SequenceTheorems

-----------------------------------------------------------------------------
(* When a node n that has read the first k datagrams of q is active and    *)
(* leads if and only if it is l: a NODE_FAIL is made good by a later       *)
(* NODE_REJOIN, and no control message but a LEADER_CHANGE to l is last.   *)
Announced(q, k, n, l, i) == \E j \in i..k : q[j] = LeaderChange(n, l)
Rejoined(q, k, i) == \E j \in i..k : q[j].type = "NODE_REJOIN"
Settles(q, k, up, leads, n, l) ==
  /\ up \/ Rejoined(q, k, 1)
  /\ \A i \in 1..k : q[i].type = "NODE_FAIL" => Rejoined(q, k, i + 1)
  /\ (leads = "leader" <=> n = l) \/ Announced(q, k, n, l, 1)
  /\ \A i \in 1..k : q[i].type # "PAYMENT_CREATE" => Announced(q, k, n, l, i)

Ready(n, k, l) == Settles(queue[n], k, active[n], role[n], n, l)

(* Of a process that does not run there is nothing but what main sets.     *)
IdleNodes == \A n \in Node : ~running[n] => queue[n] = <<>> /\ active[n] /\ role[n] = StartRole(n)

(* A node that was told who leads is on its way to that role, ...          *)
InformedReady == \A n \in informed : Ready(n, Len(queue[n]), told)

(* ... and a leader will be one when a payment due to it is read.          *)
IsDue(m) == m.type = "PAYMENT_CREATE" /\ m.due
DueReady == \A n \in Node : \A i \in DOMAIN queue[n] : IsDue(queue[n][i]) => Ready(n, i - 1, n)

ControlInv == TypeOK /\ IdleNodes /\ InformedReady /\ DueReady

-----------------------------------------------------------------------------
(* Datagrams: what they are, by their type.                                *)
LEMMA DatagramFields ==
  ASSUME NEW m \in Datagram
  PROVE  /\ m.type \in {"NODE_FAIL", "NODE_REJOIN", "LEADER_CHANGE", "PAYMENT_CREATE"}
         /\ m.type = "LEADER_CHANGE" => m.leader \in LeaderId /\ m = LeaderChange(m.dst, m.leader)
<1>1. CASE m \in [type : {"NODE_FAIL", "NODE_REJOIN"}, dst : Node]
  BY <1>1
<1>2. CASE m \in [type : {"LEADER_CHANGE"}, dst : Node, leader : LeaderId]
  BY <1>2 DEF LeaderChange
<1>3. CASE m \in [type : {"PAYMENT_CREATE"}, dst : Node, due : BOOLEAN]
  BY <1>3
<1> QED BY <1>1, <1>2, <1>3 DEF Datagram, Control

(* What the API server sends has its type and its address.                 *)
LEMMA SentTypes ==
  ASSUME NEW n \in Node, NEW l \in LeaderId
  PROVE  /\ NodeFail(n) \in Control /\ NodeFail(n).dst = n /\ NodeFail(n).type = "NODE_FAIL"
         /\ NodeRejoin(n) \in Control /\ NodeRejoin(n).dst = n /\ NodeRejoin(n).type = "NODE_REJOIN"
         /\ LeaderChange(n, l) \in Control /\ LeaderChange(n, l).dst = n
         /\ LeaderChange(n, l).type = "LEADER_CHANGE"
         /\ Control \subseteq Datagram
BY DEF NodeFail, NodeRejoin, LeaderChange, Control, Datagram

LEMMA CreateTypes ==
  ASSUME NEW n \in Node, NEW due \in BOOLEAN
  PROVE  /\ Create(n, due) \in Datagram /\ Create(n, due).dst = n
         /\ Create(n, due).type = "PAYMENT_CREATE" /\ Create(n, due).due = due
BY DEF Create, Datagram

(* Where the elements of two joined sequences come from.                   *)
LEMMA Joined ==
  ASSUME NEW S, NEW s \in Seq(S), NEW t \in Seq(S)
  PROVE  /\ s \o t \in Seq(S)
         /\ Len(s) \in Nat /\ DOMAIN s = 1..Len(s)
         /\ Len(t) \in Nat /\ DOMAIN t = 1..Len(t)
         /\ Len(s \o t) = Len(s) + Len(t) /\ DOMAIN (s \o t) = 1..Len(s) + Len(t)
         /\ \A i \in 1..Len(s) : (s \o t)[i] = s[i]
         /\ \A i \in 1..Len(t) : (s \o t)[Len(s) + i] = t[i]
         /\ \A i \in DOMAIN (s \o t) :
              i \in 1..Len(s) \/ \E j \in 1..Len(t) : i = Len(s) + j
<1>1. /\ s \o t \in Seq(S) /\ Len(s \o t) = Len(s) + Len(t)
      /\ \A i \in 1..Len(s) + Len(t) :
           (s \o t)[i] = IF i <= Len(s) THEN s[i] ELSE t[i - Len(s)]
  BY ConcatProperties
<1>2. /\ Len(s) \in Nat /\ DOMAIN s = 1..Len(s)
      /\ Len(t) \in Nat /\ DOMAIN t = 1..Len(t)
      /\ DOMAIN (s \o t) = 1..Len(s) + Len(t)
  BY <1>1, LenProperties
<1>3. \A i \in 1..Len(s) : (s \o t)[i] = s[i]
  BY <1>1, <1>2
<1>4. ASSUME NEW i \in 1..Len(t) PROVE (s \o t)[Len(s) + i] = t[i]
  <2>1. Len(s) + i \in 1..Len(s) + Len(t) /\ ~(Len(s) + i <= Len(s)) /\ Len(s) + i - Len(s) = i
    BY <1>2
  <2> QED BY <1>1, <2>1
<1>5. ASSUME NEW i \in 1..Len(s) + Len(t)
      PROVE  i \in 1..Len(s) \/ \E j \in 1..Len(t) : i = Len(s) + j
  <2>1. CASE i <= Len(s) BY <1>2, <2>1
  <2>2. CASE ~(i <= Len(s))
    <3>1. i - Len(s) \in 1..Len(t) /\ i = Len(s) + (i - Len(s)) BY <1>2, <2>2
    <3> QED BY <3>1
  <2> QED BY <2>1, <2>2
<1> QED BY <1>1, <1>2, <1>3, <1>4, <1>5

(* Datagrams for node n, in any order and number.                          *)
For(n, q) == q \in Seq(Datagram) /\ \A i \in DOMAIN q : q[i].dst = n

LEMMA JoinedFor ==
  ASSUME NEW n \in Node, NEW q, For(n, q), NEW s, For(n, s)
  PROVE  For(n, q \o s)
<1>1. q \in Seq(Datagram) /\ s \in Seq(Datagram) BY DEF For
<1>2. ASSUME NEW i \in DOMAIN (q \o s) PROVE (q \o s)[i].dst = n
  <2>1. CASE i \in 1..Len(q) BY <1>1, <2>1, Joined DEF For
  <2>2. CASE \E j \in 1..Len(s) : i = Len(q) + j BY <1>1, <2>2, Joined DEF For
  <2> QED BY <1>1, <2>1, <2>2, Joined
<1> QED BY <1>1, <1>2, Joined DEF For

LEMMA OneFor ==
  ASSUME NEW n \in Node, NEW m \in Datagram, m.dst = n
  PROVE  For(n, <<m>>) /\ Len(<<m>>) = 1 /\ <<m>>[1] = m /\ For(n, <<>>)
<1>1. <<m>> \in Seq(Datagram) /\ Len(<<m>>) = 1 /\ <<m>>[1] = m
  OBVIOUS
<1>2. DOMAIN <<m>> = 1..1
  BY <1>1, LenProperties
<1>3. <<>> \in Seq(Datagram) /\ DOMAIN <<>> = {}
  OBVIOUS
<1>4. For(n, <<m>>)
  BY <1>1, <1>2 DEF For
<1>5. For(n, <<>>)
  BY <1>3 DEF For
<1> QED BY <1>1, <1>4, <1>5

LEMMA CopiesFor ==
  ASSUME NEW n \in Node, NEW c \in Datagram, c.dst = n
  PROVE  /\ For(n, Copies(c)) /\ Len(Copies(c)) = ControlCopies
         /\ \A i \in 1..ControlCopies : Copies(c)[i] = c
         /\ c \in Control => Copies(c) \in Seq(Control)
<1>1. ControlCopies \in Nat BY ControlAssumption
<1>2. /\ Copies(c) \in [1..ControlCopies -> Datagram]
      /\ c \in Control => Copies(c) \in [1..ControlCopies -> Control]
  BY DEF Copies
<1>3. Copies(c) \in Seq(Datagram) /\ (c \in Control => Copies(c) \in Seq(Control))
  BY <1>1, <1>2, SeqDef
<1>4. Len(Copies(c)) = ControlCopies BY <1>1, <1>2, <1>3, LenProperties
<1>5. \A i \in 1..ControlCopies : Copies(c)[i] = c BY DEF Copies
<1> QED BY <1>2, <1>3, <1>4, <1>5 DEF For

(* Each node's share of a control message and the notice that follows it.  *)
Share(c, S, l, n) == ControlThenNotice(c, S, l)[n]

LEMMA ShareOf ==
  ASSUME NEW c \in Control, NEW S, NEW l \in LeaderId, NEW n \in Node
  PROVE  /\ n # c.dst /\ n \notin S => Share(c, S, l, n) = <<>>
         /\ n # c.dst /\ n \in S => Share(c, S, l, n) = <<LeaderChange(n, l)>>
         /\ n = c.dst /\ n \in S => Share(c, S, l, n) = Copies(c) \o <<LeaderChange(n, l)>>
         /\ For(n, Share(c, S, l, n))
         /\ \A i \in DOMAIN Share(c, S, l, n) : ~IsDue(Share(c, S, l, n)[i])
<1> DEFINE one == <<LeaderChange(n, l)>>
           none == <<>>
           share == Share(c, S, l, n)
<1>1. /\ LeaderChange(n, l) \in Datagram /\ LeaderChange(n, l).dst = n
      /\ c \in Datagram /\ LeaderChange(n, l) \in Control
  BY SentTypes
<1>2. For(n, one) /\ For(n, none) /\ one \in Seq(Control) /\ none \in Seq(Control)
  BY <1>1, OneFor
<1>3. n = c.dst => For(n, Copies(c)) /\ Copies(c) \in Seq(Control)
  BY <1>1, CopiesFor
<1>4. share = (IF n = c.dst THEN Copies(c) ELSE none) \o (IF n \in S THEN one ELSE none)
  BY DEF Share, ControlThenNotice
<1>5. none \o none = none /\ none \o one = one
  BY <1>2, ConcatEmptySeq DEF For
<1> HIDE DEF one, none, share
<1>6. For(n, share)
  <2>1. For(n, IF n = c.dst THEN Copies(c) ELSE none) BY <1>2, <1>3
  <2>2. For(n, IF n \in S THEN one ELSE none) BY <1>2
  <2> QED BY <1>4, <2>1, <2>2, JoinedFor
<1>7. /\ n # c.dst /\ n \notin S => share = none
      /\ n # c.dst /\ n \in S => share = one
      /\ n = c.dst /\ n \in S => share = Copies(c) \o one
  BY <1>4, <1>5
<1>8. \A i \in DOMAIN share : ~IsDue(share[i])
  <2>1. share \in Seq(Control) BY <1>2, <1>3, <1>4, Joined
  <2>2. \A i \in DOMAIN share : share[i] \in Control BY <2>1, LenProperties, ElementOfSeq
  <2>3. \A m \in Control : m.type # "PAYMENT_CREATE" BY DEF Control
  <2> QED BY <2>2, <2>3 DEF IsDue
<1> QED BY <1>6, <1>7, <1>8 DEF one, none, share

(* The leader is a node or none, whoever runs.                             *)
LEMMA LeaderTypes ==
  ASSUME NEW l \in LeaderId, NEW S \in SUBSET Node
  PROVE  FirstRunning(l, S) \in LeaderId /\ Recalculated(l, S) \in LeaderId
<1>1. S # {} => FirstOf(S) \in S BY FirstOfIn
<1> QED BY <1>1 DEF FirstRunning, Recalculated, LeaderId

(* SendAll keeps the queues' type.                                         *)
LEMMA SendAllType ==
  ASSUME TypeOK, NEW sent, \A n \in Node : For(n, sent[n]), SendAll(sent)
  PROVE  /\ queue' \in [Node -> Seq(Datagram)]
         /\ \A n \in Node : /\ For(n, queue'[n])
                            /\ queue'[n] = IF running[n] THEN queue[n] \o sent[n] ELSE queue[n]
<1>1. \A n \in Node : For(n, queue[n])
  BY DEF TypeOK, For
<1>2. \A n \in Node : queue'[n] = IF running[n] THEN queue[n] \o sent[n] ELSE queue[n]
  BY DEF SendAll
<1>3. \A n \in Node : For(n, queue'[n])
  BY <1>1, <1>2, JoinedFor
<1>4. queue' \in [Node -> Seq(Datagram)]
  BY <1>1, JoinedFor DEF SendAll, For
<1> QED BY <1>2, <1>3, <1>4

-----------------------------------------------------------------------------
(* What is appended to a queue changes nothing for those before it.        *)
LEMMA SettlesPrefix ==
  ASSUME NEW n \in Node, NEW q, For(n, q), NEW s, For(n, s),
         NEW k \in 0..Len(q), NEW up, NEW leads, NEW l, Settles(q, k, up, leads, n, l)
  PROVE  Settles(q \o s, k, up, leads, n, l)
<1>1. \A i \in 1..k : (q \o s)[i] = q[i]
  BY Joined DEF For
<1>2. Len(q) \in Nat
  BY Joined DEF For
<1>3. \A i \in 1..k + 1 : /\ Rejoined(q, k, i) => Rejoined(q \o s, k, i)
                          /\ Announced(q, k, n, l, i) => Announced(q \o s, k, n, l, i)
  <2> TAKE i \in 1..k + 1
  <2>1. \A j \in i..k : j \in 1..k BY <1>2
  <2> QED BY <1>1, <2>1 DEF Rejoined, Announced
<1>4. 1 \in 1..k + 1 /\ \A i \in 1..k : i \in 1..k + 1 /\ i + 1 \in 1..k + 1
  BY <1>2
<1> QED BY <1>1, <1>3, <1>4 DEF Settles

(* A payment appended to the queue is no control message.                  *)
LEMMA SettlesPayment ==
  ASSUME NEW n \in Node, NEW q, For(n, q), NEW due \in BOOLEAN,
         NEW up, NEW leads, NEW l, Settles(q, Len(q), up, leads, n, l)
  PROVE  Settles(q \o <<Create(n, due)>>, Len(q) + 1, up, leads, n, l)
<1> DEFINE c == Create(n, due)
           t == q \o <<c>>
           k == Len(q)
<1>1. c \in Datagram /\ c.dst = n /\ c.type = "PAYMENT_CREATE"
  BY CreateTypes
<1> HIDE DEF c
<1>2. For(n, <<c>>) /\ Len(<<c>>) = 1 /\ <<c>>[1] = c /\ c.type = "PAYMENT_CREATE"
  BY <1>1, OneFor
<1>3. /\ k \in Nat /\ t[k + 1] = c /\ \A i \in 1..k : t[i] = q[i]
  BY <1>2, Joined DEF For
<1> HIDE DEF t, k
<1>4. \A i \in 1..k + 1 : /\ Rejoined(q, k, i) => Rejoined(t, k + 1, i)
                          /\ Announced(q, k, n, l, i) => Announced(t, k + 1, n, l, i)
  <2> TAKE i \in 1..k + 1
  <2>1. \A j \in i..k : j \in 1..k /\ j \in i..k + 1 BY <1>3
  <2> QED BY <1>3, <2>1 DEF Rejoined, Announced
<1>5. /\ 1 \in 1..k + 1 /\ \A i \in 1..k : i \in 1..k + 1 /\ i + 1 \in 1..k + 1
      /\ \A i \in 1..k + 1 : i \in 1..k \/ i = k + 1
  BY <1>3
<1>6. Settles(q, k, up, leads, n, l)
  BY DEF k
<1>7. \A i \in 1..k + 1 : t[i].type = "NODE_FAIL" => Rejoined(t, k + 1, i + 1)
  BY <1>2, <1>3, <1>4, <1>5, <1>6 DEF Settles
<1>8. \A i \in 1..k + 1 : t[i].type # "PAYMENT_CREATE" => Announced(t, k + 1, n, l, i)
  BY <1>2, <1>3, <1>4, <1>5, <1>6 DEF Settles
<1>9. Settles(t, k + 1, up, leads, n, l)
  BY <1>4, <1>5, <1>6, <1>7, <1>8 DEF Settles
<1> QED BY <1>9 DEF c, t, k

(* A queue that ends with the notice of a leader and leaves the node       *)
(* active settles it for that leader, whatever it held before.             *)
LEMMA SettlesNotice ==
  ASSUME NEW n \in Node, NEW l \in LeaderId, NEW t, NEW k \in Nat \ {0},
         t[k] = LeaderChange(n, l), NEW up, NEW leads,
         up \/ Rejoined(t, k, 1),
         \A i \in 1..k : t[i].type = "NODE_FAIL" => Rejoined(t, k, i + 1)
  PROVE  Settles(t, k, up, leads, n, l)
<1>1. \A i \in 1..k : k \in i..k /\ 1 \in 1..k
  OBVIOUS
<1>2. \A i \in 1..k : Announced(t, k, n, l, i)
  BY <1>1 DEF Announced
<1>3. Announced(t, k, n, l, 1)
  BY <1>2
<1> QED BY <1>2, <1>3 DEF Settles

(* ... which a node that will be active needs only the notice for, ...     *)
LEMMA NoticeSettles ==
  ASSUME TypeOK, NEW n \in Node, WillBeActive(n), NEW l \in LeaderId, NEW leads
  PROVE  LET t == queue[n] \o <<LeaderChange(n, l)>>
         IN  Settles(t, Len(t), active[n], leads, n, l)
<1> DEFINE q == queue[n]
           c == LeaderChange(n, l)
           k == Len(q)
           t == q \o <<c>>
<1>1. For(n, q) /\ For(n, <<c>>) /\ Len(<<c>>) = 1 /\ <<c>>[1] = c /\ c.type = "LEADER_CHANGE"
  BY SentTypes, OneFor DEF TypeOK, For
<1>2. /\ active[n] \/ \E j \in DOMAIN q : q[j].type = "NODE_REJOIN"
      /\ \A i \in DOMAIN q :
           q[i].type = "NODE_FAIL" => \E j \in DOMAIN q : j > i /\ q[j].type = "NODE_REJOIN"
  BY DEF WillBeActive
<1> HIDE DEF q, c
<1>3. /\ k \in Nat /\ DOMAIN q = 1..k /\ Len(t) = k + 1 /\ t[k + 1] = c
      /\ \A i \in 1..k : t[i] = q[i]
  BY <1>1, Joined DEF For
<1> HIDE DEF t, k
<1>4. /\ k + 1 \in Nat \ {0}
      /\ \A i \in 1..k + 1 : i \in 1..k \/ i = k + 1
      /\ \A j \in 1..k : j \in 1..k + 1
      /\ \A i, j \in 1..k : j > i => j \in (i + 1)..(k + 1)
  BY <1>3
<1>5. active[n] \/ Rejoined(t, k + 1, 1)
  BY <1>2, <1>3, <1>4 DEF Rejoined
<1>6. \A i \in 1..k + 1 : t[i].type = "NODE_FAIL" => Rejoined(t, k + 1, i + 1)
  BY <1>1, <1>2, <1>3, <1>4 DEF Rejoined
<1>7. Settles(t, k + 1, active[n], leads, n, l)
  BY <1>3, <1>4, <1>5, <1>6, SettlesNotice DEF c
<1> QED BY <1>3, <1>7 DEF c, q, t

(* ... and any node a NODE_REJOIN before it.                               *)
LEMMA RejoinSettles ==
  ASSUME NEW n \in Node, NEW q, For(n, q), NEW l \in LeaderId, NEW up, NEW leads
  PROVE  LET t == q \o (Copies(NodeRejoin(n)) \o <<LeaderChange(n, l)>>)
         IN  Settles(t, Len(t), up, leads, n, l)
<1> DEFINE r == Copies(NodeRejoin(n))
           c == LeaderChange(n, l)
           s == r \o <<c>>
           t == q \o s
           k == Len(t)
           b == Len(q)
<1>1. /\ NodeRejoin(n) \in Datagram /\ NodeRejoin(n).dst = n /\ NodeRejoin(n).type = "NODE_REJOIN"
      /\ c \in Datagram /\ c.dst = n /\ c.type = "LEADER_CHANGE"
  BY SentTypes
<1>2. For(n, r) /\ Len(r) = ControlCopies /\ \A i \in 1..ControlCopies : r[i].type = "NODE_REJOIN"
  BY <1>1, CopiesFor
<1> HIDE DEF r, c
<1>3. For(n, <<c>>) /\ Len(<<c>>) = 1 /\ <<c>>[1] = c /\ c.type = "LEADER_CHANGE"
  BY <1>1, OneFor
<1>4. /\ For(n, s) /\ Len(s) = ControlCopies + 1
      /\ \A i \in 1..ControlCopies : s[i].type = "NODE_REJOIN"
      /\ s[ControlCopies + 1] = c
  BY <1>3, <1>2, Joined, JoinedFor DEF For
<1> HIDE DEF s
<1>5. /\ b \in Nat /\ k = b + (ControlCopies + 1)
      /\ \A i \in 1..ControlCopies + 1 : t[b + i] = s[i]
  <2>1. q \in Seq(Datagram) /\ s \in Seq(Datagram) BY <1>4 DEF For
  <2>2. /\ Len(q) \in Nat /\ Len(q \o s) = Len(q) + Len(s)
        /\ \A i \in 1..Len(s) : (q \o s)[Len(q) + i] = s[i]
    BY <2>1, Joined
  <2> QED BY <1>4, <2>2
<1>6. ControlCopies \in Nat \ {0}
  BY ControlAssumption
<1> HIDE DEF t, k, b
<1>7. /\ 1 \in 1..ControlCopies /\ 1 \in 1..ControlCopies + 1
      /\ ControlCopies + 1 \in 1..ControlCopies + 1
      /\ k \in Nat \ {0} /\ b + 1 \in 1..k
      /\ \A i \in 1..b : b + 1 \in (i + 1)..k
  BY <1>5, <1>6
<1>8. t[k] = c /\ t[b + 1].type = "NODE_REJOIN"
  BY <1>4, <1>5, <1>7
<1>9. \A i \in 1..k : i \notin 1..b => t[i].type # "NODE_FAIL"
  <2> SUFFICES ASSUME NEW i \in 1..k, i \notin 1..b PROVE t[i].type # "NODE_FAIL"
    OBVIOUS
  <2> DEFINE j == i - b
  <2>1. j \in 1..ControlCopies + 1 /\ i = b + j
    BY <1>5, <1>6
  <2>2. t[i] = s[j]
    BY <1>5, <2>1
  <2>3. j \in 1..ControlCopies \/ j = ControlCopies + 1
    BY <1>6, <2>1
  <2> QED BY <1>3, <1>4, <2>2, <2>3
<1>10. Rejoined(t, k, 1) /\ \A i \in 1..b : Rejoined(t, k, i + 1)
  BY <1>7, <1>8 DEF Rejoined
<1>11. \A i \in 1..k : t[i].type = "NODE_FAIL" => Rejoined(t, k, i + 1)
  BY <1>9, <1>10
<1>12. Settles(t, k, up, leads, n, l)
  BY <1>7, <1>8, <1>10, <1>11, SettlesNotice DEF c
<1> QED BY <1>12 DEF t, k, s, r, c

(* Reading the first datagram leaves a settled queue settled.              *)
LEMMA SettlesRead ==
  ASSUME NEW n \in Node, NEW l \in LeaderId, NEW q, For(n, q), q # <<>>, NEW k \in 1..Len(q),
         NEW up \in BOOLEAN, NEW leads, Settles(q, k, up, leads, n, l),
         NEW upNext \in BOOLEAN, NEW leadsNext,
         \/ Head(q).type = "NODE_FAIL"
         \/ Head(q).type = "NODE_REJOIN" /\ upNext
         \/ /\ Head(q).type = "LEADER_CHANGE" /\ upNext = up
            /\ leadsNext = "leader" <=> Head(q).leader = n
         \/ Head(q).type = "PAYMENT_CREATE" /\ upNext = up /\ leadsNext = leads
  PROVE  Settles(Tail(q), k - 1, upNext, leadsNext, n, l)
<1> DEFINE m == Head(q)
           rest == Tail(q)
<1>1. /\ q \in Seq(Datagram) /\ Len(q) \in Nat
      /\ rest \in Seq(Datagram) /\ Len(rest) = Len(q) - 1
      /\ \A i \in 1..Len(rest) : rest[i] = q[i + 1]
  BY HeadTailProperties, LenProperties DEF For
<1>2. m = q[1]
  BY <1>1
<1> HIDE DEF rest, m
<1>3. k \in Nat /\ \A i \in 1..k - 1 : rest[i] = q[i + 1]
  BY <1>1
<1>4. \A i \in 1..k : /\ Rejoined(q, k, i + 1) => Rejoined(rest, k - 1, i)
                      /\ Announced(q, k, n, l, i + 1) => Announced(rest, k - 1, n, l, i)
  <2> TAKE i \in 1..k
  <2>1. ASSUME NEW j \in (i + 1)..k PROVE j - 1 \in i..k - 1 /\ rest[j - 1] = q[j]
    <3>1. j - 1 \in i..k - 1 /\ j - 1 \in 1..k - 1 /\ j - 1 + 1 = j BY <1>3
    <3> QED BY <1>3, <3>1
  <2> QED BY <2>1 DEF Rejoined, Announced
<1>5. /\ Rejoined(q, k, 1) => m.type = "NODE_REJOIN" \/ Rejoined(rest, k - 1, 1)
      /\ Announced(q, k, n, l, 1) => m = LeaderChange(n, l) \/ Announced(rest, k - 1, n, l, 1)
  <2>1. 1 \in 1..k /\ \A j \in 1..k : j = 1 \/ j \in (1 + 1)..k
    BY <1>3
  <2>2. Rejoined(q, k, 1) => m.type = "NODE_REJOIN" \/ Rejoined(q, k, 1 + 1)
    BY <1>2, <2>1 DEF Rejoined
  <2>3. Announced(q, k, n, l, 1) => m = LeaderChange(n, l) \/ Announced(q, k, n, l, 1 + 1)
    BY <1>2, <2>1 DEF Announced
  <2> QED BY <1>4, <2>1, <2>2, <2>3
<1>6. /\ m.type = "NODE_FAIL" => Rejoined(rest, k - 1, 1)
      /\ m.type # "PAYMENT_CREATE" => m = LeaderChange(n, l) \/ Announced(rest, k - 1, n, l, 1)
  <2>1. 1 \in 1..k BY <1>3
  <2>2. m.type = "NODE_FAIL" => Rejoined(q, k, 1 + 1) BY <1>2, <2>1 DEF Settles
  <2>3. m.type # "PAYMENT_CREATE" => Announced(q, k, n, l, 1) BY <1>2, <2>1 DEF Settles
  <2> QED BY <1>4, <1>5, <2>1, <2>2, <2>3
<1>7. /\ LeaderChange(n, l).type = "LEADER_CHANGE" /\ LeaderChange(n, l).leader = l
  BY DEF LeaderChange
<1>8. upNext \/ Rejoined(rest, k - 1, 1)
  <2>1. up \/ Rejoined(q, k, 1) BY DEF Settles
  <2>2. CASE m.type = "NODE_FAIL" BY <1>6, <2>2
  <2>3. CASE m.type = "NODE_REJOIN" /\ upNext BY <2>3
  <2>4. CASE m.type # "NODE_REJOIN" /\ upNext = up BY <1>5, <2>1, <2>4
  <2> QED BY <2>2, <2>3, <2>4 DEF m
<1>9. (leadsNext = "leader" <=> n = l) \/ Announced(rest, k - 1, n, l, 1)
  <2>1. (leads = "leader" <=> n = l) \/ Announced(q, k, n, l, 1) BY DEF Settles
  <2>2. CASE m.type \in {"NODE_FAIL", "NODE_REJOIN"} BY <1>6, <1>7, <2>2
  <2>3. CASE m.type = "LEADER_CHANGE" /\ (leadsNext = "leader" <=> m.leader = n)
    BY <1>6, <1>7, <2>3
  <2>4. CASE m.type = "PAYMENT_CREATE" /\ leadsNext = leads
    BY <1>5, <1>7, <2>1, <2>4
  <2> QED BY <2>2, <2>3, <2>4 DEF m
<1>10. \A i \in 1..k - 1 :
         /\ rest[i].type = "NODE_FAIL" => Rejoined(rest, k - 1, i + 1)
         /\ rest[i].type # "PAYMENT_CREATE" => Announced(rest, k - 1, n, l, i)
  <2> TAKE i \in 1..k - 1
  <2>1. i \in 1..k /\ i + 1 \in 1..k /\ rest[i] = q[i + 1] BY <1>3
  <2>2. /\ q[i + 1].type = "NODE_FAIL" => Rejoined(q, k, (i + 1) + 1)
        /\ q[i + 1].type # "PAYMENT_CREATE" => Announced(q, k, n, l, i + 1)
    BY <2>1 DEF Settles
  <2> QED BY <1>4, <2>1, <2>2
<1>11. Settles(rest, k - 1, upNext, leadsNext, n, l)
  BY <1>8, <1>9, <1>10 DEF Settles
<1> QED BY <1>11 DEF rest

-----------------------------------------------------------------------------
(* What the logs show is a status for each node, and a leader among them.  *)
LEMMA SeenTypes ==
  ASSUME TypeOK
  PROVE  /\ Refreshed \in [Node -> {"Offline", "Running", "Failed"}]
         /\ [n \in Node |-> Started(n)] \in [Node -> {"Offline", "Running", "Failed"}]
         /\ \A st : RunningIn(st) \in SUBSET Node
         /\ LeaderNow \in LeaderId
         /\ \A S \in SUBSET Node : FirstRunning(NoLeader, S) \in LeaderId
<1>1. \A n \in Node : Started(n) \in {"Offline", "Running"}
  BY DEF Started
<1>2. Refreshed \in [Node -> {"Offline", "Running", "Failed"}]
  BY <1>1 DEF Refreshed
<1>3. \A st : RunningIn(st) \in SUBSET Node
  BY DEF RunningIn
<1>4. NoLeader \in LeaderId
  BY DEF LeaderId
<1>5. LeaderNow \in LeaderId
  BY <1>3, LeaderTypes DEF LeaderNow, TypeOK
<1> QED BY <1>1, <1>2, <1>3, <1>4, <1>5, LeaderTypes

(* The rest of a node's datagrams is for it too.                           *)
LEMMA TailFor ==
  ASSUME NEW n, NEW q, For(n, q), q # <<>>
  PROVE  /\ For(n, Tail(q)) /\ Len(q) \in Nat \ {0} /\ Len(Tail(q)) = Len(q) - 1
         /\ \A i \in DOMAIN Tail(q) : i + 1 \in 1..Len(q) /\ Tail(q)[i] = q[i + 1]
         /\ Head(q) \in Datagram /\ Head(q) = q[1]
<1>1. /\ q \in Seq(Datagram) /\ Tail(q) \in Seq(Datagram)
      /\ Len(Tail(q)) = Len(q) - 1 /\ Head(q) \in Datagram
      /\ \A i \in 1..Len(Tail(q)) : Tail(q)[i] = q[i + 1]
  BY HeadTailProperties DEF For
<1>2. /\ Len(q) \in Nat \ {0} /\ DOMAIN q = 1..Len(q)
      /\ DOMAIN Tail(q) = 1..Len(q) - 1
  BY <1>1, EmptySeq, LenProperties
<1>3. \A i \in DOMAIN Tail(q) : i + 1 \in 1..Len(q) /\ Tail(q)[i] = q[i + 1]
  BY <1>1, <1>2
<1>4. For(n, Tail(q))
  BY <1>1, <1>2, <1>3 DEF For
<1> QED BY <1>1, <1>2, <1>3, <1>4

(* The queues of TypeOK, in terms of For.                                  *)
LEMMA QueueTypes ==
  TypeOK => queue \in [Node -> Seq(Datagram)] /\ \A n \in Node : For(n, queue[n])
BY DEF TypeOK, For

LEMMA TypeInit == Init => TypeOK
<1> SUFFICES ASSUME Init PROVE TypeOK
  OBVIOUS
<1>1. PICK S \in SUBSET Node :
        /\ active = [n \in Node |-> TRUE]
        /\ role = [n \in Node |-> StartRole(n)]
        /\ knownLeader = [n \in Node |-> FirstLeader]
        /\ running = [n \in Node |-> n \in S]
        /\ lines = [n \in Node |-> IF n \in S THEN 0 ELSE Window]
        /\ status = [n \in Node |-> Started(n)]
        /\ leader = FirstRunning(NoLeader, S)
        /\ queue = [n \in Node |-> <<>>]
        /\ told = FirstLeader /\ informed = S
        /\ faults = 0
  BY DEF Init
<1>2. FirstLeader \in LeaderId /\ NoLeader \in LeaderId
  BY FirstLeaderIsNode DEF LeaderId
<1>3. RoleTypeOK
  BY <1>1, <1>2 DEF RoleTypeOK, StartRole
<1>4. lines \in [Node -> 0..Window] /\ faults \in 0..MaxFaults
  BY <1>1, ControlAssumption
<1>5. status \in [Node -> {"Offline", "Running", "Failed"}] /\ leader \in LeaderId
  BY <1>1, <1>2, LeaderTypes DEF Started
<1>6. running \in [Node -> BOOLEAN] /\ informed \subseteq {n \in Node : running[n]}
  <2>1. \A n \in Node : (n \in S) \in BOOLEAN OBVIOUS
  <2>2. running \in [Node -> BOOLEAN] BY <1>1, <2>1
  <2>3. \A n \in S : n \in Node /\ running[n] BY <1>1
  <2> QED BY <1>1, <2>2, <2>3
<1>7. /\ queue \in [Node -> Seq(Datagram)]
      /\ \A n \in Node : \A i \in DOMAIN queue[n] : queue[n][i].dst = n
  BY <1>1
<1> QED BY <1>1, <1>2, <1>3, <1>4, <1>5, <1>6, <1>7 DEF TypeOK

(* What the API server sends is addressed right, whatever it decides.      *)
LEMMA ShareFor ==
  ASSUME NEW c \in Control, NEW S, NEW l \in LeaderId
  PROVE  \A n \in Node : For(n, ControlThenNotice(c, S, l)[n])
BY ShareOf DEF Share

LEMMA PaymentFor ==
  ASSUME TypeOK
  PROVE  LET sent == [n \in Node |-> IF n = LeaderNow
                                       THEN <<Create(n, n = told /\ n \in informed)>> ELSE <<>>]
         IN  \A n \in Node :
               /\ For(n, sent[n])
               /\ \A i \in DOMAIN sent[n] : i = 1 /\ sent[n][1].due = (n = told /\ n \in informed)
<1> SUFFICES ASSUME NEW n \in Node, NEW due \in BOOLEAN
             PROVE  /\ For(n, <<Create(n, due)>>) /\ For(n, <<>>)
                    /\ \A i \in DOMAIN <<Create(n, due)>> : i = 1 /\ <<Create(n, due)>>[1].due = due
                    /\ DOMAIN <<>> = {}
  <2>1. \A n_1 \in Node : (n_1 = told /\ n_1 \in informed) \in BOOLEAN
    OBVIOUS
  <2> QED BY <2>1
<1>1. Create(n, due) \in Datagram /\ Create(n, due).dst = n /\ Create(n, due).due = due
  BY CreateTypes
<1>2. For(n, <<Create(n, due)>>) /\ Len(<<Create(n, due)>>) = 1 /\ For(n, <<>>)
  BY <1>1, OneFor
<1>3. DOMAIN <<Create(n, due)>> = 1..1
  BY <1>2, LenProperties DEF For
<1> QED BY <1>1, <1>2, <1>3

(* Every action keeps the types.                                           *)
LEMMA TypeStep == TypeOK /\ [Next]_vars => TypeOK'
<1> SUFFICES ASSUME TypeOK, [Next]_vars PROVE TypeOK'
  OBVIOUS
<1>1. /\ queue \in [Node -> Seq(Datagram)] /\ \A n \in Node : For(n, queue[n])
      /\ informed \subseteq Node
  BY QueueTypes DEF TypeOK
<1>2. NoLeader \in LeaderId /\ MaxFaults \in Nat /\ Window \in Nat \ {0}
  BY ControlAssumption DEF LeaderId
<1>3. ASSUME Fault PROVE faults' \in 0..MaxFaults
  BY <1>2, <1>3 DEF Fault, TypeOK
<1>4. ASSUME NEW n \in Node, FailNode(n) PROVE TypeOK'
  <2> DEFINE others == RunningIn(Refreshed) \ {n}
  <2>1. others \in SUBSET Node BY SeenTypes
  <2>2. NodeFail(n) \in Control BY <1>2, SentTypes
  <2>3. status' \in [Node -> {"Offline", "Running", "Failed"}]
    BY <1>4, SeenTypes DEF FailNode
  <2>4. faults' \in 0..MaxFaults /\ UNCHANGED <<roleVars, processVars>>
    BY <1>3, <1>4 DEF FailNode
  <2>5. CASE LeaderNow = n
    <3>1. leader' \in LeaderId BY <1>4, <2>1, <2>5, SeenTypes DEF FailNode
    <3>2. told' = leader' /\ informed' = Reached(others)
          /\ SendAll(ControlThenNotice(NodeFail(n), others, leader'))
      BY <1>4, <2>5 DEF FailNode
    <3>3. queue' \in [Node -> Seq(Datagram)] /\ \A m \in Node : For(m, queue'[m])
      BY <2>2, <3>1, <3>2, ShareFor, SendAllType
    <3>4. informed' \subseteq {m \in Node : running[m]}
      BY <2>1, <3>2 DEF Reached
    <3> QED BY <2>3, <2>4, <3>1, <3>2, <3>3, <3>4
            DEF TypeOK, RoleTypeOK, roleVars, processVars, For
  <2>6. CASE LeaderNow # n
    <3>1. /\ leader' = LeaderNow /\ UNCHANGED told /\ informed' = informed \ {n}
          /\ SendAll(ControlThenNotice(NodeFail(n), {}, NoLeader))
      BY <1>4, <2>6 DEF FailNode
    <3>2. leader' \in LeaderId BY <3>1, SeenTypes
    <3>3. queue' \in [Node -> Seq(Datagram)] /\ \A m \in Node : For(m, queue'[m])
      BY <1>2, <2>2, <3>1, ShareFor, SendAllType
    <3>4. informed' \subseteq {m \in Node : running[m]}
      BY <3>1 DEF TypeOK
    <3> QED BY <2>3, <2>4, <3>1, <3>2, <3>3, <3>4
            DEF TypeOK, RoleTypeOK, roleVars, processVars, For
  <2> QED BY <2>5, <2>6
<1>5. ASSUME NEW n \in Node, RejoinNode(n) PROVE TypeOK'
  <2> DEFINE S == RunningIn(status) \cup {n}
  <2>1. S \in SUBSET Node BY SeenTypes
  <2>2. NodeRejoin(n) \in Control BY <1>2, SentTypes
  <2>3. /\ status' \in [Node -> {"Offline", "Running", "Failed"}]
        /\ leader' = leader /\ told' = leader
        /\ SendAll(ControlThenNotice(NodeRejoin(n), S, leader))
        /\ informed' = Reached(S \ {n}) \cup {m \in {n} : running[m]}
        /\ UNCHANGED <<roleVars, leader, processVars, faults>>
    BY <1>5 DEF RejoinNode, TypeOK
  <2>4. queue' \in [Node -> Seq(Datagram)] /\ \A m \in Node : For(m, queue'[m])
    <3>1. leader \in LeaderId BY DEF TypeOK
    <3> QED BY <2>2, <2>3, <3>1, ShareFor, SendAllType
  <2>5. informed' \subseteq {m \in Node : running[m]}
    BY <2>1, <2>3 DEF Reached
  <2> QED BY <2>3, <2>4, <2>5 DEF TypeOK, RoleTypeOK, roleVars, processVars, For
<1>6. ASSUME GetDashboard PROVE TypeOK'
  BY <1>6, SeenTypes
     DEF GetDashboard, TypeOK, RoleTypeOK, roleVars, processVars, historyVars
<1>7. ASSUME CreatePayment PROVE TypeOK'
  <2>1. queue' \in [Node -> Seq(Datagram)] /\ \A n \in Node : For(n, queue'[n])
    BY <1>7, PaymentFor, SendAllType DEF CreatePayment
  <2>2. /\ status' = Refreshed /\ leader' = LeaderNow
        /\ UNCHANGED <<roleVars, processVars, historyVars, faults>>
    BY <1>7 DEF CreatePayment
  <2> QED BY <2>1, <2>2, SeenTypes
          DEF TypeOK, RoleTypeOK, roleVars, processVars, historyVars, For
<1>8. ASSUME ApiRestart PROVE TypeOK'
  <2>1. {n \in Node : HasNodeStarted(n)} \in SUBSET Node OBVIOUS
  <2>2. status' \in [Node -> {"Offline", "Running", "Failed"}] /\ leader' \in LeaderId
    BY <1>8, <2>1, SeenTypes DEF ApiRestart
  <2> QED BY <1>3, <1>8, <2>2
          DEF ApiRestart, TypeOK, RoleTypeOK, roleVars, processVars, historyVars
<1>9. ASSUME NEW n \in Node, Start(n) PROVE TypeOK'
  <2>1. /\ running' = [running EXCEPT ![n] = TRUE]
        /\ lines' = [lines EXCEPT ![n] = 0]
        /\ informed' = IF told = FirstLeader THEN informed \cup {n} ELSE informed
        /\ UNCHANGED <<roleVars, apiVars, queue, told>>
    BY <1>9 DEF Start
  <2>2. faults' \in 0..MaxFaults
    BY <1>3, <1>9 DEF Start
  <2>3. lines' \in [Node -> 0..Window]
    BY <1>2, <2>1 DEF TypeOK
  <2>4. running' \in [Node -> BOOLEAN] /\ informed' \subseteq {m \in Node : running'[m]}
    BY <2>1 DEF TypeOK
  <2> QED BY <2>1, <2>2, <2>3, <2>4 DEF TypeOK, RoleTypeOK, roleVars, apiVars
<1>10. ASSUME NEW n \in Node, Die(n) PROVE TypeOK'
  <2>1. /\ ResetRole(n)
        /\ running' = [running EXCEPT ![n] = FALSE]
        /\ queue' = [queue EXCEPT ![n] = <<>>]
        /\ informed' = informed \ {n}
        /\ UNCHANGED <<apiVars, lines, told, faults>>
    BY <1>10 DEF Die
  <2>2. RoleTypeOK'
    <3>1. FirstLeader \in LeaderId BY FirstLeaderIsNode DEF LeaderId
    <3> QED BY <2>1, <3>1 DEF ResetRole, StartRole, TypeOK, RoleTypeOK
  <2>3. queue' \in [Node -> Seq(Datagram)]
        /\ \A m \in Node : \A i \in DOMAIN queue'[m] : queue'[m][i].dst = m
    BY <2>1 DEF TypeOK
  <2>4. running' \in [Node -> BOOLEAN] /\ informed' \subseteq {m \in Node : running'[m]}
    BY <2>1 DEF TypeOK
  <2> QED BY <2>1, <2>2, <2>3, <2>4 DEF TypeOK, apiVars
<1>11. ASSUME NEW n \in Node, LogLine(n) PROVE TypeOK'
  <2>1. lines' \in [Node -> 0..Window]
    BY <1>2, <1>11 DEF LogLine, TypeOK
  <2> QED BY <1>11, <2>1 DEF LogLine, TypeOK, RoleTypeOK, roleVars, apiVars, historyVars
<1>12. ASSUME NEW n \in Node, HandleControl(n) PROVE TypeOK'
  <2> DEFINE m == Head(queue[n])
  <2>1. For(n, Tail(queue[n])) /\ m \in Datagram
    BY <1>1, <1>12, TailFor DEF HandleControl
  <2>2. /\ queue' = [queue EXCEPT ![n] = Tail(@)]
        /\ UNCHANGED <<apiVars, processVars, historyVars, faults>>
        /\ \/ SetNodeFailed(n)
           \/ SetNodeRejoined(n)
           \/ m.type = "LEADER_CHANGE" /\ SetLeader(n, m.leader)
           \/ UNCHANGED roleVars
    BY <1>12 DEF HandleControl
  <2>3. RoleTypeOK'
    <3>1. m.type = "LEADER_CHANGE" => m.leader \in LeaderId BY <2>1, DatagramFields
    <3>2. n \in LeaderId BY DEF LeaderId
    <3> HIDE DEF m
    <3>3. CASE SetNodeFailed(n) BY <3>3 DEF SetNodeFailed, TypeOK, RoleTypeOK
    <3>4. CASE SetNodeRejoined(n) BY <3>2, <3>4 DEF SetNodeRejoined, TypeOK, RoleTypeOK
    <3>5. CASE m.type = "LEADER_CHANGE" /\ SetLeader(n, m.leader)
      BY <3>1, <3>5 DEF SetLeader, TypeOK, RoleTypeOK
    <3>6. CASE UNCHANGED roleVars BY <3>6 DEF roleVars, TypeOK, RoleTypeOK
    <3> QED BY <2>2, <3>3, <3>4, <3>5, <3>6
  <2>4. queue' \in [Node -> Seq(Datagram)]
        /\ \A k \in Node : \A i \in DOMAIN queue'[k] : queue'[k][i].dst = k
    BY <2>1, <2>2 DEF TypeOK, For
  <2> QED BY <2>2, <2>3, <2>4 DEF TypeOK, apiVars, processVars, historyVars
<1>13. ASSUME NEW n \in Node, NEW m \in PeersExcluding(n), HandleHeartbeat(n, m) PROVE TypeOK'
  <2>1. m \in Node BY DEF PeersExcluding
  <2>2. /\ AdoptLeader(n, knownLeader[m])
        /\ UNCHANGED <<apiVars, processVars, queue, historyVars, faults>>
    BY <1>13 DEF HandleHeartbeat
  <2>3. RoleTypeOK'
    BY <2>1, <2>2 DEF AdoptLeader, TypeOK, RoleTypeOK
  <2> QED BY <2>2, <2>3 DEF TypeOK, apiVars, processVars, historyVars
<1>14. CASE UNCHANGED vars
  BY <1>14 DEF vars, TypeOK, RoleTypeOK, roleVars, apiVars, processVars, historyVars
<1> QED
  BY <1>4, <1>5, <1>6, <1>7, <1>8, <1>9, <1>10, <1>11, <1>12, <1>13, <1>14 DEF Next

(* Roles, statuses, logs and queues keep their types.                      *)
THEOREM ControlTypes == Spec => []TypeOK
<1>1. Init => TypeOK BY TypeInit
<1>2. TypeOK /\ [Next]_vars => TypeOK' BY TypeStep
<1> QED BY <1>1, <1>2, PTL DEF Spec

-----------------------------------------------------------------------------
(* What a node that keeps its role is ready for, it stays ready for when   *)
(* it is sent more, ...                                                    *)
LEMMA SendKeepsReady ==
  ASSUME TypeOK, NEW sent, \A n \in Node : For(n, sent[n]), SendAll(sent),
         UNCHANGED <<active, role>>,
         NEW n \in Node, NEW k \in 0..Len(queue[n]), NEW l, Ready(n, k, l)
  PROVE  Ready(n, k, l)'
<1>1. For(n, queue[n]) /\ For(n, sent[n])
  BY QueueTypes
<1>2. queue'[n] = queue[n] \o sent[n] \/ queue'[n] = queue[n]
  BY SendAllType
<1>3. Settles(queue[n], k, active[n], role[n], n, l)
  BY DEF Ready
<1>4. Settles(queue[n] \o sent[n], k, active[n], role[n], n, l)
  BY <1>1, <1>3, SettlesPrefix
<1> QED BY <1>2, <1>3, <1>4 DEF Ready

(* ... and so are the leaders that payments are due to.                    *)
LEMMA SendKeepsDue ==
  ASSUME ControlInv, NEW sent, \A n \in Node : For(n, sent[n]), SendAll(sent),
         UNCHANGED <<active, role>>,
         \A n \in Node : \A i \in DOMAIN sent[n] :
           IsDue(sent[n][i]) => i = 1 /\ Ready(n, Len(queue[n]), n)
  PROVE  DueReady'
<1> SUFFICES ASSUME NEW n \in Node, NEW i \in DOMAIN queue'[n], IsDue(queue'[n][i])
             PROVE  Ready(n, i - 1, n)'
  BY DEF DueReady
<1>1. TypeOK /\ For(n, queue[n]) /\ For(n, sent[n])
  BY QueueTypes DEF ControlInv
<1>2. queue'[n] = queue[n] \o sent[n] \/ queue'[n] = queue[n]
  BY <1>1, SendAllType
<1> DEFINE q == queue[n]
           s == sent[n]
           t == queue'[n]
<1>3. /\ q \in Seq(Datagram) /\ s \in Seq(Datagram)
      /\ t = q \o s \/ t = q
      /\ i \in DOMAIN t /\ IsDue(t[i])
  BY <1>1, <1>2 DEF For
<1>4. \A k \in 0..Len(q) : Ready(n, k, n) => Ready(n, k, n)'
  BY <1>1, SendKeepsReady
<1>5. /\ \A j \in DOMAIN q : IsDue(q[j]) => Ready(n, j - 1, n)
      /\ \A j \in DOMAIN s : IsDue(s[j]) => j = 1 /\ Ready(n, Len(q), n)
  BY DEF ControlInv, DueReady
<1> HIDE DEF q, s, t
<1>6. /\ Len(q) \in Nat /\ DOMAIN q = 1..Len(q) /\ DOMAIN s = 1..Len(s)
      /\ \A j \in 1..Len(q) : (q \o s)[j] = q[j]
      /\ \A j \in 1..Len(s) : (q \o s)[Len(q) + j] = s[j]
      /\ \A j \in DOMAIN (q \o s) :
           j \in 1..Len(q) \/ \E h \in 1..Len(s) : j = Len(q) + h
  BY <1>3, Joined
<1>7. CASE i \in 1..Len(q)
  <2>1. t[i] = q[i] BY <1>3, <1>6, <1>7
  <2>2. Ready(n, i - 1, n) BY <1>3, <1>5, <1>6, <1>7, <2>1
  <2>3. i - 1 \in 0..Len(q) BY <1>6, <1>7
  <2> QED BY <1>4, <2>2, <2>3
<1>8. CASE i \notin 1..Len(q)
  <2>1. t = q \o s BY <1>3, <1>6, <1>8
  <2>2. PICK h \in 1..Len(s) : i = Len(q) + h BY <1>3, <1>6, <1>8, <2>1
  <2>3. IsDue(s[h]) BY <1>3, <1>6, <2>1, <2>2
  <2>4. h = 1 /\ Ready(n, Len(q), n) BY <1>5, <1>6, <2>3
  <2>5. i - 1 = Len(q) /\ Len(q) \in 0..Len(q) BY <1>6, <2>2, <2>4
  <2> QED BY <1>4, <2>4, <2>5
<1> QED BY <1>7, <1>8

(* What is sent to nodes that do not run is lost.                          *)
LEMMA SendKeepsIdle ==
  ASSUME ControlInv, NEW sent, \A n \in Node : For(n, sent[n]), SendAll(sent),
         UNCHANGED <<active, role, running>>
  PROVE  IdleNodes'
<1>1. \A n \in Node : ~running[n] => queue'[n] = queue[n]
  BY SendAllType DEF ControlInv
<1> QED BY <1>1 DEF ControlInv, IdleNodes

LEMMA ControlInit == Init => ControlInv
<1> SUFFICES ASSUME Init PROVE ControlInv
  OBVIOUS
<1>1. TypeOK BY TypeInit
<1>2. /\ \A n \in Node : queue[n] = <<>> /\ active[n] /\ role[n] = StartRole(n)
      /\ told = FirstLeader
  BY DEF Init
<1>3. ASSUME NEW n \in informed PROVE Ready(n, Len(queue[n]), told)
  <2>1. n \in Node BY <1>1 DEF TypeOK
  <2>2. Len(queue[n]) = 0 BY <1>2, <2>1
  <2> QED BY <1>2, <2>1, <2>2 DEF Ready, Settles, StartRole
<1>4. DueReady
  BY <1>2 DEF DueReady
<1> QED BY <1>1, <1>2, <1>3, <1>4 DEF ControlInv, IdleNodes, InformedReady

(* Failing a node: the others are told the next leader, if it led.         *)
LEMMA FailNodeStep ==
  ASSUME ControlInv, NEW n \in Node, FailNode(n)
  PROVE  IdleNodes' /\ InformedReady' /\ DueReady'
<1> DEFINE others == RunningIn(Refreshed) \ {n}
<1>1. /\ TypeOK /\ NodeFail(n) \in Control /\ NodeFail(n).dst = n
      /\ NoLeader \in LeaderId /\ others \in SUBSET Node
  <2>1. NoLeader \in LeaderId BY DEF LeaderId
  <2> QED BY <2>1, SentTypes, SeenTypes DEF ControlInv
<1>2. UNCHANGED <<active, role, running>>
  BY DEF FailNode, roleVars, processVars
<1>3. CASE LeaderNow = n
  <2>1. /\ leader' = FirstRunning(NoLeader, others) /\ told' = leader'
        /\ informed' = Reached(others)
        /\ SendAll(ControlThenNotice(NodeFail(n), others, leader'))
    BY <1>3 DEF FailNode
  <2>2. leader' \in LeaderId
    BY <1>1, <2>1, SeenTypes
  <2> HIDE DEF others
  <2>3. \A m \in Node : For(m, ControlThenNotice(NodeFail(n), others, leader')[m])
    BY <1>1, <2>2, ShareFor
  <2>4. IdleNodes'
    BY <1>2, <2>1, <2>3, SendKeepsIdle
  <2>5. \A m \in Node : \A i \in DOMAIN ControlThenNotice(NodeFail(n), others, leader')[m] :
          ~IsDue(ControlThenNotice(NodeFail(n), others, leader')[m][i])
    BY <1>1, <2>2, ShareOf DEF Share
  <2>6. DueReady'
    BY <1>2, <2>1, <2>3, <2>5, SendKeepsDue
  <2>7. ASSUME NEW m \in informed' PROVE Ready(m, Len(queue[m]), told)'
    <3>1. m \in others /\ m \in Node /\ m # n /\ running[m] /\ WillBeActive(m)
      BY <1>1, <2>1, <2>7 DEF Reached, others
    <3>2. ControlThenNotice(NodeFail(n), others, leader')[m] = <<LeaderChange(m, leader')>>
      <4>1. Share(NodeFail(n), others, leader', m) = <<LeaderChange(m, leader')>>
        BY <1>1, <2>2, <3>1, ShareOf
      <4> QED BY <4>1 DEF Share
    <3>3. queue'[m] = queue[m] \o <<LeaderChange(m, leader')>>
      <4>1. queue'[m] = IF running[m]
                          THEN queue[m] \o ControlThenNotice(NodeFail(n), others, leader')[m]
                          ELSE queue[m]
        BY <3>1, <2>1 DEF SendAll
      <4> QED BY <3>1, <3>2, <4>1
    <3>4. Settles(queue'[m], Len(queue'[m]), active[m], role[m], m, leader')
      BY <1>1, <2>2, <3>1, <3>3, NoticeSettles
    <3> QED BY <1>2, <2>1, <3>4 DEF Ready
  <2> QED BY <2>4, <2>6, <2>7 DEF InformedReady
<1>4. CASE LeaderNow # n
  <2>1. /\ told' = told /\ informed' = informed \ {n}
        /\ SendAll(ControlThenNotice(NodeFail(n), {}, NoLeader))
    BY <1>4 DEF FailNode
  <2>2. \A m \in Node : For(m, ControlThenNotice(NodeFail(n), {}, NoLeader)[m])
    BY <1>1, ShareFor
  <2>3. IdleNodes'
    BY <1>2, <2>1, <2>2, SendKeepsIdle
  <2>4. \A m \in Node : \A i \in DOMAIN ControlThenNotice(NodeFail(n), {}, NoLeader)[m] :
          ~IsDue(ControlThenNotice(NodeFail(n), {}, NoLeader)[m][i])
    BY <1>1, ShareOf DEF Share
  <2>5. DueReady'
    BY <1>2, <2>1, <2>2, <2>4, SendKeepsDue
  <2>6. ASSUME NEW m \in informed' PROVE Ready(m, Len(queue[m]), told)'
    <3>1. m \in informed /\ m \in Node /\ m # n
      BY <1>1, <2>1, <2>6 DEF TypeOK
    <3>2. ControlThenNotice(NodeFail(n), {}, NoLeader)[m] = <<>>
      BY <1>1, <3>1, ShareOf DEF Share
    <3>3. For(m, queue[m])
      BY <1>1, <3>1, QueueTypes
    <3>4. queue'[m] = queue[m]
      <4>1. queue'[m] = IF running[m]
                          THEN queue[m] \o ControlThenNotice(NodeFail(n), {}, NoLeader)[m]
                          ELSE queue[m]
        BY <2>1, <3>1 DEF SendAll
      <4>2. queue[m] \o <<>> = queue[m]
        BY <3>3, ConcatEmptySeq DEF For
      <4> QED BY <3>2, <4>1, <4>2
    <3>5. Ready(m, Len(queue[m]), told)
      BY <3>1 DEF ControlInv, InformedReady
    <3> QED BY <1>2, <2>1, <3>4, <3>5 DEF Ready
  <2> QED BY <2>3, <2>5, <2>6 DEF InformedReady
<1> QED BY <1>3, <1>4

(* A rejoin tells all the running nodes, the rejoining one among them.     *)
LEMMA RejoinNodeStep ==
  ASSUME ControlInv, NEW n \in Node, RejoinNode(n)
  PROVE  IdleNodes' /\ InformedReady' /\ DueReady'
<1> DEFINE S == RunningIn(status) \cup {n}
           sent == ControlThenNotice(NodeRejoin(n), S, leader)
<1>1. /\ TypeOK /\ NodeRejoin(n) \in Control /\ NodeRejoin(n).dst = n
      /\ leader \in LeaderId /\ S \in SUBSET Node /\ n \in S
  <2>1. leader \in LeaderId BY DEF ControlInv, TypeOK
  <2> QED BY <2>1, SentTypes, SeenTypes DEF ControlInv
<1>2. /\ UNCHANGED <<active, role, running>> /\ told' = leader
      /\ informed' = Reached(S \ {n}) \cup {m \in {n} : running[m]}
      /\ SendAll(sent)
  BY DEF RejoinNode, roleVars, processVars
<1> HIDE DEF S
<1>3. \A m \in Node : For(m, sent[m])
  BY <1>1, ShareFor
<1>4. \A m \in Node : \A i \in DOMAIN sent[m] : ~IsDue(sent[m][i])
  BY <1>1, ShareOf DEF Share
<1>5. \A m \in Node : sent[m] = Share(NodeRejoin(n), S, leader, m)
  BY DEF Share
<1> HIDE DEF sent
<1>6. IdleNodes'
  BY <1>2, <1>3, SendKeepsIdle
<1>7. DueReady'
  BY <1>2, <1>3, <1>4, SendKeepsDue
<1>8. ASSUME NEW m \in informed' PROVE Ready(m, Len(queue[m]), told)'
  <2>1. m \in Node /\ m \in S /\ running[m]
    BY <1>1, <1>2, <1>8 DEF Reached
  <2>2. queue'[m] = queue[m] \o sent[m]
    BY <1>1, <1>2, <1>3, <2>1, SendAllType
  <2>3. CASE m = n
    <3>1. sent[m] = Copies(NodeRejoin(n)) \o <<LeaderChange(n, leader)>>
      BY <1>1, <1>5, <2>1, <2>3, ShareOf
    <3>2. For(n, queue[n])
      BY <1>1, QueueTypes
    <3>3. Settles(queue'[n], Len(queue'[n]), active[n], role[n], n, leader)
      BY <1>1, <2>2, <2>3, <3>1, <3>2, RejoinSettles
    <3> QED BY <1>2, <2>3, <3>3 DEF Ready
  <2>4. CASE m # n
    <3>1. WillBeActive(m)
      BY <1>2, <1>8, <2>4 DEF Reached
    <3>2. sent[m] = <<LeaderChange(m, leader)>>
      BY <1>1, <1>5, <2>1, <2>4, ShareOf
    <3>3. Settles(queue'[m], Len(queue'[m]), active[m], role[m], m, leader)
      BY <1>1, <2>1, <2>2, <3>1, <3>2, NoticeSettles
    <3> QED BY <1>2, <3>3 DEF Ready
  <2> QED BY <2>3, <2>4
<1> QED BY <1>6, <1>7, <1>8 DEF InformedReady

(* A payment goes to one node, on the strength of what that node was told. *)
LEMMA CreatePaymentStep ==
  ASSUME ControlInv, CreatePayment
  PROVE  IdleNodes' /\ InformedReady' /\ DueReady'
<1> DEFINE sent == [n \in Node |-> IF n = LeaderNow
                                     THEN <<Create(n, n = told /\ n \in informed)>> ELSE <<>>]
<1>1. TypeOK
  BY DEF ControlInv
<1>2. SendAll(sent) /\ UNCHANGED <<active, role, running, told, informed>>
  BY DEF CreatePayment, roleVars, processVars, historyVars
<1>3. \A n \in Node : /\ For(n, sent[n])
                      /\ \A i \in DOMAIN sent[n] : i = 1 /\ sent[n][1].due = (n = told /\ n \in informed)
  BY <1>1, PaymentFor
<1>4. \A n \in Node :
        sent[n] = <<>> \/ \E due \in BOOLEAN : sent[n] = <<Create(n, due)>>
  <2>1. \A n \in Node : (n = told /\ n \in informed) \in BOOLEAN OBVIOUS
  <2> QED BY <2>1
<1> HIDE DEF sent
<1>5. IdleNodes'
  BY <1>2, <1>3, SendKeepsIdle
<1>6. \A n \in informed : n \in Node /\ Ready(n, Len(queue[n]), told)
  BY <1>1 DEF ControlInv, InformedReady, TypeOK
<1>7. \A n \in Node : \A i \in DOMAIN sent[n] :
        IsDue(sent[n][i]) => i = 1 /\ Ready(n, Len(queue[n]), n)
  BY <1>3, <1>6 DEF IsDue
<1>8. DueReady'
  BY <1>2, <1>3, <1>7, SendKeepsDue
<1>9. ASSUME NEW n \in informed' PROVE Ready(n, Len(queue[n]), told)'
  <2>1. n \in Node /\ n \in informed /\ For(n, queue[n])
    BY <1>1, <1>2, <1>6, <1>9, QueueTypes
  <2>2. Settles(queue[n], Len(queue[n]), active[n], role[n], n, told)
    BY <1>6, <2>1 DEF Ready
  <2>3. CASE queue'[n] = queue[n]
    BY <1>2, <2>2, <2>3 DEF Ready
  <2>4. ASSUME NEW due \in BOOLEAN, queue'[n] = queue[n] \o <<Create(n, due)>>
        PROVE  Ready(n, Len(queue[n]), told)'
    <3>1. Len(queue'[n]) = Len(queue[n]) + 1
      <4>1. Create(n, due) \in Datagram /\ Create(n, due).dst = n BY <2>1, CreateTypes
      <4>2. <<Create(n, due)>> \in Seq(Datagram) /\ Len(<<Create(n, due)>>) = 1
        BY <4>1, OneFor DEF For
      <4>3. queue[n] \in Seq(Datagram) BY <2>1 DEF For
      <4> QED BY <2>4, <4>2, <4>3, ConcatProperties
    <3>2. Settles(queue'[n], Len(queue'[n]), active[n], role[n], n, told)
      BY <2>1, <2>2, <2>4, <3>1, SettlesPayment
    <3> QED BY <1>2, <3>2 DEF Ready
  <2>5. queue'[n] = queue[n] \/ queue'[n] = queue[n] \o sent[n]
    BY <1>2, <2>1 DEF SendAll
  <2>6. queue[n] \o <<>> = queue[n]
    BY <2>1, ConcatEmptySeq DEF For
  <2> QED BY <1>4, <2>1, <2>3, <2>4, <2>5, <2>6
<1> QED BY <1>5, <1>8, <1>9 DEF InformedReady

(* A node that reads a datagram comes one nearer to what it was ready for. *)
LEMMA HandleControlStep ==
  ASSUME ControlInv, NEW n \in Node, HandleControl(n)
  PROVE  IdleNodes' /\ InformedReady' /\ DueReady'
<1> DEFINE q == queue[n]
           m == Head(q)
<1>1. /\ TypeOK /\ For(n, q) /\ q # <<>> /\ UNCHANGED <<running, told, informed>>
      /\ queue' = [queue EXCEPT ![n] = Tail(q)]
  BY QueueTypes DEF ControlInv, HandleControl, processVars, historyVars
<1>2. \/ m.type = "NODE_FAIL" /\ SetNodeFailed(n)
      \/ m.type = "NODE_REJOIN" /\ SetNodeRejoined(n)
      \/ m.type = "LEADER_CHANGE" /\ SetLeader(n, m.leader)
      \/ m.type = "PAYMENT_CREATE" /\ UNCHANGED roleVars
  BY DEF HandleControl
<1>3. /\ active \in [Node -> BOOLEAN] /\ role \in [Node -> {"leader", "follower"}]
      /\ queue \in [Node -> Seq(Datagram)] /\ informed \subseteq Node
  BY <1>1 DEF TypeOK, RoleTypeOK
<1> HIDE DEF m
<1>4. /\ active'[n] \in BOOLEAN /\ active[n] \in BOOLEAN
      /\ \/ m.type = "NODE_FAIL"
         \/ m.type = "NODE_REJOIN" /\ active'[n]
         \/ /\ m.type = "LEADER_CHANGE" /\ active'[n] = active[n]
            /\ role'[n] = "leader" <=> m.leader = n
         \/ m.type = "PAYMENT_CREATE" /\ active'[n] = active[n] /\ role'[n] = role[n]
  BY <1>2, <1>3 DEF SetNodeFailed, SetNodeRejoined, SetLeader, roleVars
<1>5. \A p \in Node \ {n} : queue'[p] = queue[p] /\ active'[p] = active[p] /\ role'[p] = role[p]
  BY <1>1, <1>2, <1>3 DEF SetNodeFailed, SetNodeRejoined, SetLeader, roleVars
<1>6. queue'[n] = Tail(q)
  BY <1>1, <1>3
<1>7. ASSUME NEW k \in 1..Len(q), NEW l \in LeaderId, Ready(n, k, l)
      PROVE  Settles(queue'[n], k - 1, active'[n], role'[n], n, l)
  <2>1. Settles(q, k, active[n], role[n], n, l) BY <1>7 DEF Ready
  <2> HIDE DEF q
  <2>2. Settles(Tail(q), k - 1, active'[n], role'[n], n, l)
    BY <1>1, <1>4, <2>1, SettlesRead DEF m
  <2> QED BY <1>6, <2>2
<1>8. /\ Len(q) \in Nat \ {0} /\ Len(Tail(q)) = Len(q) - 1 /\ DOMAIN q = 1..Len(q)
      /\ \A i \in DOMAIN Tail(q) :
           i \in 1..Len(q) /\ (i + 1) - 1 = i /\ i + 1 \in DOMAIN q /\ Tail(q)[i] = q[i + 1]
  <2> HIDE DEF q
  <2>1. Tail(q) \in Seq(Datagram) /\ q \in Seq(Datagram) BY <1>1, TailFor DEF For
  <2>2. DOMAIN Tail(q) = 1..Len(Tail(q)) /\ DOMAIN q = 1..Len(q) BY <2>1, LenProperties
  <2>3. /\ Len(q) \in Nat \ {0} /\ Len(Tail(q)) = Len(q) - 1
        /\ \A i \in DOMAIN Tail(q) : i + 1 \in 1..Len(q) /\ Tail(q)[i] = q[i + 1]
    BY <1>1, TailFor
  <2>4. \A i \in 1..Len(q) - 1 : i \in 1..Len(q) /\ (i + 1) - 1 = i
    BY <2>3
  <2> QED BY <2>2, <2>3, <2>4
<1>9. IdleNodes'
  BY <1>1, <1>5 DEF ControlInv, IdleNodes
<1>10. ASSUME NEW p \in informed' PROVE Ready(p, Len(queue[p]), told)'
  <2>1. p \in Node /\ Ready(p, Len(queue[p]), told)
    BY <1>1, <1>3, <1>10 DEF ControlInv, InformedReady
  <2>2. CASE p # n
    BY <1>1, <1>5, <2>1, <2>2 DEF Ready
  <2>3. CASE p = n
    <3>1. told \in LeaderId BY <1>1 DEF TypeOK
    <3>2. Len(q) \in 1..Len(q) BY <1>8
    <3>3. Ready(n, Len(q), told) BY <2>1, <2>3
    <3>4. Len(queue'[n]) = Len(q) - 1 BY <1>6, <1>8
    <3>5. Settles(queue'[n], Len(q) - 1, active'[n], role'[n], n, told)
      BY <1>7, <3>1, <3>2, <3>3
    <3> QED BY <1>1, <2>3, <3>4, <3>5 DEF Ready
  <2> QED BY <2>2, <2>3
<1>11. ASSUME NEW p \in Node, NEW i \in DOMAIN queue'[p], IsDue(queue'[p][i])
       PROVE  Ready(p, i - 1, p)'
  <2>1. CASE p # n
    <3>1. Ready(p, i - 1, p) BY <1>5, <1>11, <2>1 DEF ControlInv, DueReady
    <3> QED BY <1>5, <2>1, <3>1 DEF Ready
  <2>2. CASE p = n
    <3>1. i \in DOMAIN Tail(q) /\ IsDue(Tail(q)[i]) BY <1>6, <1>11, <2>2
    <3>2. /\ i \in 1..Len(q) /\ (i + 1) - 1 = i
          /\ i + 1 \in DOMAIN queue[n] /\ IsDue(queue[n][i + 1])
      BY <1>8, <3>1
    <3>3. Ready(n, (i + 1) - 1, n) BY <3>2 DEF ControlInv, DueReady
    <3>4. n \in LeaderId BY DEF LeaderId
    <3>5. Settles(queue'[n], i - 1, active'[n], role'[n], n, n)
      BY <1>7, <3>2, <3>3, <3>4
    <3> QED BY <2>2, <3>5 DEF Ready
  <2> QED BY <2>1, <2>2
<1> QED BY <1>9, <1>10, <1>11 DEF InformedReady, DueReady

(* Every action keeps the control plane's invariant.                       *)
LEMMA ControlStep == ControlInv /\ [Next]_vars => ControlInv'
<1> SUFFICES ASSUME ControlInv, [Next]_vars PROVE ControlInv'
  OBVIOUS
<1>1. TypeOK /\ TypeOK'
  BY TypeStep DEF ControlInv
<1> SUFFICES IdleNodes' /\ InformedReady' /\ DueReady'
  BY <1>1 DEF ControlInv
<1>2. ASSUME UNCHANGED <<active, role, running, queue, told, informed>>
      PROVE  IdleNodes' /\ InformedReady' /\ DueReady'
  BY <1>2 DEF ControlInv, IdleNodes, InformedReady, DueReady, Ready
<1>3. CASE \E n \in Node : FailNode(n) \/ RejoinNode(n)
  BY <1>3, FailNodeStep, RejoinNodeStep
<1>4. CASE GetDashboard
  BY <1>2, <1>4 DEF GetDashboard, roleVars, processVars, historyVars
<1>5. CASE CreatePayment
  BY <1>5, CreatePaymentStep
<1>6. CASE ApiRestart
  BY <1>2, <1>6 DEF ApiRestart, roleVars, processVars, historyVars
<1>7. ASSUME NEW n \in Node, Start(n) PROVE IdleNodes' /\ InformedReady' /\ DueReady'
  <2>1. /\ ~running[n] /\ running' = [running EXCEPT ![n] = TRUE]
        /\ informed' = IF told = FirstLeader THEN informed \cup {n} ELSE informed
        /\ UNCHANGED <<active, role, queue, told>>
    BY <1>7 DEF Start, roleVars
  <2>2. queue[n] = <<>> /\ active[n] /\ role[n] = StartRole(n)
    BY <2>1 DEF ControlInv, IdleNodes
  <2>3. IdleNodes'
    BY <1>1, <2>1 DEF ControlInv, IdleNodes, TypeOK
  <2>4. DueReady'
    BY <2>1 DEF ControlInv, DueReady, Ready
  <2>5. ASSUME NEW m \in informed' PROVE Ready(m, Len(queue[m]), told)'
    <3>1. CASE m \in informed
      BY <2>1, <3>1 DEF ControlInv, InformedReady, Ready
    <3>2. CASE m \notin informed
      <4>1. m = n /\ told = FirstLeader BY <2>1, <2>5, <3>2
      <4>2. Len(queue[m]) = 0 BY <2>2, <4>1
      <4> QED BY <2>1, <2>2, <4>1, <4>2 DEF Ready, Settles, StartRole
    <3> QED BY <3>1, <3>2
  <2> QED BY <2>3, <2>4, <2>5 DEF InformedReady
<1>8. ASSUME NEW n \in Node, Die(n) PROVE IdleNodes' /\ InformedReady' /\ DueReady'
  <2>1. /\ active' = [active EXCEPT ![n] = TRUE]
        /\ role' = [role EXCEPT ![n] = StartRole(n)]
        /\ running' = [running EXCEPT ![n] = FALSE]
        /\ queue' = [queue EXCEPT ![n] = <<>>]
        /\ informed' = informed \ {n} /\ told' = told
    BY <1>8 DEF Die, ResetRole
  <2>2. /\ queue'[n] = <<>> /\ active'[n] /\ role'[n] = StartRole(n)
        /\ \A m \in Node \ {n} : /\ queue'[m] = queue[m] /\ active'[m] = active[m]
                                 /\ role'[m] = role[m] /\ running'[m] = running[m]
        /\ informed \subseteq Node
    BY <1>1, <2>1 DEF TypeOK, RoleTypeOK
  <2>3. IdleNodes'
    BY <2>2 DEF ControlInv, IdleNodes
  <2>4. DueReady'
    BY <2>2 DEF ControlInv, DueReady, Ready
  <2>5. InformedReady'
    BY <2>1, <2>2 DEF ControlInv, InformedReady, Ready
  <2> QED BY <2>3, <2>4, <2>5
<1>9. ASSUME NEW n \in Node, LogLine(n) PROVE IdleNodes' /\ InformedReady' /\ DueReady'
  BY <1>2, <1>9 DEF LogLine, roleVars, historyVars
<1>10. CASE \E n \in Node : HandleControl(n)
  BY <1>10, HandleControlStep
<1>11. ASSUME NEW n \in Node, NEW m \in PeersExcluding(n), HandleHeartbeat(n, m)
       PROVE  IdleNodes' /\ InformedReady' /\ DueReady'
  BY <1>2, <1>11 DEF HandleHeartbeat, AdoptLeader, processVars, historyVars
<1>12. CASE UNCHANGED vars
  BY <1>2, <1>12 DEF vars, roleVars, processVars, historyVars
<1> QED
  BY <1>3, <1>4, <1>5, <1>6, <1>7, <1>8, <1>9, <1>10, <1>11, <1>12 DEF Next

LEMMA ControlInvariant == Spec => []ControlInv
<1>1. Init => ControlInv BY ControlInit
<1>2. ControlInv /\ [Next]_vars => ControlInv' BY ControlStep
<1> QED BY <1>1, <1>2, PTL DEF Spec

-----------------------------------------------------------------------------
(* A node that was told who leads, and has read its queue, has that role,  *)
(* whatever heartbeats name and however often it failed, rejoined or was   *)
(* restarted.                                                              *)
THEOREM InformedNodesHaveTheirRole == Spec => []SettledRoles
<1>1. ControlInv => SettledRoles
  <2> SUFFICES ASSUME ControlInv, NEW n \in informed, queue[n] = <<>>
               PROVE  active[n] /\ (role[n] = "leader" <=> n = told)
    BY DEF SettledRoles
  <2>1. Len(queue[n]) = 0 OBVIOUS
  <2>2. Settles(queue[n], 0, active[n], role[n], n, told)
    BY <2>1 DEF ControlInv, InformedReady, Ready
  <2>3. ~Rejoined(queue[n], 0, 1) /\ ~Announced(queue[n], 0, n, told, 1)
    BY DEF Rejoined, Announced
  <2> QED BY <2>2, <2>3 DEF Settles
<1> QED BY <1>1, ControlInvariant, PTL

(* A payment sent to the leader the API server had announced to it is read *)
(* by a node that leads.                                                   *)
THEOREM AnnouncedLeadersTakePayments == Spec => []AnnouncedLeaderTakes
<1>1. ControlInv => AnnouncedLeaderTakes
  <2> SUFFICES ASSUME ControlInv, NEW n \in Node, FirstIsCreate(n), Head(queue[n]).due
               PROVE  IsLeader(n)
    BY DEF AnnouncedLeaderTakes
  <2>1. For(n, queue[n]) /\ queue[n] # <<>> /\ Head(queue[n]).type = "PAYMENT_CREATE"
    BY QueueTypes DEF ControlInv, FirstIsCreate
  <2>2. 1 \in DOMAIN queue[n] /\ Head(queue[n]) = queue[n][1]
    BY <2>1, TailFor, LenProperties DEF For
  <2>3. Ready(n, 1 - 1, n)
    BY <2>1, <2>2 DEF ControlInv, DueReady, IsDue
  <2>4. Settles(queue[n], 0, active[n], role[n], n, n)
    BY <2>3 DEF Ready
  <2>5. ~Rejoined(queue[n], 0, 1) /\ ~Announced(queue[n], 0, n, n, 1)
    BY DEF Rejoined, Announced
  <2> QED BY <2>4, <2>5 DEF Settles, IsLeader
<1> QED BY <1>1, ControlInvariant, PTL

(* The API server drops a leader only if it is asked to fail that node, or *)
(* no longer sees its start in the log, or restarts.                       *)
THEOREM LeaderOnlyDroppedWithCause == Spec => LeaderKept
<1> DEFINE Cause == leader # NoLeader /\ leader' # leader
                      => status'[leader] = "Failed" \/ ~HasNodeStarted(leader) \/ ApiRestart
<1>1. TypeOK /\ [Next]_vars => [Cause]_vars
  <2> SUFFICES ASSUME TypeOK, Next, leader # NoLeader, leader' # leader, ~ApiRestart
               PROVE  status'[leader] = "Failed" \/ ~HasNodeStarted(leader)
    OBVIOUS
  <2>1. leader \in Node
    BY DEF TypeOK, LeaderId
  <2>2. Refreshed[leader] \in {"Running", "Failed"} \/ ~HasNodeStarted(leader)
    BY <2>1 DEF Refreshed, Started
  <2>3. Refreshed[leader] = "Running" => LeaderNow = leader
    BY <2>1 DEF LeaderNow, Recalculated, RunningIn
  <2>4. ASSUME NEW n \in Node, FailNode(n)
        PROVE  status'[leader] = "Failed" \/ ~HasNodeStarted(leader)
    <3>1. status' = [Refreshed EXCEPT ![n] = "Failed"] /\ (LeaderNow # n => leader' = LeaderNow)
      BY <2>4 DEF FailNode
    <3>2. Refreshed \in [Node -> {"Offline", "Running", "Failed"}]
      BY SeenTypes
    <3>3. Refreshed[leader] = "Running" => leader = n
      BY <2>3, <3>1
    <3> QED BY <2>1, <2>2, <3>1, <3>2, <3>3
  <2>5. ASSUME GetDashboard \/ CreatePayment
        PROVE  status'[leader] = "Failed" \/ ~HasNodeStarted(leader)
    <3>1. status' = Refreshed /\ leader' = LeaderNow
      BY <2>5 DEF GetDashboard, CreatePayment
    <3> QED BY <2>2, <2>3, <3>1
  <2>6. ASSUME NEW n \in Node, RejoinNode(n) PROVE FALSE
    BY <2>6 DEF RejoinNode
  <2>7. ASSUME NEW n \in Node, Start(n) \/ Die(n) \/ LogLine(n) \/ HandleControl(n)
        PROVE  FALSE
    BY <2>7 DEF Start, Die, LogLine, HandleControl, apiVars
  <2>8. ASSUME NEW n \in Node, NEW m \in PeersExcluding(n), HandleHeartbeat(n, m) PROVE FALSE
    BY <2>8 DEF HandleHeartbeat, apiVars
  <2> QED BY <2>4, <2>5, <2>6, <2>7, <2>8 DEF Next
<1> QED BY <1>1, ControlTypes, PTL DEF Spec, LeaderKept
=============================================================================
