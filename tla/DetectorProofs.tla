-------------------------- MODULE DetectorProofs --------------------------
(***************************************************************************)
(* The failure detector, for any number of nodes, any intervals, delays    *)
(* and losses: what a node knows of its peers is right once it had the     *)
(* time to find out, and heartbeats alone do not unmake an agreement.      *)
(***************************************************************************)
EXTENDS Detector, ConfigProofs

-----------------------------------------------------------------------------
(* A heartbeat of this very moment means that its sender's ticker has just *)
(* started again.                                                          *)
BeatsFresh == \A b \in beats : b.age = 0 => beatIn[b.src] = Interval

(* Of a node that is down there is no heartbeat younger than that, and the *)
(* last entry for it is as old, but for the delay of that heartbeat.       *)
DownBeats == \A b \in beats : ~Up(b.src) => since[b.src] <= b.age
DownAge == \A n \in Node : \A m \in heard[n] :
  ~Up(m) => age[n][m] > Timeout \/ since[m] <= age[n][m] + MaxDelay

(* Once that is beyond the timeout, the monitor's next check comes within  *)
(* a period, from then or from the time the node itself came up.           *)
DownStatus == \A n \in Node : \A m \in heard[n] :
  Up(n) /\ ~Up(m) /\ since[m] > MaxDelay + Timeout =>
    \/ peerStatus[n][m] = "failed"
    \/ checkIn[n] + since[n] <= Period
    \/ checkIn[n] + since[m] <= MaxDelay + Timeout + Period

(* Only a node whose entry is too old is taken for failed.                 *)
FailedOverdue == \A n, m \in Node :
  peerStatus[n][m] = "failed" => m \in heard[n] /\ age[n][m] > Timeout

(* The ages, from x on, of the heartbeats on their way from m to n; and    *)
(* that n heard of m, or that one of the two came up, at most e ago.       *)
Ages(n, m, x) == {a \in x..MaxDelay : \E b \in beats : b.src = m /\ b.dst = n /\ b.age = a}
Within(n, m, e) == since[n] <= e \/ since[m] <= e \/ (m \in heard[n] /\ age[n][m] <= e)

(* The time that those heartbeats, the ones that got lost and the next one *)
(* stand for: m sends one every Interval.  So nobody is left unheard for   *)
(* longer than that, and x more if none younger than x + 1 is counted.     *)
SentFor(n, m, x) == (lost[n][m] + Cardinality(Ages(n, m, x)) + 1) * Interval
Expected(n, m) ==
  /\ Within(n, m, SentFor(n, m, 0) - beatIn[m])
  /\ \A x \in 0..MaxDelay : Within(n, m, x + SentFor(n, m, x + 1))
UpHeard == \A n \in Node : \A m \in PeersExcluding(n) : Up(n) /\ Up(m) => Expected(n, m)

DetectorInv ==
  /\ TypeOK /\ BeatsFresh
  /\ DownBeats /\ DownAge /\ DownStatus
  /\ FailedOverdue /\ UpHeard

-----------------------------------------------------------------------------
(* The first state.                                                        *)
LEMMA InitTypes == Init => TypeOK
<1> SUFFICES ASSUME Init PROVE TypeOK OBVIOUS
<1>1. FirstLeader \in Node BY FirstLeaderIsNode
<1>2. RoleTypeOK BY <1>1 DEF Init, RoleTypeOK, StartRole, LeaderId
<1>3. 1..Interval \subseteq 0..Interval /\ 1..Period \subseteq 0..Period
      /\ 0 \in 0..Timeout + 1 /\ 0 \in 0..MaxLost /\ 0 \in 0..Long /\ 0 \in 0..MaxEvents
  BY DetectorAssumption DEF Long
<1> QED BY <1>2, <1>3 DEF Init, TypeOK

(* Heartbeats in flight, by their fields.                                  *)
LEMMA BeatFields ==
  ASSUME TypeOK, NEW b \in beats
  PROVE  /\ b \in Heartbeat /\ b.src \in Node /\ b.dst \in Node /\ b.src # b.dst
         /\ b.leader \in LeaderId /\ b.age \in 0..MaxDelay
BY DEF TypeOK, Heartbeat

(* What a tick does to them.                                               *)
LEMMA TickBeats ==
  ASSUME TypeOK, Tick
  PROVE  /\ \A c \in beats' : \E b \in beats :
              /\ c \in Heartbeat /\ b.age < MaxDelay /\ c.age = b.age + 1
              /\ c.src = b.src /\ c.dst = b.dst /\ c.leader = b.leader
         /\ \A b \in beats : \E c \in beats' : c.age = b.age + 1 /\ c.src = b.src /\ c.dst = b.dst
<1> DEFINE Older(b) == [b EXCEPT !.age = @ + 1]
<1>1. beats' = {Older(b) : b \in beats} /\ \A b \in beats : b.age < MaxDelay
  BY DEF Tick
<1>2. ASSUME NEW b \in beats
      PROVE  /\ Older(b) \in Heartbeat /\ Older(b).age = b.age + 1
             /\ Older(b).src = b.src /\ Older(b).dst = b.dst /\ Older(b).leader = b.leader
  <2>1. b \in Heartbeat /\ b.age \in 0..MaxDelay /\ b.age < MaxDelay BY <1>1, BeatFields
  <2>2. b.age + 1 \in 0..MaxDelay BY <2>1, DetectorAssumption
  <2> QED BY <2>1, <2>2 DEF Heartbeat
<1> HIDE DEF Older
<1> QED BY <1>1, <1>2

(* What a round of the heartbeat loop adds.                                *)
LEMMA SentBeats ==
  ASSUME TypeOK, NEW n \in Node, SendHeartbeats(n)
  PROVE  /\ beats \subseteq beats'
         /\ \A c \in beats' : c \in beats \/
              (/\ Up(n) /\ c \in Heartbeat /\ c.src = n /\ c.dst \in PeersExcluding(n)
               /\ c.leader = knownLeader[n] /\ c.age = 0)
         /\ Up(n) => \A m \in PeersExcluding(n) :
              \E c \in beats' : c.src = n /\ c.dst = m /\ c.age = 0
<1> DEFINE New == [src : {n}, dst : PeersExcluding(n), leader : {LeaderSent(n)}, age : {0}]
<1>1. beats' = IF active[n] THEN beats \cup New ELSE beats
  BY DEF SendHeartbeats, Beating
<1>2. running[n] BY DEF SendHeartbeats
<1>3. ASSUME NEW c \in New
      PROVE  /\ c \in Heartbeat /\ c.src = n /\ c.dst \in PeersExcluding(n)
             /\ c.leader = knownLeader[n] /\ c.age = 0
  <2>1. knownLeader[n] \in LeaderId /\ 0 \in 0..MaxDelay
    BY DetectorAssumption DEF TypeOK, RoleTypeOK
  <2> QED BY <2>1 DEF LeaderSent, Heartbeat, PeersExcluding
<1>4. ASSUME NEW m \in PeersExcluding(n)
      PROVE  \E c \in New : c.src = n /\ c.dst = m /\ c.age = 0
  <2> DEFINE c == [src |-> n, dst |-> m, leader |-> LeaderSent(n), age |-> 0]
  <2>1. c \in New /\ c.src = n /\ c.dst = m /\ c.age = 0 OBVIOUS
  <2> QED BY <2>1
<1> HIDE DEF New
<1> QED BY <1>1, <1>2, <1>3, <1>4 DEF Up

-----------------------------------------------------------------------------
(* What only the time and the heartbeats change.                           *)
LEMMA TimedKeeps ==
  ASSUME Timed
  PROVE  /\ UNCHANGED <<active, role, running, events>>
         /\ \A n \in Node : Up(n)' <=> Up(n)
<1>1. UNCHANGED <<active, role, running, events>>
  BY DEF Timed, SendHeartbeats, CheckFailures, HandleHeartbeat, LoseHeartbeat, Tick, AdoptLeader, roleVars
<1> QED BY <1>1 DEF Up

(* What comes from outside concerns one node: its process, new or dead,    *)
(* has nothing in memory, and its time up or down starts again.            *)
LEMMA OutsideStep ==
  ASSUME TypeOK, NEW k \in Node, HandleControl(k) \/ Die(k) \/ Start(k)
  PROVE  /\ UNCHANGED <<beats, lost>>
         /\ \A n \in Node \ {k} :
              /\ heard'[n] = heard[n] /\ age'[n] = age[n] /\ peerStatus'[n] = peerStatus[n]
              /\ beatIn'[n] = beatIn[n] /\ checkIn'[n] = checkIn[n]
              /\ since'[n] = since[n] /\ running'[n] = running[n] /\ (Up(n)' <=> Up(n))
         /\ (Up(k)' <=> Up(k)) => since'[k] = since[k]
         /\ ~(Up(k)' <=> Up(k)) => since'[k] = 0
         /\ \/ /\ heard'[k] = heard[k] /\ age'[k] = age[k] /\ peerStatus'[k] = peerStatus[k]
               /\ beatIn'[k] = beatIn[k] /\ checkIn'[k] = checkIn[k] /\ running'[k]
            \/ /\ heard'[k] = {} /\ age'[k] = [m \in Node |-> 0]
               /\ peerStatus'[k] = [m \in Node |-> "alive"]
               /\ beatIn'[k] = Interval /\ checkIn'[k] = Period /\ ~running'[k]
<1>1. ASSUME Since(k)
      PROVE  /\ \A n \in Node \ {k} : since'[n] = since[n]
             /\ (Up(k)' <=> Up(k)) => since'[k] = since[k]
             /\ ~(Up(k)' <=> Up(k)) => since'[k] = 0
  <2>1. since \in [Node -> 0..Long] BY DEF TypeOK
  <2>2. Up(k)' \in BOOLEAN /\ Up(k) \in BOOLEAN BY DEF Up
  <2>3. CASE Up(k)' <=> Up(k)
    <3>1. Up(k)' = Up(k) BY <2>2, <2>3
    <3> QED BY <1>1, <3>1, <2>3 DEF Since
  <2>4. CASE ~(Up(k)' <=> Up(k))
    <3>1. Up(k)' # Up(k) BY <2>2, <2>4
    <3>2. since' = [since EXCEPT ![k] = 0] BY <1>1, <3>1 DEF Since
    <3> QED BY <2>1, <2>4, <3>2
  <2> QED BY <2>3, <2>4
<1>2. /\ active \in [Node -> BOOLEAN] /\ running \in [Node -> BOOLEAN]
      /\ heard \in [Node -> SUBSET Node] /\ age \in [Node -> [Node -> 0..Timeout + 1]]
      /\ peerStatus \in [Node -> [Node -> {"alive", "failed"}]]
      /\ beatIn \in [Node -> 0..Interval] /\ checkIn \in [Node -> 0..Period]
  BY DEF TypeOK, RoleTypeOK
<1>3. CASE HandleControl(k)
  <2>1. Since(k) /\ UNCHANGED <<running, monitorVars, tickerVars, linkVars>> /\ running[k]
    BY <1>3 DEF HandleControl
  <2>2. \A n \in Node \ {k} : active'[n] = active[n]
    BY <1>2, <1>3 DEF HandleControl, SetNodeFailed, SetNodeRejoined, SetLeader
  <2> QED BY <1>1, <2>1, <2>2 DEF monitorVars, tickerVars, linkVars, Up
<1>4. CASE Die(k)
  <2>1. Since(k) /\ UNCHANGED <<beats, lost>> BY <1>4 DEF Die, linkVars
  <2>2. \A n \in Node \ {k} : active'[n] = active[n] /\ running'[n] = running[n]
    BY <1>2, <1>4 DEF Die, ResetRole
  <2>3. /\ heard'[k] = {} /\ age'[k] = [m \in Node |-> 0]
        /\ peerStatus'[k] = [m \in Node |-> "alive"]
        /\ beatIn'[k] = Interval /\ checkIn'[k] = Period /\ ~running'[k]
    BY <1>2, <1>4 DEF Die
  <2>4. \A n \in Node \ {k} :
          /\ heard'[n] = heard[n] /\ age'[n] = age[n] /\ peerStatus'[n] = peerStatus[n]
          /\ beatIn'[n] = beatIn[n] /\ checkIn'[n] = checkIn[n]
    BY <1>2, <1>4 DEF Die
  <2> QED BY <1>1, <2>1, <2>2, <2>3, <2>4 DEF Up
<1>5. CASE Start(k)
  <2>1. Since(k) /\ UNCHANGED <<roleVars, monitorVars, tickerVars, linkVars>>
    BY <1>5 DEF Start
  <2>2. running'[k] /\ \A n \in Node \ {k} : running'[n] = running[n]
    BY <1>2, <1>5 DEF Start
  <2> QED BY <1>1, <2>1, <2>2 DEF roleVars, monitorVars, tickerVars, linkVars, Up
<1> QED BY <1>3, <1>4, <1>5

-----------------------------------------------------------------------------
(* Types are kept.                                                         *)
LEMMA TypeStep ==
  ASSUME TypeOK, [Next]_vars
  PROVE  TypeOK'
<1> USE DEF TypeOK
<1>1. ASSUME NEW n \in Node, SendHeartbeats(n) PROVE TypeOK'
  <2>1. Interval \in 0..Interval BY DetectorAssumption
  <2>2. beats' \subseteq {b \in Heartbeat : b.src # b.dst}
    BY <1>1, SentBeats DEF PeersExcluding
  <2> QED BY <1>1, <2>1, <2>2 DEF SendHeartbeats, roleVars, monitorVars, RoleTypeOK
<1>2. ASSUME NEW n \in Node, CheckFailures(n) PROVE TypeOK'
  <2>1. Period \in 0..Period BY DetectorAssumption
  <2>2. checkIn' \in [Node -> 0..Period] BY <1>2, <2>1 DEF CheckFailures
  <2>3. peerStatus' \in [Node -> [Node -> {"alive", "failed"}]]
    <3>1. CASE ~active[n] BY <1>2, <3>1 DEF CheckFailures
    <3>2. CASE active[n]
      <4> DEFINE Found == [m \in Node |-> IF m \notin heard[n] THEN peerStatus[n][m]
                                          ELSE IF Overdue(n, m) THEN "failed" ELSE "alive"]
      <4>1. peerStatus' = [peerStatus EXCEPT ![n] = Found] BY <1>2, <3>2 DEF CheckFailures
      <4>2. Found \in [Node -> {"alive", "failed"}] OBVIOUS
      <4> QED BY <4>1, <4>2
    <3> QED BY <3>1, <3>2
  <2> QED BY <1>2, <2>2, <2>3 DEF CheckFailures, roleVars, linkVars, RoleTypeOK
<1>3. ASSUME NEW b \in beats, HandleHeartbeat(b) PROVE TypeOK'
  <2>1. b.src \in Node /\ b.dst \in Node /\ b.src # b.dst /\ b.leader \in LeaderId
    BY BeatFields
  <2>2. 0 \in 0..MaxLost /\ 0 \in 0..Timeout + 1 BY DetectorAssumption
  <2>3. beats' \subseteq {c \in Heartbeat : c.src # c.dst}
        /\ lost' \in [Node -> [Node -> 0..MaxLost]]
        /\ UNCHANGED <<running, beatIn, checkIn, since, events>>
    BY <1>3, <2>1, <2>2 DEF HandleHeartbeat, tickerVars
  <2>4. CASE Up(b.dst)
    <3>1. /\ heard' = [heard EXCEPT ![b.dst] = @ \cup {b.src}]
          /\ age' = [age EXCEPT ![b.dst][b.src] = 0]
          /\ peerStatus' = [peerStatus EXCEPT ![b.dst][b.src] = "alive"]
          /\ knownLeader' = [knownLeader EXCEPT ![b.dst] = b.leader] /\ UNCHANGED <<active, role>>
      BY <1>3, <2>4 DEF HandleHeartbeat, AdoptLeader
    <3>2. RoleTypeOK' BY <2>1, <3>1 DEF RoleTypeOK
    <3>3. heard' \in [Node -> SUBSET Node] /\ \A n \in Node : heard'[n] \subseteq PeersExcluding(n)
      BY <2>1, <3>1 DEF PeersExcluding
    <3>4. age' \in [Node -> [Node -> 0..Timeout + 1]]
      BY <2>1, <2>2, <3>1
    <3>5. peerStatus' \in [Node -> [Node -> {"alive", "failed"}]] BY <2>1, <3>1
    <3> QED BY <2>3, <3>2, <3>3, <3>4, <3>5 DEF PeersExcluding
  <2>5. CASE ~Up(b.dst)
    <3>1. UNCHANGED <<monitorVars, roleVars>> BY <1>3, <2>5 DEF HandleHeartbeat
    <3> QED BY <2>3, <3>1 DEF monitorVars, roleVars, RoleTypeOK
  <2> QED BY <2>4, <2>5
<1>4. ASSUME NEW b \in beats, LoseHeartbeat(b) PROVE TypeOK'
  <2>1. b.src \in Node /\ b.dst \in Node BY BeatFields
  <2>2. lost[b.dst][b.src] + 1 \in 0..MaxLost
    BY <1>4, <2>1, DetectorAssumption DEF LoseHeartbeat
  <2> QED BY <1>4, <2>1, <2>2 DEF LoseHeartbeat, roleVars, monitorVars, tickerVars, RoleTypeOK
<1>5. ASSUME Tick PROVE TypeOK'
  <2>1. beats' \subseteq {b \in Heartbeat : b.src # b.dst} BY <1>5, TickBeats
  <2>2. beatIn' \in [Node -> 0..Interval] /\ checkIn' \in [Node -> 0..Period]
    <3>1. \A n \in Node : running[n] => beatIn[n] - 1 \in 0..Interval /\ checkIn[n] - 1 \in 0..Period
      BY <1>5, DetectorAssumption DEF Tick
    <3> QED BY <1>5, <3>1 DEF Tick
  <2>3. age' \in [Node -> [Node -> 0..Timeout + 1]]
    <3>1. \A n, m \in Node : Sooner(age[n][m] + 1, Timeout + 1) \in 0..Timeout + 1
      BY DetectorAssumption DEF Sooner
    <3>2. 0 \in 0..Timeout + 1 BY DetectorAssumption
    <3> QED BY <1>5, <3>1, <3>2 DEF Tick
  <2>4. since' \in [Node -> 0..Long]
    <3>1. \A n \in Node : Sooner(since[n] + 1, Long) \in 0..Long
      BY DetectorAssumption DEF Sooner, Long
    <3> QED BY <1>5, <3>1 DEF Tick
  <2> QED BY <1>5, <2>1, <2>2, <2>3, <2>4 DEF Tick, roleVars, RoleTypeOK
<1>6. ASSUME NEW n \in Node, HandleControl(n) \/ Die(n) \/ Start(n) PROVE TypeOK'
  <2>1. events' \in 0..MaxEvents
    BY <1>6, DetectorAssumption DEF HandleControl, Die, Start, Event
  <2>2. since' \in [Node -> 0..Long]
    <3>1. 0 \in 0..Long BY DetectorAssumption DEF Long
    <3> QED BY <1>6, <3>1 DEF HandleControl, Die, Start, Since
  <2>3. CASE HandleControl(n)
    <3>1. RoleTypeOK'
      <4> USE DEF RoleTypeOK
      <4>1. CASE SetNodeFailed(n) BY <4>1 DEF SetNodeFailed
      <4>2. CASE SetNodeRejoined(n)
        <5>1. n \in LeaderId BY DEF LeaderId
        <5> QED BY <4>2, <5>1 DEF SetNodeRejoined
      <4>3. CASE \E l \in LeaderId : SetLeader(n, l) BY <4>3 DEF SetLeader
      <4> QED BY <2>3, <4>1, <4>2, <4>3 DEF HandleControl
    <3> QED BY <2>1, <2>2, <2>3, <3>1
        DEF HandleControl, monitorVars, tickerVars, linkVars, PeersExcluding
  <2>4. CASE Die(n)
    <3>1. RoleTypeOK'
      BY <2>4, FirstLeaderIsNode DEF Die, RoleTypeOK, ResetRole, StartRole, LeaderId
    <3>2. 0 \in 0..Timeout + 1 /\ Interval \in 0..Interval /\ Period \in 0..Period
      BY DetectorAssumption
    <3>3. heard' \in [Node -> SUBSET Node] /\ \A m \in Node : heard'[m] \subseteq PeersExcluding(m)
      BY <2>4 DEF Die
    <3>4. age' \in [Node -> [Node -> 0..Timeout + 1]]
          /\ peerStatus' \in [Node -> [Node -> {"alive", "failed"}]]
      BY <2>4, <3>2 DEF Die
    <3> QED BY <2>1, <2>2, <2>4, <3>1, <3>2, <3>3, <3>4 DEF Die, linkVars, PeersExcluding
  <2>5. CASE Start(n)
    BY <2>1, <2>2, <2>5
    DEF Start, roleVars, monitorVars, tickerVars, linkVars, PeersExcluding, RoleTypeOK
  <2> QED BY <1>6, <2>3, <2>4, <2>5
<1>7. CASE UNCHANGED vars
  BY <1>7 DEF vars, roleVars, monitorVars, tickerVars, linkVars, RoleTypeOK, PeersExcluding
<1> QED BY <1>1, <1>2, <1>3, <1>4, <1>5, <1>6, <1>7 DEF Next, Timed

(* Every variable keeps its type.                                          *)
THEOREM DetectorTypes == Spec => []TypeOK
<1>1. TypeOK /\ [Next]_vars => TypeOK' BY TypeStep
<1> QED BY InitTypes, <1>1, PTL DEF Spec

-----------------------------------------------------------------------------
(* Heartbeats and the passing of time keep an agreement on the leader,     *)
(* for any number of nodes: what is sent and adopted is the agreed leader. *)
THEOREM AgreementKept == Spec => AgreementLasts
<1>1. ASSUME TypeOK, Timed, NEW l \in LeaderId, Agreed(l)
      PROVE  Agreed(l)'
  <2>1. \A n \in Node : Up(n)' <=> Up(n) BY <1>1, TimedKeeps
  <2>2. \A n \in Node : Up(n) => knownLeader[n] = l BY <1>1 DEF Agreed
  <2>3. \A b \in beats : b.leader = l BY <1>1 DEF Agreed
  <2> SUFFICES /\ \A n \in Node : Up(n) => knownLeader'[n] = l
               /\ \A b \in beats' : b.leader = l
    BY <2>1 DEF Agreed
  <2>4. ASSUME NEW n \in Node, SendHeartbeats(n)
        PROVE  UNCHANGED knownLeader /\ \A b \in beats' : b.leader = l
    <3>1. UNCHANGED knownLeader BY <2>4 DEF SendHeartbeats, roleVars
    <3>2. ASSUME NEW b \in beats', ~(b \in beats) PROVE b.leader = l
      BY <1>1, <2>2, <2>4, <3>2, SentBeats
    <3> QED BY <2>3, <3>1, <3>2
  <2>5. ASSUME NEW n \in Node, CheckFailures(n)
        PROVE  UNCHANGED <<knownLeader, beats>>
    BY <2>5 DEF CheckFailures, roleVars, linkVars
  <2>6. ASSUME NEW b \in beats, HandleHeartbeat(b)
        PROVE  beats' \subseteq beats /\ \A n \in Node : Up(n) => knownLeader'[n] = l
    <3>1. knownLeader \in [Node -> LeaderId] /\ b.dst \in Node
      BY <1>1, BeatFields DEF TypeOK, RoleTypeOK
    <3>2. knownLeader' = [knownLeader EXCEPT ![b.dst] = b.leader] \/ UNCHANGED knownLeader
      BY <2>6 DEF HandleHeartbeat, AdoptLeader, roleVars
    <3>3. b.leader = l BY <2>3
    <3>4. \A n \in Node : knownLeader'[n] \in {knownLeader[n], l} BY <3>1, <3>2, <3>3
    <3>5. beats' \subseteq beats BY <2>6 DEF HandleHeartbeat
    <3> QED BY <2>2, <3>4, <3>5
  <2>7. ASSUME NEW b \in beats, LoseHeartbeat(b)
        PROVE  UNCHANGED knownLeader /\ beats' \subseteq beats
    BY <2>7 DEF LoseHeartbeat, roleVars
  <2>8. ASSUME Tick PROVE UNCHANGED knownLeader /\ \A b \in beats' : b.leader = l
    <3>1. UNCHANGED knownLeader BY <2>8 DEF Tick, roleVars
    <3> QED BY <1>1, <2>3, <2>8, <3>1, TickBeats
  <2> QED BY <1>1, <2>2, <2>3, <2>4, <2>5, <2>6, <2>7, <2>8 DEF Timed
<1>2. TypeOK /\ [Next]_vars => [Timed => \A l \in LeaderId : Agreed(l) => Agreed(l)']_vars
  BY <1>1
<1> QED BY DetectorTypes, <1>2, PTL DEF Spec, AgreementLasts

-----------------------------------------------------------------------------
(* What an action does to a node's entry for another one: a heartbeat that *)
(* is handled, ...                                                         *)
LEMMA HandledEntry ==
  ASSUME TypeOK, NEW b \in beats, HandleHeartbeat(b), NEW n \in Node, NEW m \in Node
  PROVE  \/ /\ n = b.dst /\ m = b.src /\ Up(n)
            /\ m \in heard'[n] /\ age'[n][m] = 0 /\ peerStatus'[n][m] = "alive"
         \/ /\ ~(n = b.dst /\ m = b.src /\ Up(n)) /\ (m \in heard'[n] <=> m \in heard[n])
            /\ age'[n][m] = age[n][m] /\ peerStatus'[n][m] = peerStatus[n][m]
<1>1. b.src \in Node /\ b.dst \in Node BY BeatFields
<1>2. /\ heard \in [Node -> SUBSET Node] /\ age \in [Node -> [Node -> 0..Timeout + 1]]
      /\ peerStatus \in [Node -> [Node -> {"alive", "failed"}]]
  BY DEF TypeOK
<1>3. CASE ~Up(b.dst)
  <2>1. UNCHANGED <<heard, age, peerStatus>>
    BY <1>3 DEF HandleHeartbeat, monitorVars
  <2> QED BY <1>3, <2>1
<1>4. CASE Up(b.dst)
  <2>1. /\ heard' = [heard EXCEPT ![b.dst] = @ \cup {b.src}]
        /\ age' = [age EXCEPT ![b.dst][b.src] = 0]
        /\ peerStatus' = [peerStatus EXCEPT ![b.dst][b.src] = "alive"]
    BY <1>4 DEF HandleHeartbeat
  <2>2. CASE n = b.dst /\ m = b.src BY <1>1, <1>2, <1>4, <2>1, <2>2
  <2>3. CASE ~(n = b.dst /\ m = b.src)
    <3>1. m \in heard'[n] <=> m \in heard[n] BY <1>1, <1>2, <2>1, <2>3
    <3>2. age'[n][m] = age[n][m] BY <1>1, <1>2, <2>1, <2>3
    <3>3. peerStatus'[n][m] = peerStatus[n][m] BY <1>1, <1>2, <2>1, <2>3
    <3> QED BY <2>3, <3>1, <3>2, <3>3
  <2> QED BY <2>2, <2>3
<1> QED BY <1>3, <1>4

(* ... a check of the failure monitor ...                                  *)
LEMMA CheckedEntry ==
  ASSUME TypeOK, NEW k \in Node, CheckFailures(k), NEW n \in Node, NEW m \in Node
  PROVE  /\ n = k /\ Up(k) /\ m \in heard[n] =>
              /\ age[n][m] > Timeout => peerStatus'[n][m] = "failed"
              /\ ~(age[n][m] > Timeout) => peerStatus'[n][m] = "alive"
         /\ ~(n = k /\ Up(k) /\ m \in heard[n]) => peerStatus'[n][m] = peerStatus[n][m]
         /\ checkIn'[n] = IF n = k THEN Period ELSE checkIn[n]
         /\ UNCHANGED <<running, active, heard, age, beatIn, beats, lost, since>>
<1>1. peerStatus \in [Node -> [Node -> {"alive", "failed"}]] /\ checkIn \in [Node -> 0..Period]
  BY DEF TypeOK
<1>2. /\ UNCHANGED <<running, active, heard, age, beatIn, beats, lost, since>> /\ running[k]
      /\ checkIn'[n] = IF n = k THEN Period ELSE checkIn[n]
  BY <1>1 DEF CheckFailures, linkVars, roleVars
<1>3. CASE ~active[k]
  BY <1>2, <1>3 DEF CheckFailures, Up
<1>4. CASE active[k]
  <2> DEFINE Found == [j \in Node |-> IF j \notin heard[k] THEN peerStatus[k][j]
                                      ELSE IF Overdue(k, j) THEN "failed" ELSE "alive"]
  <2>1. peerStatus' = [peerStatus EXCEPT ![k] = Found] BY <1>4 DEF CheckFailures
  <2>2. n = k => peerStatus'[n][m] = IF m \notin heard[n] THEN peerStatus[n][m]
                                     ELSE IF age[n][m] > Timeout THEN "failed" ELSE "alive"
    BY <1>1, <2>1 DEF Overdue
  <2>3. n # k => peerStatus'[n] = peerStatus[n] BY <1>1, <2>1
  <2> HIDE DEF Found
  <2> QED BY <1>2, <1>4, <2>2, <2>3 DEF Up
<1> QED BY <1>3, <1>4

(* ... and a tick, which concerns all entries.                             *)
LEMMA TickedEntry ==
  ASSUME TypeOK, Tick, NEW n \in Node, NEW m \in Node
  PROVE  /\ UNCHANGED <<running, active, heard, peerStatus, lost>>
         /\ m \in heard[n] => age'[n][m] = Sooner(age[n][m] + 1, Timeout + 1)
         /\ since'[n] = Sooner(since[n] + 1, Long)
         /\ running[n] => /\ beatIn[n] > 0 /\ beatIn'[n] = beatIn[n] - 1
                          /\ checkIn[n] > 0 /\ checkIn'[n] = checkIn[n] - 1
         /\ ~running[n] => beatIn'[n] = beatIn[n] /\ checkIn'[n] = checkIn[n]
BY DEF Tick, roleVars, TypeOK

LEMMA SentEntry ==
  ASSUME TypeOK, NEW k \in Node, SendHeartbeats(k)
  PROVE  /\ UNCHANGED <<running, active, heard, age, peerStatus, checkIn, lost, since>>
         /\ running[k] /\ beatIn[k] = 0 /\ beatIn' = [beatIn EXCEPT ![k] = Interval]
BY DEF SendHeartbeats, roleVars, monitorVars

LEMMA LostEntry ==
  ASSUME TypeOK, NEW b \in beats, LoseHeartbeat(b)
  PROVE  /\ UNCHANGED <<running, active, heard, age, peerStatus, tickerVars, since>>
         /\ beats' = beats \ {b}
BY DEF LoseHeartbeat, roleVars, monitorVars

(* A node that is up or down: nothing but the outside changes that.        *)
LEMMA TimedSteps ==
  ASSUME [Next]_vars
  PROVE  \/ \E n \in Node : SendHeartbeats(n)
         \/ \E n \in Node : CheckFailures(n)
         \/ \E b \in beats : HandleHeartbeat(b)
         \/ \E b \in beats : LoseHeartbeat(b)
         \/ Tick
         \/ \E n \in Node : HandleControl(n) \/ Die(n) \/ Start(n)
         \/ UNCHANGED <<running, active, heard, age, peerStatus, beatIn, checkIn, beats, lost, since>>
BY DEF Next, Timed, vars, roleVars, monitorVars, tickerVars, linkVars

-----------------------------------------------------------------------------
(* The parts of the invariant, one after the other.                        *)
LEMMA FreshStep ==
  ASSUME TypeOK, BeatsFresh, [Next]_vars
  PROVE  BeatsFresh'
<1> SUFFICES ASSUME NEW b \in beats', b.age = 0 PROVE beatIn'[b.src] = Interval
  BY DEF BeatsFresh
<1>1. b \in beats => b.src \in Node /\ beatIn[b.src] = Interval
  BY BeatFields DEF BeatsFresh
<1>2. Interval \in Nat \ {0} BY DetectorAssumption
<1>3. beatIn \in [Node -> 0..Interval] BY DEF TypeOK
<1>4. ASSUME NEW n \in Node, SendHeartbeats(n) PROVE beatIn'[b.src] = Interval
  <2>1. beatIn' = [beatIn EXCEPT ![n] = Interval] BY <1>4, SentEntry
  <2>2. b \in beats \/ b.src = n BY <1>4, SentBeats
  <2> QED BY <1>1, <1>3, <2>1, <2>2
<1>5. ASSUME Tick PROVE FALSE
  <2>1. PICK c \in beats : b.age = c.age + 1 BY <1>5, TickBeats
  <2> QED BY <2>1, BeatFields
<1>6. ASSUME NEW n \in Node, HandleControl(n) \/ Die(n) \/ Start(n)
      PROVE  beatIn'[b.src] = Interval
  <2>1. b \in beats BY <1>6, OutsideStep
  <2>2. CASE b.src = n BY <1>1, <1>6, <2>1, <2>2, OutsideStep
  <2>3. CASE b.src # n BY <1>1, <1>6, <2>1, <2>3, OutsideStep
  <2> QED BY <2>2, <2>3
<1>7. CASE UNCHANGED beatIn /\ beats' \subseteq beats BY <1>1, <1>7
<1>8. ASSUME NEW c \in beats, HandleHeartbeat(c) PROVE UNCHANGED beatIn /\ beats' \subseteq beats
  BY <1>8 DEF HandleHeartbeat, tickerVars
<1>9. ASSUME NEW n \in Node, CheckFailures(n) PROVE UNCHANGED beatIn /\ beats' \subseteq beats
  BY <1>9 DEF CheckFailures, linkVars
<1>10. ASSUME NEW c \in beats, LoseHeartbeat(c) PROVE UNCHANGED beatIn /\ beats' \subseteq beats
  BY <1>10 DEF LoseHeartbeat, tickerVars
<1> QED BY <1>4, <1>5, <1>6, <1>7, <1>8, <1>9, <1>10, TimedSteps

LEMMA DownBeatsStep ==
  ASSUME TypeOK, DownBeats, [Next]_vars
  PROVE  DownBeats'
<1> SUFFICES ASSUME NEW b \in beats', ~Up(b.src)' PROVE since'[b.src] <= b.age
  BY DEF DownBeats
<1>1. b \in beats => b.src \in Node /\ b.age \in Nat /\ (~Up(b.src) => since[b.src] <= b.age)
  BY BeatFields DEF DownBeats
<1>2. since \in [Node -> 0..Long] BY DEF TypeOK
<1>3. ASSUME NEW n \in Node, SendHeartbeats(n) PROVE since'[b.src] <= b.age
  <2>1. UNCHANGED <<running, active, since>> BY <1>3, SentEntry
  <2>2. b \in beats BY <1>3, <2>1, SentBeats DEF Up
  <2> QED BY <1>1, <2>1, <2>2 DEF Up
<1>4. ASSUME Tick PROVE since'[b.src] <= b.age
  <2>1. PICK c \in beats : b.age = c.age + 1 /\ b.src = c.src BY <1>4, TickBeats
  <2>2. c.src \in Node /\ c.age \in Nat BY <2>1, BeatFields
  <2>3. UNCHANGED <<running, active>> /\ since'[b.src] = Sooner(since[b.src] + 1, Long)
    BY <1>4, <2>1, <2>2, TickedEntry
  <2>4. since[b.src] <= c.age BY <2>1, <2>3 DEF Up, DownBeats
  <2>5. since[b.src] \in Nat /\ Long \in Nat
    BY <1>2, <2>1, <2>2, DetectorAssumption DEF Long
  <2> QED BY <2>1, <2>2, <2>3, <2>4, <2>5 DEF Sooner
<1>5. ASSUME NEW n \in Node, HandleControl(n) \/ Die(n) \/ Start(n)
      PROVE  since'[b.src] <= b.age
  <2>1. b \in beats BY <1>5, OutsideStep
  <2>2. CASE since'[b.src] = 0 BY <1>1, <2>1, <2>2
  <2>3. CASE since'[b.src] = since[b.src] /\ (Up(b.src)' <=> Up(b.src)) BY <1>1, <2>1, <2>3
  <2>4. since'[b.src] = 0 \/ (since'[b.src] = since[b.src] /\ (Up(b.src)' <=> Up(b.src)))
    <3>1. CASE b.src = n BY <1>5, <3>1, OutsideStep
    <3>2. CASE b.src # n BY <1>1, <1>5, <2>1, <3>2, OutsideStep
    <3> QED BY <3>1, <3>2
  <2> QED BY <2>2, <2>3, <2>4
<1>6. CASE UNCHANGED <<running, active, since>> /\ beats' \subseteq beats
  BY <1>1, <1>6 DEF Up
<1>7. ASSUME NEW c \in beats, HandleHeartbeat(c)
      PROVE  UNCHANGED <<running, active, since>> /\ beats' \subseteq beats
  BY <1>7 DEF HandleHeartbeat, AdoptLeader, roleVars
<1>8. ASSUME NEW n \in Node, CheckFailures(n)
      PROVE  UNCHANGED <<running, active, since>> /\ beats' \subseteq beats
  BY <1>8 DEF CheckFailures, linkVars, roleVars
<1>9. ASSUME NEW c \in beats, LoseHeartbeat(c)
      PROVE  UNCHANGED <<running, active, since>> /\ beats' \subseteq beats
  BY <1>9, LostEntry
<1> QED BY <1>3, <1>4, <1>5, <1>6, <1>7, <1>8, <1>9, TimedSteps

(* The numbers of a pair of nodes.                                         *)
LEMMA PairTypes ==
  ASSUME TypeOK, NEW n \in Node, NEW m \in Node
  PROVE  /\ age[n][m] \in Nat /\ age[n][m] <= Timeout + 1
         /\ since[n] \in Nat /\ since[n] <= Long
         /\ checkIn[n] \in Nat /\ checkIn[n] <= Period
         /\ beatIn[n] \in Nat /\ beatIn[n] <= Interval
         /\ lost[n][m] \in Nat /\ lost[n][m] <= MaxLost
         /\ Timeout \in Nat /\ MaxDelay \in Nat /\ Period \in Nat /\ Interval \in Nat
         /\ MaxLost \in Nat /\ Long \in Nat /\ Long = MaxDelay + Timeout + Period + 1
         /\ peerStatus[n][m] \in {"alive", "failed"}
<1>1. /\ age[n][m] \in 0..Timeout + 1 /\ since[n] \in 0..Long /\ checkIn[n] \in 0..Period
      /\ beatIn[n] \in 0..Interval /\ lost[n][m] \in 0..MaxLost
      /\ peerStatus[n][m] \in {"alive", "failed"}
  BY DEF TypeOK
<1> QED BY <1>1, DetectorAssumption DEF Long

(* How an outside step leaves a node: as it was, or up or down just now.   *)
LEMMA OutsideSince ==
  ASSUME TypeOK, NEW k \in Node, HandleControl(k) \/ Die(k) \/ Start(k), NEW m \in Node
  PROVE  since'[m] = 0 \/ (since'[m] = since[m] /\ (Up(m)' <=> Up(m)))
<1>1. CASE m = k BY <1>1, OutsideStep
<1>2. CASE m # k BY <1>2, OutsideStep
<1> QED BY <1>1, <1>2

(* And its entries: as they were, or none any more.                        *)
LEMMA OutsideEntry ==
  ASSUME TypeOK, NEW k \in Node, HandleControl(k) \/ Die(k) \/ Start(k), NEW n \in Node
  PROVE  \/ /\ heard'[n] = heard[n] /\ age'[n] = age[n] /\ peerStatus'[n] = peerStatus[n]
            /\ checkIn'[n] = checkIn[n] /\ beatIn'[n] = beatIn[n]
         \/ /\ heard'[n] = {} /\ peerStatus'[n] = [m \in Node |-> "alive"] /\ ~Up(n)'
            /\ checkIn'[n] = Period /\ beatIn'[n] = Interval
<1>1. CASE n = k BY <1>1, OutsideStep DEF Up
<1>2. CASE n # k BY <1>2, OutsideStep
<1> QED BY <1>1, <1>2

LEMMA DownAgeStep ==
  ASSUME TypeOK, DownBeats, DownAge, [Next]_vars
  PROVE  DownAge'
<1> SUFFICES ASSUME NEW n \in Node, NEW m \in heard'[n], ~Up(m)'
             PROVE  age'[n][m] > Timeout \/ since'[m] <= age'[n][m] + MaxDelay
  BY DEF DownAge
<1>1. m \in Node BY TypeStep DEF TypeOK
<1>2. m \in heard[n] /\ ~Up(m) => age[n][m] > Timeout \/ since[m] <= age[n][m] + MaxDelay
  BY DEF DownAge
<1>3. CASE UNCHANGED <<running, active, heard, age, since>>
  BY <1>2, <1>3 DEF Up
<1>4. ASSUME NEW b \in beats, HandleHeartbeat(b)
      PROVE  age'[n][m] > Timeout \/ since'[m] <= age'[n][m] + MaxDelay
  <2>1. UNCHANGED <<running, active, since>>
    BY <1>4 DEF HandleHeartbeat, AdoptLeader, roleVars
  <2>2. CASE m = b.src /\ age'[n][m] = 0
    <3>1. since[m] <= b.age /\ b.age <= MaxDelay /\ b.age \in Nat
      BY <2>1, <2>2, BeatFields, DetectorAssumption DEF DownBeats, Up
    <3> QED BY <1>1, <2>1, <2>2, <3>1, PairTypes
  <2>3. CASE m \in heard[n] /\ age'[n][m] = age[n][m]
    BY <1>2, <2>1, <2>3 DEF Up
  <2> QED BY <1>1, <1>4, <2>2, <2>3, HandledEntry
<1>5. ASSUME Tick
      PROVE  age'[n][m] > Timeout \/ since'[m] <= age'[n][m] + MaxDelay
  <2>1. /\ m \in heard[n] /\ ~Up(m) /\ age'[n][m] = Sooner(age[n][m] + 1, Timeout + 1)
        /\ since'[m] = Sooner(since[m] + 1, Long)
    BY <1>1, <1>5, TickedEntry DEF Up
  <2>2. age[n][m] > Timeout \/ since[m] <= age[n][m] + MaxDelay BY <1>2, <2>1
  <2>3. /\ age[n][m] \in Nat /\ since[m] \in Nat /\ Timeout \in Nat /\ MaxDelay \in Nat
        /\ age[n][m] <= Timeout + 1 /\ Long \in Nat
    BY <1>1, PairTypes
  <2> QED BY <2>1, <2>2, <2>3 DEF Sooner
<1>6. ASSUME NEW k \in Node, HandleControl(k) \/ Die(k) \/ Start(k)
      PROVE  age'[n][m] > Timeout \/ since'[m] <= age'[n][m] + MaxDelay
  <2>1. heard'[n] = heard[n] /\ age'[n] = age[n] BY <1>6, OutsideEntry
  <2>2. CASE since'[m] = 0 BY <1>1, <2>1, <2>2, PairTypes
  <2>3. CASE since'[m] = since[m] /\ (Up(m)' <=> Up(m)) BY <1>2, <2>1, <2>3
  <2> QED BY <1>1, <1>6, <2>2, <2>3, OutsideSince
<1> QED BY <1>1, <1>3, <1>4, <1>5, <1>6, TimedSteps, SentEntry, CheckedEntry, LostEntry

LEMMA FailedStep ==
  ASSUME TypeOK, FailedOverdue, [Next]_vars
  PROVE  FailedOverdue'
<1> SUFFICES ASSUME NEW n \in Node, NEW m \in Node, peerStatus'[n][m] = "failed"
             PROVE  m \in heard'[n] /\ age'[n][m] > Timeout
  BY DEF FailedOverdue
<1>1. peerStatus[n][m] = "failed" => m \in heard[n] /\ age[n][m] > Timeout
  BY DEF FailedOverdue
<1>2. CASE UNCHANGED <<heard, age, peerStatus>> BY <1>1, <1>2
<1>3. ASSUME NEW k \in Node, CheckFailures(k) PROVE m \in heard'[n] /\ age'[n][m] > Timeout
  <2>1. UNCHANGED <<heard, age>> BY <1>3, CheckedEntry
  <2>2. CASE n = k /\ Up(k) /\ m \in heard[n] BY <1>3, <2>1, <2>2, CheckedEntry
  <2>3. CASE ~(n = k /\ Up(k) /\ m \in heard[n]) BY <1>1, <1>3, <2>1, <2>3, CheckedEntry
  <2> QED BY <2>2, <2>3
<1>4. ASSUME NEW b \in beats, HandleHeartbeat(b) PROVE m \in heard'[n] /\ age'[n][m] > Timeout
  BY <1>1, <1>4, HandledEntry
<1>5. ASSUME Tick PROVE m \in heard'[n] /\ age'[n][m] > Timeout
  <2>1. UNCHANGED <<heard, peerStatus>> BY <1>5, TickedEntry
  <2>2. m \in heard[n] /\ age[n][m] > Timeout BY <1>1, <2>1
  <2>3. age'[n][m] = Sooner(age[n][m] + 1, Timeout + 1) BY <1>5, <2>2, TickedEntry
  <2> QED BY <2>1, <2>2, <2>3, PairTypes DEF Sooner
<1>6. ASSUME NEW k \in Node, HandleControl(k) \/ Die(k) \/ Start(k)
      PROVE  m \in heard'[n] /\ age'[n][m] > Timeout
  BY <1>1, <1>6, OutsideEntry
<1> QED BY <1>2, <1>3, <1>4, <1>5, <1>6, TimedSteps, SentEntry, LostEntry

LEMMA DownStatusStep ==
  ASSUME TypeOK, DownBeats, DownAge, DownStatus, [Next]_vars
  PROVE  DownStatus'
<1> DEFINE Late == MaxDelay + Timeout
<1> DEFINE Seen(n, m) == \/ peerStatus[n][m] = "failed"
                         \/ checkIn[n] + since[n] <= Period
                         \/ checkIn[n] + since[m] <= Late + Period
<1> SUFFICES ASSUME NEW n \in Node, NEW m \in heard'[n], Up(n)', ~Up(m)', since'[m] > Late
             PROVE  Seen(n, m)'
  BY DEF DownStatus
<1>1. m \in Node BY TypeStep DEF TypeOK
<1>2. m \in heard[n] /\ Up(n) /\ ~Up(m) /\ since[m] > Late => Seen(n, m)
  BY DEF DownStatus
<1>3. CASE UNCHANGED <<running, active, heard, peerStatus, checkIn, since>>
  BY <1>2, <1>3 DEF Up
<1>4. ASSUME NEW b \in beats, HandleHeartbeat(b) PROVE Seen(n, m)'
  <2>1. UNCHANGED <<running, active, since, checkIn>>
    BY <1>4 DEF HandleHeartbeat, AdoptLeader, roleVars, tickerVars
  <2>2. m # b.src
    <3>1. SUFFICES ASSUME m = b.src PROVE FALSE OBVIOUS
    <3>2. since[m] <= b.age /\ b.age <= MaxDelay /\ b.age \in Nat
      BY <2>1, <3>1, BeatFields, DetectorAssumption DEF DownBeats, Up
    <3> QED BY <1>1, <2>1, <3>2, PairTypes
  <2>3. m \in heard[n] /\ peerStatus'[n][m] = peerStatus[n][m]
    BY <1>1, <1>4, <2>2, HandledEntry
  <2> QED BY <1>2, <2>1, <2>3 DEF Up
<1>5. ASSUME NEW k \in Node, CheckFailures(k) PROVE Seen(n, m)'
  <2>1. /\ UNCHANGED <<running, active, heard, age, since>>
        /\ checkIn'[n] = IF n = k THEN Period ELSE checkIn[n]
    BY <1>1, <1>5, CheckedEntry
  <2>2. m \in heard[n] /\ Up(n) /\ ~Up(m) /\ since[m] > Late BY <2>1 DEF Up
  <2>3. CASE n = k
    <3>1. age[n][m] > Timeout
      BY <1>1, <2>2, PairTypes DEF DownAge
    <3> QED BY <1>1, <1>5, <2>2, <2>3, <3>1, CheckedEntry
  <2>4. CASE n # k
    <3>1. peerStatus'[n][m] = peerStatus[n][m] BY <1>1, <1>5, <2>4, CheckedEntry
    <3> QED BY <1>2, <2>1, <2>2, <2>4, <3>1
  <2> QED BY <2>3, <2>4
<1>6. ASSUME Tick PROVE Seen(n, m)'
  <2>1. /\ m \in heard[n] /\ Up(n) /\ ~Up(m) /\ UNCHANGED peerStatus
        /\ since'[n] = Sooner(since[n] + 1, Long) /\ since'[m] = Sooner(since[m] + 1, Long)
        /\ checkIn[n] > 0 /\ checkIn'[n] = checkIn[n] - 1
    BY <1>1, <1>6, TickedEntry DEF Up
  <2>2. /\ since[n] \in Nat /\ since[m] \in Nat /\ checkIn[n] \in Nat /\ checkIn[n] <= Period
        /\ Period \in Nat /\ Late \in Nat /\ Long \in Nat /\ Long = Late + Period + 1
    BY <1>1, PairTypes
  <2> HIDE DEF Late
  <2>3. CASE since[m] > Late
    BY <1>2, <2>1, <2>2, <2>3 DEF Sooner
  <2>4. CASE ~(since[m] > Late)
    BY <2>1, <2>2, <2>4 DEF Sooner
  <2> QED BY <2>3, <2>4
<1>7. ASSUME NEW k \in Node, HandleControl(k) \/ Die(k) \/ Start(k) PROVE Seen(n, m)'
  <2>1. /\ heard'[n] = heard[n] /\ peerStatus'[n] = peerStatus[n] /\ checkIn'[n] = checkIn[n]
    BY <1>7, OutsideEntry
  <2>2. since'[m] = since[m] /\ ~Up(m)
    BY <1>1, <1>7, OutsideSince, PairTypes
  <2>3. CASE since'[n] = 0 BY <1>1, <2>1, <2>3, PairTypes
  <2>4. CASE since'[n] = since[n] /\ (Up(n)' <=> Up(n))
    BY <1>2, <2>1, <2>2, <2>4
  <2> QED BY <1>7, <2>3, <2>4, OutsideSince
<1> QED BY <1>1, <1>3, <1>4, <1>5, <1>6, <1>7, TimedSteps, SentEntry, LostEntry DEF tickerVars

-----------------------------------------------------------------------------
(* The heartbeats on their way from one node to another, counted by age.   *)
LEMMA AgeSets ==
  ASSUME NEW x \in Nat, NEW A, A \subseteq x..MaxDelay
  PROVE  /\ A \subseteq Nat /\ IsFiniteSet(A) /\ Cardinality(A) \in Nat
         /\ x = MaxDelay + 1 => Cardinality(A) = 0
<1>1. IsFiniteSet(x..MaxDelay)
  <2>1. x \in Int /\ MaxDelay \in Int BY DetectorAssumption
  <2> QED BY <2>1, FS_Interval
<1>2. IsFiniteSet(A) BY <1>1, FS_Subset
<1>3. x = MaxDelay + 1 => A = {} BY DetectorAssumption
<1>4. Cardinality(A) \in Nat /\ Cardinality({}) = 0
  BY <1>2, FS_CardinalityType, FS_EmptySet
<1>5. A \subseteq Nat BY DetectorAssumption
<1> QED BY <1>2, <1>3, <1>4, <1>5

LEMMA AgesFinite ==
  ASSUME NEW n, NEW m, NEW x \in Nat
  PROVE  /\ Ages(n, m, x) \subseteq Nat
         /\ IsFiniteSet(Ages(n, m, x)) /\ Cardinality(Ages(n, m, x)) \in Nat
         /\ IsFiniteSet(Ages(n, m, x)') /\ Cardinality(Ages(n, m, x)') \in Nat
         /\ x = MaxDelay + 1 => Cardinality(Ages(n, m, x)) = 0
<1>1. Ages(n, m, x) \subseteq x..MaxDelay /\ Ages(n, m, x)' \subseteq x..MaxDelay
  BY DEF Ages
<1> QED BY <1>1, AgeSets

LEMMA MoreAges ==
  ASSUME NEW n, NEW m, NEW x \in Nat, Ages(n, m, x) \subseteq Ages(n, m, x)'
  PROVE  Cardinality(Ages(n, m, x)) <= Cardinality(Ages(n, m, x)')
<1>1. IsFiniteSet(Ages(n, m, x)') BY AgesFinite
<1> QED BY <1>1, FS_Subset

(* One heartbeat less.                                                     *)
LEMMA AgesWithout ==
  ASSUME TypeOK, NEW b \in beats, beats' = beats \ {b}, NEW n, NEW m, NEW x \in Nat
  PROVE  /\ Cardinality(Ages(n, m, x)) <= Cardinality(Ages(n, m, x)') + 1
         /\ ~(b.src = m /\ b.dst = n) =>
              Cardinality(Ages(n, m, x)) <= Cardinality(Ages(n, m, x)')
<1>1. ASSUME ~(b.src = m /\ b.dst = n)
      PROVE  Ages(n, m, x) \subseteq Ages(n, m, x)'
  BY <1>1 DEF Ages
<1> DEFINE A == Ages(n, m, x) \ {b.age}
<1>2. A \subseteq Ages(n, m, x)' BY DEF Ages
<1>3. /\ IsFiniteSet(Ages(n, m, x)') /\ Cardinality(Ages(n, m, x)') \in Nat
      /\ IsFiniteSet(Ages(n, m, x)) /\ Cardinality(Ages(n, m, x)) \in Nat
  BY AgesFinite
<1>4. Cardinality(A) <= Cardinality(Ages(n, m, x)') BY <1>2, <1>3, FS_Subset
<1>5. Cardinality(A) = IF b.age \in Ages(n, m, x) THEN Cardinality(Ages(n, m, x)) - 1
                                                  ELSE Cardinality(Ages(n, m, x))
  BY <1>3, FS_RemoveElement
<1> HIDE DEF A
<1>6. Cardinality(Ages(n, m, x)) <= Cardinality(Ages(n, m, x)') + 1
  BY <1>3, <1>4, <1>5
<1> QED BY <1>1, <1>6, MoreAges

(* A round of heartbeats: one more to each peer.                           *)
LEMMA AgesSent ==
  ASSUME TypeOK, BeatsFresh, NEW k \in Node, SendHeartbeats(k),
         NEW n \in Node, NEW m \in PeersExcluding(n), NEW x \in Nat
  PROVE  /\ Cardinality(Ages(n, m, x)) <= Cardinality(Ages(n, m, x)')
         /\ m = k /\ Up(k) => Cardinality(Ages(n, m, 0)) + 1 <= Cardinality(Ages(n, m, 0)')
<1>1. beats \subseteq beats' BY SentBeats
<1>2. ASSUME NEW y \in Nat PROVE Ages(n, m, y) \subseteq Ages(n, m, y)'
  BY <1>1 DEF Ages
<1>3. ASSUME m = k, Up(k)
      PROVE  Cardinality(Ages(n, m, 0)) + 1 <= Cardinality(Ages(n, m, 0)')
  <2>1. n \in PeersExcluding(k) BY <1>3 DEF PeersExcluding
  <2>2. \E c \in beats' : c.src = m /\ c.dst = n /\ c.age = 0 BY <1>3, <2>1, SentBeats
  <2>3. 0 \in Ages(n, m, 0)' BY <2>2, DetectorAssumption DEF Ages
  <2>4. 0 \notin Ages(n, m, 0)
    <3>1. beatIn[k] = 0 /\ Interval # 0 BY SentEntry, DetectorAssumption
    <3> QED BY <1>3, <3>1 DEF Ages, BeatsFresh
  <2>5. Ages(n, m, 0) \cup {0} \subseteq Ages(n, m, 0)' BY <1>2, <2>3
  <2>6. IsFiniteSet(Ages(n, m, 0)) /\ IsFiniteSet(Ages(n, m, 0)') BY AgesFinite
  <2>7. Cardinality(Ages(n, m, 0) \cup {0}) = Cardinality(Ages(n, m, 0)) + 1
    BY <2>4, <2>6, FS_AddElement
  <2>8. Cardinality(Ages(n, m, 0) \cup {0}) <= Cardinality(Ages(n, m, 0)')
    BY <2>5, <2>6, FS_Subset
  <2> QED BY <2>7, <2>8
<1>4. Cardinality(Ages(n, m, x)) <= Cardinality(Ages(n, m, x)') BY <1>2, MoreAges
<1> QED BY <1>3, <1>4

(* A tick: all are one older.                                              *)
LEMMA AgesTicked ==
  ASSUME TypeOK, Tick, NEW n, NEW m, NEW x \in Nat
  PROVE  /\ Cardinality(Ages(n, m, x)) <= Cardinality(Ages(n, m, x + 1)')
         /\ Cardinality(Ages(n, m, x)) <= Cardinality(Ages(n, m, x)')
<1> DEFINE A == Ages(n, m, x)
           f == [a \in A |-> a + 1]
<1>1. A \subseteq Nat BY AgesFinite
<1>2. ASSUME NEW a \in A PROVE a + 1 \in Ages(n, m, x + 1)'
  <2>1. PICK b \in beats : b.src = m /\ b.dst = n /\ b.age = a BY DEF Ages
  <2>2. \E c \in beats' : c.age = a + 1 /\ c.src = m /\ c.dst = n BY <2>1, TickBeats
  <2>3. b.age < MaxDelay BY DEF Tick
  <2>4. a \in x..MaxDelay BY DEF Ages
  <2>5. a + 1 \in (x + 1)..MaxDelay BY <1>1, <2>1, <2>3, <2>4, DetectorAssumption
  <2> QED BY <2>2, <2>5 DEF Ages
<1>3. Ages(n, m, x + 1)' \subseteq Ages(n, m, x)'
  BY DetectorAssumption DEF Ages
<1>4. IsFiniteSet(Ages(n, m, x + 1)') /\ IsFiniteSet(Ages(n, m, x)')
  <2>1. x + 1 \in Nat OBVIOUS
  <2> QED BY <2>1, AgesFinite
<1>5. ASSUME NEW T, IsFiniteSet(T), \A a \in A : a + 1 \in T
      PROVE  Cardinality(A) <= Cardinality(T)
  <2> HIDE DEF A
  <2>1. f \in Injection(A, T) BY <1>1, <1>5 DEF Injection, IsInjective
  <2> HIDE DEF f
  <2> QED BY <1>5, <2>1, FS_Injection
<1> QED BY <1>2, <1>3, <1>4, <1>5

-----------------------------------------------------------------------------
(* The time that the heartbeats of a pair stand for.                       *)
LEMMA SentForTypes ==
  ASSUME TypeOK, NEW n \in Node, NEW m \in Node, NEW x \in Nat
  PROVE  SentFor(n, m, x) \in Nat /\ Interval <= SentFor(n, m, x)
<1> DEFINE k == lost[n][m] + Cardinality(Ages(n, m, x))
<1>1. k \in Nat BY PairTypes, AgesFinite
<1>2. Interval \in Nat BY DetectorAssumption
<1>3. SentFor(n, m, x) = (k + 1) * Interval BY DEF SentFor
<1> HIDE DEF k
<1>4. (k + 1) * Interval = k * Interval + Interval /\ k * Interval \in Nat BY <1>1, <1>2
<1> QED BY <1>2, <1>3, <1>4

(* It does not shrink unless a heartbeat arrives, and grows with each sent.*)
LEMMA MoreTime ==
  ASSUME NEW j \in Nat, NEW k \in Nat, j <= k
  PROVE  /\ j * Interval \in Nat /\ k * Interval \in Nat
         /\ j * Interval <= k * Interval
         /\ j + 1 <= k => j * Interval + Interval <= k * Interval
<1>1. Interval \in Nat BY DetectorAssumption
<1>2. PICK d \in Nat : k = j + d
  <2>1. k - j \in Nat /\ k = j + (k - j) OBVIOUS
  <2> QED BY <2>1
<1>3. k * Interval = j * Interval + d * Interval /\ d * Interval \in Nat /\ j * Interval \in Nat
  BY <1>1, <1>2
<1>4. ASSUME j + 1 <= k PROVE Interval <= d * Interval
  <2>1. PICK e \in Nat : d = e + 1
    <3>1. d - 1 \in Nat /\ d = (d - 1) + 1 BY <1>2, <1>4
    <3> QED BY <3>1
  <2>2. d * Interval = e * Interval + Interval /\ e * Interval \in Nat BY <1>1, <2>1
  <2> QED BY <1>1, <2>2
<1>5. j * Interval + d * Interval \in Nat /\ Interval \in Nat BY <1>1, <1>3
<1> QED BY <1>1, <1>3, <1>4, <1>5

LEMMA TimeKept ==
  ASSUME TypeOK, TypeOK', NEW n \in Node, NEW m \in Node, NEW x \in Nat, NEW y \in Nat,
         lost[n][m] + Cardinality(Ages(n, m, x)) <= lost'[n][m] + Cardinality(Ages(n, m, y)')
  PROVE  /\ SentFor(n, m, x) <= SentFor(n, m, y)'
         /\ lost[n][m] + Cardinality(Ages(n, m, x)) + 1 <= lost'[n][m] + Cardinality(Ages(n, m, y)')
              => SentFor(n, m, x) + Interval <= SentFor(n, m, y)'
         /\ SentFor(n, m, x) \in Nat /\ SentFor(n, m, y)' \in Nat
<1> DEFINE j == lost[n][m] + Cardinality(Ages(n, m, x)) + 1
           k == lost'[n][m] + Cardinality(Ages(n, m, y)') + 1
<1>1. /\ lost[n][m] \in Nat /\ Cardinality(Ages(n, m, x)) \in Nat
      /\ lost'[n][m] \in Nat /\ Cardinality(Ages(n, m, y)') \in Nat
  <2>1. lost'[n][m] \in 0..MaxLost BY DEF TypeOK
  <2>2. MaxLost \in Nat BY DetectorAssumption
  <2> QED BY <2>1, <2>2, PairTypes, AgesFinite
<1>2. j \in Nat /\ k \in Nat /\ j <= k BY <1>1
<1>3. lost[n][m] + Cardinality(Ages(n, m, x)) + 1 <= lost'[n][m] + Cardinality(Ages(n, m, y)')
        => j + 1 <= k
  BY <1>1
<1>4. SentFor(n, m, x) = j * Interval /\ SentFor(n, m, y)' = k * Interval
  BY DEF SentFor
<1> HIDE DEF j, k
<1> QED BY <1>2, <1>3, <1>4, MoreTime

(* Later is within as well.                                                *)
LEMMA WithinMore ==
  ASSUME TypeOK, NEW n \in Node, NEW m \in Node, NEW e \in Int, NEW f \in Int, e <= f, Within(n, m, e)
  PROVE  Within(n, m, f)
<1>1. since[n] \in Int /\ since[m] \in Int /\ age[n][m] \in Int BY PairTypes
<1> QED BY <1>1 DEF Within

LEMMA UpHeardStep ==
  ASSUME TypeOK, BeatsFresh, UpHeard, [Next]_vars
  PROVE  UpHeard'
<1> USE DEF tickerVars
<1> SUFFICES ASSUME NEW n \in Node, NEW m \in PeersExcluding(n), Up(n)', Up(m)'
             PROVE  /\ Within(n, m, SentFor(n, m, 0) - beatIn[m])'
                    /\ \A x \in 0..MaxDelay : Within(n, m, x + SentFor(n, m, x + 1))'
  BY DEF UpHeard, Expected, PeersExcluding
<1> USE DEF PeersExcluding
<1>1. m \in Node /\ m # n /\ TypeOK' BY TypeStep
<1>2. Up(n) /\ Up(m) => Within(n, m, SentFor(n, m, 0) - beatIn[m])
                        /\ \A x \in 0..MaxDelay : Within(n, m, x + SentFor(n, m, x + 1))
  BY DEF UpHeard, Expected
<1>3. /\ \A x \in Nat : SentFor(n, m, x) \in Nat /\ Interval <= SentFor(n, m, x)
      /\ \A x \in Nat : SentFor(n, m, x)' \in Nat /\ Interval <= SentFor(n, m, x)'
  <2>1. ASSUME NEW x \in Nat PROVE SentFor(n, m, x) \in Nat /\ Interval <= SentFor(n, m, x)
    BY <1>1, SentForTypes
  <2>2. ASSUME NEW x \in Nat PROVE SentFor(n, m, x)' \in Nat /\ Interval <= SentFor(n, m, x)'
    <3>1. lost'[n][m] \in Nat BY <1>1, DetectorAssumption DEF TypeOK
    <3>2. Cardinality(Ages(n, m, x)') \in Nat BY AgesFinite
    <3>3. lost'[n][m] + Cardinality(Ages(n, m, x)') \in Nat
          /\ 0 <= lost'[n][m] + Cardinality(Ages(n, m, x)') BY <3>1, <3>2
    <3>4. SentFor(n, m, x)' = (lost'[n][m] + Cardinality(Ages(n, m, x)') + 1) * Interval
      BY DEF SentFor
    <3> DEFINE k == lost'[n][m] + Cardinality(Ages(n, m, x)')
    <3>5. k \in Nat /\ SentFor(n, m, x)' = (k + 1) * Interval BY <3>3, <3>4
    <3> HIDE DEF k
    <3>6. (k + 1) * Interval = k * Interval + Interval /\ k * Interval \in Nat
      BY <3>5, DetectorAssumption
    <3> QED BY <3>5, <3>6, DetectorAssumption
  <2> QED BY <2>1, <2>2
<1>4. /\ Interval \in Nat \ {0} /\ MaxDelay \in Nat
      /\ beatIn[m] \in 0..Interval /\ beatIn'[m] \in 0..Interval
      /\ since[n] \in Nat /\ since[m] \in Nat /\ age[n][m] \in Nat
  <2>1. beatIn \in [Node -> 0..Interval] /\ beatIn' \in [Node -> 0..Interval]
    BY <1>1 DEF TypeOK
  <2> QED BY <1>1, <2>1, PairTypes, DetectorAssumption
(* Something just now starts the time again.                               *)
<1>5. ASSUME since'[n] = 0 \/ since'[m] = 0 \/ (m \in heard'[n] /\ age'[n][m] = 0)
      PROVE  /\ Within(n, m, SentFor(n, m, 0) - beatIn[m])'
             /\ \A x \in 0..MaxDelay : Within(n, m, x + SentFor(n, m, x + 1))'
  <2>1. ASSUME NEW e \in Nat
        PROVE  since'[n] <= e \/ since'[m] <= e \/ (m \in heard'[n] /\ age'[n][m] <= e)
    BY <1>5
  <2>2. SentFor(n, m, 0)' - beatIn'[m] \in Nat
    <3>1. SentFor(n, m, 0)' \in Nat /\ Interval <= SentFor(n, m, 0)' BY <1>3
    <3> QED BY <1>4, <3>1
  <2>3. ASSUME NEW x \in 0..MaxDelay PROVE x + SentFor(n, m, x + 1)' \in Nat
    <3>1. x \in Nat /\ x + 1 \in Nat BY <1>4
    <3>2. SentFor(n, m, x + 1)' \in Nat BY <1>3, <3>1
    <3> QED BY <3>1, <3>2
  <2> QED BY <2>1, <2>2, <2>3 DEF Within
(* Nothing that counts changes, but for heartbeats that are sent or lost.  *)
<1>6. ASSUME since'[n] = since[n], since'[m] = since[m], Up(n), Up(m),
             m \in heard[n] => m \in heard'[n] /\ age'[n][m] = age[n][m],
             \A x \in 0..MaxDelay + 1 : SentFor(n, m, x) <= SentFor(n, m, x)',
             SentFor(n, m, 0) - beatIn[m] <= SentFor(n, m, 0)' - beatIn'[m]
      PROVE  /\ Within(n, m, SentFor(n, m, 0) - beatIn[m])'
             /\ \A x \in 0..MaxDelay : Within(n, m, x + SentFor(n, m, x + 1))'
  <2>1. ASSUME NEW e \in Int, NEW f \in Int, e <= f, Within(n, m, e)
        PROVE  since'[n] <= f \/ since'[m] <= f \/ (m \in heard'[n] /\ age'[n][m] <= f)
    <3>1. Within(n, m, f) BY <1>1, <2>1, WithinMore
    <3> QED BY <1>6, <3>1 DEF Within
  <2>2. Within(n, m, SentFor(n, m, 0) - beatIn[m])'
    <3>1. SentFor(n, m, 0) \in Nat /\ SentFor(n, m, 0)' \in Nat BY <1>3
    <3>2. SentFor(n, m, 0) - beatIn[m] \in Int /\ SentFor(n, m, 0)' - beatIn'[m] \in Int
      BY <1>4, <3>1
    <3> QED BY <1>2, <1>6, <2>1, <3>2 DEF Within
  <2>3. ASSUME NEW x \in 0..MaxDelay PROVE Within(n, m, x + SentFor(n, m, x + 1))'
    <3>1. x \in Nat /\ x + 1 \in Nat /\ x + 1 \in 0..MaxDelay + 1 BY <1>4
    <3>2. SentFor(n, m, x + 1) \in Nat /\ SentFor(n, m, x + 1)' \in Nat
          /\ SentFor(n, m, x + 1) <= SentFor(n, m, x + 1)'
      BY <1>3, <1>6, <3>1
    <3>3. /\ x + SentFor(n, m, x + 1) \in Int /\ x + SentFor(n, m, x + 1)' \in Int
          /\ x + SentFor(n, m, x + 1) <= x + SentFor(n, m, x + 1)'
      BY <3>1, <3>2
    <3>4. Within(n, m, x + SentFor(n, m, x + 1)) BY <1>2, <1>6
    <3> QED BY <2>1, <3>3, <3>4 DEF Within
  <2> QED BY <2>2, <2>3
(* The actions.                                                            *)
<1>7. CASE \E k \in Node : SendHeartbeats(k)
  <2>1. PICK k \in Node : SendHeartbeats(k) BY <1>7
  <2>2. /\ UNCHANGED <<running, active, heard, age, lost, since>>
        /\ running[k] /\ beatIn[k] = 0 /\ beatIn' = [beatIn EXCEPT ![k] = Interval]
    BY <2>1, SentEntry
  <2>3. Up(n) /\ Up(m) BY <2>2 DEF Up
  <2>4. ASSUME NEW x \in Nat
        PROVE  lost[n][m] + Cardinality(Ages(n, m, x)) <= lost'[n][m] + Cardinality(Ages(n, m, x)')
    BY <1>1, <2>1, <2>2, AgesSent, AgesFinite, PairTypes
  <2>5. \A x \in Nat : SentFor(n, m, x) <= SentFor(n, m, x)'
    BY <1>1, <2>4, TimeKept
  <2>6. SentFor(n, m, 0) - beatIn[m] <= SentFor(n, m, 0)' - beatIn'[m]
    <3>1. SentFor(n, m, 0) \in Nat /\ SentFor(n, m, 0)' \in Nat
          /\ SentFor(n, m, 0) <= SentFor(n, m, 0)'
      BY <1>3, <2>5
    <3>2. CASE m = k
      <4>1. Cardinality(Ages(n, m, 0)) + 1 <= Cardinality(Ages(n, m, 0)')
        BY <1>1, <2>1, <2>3, <3>2, AgesSent
      <4>2. lost[n][m] + Cardinality(Ages(n, m, 0)) + 1 <= lost'[n][m] + Cardinality(Ages(n, m, 0)')
        BY <1>1, <2>2, <4>1, AgesFinite, PairTypes
      <4>3. SentFor(n, m, 0) + Interval <= SentFor(n, m, 0)'
        BY <1>1, <2>4, <4>2, TimeKept
      <4>4. beatIn[m] = 0 /\ beatIn'[m] = Interval BY <1>1, <2>2, <3>2 DEF TypeOK
      <4> QED BY <1>4, <3>1, <4>3, <4>4
    <3>3. CASE m # k
      <4>1. beatIn'[m] = beatIn[m] BY <1>1, <2>2, <3>3 DEF TypeOK
      <4> QED BY <1>4, <3>1, <4>1
    <3> QED BY <3>2, <3>3
  <2> QED BY <1>4, <1>6, <2>2, <2>3, <2>5, <2>6
<1>8. CASE \E b \in beats : HandleHeartbeat(b)
  <2>1. PICK b \in beats : HandleHeartbeat(b) BY <1>8
  <2>2. UNCHANGED <<running, active, since, beatIn>> /\ beats' = beats \ {b}
        /\ lost' = [lost EXCEPT ![b.dst][b.src] = 0]
    BY <2>1 DEF HandleHeartbeat, AdoptLeader, roleVars
  <2>3. Up(n) /\ Up(m) BY <2>2 DEF Up
  <2>4. CASE n = b.dst /\ m = b.src
    BY <1>1, <1>5, <2>1, <2>3, <2>4, HandledEntry
  <2>5. CASE ~(n = b.dst /\ m = b.src)
    <3>1. lost'[n][m] = lost[n][m]
      <4>1. b.src \in Node /\ b.dst \in Node BY BeatFields
      <4> QED BY <1>1, <2>2, <2>5, <4>1 DEF TypeOK
    <3>2. ASSUME NEW x \in Nat PROVE SentFor(n, m, x) <= SentFor(n, m, x)'
      <4>1. Cardinality(Ages(n, m, x)) <= Cardinality(Ages(n, m, x)')
        BY <2>2, <2>5, AgesWithout
      <4>2. lost[n][m] + Cardinality(Ages(n, m, x)) <= lost'[n][m] + Cardinality(Ages(n, m, x)')
        BY <1>1, <3>1, <4>1, AgesFinite, PairTypes
      <4> QED BY <1>1, <4>2, TimeKept
    <3>3. SentFor(n, m, 0) - beatIn[m] <= SentFor(n, m, 0)' - beatIn'[m]
      BY <1>3, <1>4, <2>2, <3>2
    <3>4. m \in heard[n] => m \in heard'[n] /\ age'[n][m] = age[n][m]
      BY <1>1, <2>1, <2>5, HandledEntry
    <3> QED BY <1>4, <1>6, <2>2, <2>3, <3>2, <3>3, <3>4
  <2> QED BY <2>4, <2>5
<1>9. CASE \E b \in beats : LoseHeartbeat(b)
  <2>1. PICK b \in beats : LoseHeartbeat(b) BY <1>9
  <2>2. UNCHANGED <<running, active, heard, age, since, beatIn>> /\ beats' = beats \ {b}
        /\ lost' = [lost EXCEPT ![b.dst][b.src] = @ + 1]
    BY <2>1, LostEntry DEF LoseHeartbeat
  <2>3. Up(n) /\ Up(m) BY <2>2 DEF Up
  <2>4. lost'[n][m] = IF n = b.dst /\ m = b.src THEN lost[n][m] + 1 ELSE lost[n][m]
    <3>1. b.src \in Node /\ b.dst \in Node BY BeatFields
    <3> QED BY <1>1, <2>2, <3>1 DEF TypeOK
  <2>5. ASSUME NEW x \in Nat PROVE SentFor(n, m, x) <= SentFor(n, m, x)'
    <3>1. /\ Cardinality(Ages(n, m, x)) <= Cardinality(Ages(n, m, x)') + 1
          /\ ~(b.src = m /\ b.dst = n) => Cardinality(Ages(n, m, x)) <= Cardinality(Ages(n, m, x)')
      BY <2>2, AgesWithout
    <3>2. lost[n][m] + Cardinality(Ages(n, m, x)) <= lost'[n][m] + Cardinality(Ages(n, m, x)')
      BY <1>1, <2>4, <3>1, AgesFinite, PairTypes
    <3> QED BY <1>1, <3>2, TimeKept
  <2>6. SentFor(n, m, 0) - beatIn[m] <= SentFor(n, m, 0)' - beatIn'[m]
    BY <1>3, <1>4, <2>2, <2>5
  <2> QED BY <1>4, <1>6, <2>2, <2>3, <2>5, <2>6
<1>10. CASE Tick
  <2>1. /\ Up(n) /\ Up(m) /\ UNCHANGED <<heard, lost>>
        /\ since'[n] = Sooner(since[n] + 1, Long) /\ since'[m] = Sooner(since[m] + 1, Long)
        /\ m \in heard[n] => age'[n][m] = Sooner(age[n][m] + 1, Timeout + 1)
        /\ beatIn[m] > 0 /\ beatIn'[m] = beatIn[m] - 1
    BY <1>1, <1>10, TickedEntry DEF Up
  <2>2. ASSUME NEW e \in Int, NEW f \in Int, e + 1 <= f, Within(n, m, e)
        PROVE  since'[n] <= f \/ since'[m] <= f \/ (m \in heard'[n] /\ age'[n][m] <= f)
    <3>1. /\ Sooner(since[n] + 1, Long) <= since[n] + 1 /\ Sooner(since[n] + 1, Long) \in Int
          /\ Sooner(since[m] + 1, Long) <= since[m] + 1 /\ Sooner(since[m] + 1, Long) \in Int
          /\ Sooner(age[n][m] + 1, Timeout + 1) <= age[n][m] + 1
          /\ Sooner(age[n][m] + 1, Timeout + 1) \in Int
      BY <1>4, DetectorAssumption DEF Sooner, Long
    <3> QED BY <1>4, <2>1, <2>2, <3>1 DEF Within
  <2>3. ASSUME NEW x \in Nat
        PROVE  SentFor(n, m, x) <= SentFor(n, m, x + 1)' /\ SentFor(n, m, x) <= SentFor(n, m, x)'
    <3>1. /\ Cardinality(Ages(n, m, x)) <= Cardinality(Ages(n, m, x + 1)')
          /\ Cardinality(Ages(n, m, x)) <= Cardinality(Ages(n, m, x)')
      BY <1>10, AgesTicked
    <3>2. x + 1 \in Nat OBVIOUS
    <3>3. /\ lost[n][m] + Cardinality(Ages(n, m, x)) <= lost'[n][m] + Cardinality(Ages(n, m, x + 1)')
          /\ lost[n][m] + Cardinality(Ages(n, m, x)) <= lost'[n][m] + Cardinality(Ages(n, m, x)')
      <4>1. lost[n][m] \in Nat /\ lost'[n][m] = lost[n][m] BY <1>1, <2>1, PairTypes
      <4>2. Cardinality(Ages(n, m, x)) \in Nat /\ Cardinality(Ages(n, m, x)') \in Nat
            /\ Cardinality(Ages(n, m, x + 1)') \in Nat
        BY <3>2, AgesFinite
      <4> QED BY <3>1, <4>1, <4>2
    <3> QED BY <1>1, <3>2, <3>3, TimeKept
  <2>4. /\ SentFor(n, m, 0) \in Nat /\ SentFor(n, m, 0)' \in Nat /\ SentFor(n, m, 0 + 1)' \in Nat
        /\ SentFor(n, m, 0) <= SentFor(n, m, 0)' /\ SentFor(n, m, 0) <= SentFor(n, m, 0 + 1)'
    BY <1>3, <2>3
  <2>5. Within(n, m, SentFor(n, m, 0) - beatIn[m])'
    <3>1. SentFor(n, m, 0) - beatIn[m] \in Int /\ SentFor(n, m, 0)' - beatIn'[m] \in Int
          /\ SentFor(n, m, 0) - beatIn[m] + 1 <= SentFor(n, m, 0)' - beatIn'[m]
      BY <1>4, <2>1, <2>4
    <3> QED BY <1>2, <2>1, <2>2, <3>1 DEF Within
  <2>6. ASSUME NEW x \in 0..MaxDelay PROVE Within(n, m, x + SentFor(n, m, x + 1))'
    <3>1. CASE x = 0
      <4>1. SentFor(n, m, 0) - beatIn[m] \in Int /\ 0 + SentFor(n, m, 0 + 1)' \in Int
            /\ SentFor(n, m, 0) - beatIn[m] + 1 <= 0 + SentFor(n, m, 0 + 1)'
        BY <1>4, <2>1, <2>4
      <4> QED BY <1>2, <2>1, <2>2, <3>1, <4>1 DEF Within
    <3>2. CASE x # 0
      <4>1. PICK y \in 0..MaxDelay : x = y + 1
        <5>1. x - 1 \in 0..MaxDelay /\ x = (x - 1) + 1 BY <1>4, <3>2
        <5> QED BY <5>1
      <4>2. y \in Nat /\ x \in Nat /\ x + 1 \in Nat BY <1>4, <4>1
      <4>3. SentFor(n, m, x) \in Nat /\ SentFor(n, m, x + 1)' \in Nat
            /\ SentFor(n, m, x) <= SentFor(n, m, x + 1)'
        BY <1>3, <2>3, <4>2
      <4>4. y + SentFor(n, m, x) \in Int /\ x + SentFor(n, m, x + 1)' \in Int
            /\ y + SentFor(n, m, x) + 1 <= x + SentFor(n, m, x + 1)'
        BY <4>1, <4>2, <4>3
      <4>5. Within(n, m, y + SentFor(n, m, x)) BY <1>2, <2>1, <4>1
      <4> QED BY <2>2, <4>4, <4>5 DEF Within
    <3> QED BY <3>1, <3>2
  <2> QED BY <2>5, <2>6
<1>11. CASE \E k \in Node : HandleControl(k) \/ Die(k) \/ Start(k)
  <2>1. PICK k \in Node : HandleControl(k) \/ Die(k) \/ Start(k) BY <1>11
  <2>2. since'[n] = 0 \/ (since'[n] = since[n] /\ Up(n)) BY <2>1, OutsideSince
  <2>3. since'[m] = 0 \/ (since'[m] = since[m] /\ Up(m)) BY <1>1, <2>1, OutsideSince
  <2>4. heard'[n] = heard[n] /\ age'[n] = age[n] BY <2>1, OutsideEntry
  <2>5. beatIn'[m] = beatIn[m] BY <1>1, <2>1, OutsideEntry
  <2>6. UNCHANGED <<beats, lost>> BY <2>1, OutsideStep
  <2>7. \A x \in Nat : SentFor(n, m, x)' = SentFor(n, m, x) BY <2>6 DEF SentFor, Ages
  <2>8. SentFor(n, m, 0) - beatIn[m] <= SentFor(n, m, 0)' - beatIn'[m]
    BY <1>3, <1>4, <2>5, <2>7
  <2>9. \A x \in 0..MaxDelay + 1 : SentFor(n, m, x) <= SentFor(n, m, x)'
    BY <1>3, <1>4, <2>7
  <2> QED BY <1>5, <1>6, <2>2, <2>3, <2>4, <2>8, <2>9
<1>12. CASE UNCHANGED <<running, active, heard, age, since, beatIn, beats, lost>>
  <2>1. \A x \in Nat : SentFor(n, m, x)' = SentFor(n, m, x) BY <1>12 DEF SentFor, Ages
  <2>2. SentFor(n, m, 0) - beatIn[m] <= SentFor(n, m, 0)' - beatIn'[m]
    BY <1>3, <1>4, <1>12, <2>1
  <2>3. \A x \in 0..MaxDelay + 1 : SentFor(n, m, x) <= SentFor(n, m, x)'
    BY <1>3, <1>4, <2>1
  <2> QED BY <1>6, <1>12, <2>2, <2>3 DEF Up
<1> QED BY <1>1, <1>7, <1>8, <1>9, <1>10, <1>11, <1>12, TimedSteps, CheckedEntry

-----------------------------------------------------------------------------
(* All of it, from the first state on.                                     *)
LEMMA DetectorInitInv == Init => DetectorInv
<1> SUFFICES ASSUME Init PROVE DetectorInv OBVIOUS
<1>1. TypeOK BY InitTypes
<1>2. /\ beats = {} /\ heard = [n \in Node |-> {}] /\ running = [n \in Node |-> TRUE]
      /\ since = [n \in Node |-> 0]
      /\ peerStatus = [n \in Node |-> [m \in Node |-> "alive"]]
  BY DEF Init
<1>3. BeatsFresh /\ DownBeats BY <1>2 DEF BeatsFresh, DownBeats
<1>4. DownAge /\ DownStatus BY <1>2 DEF DownAge, DownStatus
<1>5. FailedOverdue BY <1>2 DEF FailedOverdue
<1>6. ASSUME NEW n \in Node, NEW m \in PeersExcluding(n) PROVE Expected(n, m)
  <2>1. m \in Node BY DEF PeersExcluding
  <2>2. ASSUME NEW e \in Nat PROVE Within(n, m, e) BY <1>2 DEF Within
  <2>3. SentFor(n, m, 0) - beatIn[m] \in Nat
    <3>1. SentFor(n, m, 0) \in Nat /\ Interval <= SentFor(n, m, 0) BY <1>1, <2>1, SentForTypes
    <3> QED BY <1>1, <2>1, <3>1, PairTypes
  <2>4. ASSUME NEW x \in 0..MaxDelay PROVE x + SentFor(n, m, x + 1) \in Nat
    <3>1. x \in Nat /\ x + 1 \in Nat BY DetectorAssumption
    <3>2. SentFor(n, m, x + 1) \in Nat BY <1>1, <2>1, <3>1, SentForTypes
    <3> QED BY <3>1, <3>2
  <2> QED BY <2>2, <2>3, <2>4 DEF Expected
<1> QED BY <1>1, <1>3, <1>4, <1>5, <1>6 DEF DetectorInv, UpHeard

(* The invariant that Accuracy and Completeness follow from.               *)
THEOREM DetectorInvariance == Spec => []DetectorInv
<1>1. ASSUME DetectorInv, [Next]_vars PROVE DetectorInv'
  <2> USE <1>1 DEF DetectorInv
  <2>1. TypeOK' BY TypeStep
  <2>2. BeatsFresh' BY FreshStep
  <2>3. DownBeats' BY DownBeatsStep
  <2>4. DownAge' BY DownAgeStep
  <2>5. DownStatus' BY DownStatusStep
  <2>6. FailedOverdue' BY FailedStep
  <2>7. UpHeard' BY UpHeardStep
  <2> QED BY <2>1, <2>2, <2>3, <2>4, <2>5, <2>6, <2>7
<1> QED BY DetectorInitInv, <1>1, PTL DEF Spec

(* A peer that has been down for longer than the timeout, the delay of a   *)
(* heartbeat and the period of the monitor is taken for failed by each     *)
(* node that is up and has ever heard of it: whatever the intervals are,   *)
(* whatever gets lost, and however often processes die and start.          *)
THEOREM FailuresNoticed == Spec => []Completeness
<1>1. DetectorInv => Completeness
  <2> SUFFICES ASSUME DetectorInv, NEW n \in Node, NEW m \in heard[n], Up(n), ~Up(m),
                      since[n] > Period, since[m] > MaxDelay + Timeout + Period
               PROVE  peerStatus[n][m] = "failed"
    BY DEF Completeness
  <2>1. TypeOK /\ DownStatus /\ m \in Node BY DEF DetectorInv, TypeOK
  <2>2. /\ since[n] \in Nat /\ since[m] \in Nat /\ checkIn[n] \in Nat
        /\ Timeout \in Nat /\ MaxDelay \in Nat /\ Period \in Nat
    BY <2>1, PairTypes
  <2>3. since[m] > MaxDelay + Timeout BY <2>2
  <2>4. \/ peerStatus[n][m] = "failed"
        \/ checkIn[n] + since[n] <= Period
        \/ checkIn[n] + since[m] <= MaxDelay + Timeout + Period
    BY <2>1, <2>3 DEF DownStatus
  <2> QED BY <2>2, <2>4
<1> QED BY DetectorInvariance, <1>1, PTL

(* With a timeout that covers the heartbeats that may get lost in a row,   *)
(* their interval and their delay, a node that has been up that long does  *)
(* not take a peer that has been up that long for failed.                  *)
THEOREM NoFalseAlarm == Spec => []Accuracy
<1>1. DetectorInv => Accuracy
  <2> SUFFICES ASSUME DetectorInv, Settle <= Timeout,
                      NEW n \in Node, NEW m \in PeersExcluding(n), Up(n), Up(m),
                      since[n] > Settle, since[m] > Settle
               PROVE  peerStatus[n][m] = "alive"
    BY DEF Accuracy
  <2>1. TypeOK /\ FailedOverdue /\ UpHeard /\ m \in Node BY DEF DetectorInv, PeersExcluding
  <2>2. /\ since[n] \in Nat /\ since[m] \in Nat /\ age[n][m] \in Nat /\ lost[n][m] \in Nat
        /\ lost[n][m] <= MaxLost /\ MaxLost \in Nat /\ MaxDelay \in Nat /\ Timeout \in Nat
        /\ Interval \in Nat /\ peerStatus[n][m] \in {"alive", "failed"}
    BY <2>1, PairTypes
  <2>3. Within(n, m, MaxDelay + SentFor(n, m, MaxDelay + 1))
    BY <2>1, <2>2 DEF UpHeard, Expected
  <2>4. SentFor(n, m, MaxDelay + 1) = (lost[n][m] + 1) * Interval
    <3>1. MaxDelay + 1 \in Nat BY <2>2
    <3>2. Cardinality(Ages(n, m, MaxDelay + 1)) = 0 BY <3>1, AgesFinite
    <3>3. lost[n][m] + 0 + 1 = lost[n][m] + 1 BY <2>2
    <3> QED BY <3>2, <3>3 DEF SentFor
  <2>5. MaxDelay + SentFor(n, m, MaxDelay + 1) <= Settle
        /\ MaxDelay + SentFor(n, m, MaxDelay + 1) \in Int /\ Settle \in Int
    <3>1. lost[n][m] + 1 \in Nat /\ MaxLost + 1 \in Nat /\ lost[n][m] + 1 <= MaxLost + 1
      BY <2>2
    <3>2. /\ (lost[n][m] + 1) * Interval \in Nat /\ (MaxLost + 1) * Interval \in Nat
          /\ (lost[n][m] + 1) * Interval <= (MaxLost + 1) * Interval
      BY <3>1, MoreTime
    <3> QED BY <2>2, <2>4, <3>2 DEF Settle
  <2>6. Within(n, m, Settle) BY <2>1, <2>3, <2>5, WithinMore
  <2>7. m \in heard[n] /\ age[n][m] <= Settle
    BY <2>2, <2>5, <2>6 DEF Within
  <2>8. ~(age[n][m] > Timeout) BY <2>2, <2>5, <2>7
  <2> QED BY <2>1, <2>2, <2>8 DEF FailedOverdue
<1> QED BY DetectorInvariance, <1>1, PTL
=============================================================================
