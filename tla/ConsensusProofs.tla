--------------------------- MODULE ConsensusProofs ---------------------------
(***************************************************************************)
(* Elections of internal/consensus, for any number of nodes and terms and  *)
(* any driver.  That a term has one leader needs more than a majority of   *)
(* votes: a voter moves on to later terms and forgets whom it voted for,   *)
(* so the invariant says what the other candidates can no longer get.      *)
(***************************************************************************)
EXTENDS Consensus, FiniteSetTheorems, TLAPS

(* The driver knows its candidate and, while it waits for one, its voter.  *)
WithVoter == {"comparing", "steppingDown", "checking", "granting"}
CallInv ==
  /\ call.at # "idle" => call.node \in Node
  /\ call.at \in WithVoter => call.voter \in setup.voters

TypeInv == TypeOK /\ CallInv

-----------------------------------------------------------------------------
(* With a quiet driver: who may be what.                                   *)
QuietRoles ==
  /\ \A n \in Node : role[n] # "follower" => n \in setup.timers
  /\ expired \subseteq setup.timers
  /\ \A n \in expired : role[n] = "follower"
  /\ \A n \in Node : beat[n] = Waiting

(* The candidate of a campaign stays one in the term it asks votes for,    *)
(* and a voter is where HandleVoteRequest's comparisons found it.          *)
QuietCall ==
  /\ call.at # "idle" => role[call.node] = "candidate"
  /\ call.at \notin {"idle", "candidate"} => call.term = currentTerm[call.node]
  /\ call.at = "steppingDown" => currentTerm[call.voter] < call.term
  /\ call.at \in {"checking", "granting"} => currentTerm[call.voter] = call.term
  /\ call.at = "granting" => votedFor[call.voter] \in {None, call.node}

(* The votes counted are still held by those who cast them.                *)
QuietVotes ==
  /\ call.at = "idle" => votes = {}
  /\ call.at = "candidate" => votes = {call.node}
  /\ \A v \in votes \ {call.node} :
       v \in setup.voters /\ currentTerm[v] = call.term /\ votedFor[v] = call.node

(* The votes candidate m may still get for term t, and got.                *)
Obtainable(m, t) ==
  {v \in setup.voters : \/ currentTerm[v] < t
                        \/ currentTerm[v] = t /\ votedFor[v] \in {None, m}}

(* No other candidate of a leader's term can reach a majority any more.    *)
OthersBlocked ==
  \A l \in Node, m \in Node \ setup.voters :
    role[l] = "leader" /\ m # l
      => Cardinality(Obtainable(m, currentTerm[l]) \cup {m}) < N \div 2 + 1

QuietInv ==
  Quiet => QuietRoles /\ QuietCall /\ QuietVotes /\ OthersBlocked

ElectionInv == TypeInv /\ QuietInv /\ OneLeaderPerTerm

-----------------------------------------------------------------------------
(* Two disjoint sets of nodes are not both a majority.                     *)
LEMMA DisjointMinority ==
  ASSUME NEW S \in SUBSET Node, NEW T \in SUBSET Node, S \cap T = {},
         Cardinality(T) >= N \div 2 + 1
  PROVE  Cardinality(S) < N \div 2 + 1
<1>1. N \in Nat BY ConsensusAssumption
<1>2. IsFiniteSet(Node) /\ Cardinality(Node) = N
  BY <1>1, FS_Interval DEF Node
<1>3. IsFiniteSet(T) /\ Cardinality(T) \in Nat
  BY <1>2, FS_Subset, FS_CardinalityType
<1>4. Node \cap T = T OBVIOUS
<1>5. IsFiniteSet(Node \ T) /\ Cardinality(Node \ T) = N - Cardinality(T)
  BY <1>2, <1>4, FS_Difference
<1>6. S \subseteq Node \ T OBVIOUS
<1>7. IsFiniteSet(S) /\ Cardinality(S) <= Cardinality(Node \ T)
  BY <1>5, <1>6, FS_Subset
<1>8. Cardinality(S) \in Nat BY <1>7, FS_CardinalityType
<1>9. 2 * (N \div 2 + 1) > N BY <1>1
<1> QED BY <1>1, <1>3, <1>5, <1>7, <1>8, <1>9

(* A larger set of nodes does not have fewer members.                      *)
LEMMA SmallerMinority ==
  ASSUME NEW S \in SUBSET Node, NEW T, T \subseteq S
  PROVE  Cardinality(T) \in Nat /\ Cardinality(S) \in Nat /\ Cardinality(T) <= Cardinality(S)
<1>1. IsFiniteSet(Node) BY ConsensusAssumption, FS_Interval DEF Node
<1>2. IsFiniteSet(S) BY <1>1, FS_Subset
<1> QED BY <1>2, FS_Subset, FS_CardinalityType

-----------------------------------------------------------------------------
(* Types: each action keeps them.                                          *)
LEMMA RaftMethods ==
  ASSUME TypeOK, NEW n, NEW term \in Nat, NEW l \in Node \cup {None}
  PROVE  /\ BecomeFollower(n, term, l) =>
              /\ currentTerm' \in [Node -> Nat]
              /\ votedFor' \in [Node -> Node \cup {None}]
              /\ role' \in [Node -> {"follower", "candidate", "leader"}]
              /\ leaderId' \in [Node -> Node \cup {None}]
BY DEF TypeOK, BecomeFollower

(* Every step keeps the types, and what the driver knows.                  *)
LEMMA TypeStep ==
  ASSUME TypeInv, [Next]_vars
  PROVE  TypeInv'
<1> USE DEF TypeInv, CallInv, WithVoter
<1>1. setup' = setup /\ setup \in Setup /\ setup.voters \subseteq Node /\ setup.beating \subseteq Node
  <2>1. setup' = setup
    BY DEF Next, vars, ShouldStartElection, StartElection, BeginCampaign, BuildVoteRequest, AskVoter,
       CompareTerms, StepDown, CheckVote, GrantVote, EndCampaign, SimulateFailure,
       HeartbeatTick, ReadTerm, SendHeartbeat
  <2> QED BY <2>1 DEF TypeOK, Setup
<1>2. call \in CallState /\ None \notin Node
  BY DEF TypeOK, None, Node
<1>3. ASSUME NEW n \in Node, ShouldStartElection(n) PROVE TypeInv'
  BY <1>1, <1>3 DEF ShouldStartElection, TypeOK, raft
<1>4. ASSUME NEW n \in Node, StartElection(n) PROVE TypeInv'
  BY <1>1, <1>4 DEF StartElection, BecomeCandidate, TypeOK
<1>5. ASSUME NEW n \in Node, BeginCampaign(n) PROVE TypeInv'
  BY <1>1, <1>5 DEF BeginCampaign, TypeOK, raft, CallState, Idle
<1>6. CASE BuildVoteRequest
  BY <1>1, <1>2, <1>6 DEF BuildVoteRequest, TypeOK, raft, CallState
<1>7. ASSUME NEW m \in Node, AskVoter(m) PROVE TypeInv'
  BY <1>1, <1>2, <1>7 DEF AskVoter, TypeOK, raft, CallState
<1>8. CASE CompareTerms
  BY <1>1, <1>2, <1>8 DEF CompareTerms, Answered, TypeOK, raft, CallState
<1>9. CASE StepDown
  <2>1. call.term \in Nat BY <1>2 DEF CallState
  <2> QED BY <1>1, <1>2, <1>9, <2>1, RaftMethods DEF StepDown, TypeOK, CallState
<1>10. CASE CheckVote
  BY <1>1, <1>2, <1>10 DEF CheckVote, Answered, TypeOK, raft, CallState
<1>11. CASE GrantVote
  BY <1>1, <1>2, <1>11 DEF GrantVote, Answered, TypeOK, CallState
<1>12. CASE EndCampaign
  <2>1. call' = Idle /\ votes' = {} /\ UNCHANGED <<expired, beat>>
    BY <1>12 DEF EndCampaign
  <2>2. /\ currentTerm' = currentTerm /\ votedFor' = votedFor
        /\ role' \in [Node -> {"follower", "candidate", "leader"}]
        /\ leaderId' \in [Node -> Node \cup {None}]
    BY <1>2, <1>12 DEF EndCampaign, BecomeLeader, TypeOK, raft, CallState
  <2> QED BY <1>1, <2>1, <2>2 DEF TypeOK, CallState, Idle
<1>13. ASSUME NEW n \in Node, SimulateFailure(n) PROVE TypeInv'
  <2>1. currentTerm[n] \in Nat BY DEF TypeOK
  <2> QED BY <1>1, <1>13, <2>1, RaftMethods DEF SimulateFailure, TypeOK
<1>14. ASSUME NEW n \in Node, HeartbeatTick(n) PROVE TypeInv'
  BY <1>1, <1>14 DEF HeartbeatTick, TypeOK, raft, BeatState, Waiting
<1>15. ASSUME NEW n \in Node, ReadTerm(n) PROVE TypeInv'
  BY <1>1, <1>15 DEF ReadTerm, Followers, TypeOK, raft, BeatState
<1>16. ASSUME NEW n \in Node, NEW m \in Node, SendHeartbeat(n, m) PROVE TypeInv'
  <2>1. beat[n].term \in Nat BY DEF TypeOK, BeatState
  <2>2. beat' \in [Node -> BeatState] /\ \A k \in Node : k \notin beat'[k].todo
    BY <1>16 DEF SendHeartbeat, TypeOK, BeatState, Waiting
  <2> QED BY <1>1, <1>16, <2>1, <2>2, RaftMethods DEF SendHeartbeat, TypeOK
<1>17. CASE UNCHANGED vars
  BY <1>17 DEF vars, raft, TypeOK
<1> QED
  BY <1>3, <1>4, <1>5, <1>6, <1>7, <1>8, <1>9, <1>10, <1>11, <1>12, <1>13, <1>14, <1>15, <1>16, <1>17
  DEF Next

(* So they hold throughout.                                                *)
LEMMA TypeInvariance == Spec => []TypeInv
<1>1. Init => TypeInv
  BY ConsensusAssumption
  DEF Init, TypeInv, TypeOK, CallInv, WithVoter, BeatState, Waiting, CallState, Idle
<1> QED BY <1>1, TypeStep, PTL DEF Spec

(* TypeOK, for any number of nodes and any drivers: no heartbeat loop has  *)
(* its own node among those it still has to make followers.                *)
THEOREM ElectionTypes == Spec => []TypeOK
<1> QED BY TypeInvariance, PTL DEF TypeInv

-----------------------------------------------------------------------------
(* LeaderKnowsItself is inductive, given that no heartbeat loop has its    *)
(* own node to go through (TypeOK).                                        *)
LEMMA KnownStep ==
  ASSUME TypeInv, TypeInv', LeaderKnowsItself, [Next]_vars
  PROVE  LeaderKnowsItself'
<1> USE DEF LeaderKnowsItself
<1>1. /\ role \in [Node -> {"follower", "candidate", "leader"}]
      /\ leaderId \in [Node -> Node \cup {None}]
      /\ None \notin Node
  BY DEF TypeInv, TypeOK, None, Node
<1>2. CASE UNCHANGED raft
  BY <1>2 DEF raft
<1>3. ASSUME NEW n \in Node, StartElection(n) PROVE LeaderKnowsItself'
  BY <1>1, <1>3 DEF StartElection, BecomeCandidate
<1>4. CASE StepDown
  BY <1>1, <1>4 DEF StepDown, BecomeFollower
<1>5. CASE GrantVote
  BY <1>5 DEF GrantVote
<1>6. CASE EndCampaign /\ HasMajority
  BY <1>1, <1>6 DEF EndCampaign, BecomeLeader
<1>7. ASSUME NEW n \in Node, SimulateFailure(n) PROVE LeaderKnowsItself'
  BY <1>1, <1>7 DEF SimulateFailure, BecomeFollower
<1>8. ASSUME NEW n \in Node, NEW m \in Node, SendHeartbeat(n, m) PROVE LeaderKnowsItself'
  <2>1. m # n BY <1>8 DEF SendHeartbeat, TypeInv, TypeOK
  <2> QED BY <1>1, <1>8, <2>1 DEF SendHeartbeat, BecomeFollower
<1>9. CASE \/ \E n \in Node : \/ ShouldStartElection(n) \/ BeginCampaign(n)
                              \/ HeartbeatTick(n) \/ ReadTerm(n)
           \/ \E m \in Node : AskVoter(m)
           \/ BuildVoteRequest \/ CompareTerms \/ CheckVote
           \/ EndCampaign /\ ~HasMajority
           \/ UNCHANGED vars
  <2>1. UNCHANGED raft
    BY <1>9 DEF ShouldStartElection, BeginCampaign, HeartbeatTick, ReadTerm, AskVoter,
       BuildVoteRequest, CompareTerms, CheckVote, EndCampaign, vars
  <2> QED BY <1>2, <2>1
<1> QED
  BY <1>3, <1>4, <1>5, <1>6, <1>7, <1>8, <1>9 DEF Next

(* A node takes itself for the leader exactly while it has the role,       *)
(* whatever drivers, timers and heartbeat loops do.                        *)
THEOREM LeaderAlwaysKnowsItself == Spec => []LeaderKnowsItself
<1>1. Init => LeaderKnowsItself
  BY DEF Init, LeaderKnowsItself, None, Node
<1>2. TypeInv /\ TypeInv' /\ LeaderKnowsItself /\ [Next]_vars => LeaderKnowsItself'
  BY KnownStep
<1> QED BY <1>1, <1>2, TypeInvariance, PTL DEF Spec

-----------------------------------------------------------------------------
(* What is known of the nodes and the campaign under a quiet driver.       *)
QuietFacts == TypeInv /\ Quiet /\ QuietRoles /\ QuietCall /\ QuietVotes

(* What follows from it at once.                                           *)
LEMMA QuietBasics ==
  ASSUME QuietFacts
  PROVE  /\ setup.voters \subseteq Node /\ setup.timers \cap setup.voters = {}
         /\ currentTerm \in [Node -> Nat]
         /\ votedFor \in [Node -> Node \cup {None}]
         /\ role \in [Node -> {"follower", "candidate", "leader"}]
         /\ call \in CallState /\ votes \subseteq Node /\ None \notin Node
         /\ call.at # "idle" => call.node \in Node \ setup.voters
         /\ call.at \in WithVoter => call.voter \in setup.voters
         /\ \A v \in setup.voters : role[v] = "follower" /\ v \notin expired
BY DEF QuietFacts, TypeInv, TypeOK, CallInv, WithVoter, Quiet, QuietRoles, QuietCall, Setup, None, Node

(* A quiet driver stays one, and its heartbeat loops never leave the start.*)
LEMMA QuietSteps ==
  ASSUME QuietFacts, [Next]_vars
  PROVE  /\ setup' = setup /\ Quiet'
         /\ \A n \in Node : ~HeartbeatTick(n) /\ ~ReadTerm(n)
         /\ \A n, m \in Node : ~SendHeartbeat(n, m)
<1>1. setup' = setup
  BY DEF Next, vars, ShouldStartElection, StartElection, BeginCampaign, BuildVoteRequest, AskVoter,
     CompareTerms, StepDown, CheckVote, GrantVote, EndCampaign, SimulateFailure,
     HeartbeatTick, ReadTerm, SendHeartbeat
<1>2. Quiet' BY <1>1 DEF QuietFacts, Quiet
<1>3. \A n \in Node : ~HeartbeatTick(n) /\ ~ReadTerm(n)
  BY DEF QuietFacts, Quiet, QuietRoles, HeartbeatTick, ReadTerm, Waiting
<1>4. \A n, m \in Node : ~SendHeartbeat(n, m)
  BY DEF QuietFacts, QuietRoles, SendHeartbeat, Waiting
<1> QED BY <1>1, <1>2, <1>3, <1>4

(* Roles: only nodes with a timer leave the role of a follower.            *)
LEMMA RolesStep ==
  ASSUME QuietFacts, [Next]_vars
  PROVE  QuietRoles'
<1> USE DEF QuietRoles
<1>1. setup' = setup BY QuietSteps
<1>2. QuietRoles BY DEF QuietFacts
<1>3. ASSUME NEW n \in Node, ShouldStartElection(n) PROVE QuietRoles'
  BY <1>1, <1>2, <1>3 DEF ShouldStartElection, raft
<1>4. ASSUME NEW n \in Node, StartElection(n) PROVE QuietRoles'
  BY <1>1, <1>2, <1>4, QuietBasics DEF StartElection, BecomeCandidate
<1>5. CASE StepDown
  BY <1>1, <1>2, <1>5, QuietBasics DEF StepDown, BecomeFollower
<1>6. CASE EndCampaign
  <2>1. call.at # "idle" /\ call.node \in Node /\ role[call.node] = "candidate"
    BY <1>6, QuietBasics DEF EndCampaign, QuietFacts, QuietCall
  <2>2. CASE HasMajority
    <3>1. role' = [role EXCEPT ![call.node] = "leader"] /\ UNCHANGED <<expired, beat>>
      BY <1>6, <2>2 DEF EndCampaign, BecomeLeader
    <3>2. call.node \in setup.timers /\ call.node \notin expired
      BY <1>2, <2>1
    <3> QED BY <1>1, <1>2, <3>1, <3>2, QuietBasics
  <2>3. CASE ~HasMajority
    BY <1>1, <1>2, <1>6, <2>3 DEF EndCampaign, raft
  <2> QED BY <2>2, <2>3
<1>7. ASSUME NEW n \in Node, SimulateFailure(n) PROVE QuietRoles'
  BY <1>1, <1>2, <1>7, QuietBasics DEF SimulateFailure, BecomeFollower
<1>8. CASE \/ \E n \in Node : BeginCampaign(n)
           \/ \E m \in Node : AskVoter(m)
           \/ BuildVoteRequest \/ CompareTerms \/ CheckVote \/ GrantVote
           \/ UNCHANGED vars
  <2>1. UNCHANGED <<role, expired, beat>>
    BY <1>8 DEF BeginCampaign, AskVoter, BuildVoteRequest, CompareTerms, CheckVote, GrantVote, vars, raft
  <2> QED BY <1>1, <1>2, <2>1
<1> QED
  BY <1>3, <1>4, <1>5, <1>6, <1>7, <1>8, QuietSteps DEF Next

(* The campaign: its candidate, its term, its voter and its votes.         *)
LEMMA CallStep ==
  ASSUME QuietFacts, TypeInv', [Next]_vars
  PROVE  QuietCall' /\ QuietVotes'
<1> USE DEF QuietCall, QuietVotes, WithVoter
<1>1. setup' = setup BY QuietSteps
<1>2. QuietCall /\ QuietVotes BY DEF QuietFacts
<1>3. ASSUME NEW n \in Node, ShouldStartElection(n) PROVE QuietCall' /\ QuietVotes'
  BY <1>1, <1>2, <1>3 DEF ShouldStartElection, raft
<1>4. ASSUME NEW n \in Node, StartElection(n) PROVE QuietCall' /\ QuietVotes'
  <2>1. role[n] = "follower" /\ n \notin setup.voters
    BY <1>4, QuietBasics DEF StartElection, QuietFacts, QuietRoles
  <2>2. call.at # "idle" => call.node # n
    BY <1>2, <2>1
  <2>3. UNCHANGED <<call, votes>>
    BY <1>4 DEF StartElection
  <2>4. \A k \in Node \ {n} : /\ currentTerm'[k] = currentTerm[k]
                             /\ votedFor'[k] = votedFor[k] /\ role'[k] = role[k]
    BY <1>4, QuietBasics DEF StartElection, BecomeCandidate
  <2> QED BY <1>1, <1>2, <2>1, <2>2, <2>3, <2>4, QuietBasics
<1>5. ASSUME NEW n \in Node, BeginCampaign(n) PROVE QuietCall' /\ QuietVotes'
  BY <1>1, <1>2, <1>5 DEF BeginCampaign, raft, Idle
<1>6. CASE BuildVoteRequest
  BY <1>1, <1>2, <1>6, QuietBasics DEF BuildVoteRequest, raft, CallState
<1>7. ASSUME NEW m \in Node, AskVoter(m) PROVE QuietCall' /\ QuietVotes'
  BY <1>1, <1>2, <1>7, QuietBasics DEF AskVoter, raft, CallState
<1>8. CASE CompareTerms
  <2>1. UNCHANGED <<currentTerm, votedFor, role, votes>> /\ call.at = "comparing"
    BY <1>8 DEF CompareTerms, raft
  <2>2. /\ call.voter \in Node /\ currentTerm[call.voter] \in Nat
        /\ call.term \in Nat
    BY <2>1, QuietBasics DEF CallState
  <2>3. CASE call' = [call EXCEPT !.at = "asking", !.voter = None]
    BY <1>1, <1>2, <2>1, <2>3, QuietBasics DEF CallState
  <2>4. CASE call.term > currentTerm[call.voter] /\ call' = [call EXCEPT !.at = "steppingDown"]
    BY <1>1, <1>2, <2>1, <2>2, <2>4, QuietBasics DEF CallState
  <2>5. CASE call.term = currentTerm[call.voter] /\ call' = [call EXCEPT !.at = "checking"]
    BY <1>1, <1>2, <2>1, <2>2, <2>5, QuietBasics DEF CallState
  <2> QED BY <1>8, <2>3, <2>4, <2>5 DEF CompareTerms, Answered
<1>9. CASE StepDown
  <2>1. /\ call.voter \in setup.voters /\ call.voter \in Node /\ call.voter # call.node
        /\ currentTerm[call.voter] < call.term /\ call.voter \notin votes
    BY <1>2, <1>9, QuietBasics DEF StepDown, CallState
  <2>2. /\ call' = [call EXCEPT !.at = "checking"] /\ votes' = votes
        /\ currentTerm'[call.voter] = call.term
        /\ \A k \in Node \ {call.voter} :
             /\ currentTerm'[k] = currentTerm[k]
             /\ votedFor'[k] = votedFor[k] /\ role'[k] = role[k]
    BY <1>9, <2>1, QuietBasics DEF StepDown, BecomeFollower
  <2> QED BY <1>1, <1>2, <1>9, <2>1, <2>2, QuietBasics DEF StepDown, CallState
<1>10. CASE CheckVote
  BY <1>1, <1>2, <1>10, QuietBasics DEF CheckVote, CanVote, Answered, raft, CallState
<1>11. CASE GrantVote
  <2>1. /\ call.voter \in setup.voters /\ call.voter \in Node /\ call.voter # call.node
        /\ currentTerm[call.voter] = call.term
    BY <1>2, <1>11, QuietBasics DEF GrantVote
  <2>2. /\ votedFor'[call.voter] = call.node
        /\ \A k \in Node \ {call.voter} : votedFor'[k] = votedFor[k]
        /\ UNCHANGED <<currentTerm, role>>
        /\ votes' = votes \cup {call.voter}
        /\ call' = [call EXCEPT !.at = "asking", !.voter = None]
    BY <1>11, <2>1, QuietBasics DEF GrantVote, Answered
  <2> QED BY <1>1, <1>2, <1>11, <2>1, <2>2, QuietBasics DEF GrantVote, CallState
<1>12. CASE EndCampaign
  BY <1>12 DEF EndCampaign, Idle
<1>13. ASSUME NEW n \in Node, SimulateFailure(n) PROVE QuietCall' /\ QuietVotes'
  BY <1>2, <1>13 DEF SimulateFailure, Idle
<1>14. CASE UNCHANGED vars
  BY <1>2, <1>14 DEF vars, raft
<1> QED
  BY <1>3, <1>4, <1>5, <1>6, <1>7, <1>8, <1>9, <1>10, <1>11, <1>12, <1>13, <1>14, QuietSteps DEF Next

-----------------------------------------------------------------------------
(* A voter goes to a later term, or fills in its vote, or stays.           *)
VotersStep ==
  \A v \in setup.voters :
    \/ currentTerm'[v] = currentTerm[v] /\ votedFor'[v] = votedFor[v]
    \/ currentTerm'[v] = currentTerm[v] /\ votedFor[v] = None
    \/ currentTerm'[v] \in Nat /\ currentTerm'[v] > currentTerm[v]

(* Then no candidate gets more votes to hope for.                          *)
LEMMA VotersKept ==
  ASSUME QuietFacts, VotersStep, NEW m \in Node, NEW t \in Nat
  PROVE  {v \in setup.voters : \/ currentTerm'[v] < t
                               \/ currentTerm'[v] = t /\ votedFor'[v] \in {None, m}}
           \subseteq Obtainable(m, t)
<1> SUFFICES ASSUME NEW v \in setup.voters,
                    \/ currentTerm'[v] < t
                    \/ currentTerm'[v] = t /\ votedFor'[v] \in {None, m}
             PROVE  \/ currentTerm[v] < t
                    \/ currentTerm[v] = t /\ votedFor[v] \in {None, m}
  BY DEF Obtainable
<1>1. currentTerm[v] \in Nat
  BY QuietBasics
<1>2. CASE currentTerm'[v] = currentTerm[v] /\ votedFor'[v] = votedFor[v]
  BY <1>2
<1>3. CASE currentTerm'[v] = currentTerm[v] /\ votedFor[v] = None
  BY <1>3
<1>4. CASE currentTerm'[v] \in Nat /\ currentTerm'[v] > currentTerm[v]
  BY <1>1, <1>4
<1> QED BY <1>2, <1>3, <1>4 DEF VotersStep

(* While the voters step like that, who was blocked stays so: the others   *)
(* of the term of a leader that leads already.                             *)
LEMMA BlockedKept ==
  ASSUME QuietFacts, OthersBlocked, setup' = setup, VotersStep,
         NEW l \in Node, role[l] = "leader", currentTerm'[l] = currentTerm[l],
         NEW m \in Node \ setup.voters, m # l
  PROVE  Cardinality({v \in setup'.voters :
                        \/ currentTerm'[v] < currentTerm'[l]
                        \/ currentTerm'[v] = currentTerm'[l] /\ votedFor'[v] \in {None, m}}
                     \cup {m}) < N \div 2 + 1
<1> DEFINE t == currentTerm[l]
           before == Obtainable(m, t) \cup {m}
           after == {v \in setup.voters :
                       \/ currentTerm'[v] < t
                       \/ currentTerm'[v] = t /\ votedFor'[v] \in {None, m}} \cup {m}
<1>1. t \in Nat BY QuietBasics
<1>2. Cardinality(before) < N \div 2 + 1 BY DEF OthersBlocked
<1>3. after \subseteq before
  <2> HIDE DEF t
  <2>1. {v \in setup.voters : \/ currentTerm'[v] < t
                              \/ currentTerm'[v] = t /\ votedFor'[v] \in {None, m}}
          \subseteq Obtainable(m, t)
    BY <1>1, VotersKept
  <2> QED BY <2>1
<1>4. before \in SUBSET Node
  BY QuietBasics DEF Obtainable
<1>5. /\ Cardinality(after) \in Nat /\ Cardinality(before) \in Nat
      /\ Cardinality(after) <= Cardinality(before)
  <2> HIDE DEF after, before
  <2> QED BY <1>3, <1>4, SmallerMinority
<1>6. N \in Nat BY ConsensusAssumption
<1>7. Cardinality(after) < N \div 2 + 1
  <2> HIDE DEF after, before
  <2> QED BY <1>2, <1>5, <1>6
<1> QED BY <1>7

(* Steps by which nobody takes the lead.                                   *)
LEMMA NoNewLeader ==
  ASSUME QuietFacts, OthersBlocked, OneLeaderPerTerm, [Next]_vars,
         ~(EndCampaign /\ HasMajority)
  PROVE  OthersBlocked' /\ OneLeaderPerTerm'
<1>1. setup' = setup /\ Quiet BY QuietSteps DEF QuietFacts
<1>2. ASSUME \A l \in Node :
               role'[l] = "leader" => role[l] = "leader" /\ currentTerm'[l] = currentTerm[l],
             VotersStep
      PROVE  OthersBlocked' /\ OneLeaderPerTerm'
  <2>1. OthersBlocked'
    <3> SUFFICES ASSUME NEW l \in Node, NEW m \in Node \ setup'.voters, role'[l] = "leader", m # l
                 PROVE  Cardinality({v \in setup'.voters :
                          \/ currentTerm'[v] < currentTerm'[l]
                          \/ currentTerm'[v] = currentTerm'[l] /\ votedFor'[v] \in {None, m}}
                          \cup {m}) < N \div 2 + 1
      BY DEF OthersBlocked, Obtainable
    <3>1. role[l] = "leader" /\ currentTerm'[l] = currentTerm[l] /\ m \in Node \ setup.voters
      BY <1>1, <1>2
    <3> QED BY <1>1, <1>2, <3>1, BlockedKept
  <2>2. OneLeaderPerTerm' BY <1>1, <1>2 DEF OneLeaderPerTerm
  <2> QED BY <2>1, <2>2
<1>3. CASE UNCHANGED raft
  BY <1>2, <1>3 DEF raft, VotersStep
<1>4. ASSUME NEW n \in Node, StartElection(n) PROVE OthersBlocked' /\ OneLeaderPerTerm'
  BY <1>2, <1>4, QuietBasics DEF StartElection, BecomeCandidate, QuietFacts, QuietRoles, VotersStep
<1>5. CASE StepDown
  <2>1. /\ call.voter \in setup.voters /\ call.voter \in Node
        /\ currentTerm[call.voter] < call.term /\ call.term \in Nat
    BY <1>5, QuietBasics DEF StepDown, CallState, QuietFacts, QuietCall, WithVoter
  <2> QED BY <1>2, <1>5, <2>1, QuietBasics DEF StepDown, BecomeFollower, VotersStep
<1>6. CASE GrantVote
  <2>1. /\ call.voter \in Node /\ votedFor[call.voter] \in {None, call.node}
    BY <1>6, QuietBasics DEF GrantVote, QuietFacts, QuietCall, WithVoter
  <2> QED BY <1>2, <1>6, <2>1, QuietBasics DEF GrantVote, VotersStep
<1>7. ASSUME NEW n \in Node, SimulateFailure(n) PROVE OthersBlocked' /\ OneLeaderPerTerm'
  BY <1>2, <1>7, QuietBasics DEF SimulateFailure, BecomeFollower, VotersStep
<1>8. CASE \/ \E n \in Node : ShouldStartElection(n) \/ BeginCampaign(n)
           \/ \E m \in Node : AskVoter(m)
           \/ BuildVoteRequest \/ CompareTerms \/ CheckVote \/ EndCampaign
           \/ UNCHANGED vars
  <2>1. UNCHANGED raft
    BY <1>8 DEF ShouldStartElection, BeginCampaign, AskVoter,
       BuildVoteRequest, CompareTerms, CheckVote, EndCampaign, vars
  <2> QED BY <1>3, <2>1
<1> QED
  BY <1>4, <1>5, <1>6, <1>7, <1>8, QuietSteps DEF Next

(* The step by which a candidate takes the lead: its votes are out of      *)
(* everybody else's reach, and another leader of its term would have put   *)
(* them out of its own.                                                    *)
LEMMA WinStep ==
  ASSUME QuietFacts, OthersBlocked, OneLeaderPerTerm, EndCampaign, HasMajority
  PROVE  OthersBlocked' /\ OneLeaderPerTerm'
<1> DEFINE c == call.node
           t == currentTerm[call.node]
<1>1. /\ c \in Node \ setup.voters /\ role[c] = "candidate" /\ t \in Nat
      /\ \A v \in votes \ {c} : v \in setup.voters /\ currentTerm[v] = t /\ votedFor[v] = c
  BY QuietBasics DEF EndCampaign, QuietFacts, QuietCall, QuietVotes
<1>2. /\ role' = [role EXCEPT ![c] = "leader"]
      /\ UNCHANGED <<setup, currentTerm, votedFor>>
  BY DEF EndCampaign, BecomeLeader
<1> HIDE DEF c, t
<1>3. c \in Node /\ t = currentTerm[c] BY <1>1 DEF c, t
<1>4. /\ votes \in SUBSET Node /\ Cardinality(votes) >= N \div 2 + 1
      /\ N \in Nat
  BY QuietBasics, ConsensusAssumption DEF HasMajority
<1>5. ASSUME NEW l \in Node, role[l] = "leader", currentTerm[l] = t
      PROVE  FALSE
  <2> DEFINE reach == Obtainable(c, t) \cup {c}
  <2>1. l # c BY <1>1, <1>5
  <2>2. Cardinality(reach) < N \div 2 + 1
    BY <1>1, <1>5, <2>1 DEF OthersBlocked
  <2>3. votes \subseteq reach /\ reach \in SUBSET Node
    BY <1>1, <1>3, QuietBasics DEF Obtainable
  <2> HIDE DEF reach
  <2>4. /\ Cardinality(votes) \in Nat /\ Cardinality(reach) \in Nat
        /\ Cardinality(votes) <= Cardinality(reach)
    BY <2>3, SmallerMinority
  <2> QED BY <1>4, <2>2, <2>4
<1>6. OneLeaderPerTerm'
  <2> SUFFICES ASSUME NEW m \in Node, NEW n \in Node, role'[m] = "leader", role'[n] = "leader",
                      currentTerm'[m] = currentTerm'[n]
               PROVE  m = n
    BY DEF OneLeaderPerTerm
  <2>1. \A k \in Node : role'[k] = "leader" => k = c \/ role[k] = "leader"
    BY <1>2, QuietBasics
  <2>2. CASE role[m] = "leader" /\ role[n] = "leader"
    BY <1>2, <2>2 DEF OneLeaderPerTerm, QuietFacts
  <2>3. CASE m = c \/ n = c
    BY <1>2, <1>3, <1>5, <2>1, <2>3
  <2> QED BY <2>1, <2>2, <2>3
<1>7. OthersBlocked'
  <2> SUFFICES ASSUME NEW l \in Node, NEW m \in Node \ setup'.voters, role'[l] = "leader", m # l
               PROVE  Cardinality({v \in setup'.voters :
                        \/ currentTerm'[v] < currentTerm'[l]
                        \/ currentTerm'[v] = currentTerm'[l] /\ votedFor'[v] \in {None, m}}
                        \cup {m}) < N \div 2 + 1
    BY DEF OthersBlocked, Obtainable
  <2>1. Cardinality(Obtainable(m, currentTerm[l]) \cup {m}) < N \div 2 + 1
    <3>1. CASE l # c
      <4>1. role[l] = "leader" BY <1>2, <3>1, QuietBasics
      <4> QED BY <1>2, <4>1 DEF OthersBlocked
    <3>2. CASE l = c
      <4> DEFINE reach == Obtainable(m, t) \cup {m}
      <4>1. m # c /\ m \notin setup.voters /\ c # None BY <1>2, <1>3, <3>2, QuietBasics
      <4>2. reach \cap votes = {}
        <5>1. m \notin votes BY <1>1, <4>1
        <5>2. \A v \in Obtainable(m, t) : v \notin votes
          BY <1>1, <1>3, <4>1, QuietBasics DEF Obtainable
        <5> QED BY <5>1, <5>2
      <4>3. reach \in SUBSET Node
        BY QuietBasics DEF Obtainable
      <4> HIDE DEF reach
      <4>4. Cardinality(reach) < N \div 2 + 1
        BY <1>4, <4>2, <4>3, DisjointMinority
      <4> QED BY <1>3, <3>2, <4>4 DEF reach
    <3> QED BY <3>1, <3>2
  <2> QED BY <1>2, <2>1 DEF Obtainable
<1> QED BY <1>6, <1>7

(* A driver is quiet from the start or never.                              *)
LEMMA ElectionStep ==
  ASSUME ElectionInv, [Next]_vars
  PROVE  ElectionInv'
<1>1. TypeInv' BY TypeStep DEF ElectionInv
<1>2. CASE Quiet
  <2>1. QuietFacts /\ OthersBlocked /\ OneLeaderPerTerm
    BY <1>2 DEF ElectionInv, QuietInv, QuietFacts
  <2>2. QuietRoles' /\ QuietCall' /\ QuietVotes'
    BY <1>1, <2>1, RolesStep, CallStep
  <2>3. OthersBlocked' /\ OneLeaderPerTerm'
    <3>1. CASE EndCampaign /\ HasMajority BY <2>1, <3>1, WinStep
    <3>2. CASE ~(EndCampaign /\ HasMajority) BY <2>1, <3>2, NoNewLeader
    <3> QED BY <3>1, <3>2
  <2> QED BY <1>1, <2>2, <2>3 DEF ElectionInv, QuietInv
<1>3. CASE ~Quiet
  <2>1. setup' = setup
    BY DEF Next, vars, ShouldStartElection, StartElection, BeginCampaign, BuildVoteRequest, AskVoter,
       CompareTerms, StepDown, CheckVote, GrantVote, EndCampaign, SimulateFailure,
       HeartbeatTick, ReadTerm, SendHeartbeat
  <2>2. ~Quiet' BY <1>3, <2>1 DEF Quiet
  <2> QED BY <1>1, <2>2 DEF ElectionInv, QuietInv, OneLeaderPerTerm
<1> QED BY <1>2, <1>3

(* No two nodes ever lead in one term under a quiet driver, whatever the   *)
(* number of nodes, voters, terms, candidacies and failures.               *)
THEOREM OneLeaderInEveryTerm == Spec => []OneLeaderPerTerm
<1>1. Init => ElectionInv
  <2> SUFFICES ASSUME Init PROVE ElectionInv
    OBVIOUS
  <2>1. TypeInv
    BY ConsensusAssumption
    DEF Init, TypeInv, TypeOK, CallInv, WithVoter, BeatState, Waiting, CallState, Idle
  <2>2. QuietInv /\ OneLeaderPerTerm
    BY DEF Init, QuietInv, QuietRoles, QuietCall, QuietVotes, OthersBlocked, OneLeaderPerTerm, Idle
  <2> QED BY <2>1, <2>2 DEF ElectionInv
<1>2. ElectionInv /\ [Next]_vars => ElectionInv'
  BY ElectionStep
<1>3. ElectionInv => OneLeaderPerTerm
  BY DEF ElectionInv
<1> QED BY <1>1, <1>2, <1>3, PTL DEF Spec
=============================================================================
