------------------------------ MODULE Consensus ------------------------------
(***************************************************************************)
(* internal/consensus: terms, votes, elections and leader heartbeats.  The *)
(* node binary does not use this package; the drivers under cmd/ do, with  *)
(* the states of all the nodes in one process.                             *)
(*                                                                         *)
(* Each method of RaftState holds its mutex and is atomic; what is made of *)
(* several of them is not.  Three kinds of goroutines call them: a timer   *)
(* per node (election.go), a heartbeat loop per node (heartbeat.go) and    *)
(* the driver, which runs one campaign at a time (vote.go, as in           *)
(* cmd/test_member4).  The 150 to 300 ms of a timeout and the interval of  *)
(* the heartbeats are left out: a follower's timer may expire whenever it  *)
(* is looked at.                                                           *)
(***************************************************************************)
EXTENDS Naturals, FiniteSets

CONSTANTS
  N,            \* number of nodes
  Setups        \* the drivers considered

Node == 1..N
None == 0

(* A driver: the nodes whose election timer it starts, the nodes it asks   *)
(* for their vote, and the nodes whose leader runs a HeartbeatManager with *)
(* the others as followers; only cmd/test_member4 has these.  Bound:       *)
(* terms, the terms elections are started for.                             *)
Setup == [timers : SUBSET Node, voters : SUBSET Node, beating : SUBSET Node, terms : Nat]

ASSUME ConsensusAssumption ==
  N \in Nat \ {0} /\ Setups \subseteq Setup


VARIABLES
  setup,        \* the driver of this execution
  currentTerm,  \* RaftState.CurrentTerm
  votedFor,     \* RaftState.VotedFor
  role,         \* RaftState.Role
  leaderId,     \* RaftState.LeaderID
  expired,      \* the timers between shouldStartElection and BecomeCandidate
  beat,         \* where each node's heartbeat loop is
  call,         \* the driver's campaign, with the HandleVoteRequest it is in
  votes         \* VoteManager.votes of that campaign

raft == <<currentTerm, votedFor, role, leaderId>>
vars == <<setup, raft, expired, beat, call, votes>>

(* Mutation: a leader follows itself.                                      *)
AllBeating(n) == setup.beating
Followers(n) == setup.beating \ {n}

(* A heartbeat loop waits for its ticker, has found its node to be the     *)
(* leader, or is going through the followers with the term it read then.   *)
Waiting == [at |-> "waiting", term |-> 0, todo |-> {}]
BeatState == [at : {"waiting", "checked", "sending"}, term : Nat, todo : SUBSET Node]

(* The driver is idle, has found node a candidate, or has built its vote   *)
(* request and asks the voters, one of whom is comparing the terms,        *)
(* stepping down, checking its vote or granting it.                        *)
Idle == [at |-> "idle", node |-> None, term |-> 0, voter |-> None, asked |-> {}]
CallState ==
  [at : {"idle", "candidate", "asking", "comparing", "steppingDown", "checking", "granting"},
   node : Node \cup {None}, term : Nat, voter : Node \cup {None}, asked : SUBSET Node]

TypeOK ==
  /\ setup \in Setup
  /\ currentTerm \in [Node -> Nat]
  /\ votedFor \in [Node -> Node \cup {None}]
  /\ role \in [Node -> {"follower", "candidate", "leader"}]
  /\ leaderId \in [Node -> Node \cup {None}]
  /\ expired \subseteq Node
  /\ beat \in [Node -> BeatState] /\ \A n \in Node : n \notin beat[n].todo
  /\ call \in CallState
  /\ votes \subseteq Node

(* NewRaftState *)
Init ==
  /\ setup \in Setups
  /\ currentTerm = [n \in Node |-> 0]
  /\ votedFor = [n \in Node |-> None]
  /\ role = [n \in Node |-> "follower"]
  /\ leaderId = [n \in Node |-> None]
  /\ expired = {}
  /\ beat = [n \in Node |-> Waiting]
  /\ call = Idle
  /\ votes = {}

-----------------------------------------------------------------------------
(* RaftState *)

(* The vote is forgotten even when the term stays.                         *)
BecomeFollower(n, term, l) ==
  /\ currentTerm' = [currentTerm EXCEPT ![n] = term]
  /\ role' = [role EXCEPT ![n] = "follower"]
  /\ leaderId' = [leaderId EXCEPT ![n] = l]
  /\ votedFor' = [votedFor EXCEPT ![n] = None]

BecomeCandidate(n) ==
  /\ currentTerm' = [currentTerm EXCEPT ![n] = @ + 1]
  /\ role' = [role EXCEPT ![n] = "candidate"]
  /\ leaderId' = [leaderId EXCEPT ![n] = None]
  /\ votedFor' = [votedFor EXCEPT ![n] = n]

(* Neither the role nor the term is looked at again.  Mutation: the node   *)
(* does not note that it leads.                                            *)
BecomeLeaderUnnoted(n) ==
  /\ role' = [role EXCEPT ![n] = "leader"]
  /\ UNCHANGED <<currentTerm, votedFor, leaderId>>
BecomeLeader(n) ==
  /\ role' = [role EXCEPT ![n] = "leader"]
  /\ leaderId' = [leaderId EXCEPT ![n] = n]
  /\ UNCHANGED <<currentTerm, votedFor>>

(* Mutation: a vote cast before does not count.                            *)
CanVoteAgain(n, candidate, term) == term >= currentTerm[n] /\ candidate # n
CanVote(n, candidate, term) ==
  /\ term >= currentTerm[n]
  /\ votedFor[n] \in {None, candidate}

-----------------------------------------------------------------------------
(* ElectionTimer.Start: the loop looks at the role, then starts an         *)
(* election without looking again.                                         *)
ShouldStartElection(n) ==
  /\ n \in setup.timers \ expired
  /\ role[n] = "follower"
  /\ currentTerm[n] < setup.terms
  /\ expired' = expired \cup {n}
  /\ UNCHANGED <<setup, raft, beat, call, votes>>

StartElection(n) ==
  /\ n \in expired
  /\ BecomeCandidate(n)
  /\ expired' = expired \ {n}
  /\ UNCHANGED <<setup, beat, call, votes>>

-----------------------------------------------------------------------------
(* A campaign of the driver *)

(* GetRole is "candidate": NewVoteManager, Reset, and the node's own vote. *)
BeginCampaign(n) ==
  /\ call = Idle
  /\ role[n] = "candidate"
  /\ votes' = {n}
  /\ call' = [Idle EXCEPT !.at = "candidate", !.node = n, !.asked = {n}]
  /\ UNCHANGED <<setup, raft, expired, beat>>

BuildVoteRequest ==
  /\ call.at = "candidate"
  /\ call' = [call EXCEPT !.at = "asking", !.term = currentTerm[call.node]]
  /\ UNCHANGED <<setup, raft, expired, beat, votes>>

(* HandleVoteRequest of the next voter, up to the first two looks at its   *)
(* term, which are one step.                                               *)
AskVoter(m) ==
  /\ call.at = "asking"
  /\ m \in setup.voters \ call.asked
  /\ call' = [call EXCEPT !.at = "comparing", !.voter = m, !.asked = @ \cup {m}]
  /\ UNCHANGED <<setup, raft, expired, beat, votes>>

Answered == [call EXCEPT !.at = "asking", !.voter = None]

CompareTerms ==
  /\ call.at = "comparing"
  /\ \/ call.term < currentTerm[call.voter] /\ call' = Answered
     \/ call.term > currentTerm[call.voter] /\ call' = [call EXCEPT !.at = "steppingDown"]
     \/ call.term = currentTerm[call.voter] /\ call' = [call EXCEPT !.at = "checking"]
  /\ UNCHANGED <<setup, raft, expired, beat, votes>>

StepDown ==
  /\ call.at = "steppingDown"
  /\ BecomeFollower(call.voter, call.term, None)
  /\ call' = [call EXCEPT !.at = "checking"]
  /\ UNCHANGED <<setup, expired, beat, votes>>

CheckVote ==
  /\ call.at = "checking"
  /\ call' = IF CanVote(call.voter, call.node, call.term)
               THEN [call EXCEPT !.at = "granting"] ELSE Answered
  /\ UNCHANGED <<setup, raft, expired, beat, votes>>

(* VoteFor, and RecordVote of the granted vote.                            *)
GrantVote ==
  /\ call.at = "granting"
  /\ votedFor' = [votedFor EXCEPT ![call.voter] = call.node]
  /\ votes' = votes \cup {call.voter}
  /\ call' = Answered
  /\ UNCHANGED <<setup, currentTerm, role, leaderId, expired, beat>>

HasMajority == Cardinality(votes) >= N \div 2 + 1

(* The driver has asked whom it wanted to.                                 *)
EndCampaign ==
  /\ call.at = "asking"
  /\ IF HasMajority THEN BecomeLeader(call.node) ELSE UNCHANGED raft
  /\ call' = Idle
  /\ votes' = {}
  /\ UNCHANGED <<setup, expired, beat>>

(* The failure of a leader that the drivers simulate:                      *)
(* BecomeFollower(GetCurrentTerm(), "").                                   *)
SimulateFailure(n) ==
  /\ call = Idle
  /\ role[n] = "leader"
  /\ BecomeFollower(n, currentTerm[n], None)
  /\ UNCHANGED <<setup, expired, beat, call, votes>>

-----------------------------------------------------------------------------
(* HeartbeatManager.Start: the loop looks at the role; sendHeartbeats then *)
(* reads the term, and makes each of its followers one, whatever the       *)
(* follower's own term is.                                                 *)
HeartbeatTick(n) ==
  /\ n \in setup.beating
  /\ beat[n] = Waiting
  /\ role[n] = "leader"
  /\ beat' = [beat EXCEPT ![n].at = "checked"]
  /\ UNCHANGED <<setup, raft, expired, call, votes>>

ReadTerm(n) ==
  /\ beat[n].at = "checked"
  /\ beat' = [beat EXCEPT ![n] = [at |-> "sending", term |-> currentTerm[n], todo |-> Followers(n)]]
  /\ UNCHANGED <<setup, raft, expired, call, votes>>

SendHeartbeat(n, m) ==
  /\ beat[n].at = "sending"
  /\ m \in beat[n].todo
  /\ BecomeFollower(m, beat[n].term, n)
  /\ beat' = IF beat[n].todo = {m} THEN [beat EXCEPT ![n] = Waiting]
                                   ELSE [beat EXCEPT ![n].todo = @ \ {m}]
  /\ UNCHANGED <<setup, expired, call, votes>>

Next ==
  \/ \E n \in Node : ShouldStartElection(n)
  \/ \E n \in Node : StartElection(n)
  \/ \E n \in Node : BeginCampaign(n)
  \/ BuildVoteRequest
  \/ \E m \in Node : AskVoter(m)
  \/ CompareTerms
  \/ StepDown
  \/ CheckVote
  \/ GrantVote
  \/ EndCampaign
  \/ \E n \in Node : SimulateFailure(n)
  \/ \E n \in Node : HeartbeatTick(n)
  \/ \E n \in Node : ReadTerm(n)
  \/ \E n, m \in Node : SendHeartbeat(n, m)

Spec == Init /\ [][Next]_vars
-----------------------------------------------------------------------------
(* Under a driver whose voters do not campaign and that sends no           *)
(* heartbeats no two nodes lead in one term, however candidacies,          *)
(* campaigns and failures interleave.                                      *)
Quiet == setup.timers \cap setup.voters = {} /\ setup.beating = {}
OneLeaderPerTerm ==
  Quiet =>
    \A m, n \in Node :
      role[m] = "leader" /\ role[n] = "leader" /\ currentTerm[m] = currentTerm[n] => m = n

(* A node takes itself for the leader exactly while it has the role, and a *)
(* candidate knows of none, whichever goroutine changed it last.           *)
LeaderKnowsItself ==
  \A n \in Node : /\ leaderId[n] = n <=> role[n] = "leader"
                  /\ role[n] = "candidate" => leaderId[n] = None

(* "Which candidate this node voted for in the current term": a follower   *)
(* does not forget its vote, or move it to another candidate, before its   *)
(* term changes.                                                           *)
VoteOfTheTerm ==
  [][\A n \in Node :
       role[n] = "follower" /\ votedFor[n] # None /\ votedFor'[n] # votedFor[n]
         => currentTerm'[n] # currentTerm[n]]_vars
=============================================================================
