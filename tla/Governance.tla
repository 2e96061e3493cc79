----------------------------- MODULE Governance -----------------------------
(***************************************************************************)
(* contracts/src/governance/Governor.sol, Timelock.sol and the dispatcher  *)
(* contracts/src/bridge/WormholeDispatcher.sol: proposals, votes from a    *)
(* snapshot, the queue with its delay, local calls and published messages. *)
(* A transaction is one action, a revert leaves the state alone.  Both     *)
(* contracts mark what they do before the call they make and write nothing *)
(* after it, so a call that reenters is one more transaction that follows. *)
(***************************************************************************)
EXTENDS Integers, FiniteSets, Sequences, FiniteSetsExt

CONSTANTS
  Voters,         \* token holders with delegated votes
  Guardian,       \* holds GOVERNANCE_GUARDIAN_ROLE
  InitialVotes,   \* votes of each holder at the start
  Home,           \* block.chainid
  Actions,        \* actions proposed: [chain, name, value]
  Settings,       \* for every parameter, the values it may be set to
  InitialParams,  \* the parameters at deployment
  AdminSettings,  \* bound on what the admin sets: [name, value]
  MaxProposals,   \* bound on the proposals made
  MaxChanges,     \* bound on transfers of a vote and on what the admin sets
  MaxTime         \* bound on the clock

QuorumDenominator == 100      \* _QUORUM_DENOMINATOR

(* `routed`: a dispatcher is set and has a route to the other chain. *)
Parameters == {"votingDelay", "votingPeriod", "proposalThreshold",
               "quorumNumerator", "delay", "routed"}

ASSUME GovernanceAssumption ==
  /\ IsFiniteSet(Voters)
  /\ InitialVotes \in [Voters -> Nat]
  /\ DOMAIN Settings = Parameters
  /\ Settings["votingDelay"] \subseteq Nat
  /\ Settings["votingPeriod"] \subseteq Nat \ {0}
  /\ Settings["proposalThreshold"] \subseteq Nat
  /\ Settings["quorumNumerator"] \subseteq 1..QuorumDenominator
  /\ Settings["delay"] \subseteq Nat \ {0}
  /\ Settings["routed"] \subseteq BOOLEAN
  /\ DOMAIN InitialParams = Parameters
  /\ \A p \in Parameters : InitialParams[p] \in Settings[p]
  /\ \A a \in Actions \cup AdminSettings :
       a.name \in Parameters => a.value \in Settings[a.name]
  /\ MaxProposals \in Nat /\ MaxChanges \in Nat
  /\ MaxTime \in Nat

VARIABLES
  now,            \* block.timestamp
  votes,          \* AegisToken: votes now
  before,         \* votes at the end of the second before
  snapshot,       \* votes at the end of a proposal's voteStart
  params,         \* parameters of the governor, the timelock and the route
  proposalCount, proposals,       \* the governor's
  ballots,        \* _hasVoted, with the support chosen
  operationCount, operations,     \* the timelock's
  published,      \* messages the dispatcher has published
  performed,      \* history: when a proposal's action was called or published
  changes         \* how often the bounded steps were taken

token     == <<votes, before, snapshot>>
governor  == <<proposalCount, proposals, ballots>>
timelock  == <<operationCount, operations, published, performed>>
vars == <<now, token, params, governor, timelock, changes>>

ProposalIds == 1..MaxProposals

NoAction == [chain |-> Home, name |-> "none", value |-> 0]

NoProposal ==
  [proposer |-> "nobody", action |-> NoAction, voteStart |-> 0, voteEnd |-> 0,
   state |-> "NONE", forVotes |-> 0, againstVotes |-> 0, abstainVotes |-> 0,
   operationId |-> 0]

NoOperation == [action |-> NoAction, executableAt |-> 0, state |-> "NONE"]

Supply == SumFunction(InitialVotes)

-----------------------------------------------------------------------------
(* Governor: the state of a proposal. *)

Quorum == (Supply * params["quorumNumerator"]) \div QuorumDenominator

Participation(p) == p.forVotes + p.againstVotes + p.abstainVotes

Outcome(p) ==
  IF Participation(p) < Quorum \/ p.forVotes <= p.againstVotes
  THEN "DEFEATED" ELSE "SUCCEEDED"

(* What is derived until the proposal is queued or cancelled. *)
LiveState(id) ==
  LET p == proposals[id]
  IN IF p.state # "PENDING" THEN p.state
     ELSE IF now <= p.voteStart THEN "PENDING"
     ELSE IF now <= p.voteEnd THEN "ACTIVE"
     ELSE Outcome(p)

Reachable(action) == action.chain = Home \/ params["routed"]

-----------------------------------------------------------------------------
(* Governor: operations. *)

Propose(who, action) ==
  LET id == proposalCount + 1
      voteStart == now + params["votingDelay"]
      voteEnd == voteStart + params["votingPeriod"]
  IN /\ id <= MaxProposals
     /\ voteEnd + 2 <= MaxTime     \* bound: it can be queued and waited for
     /\ Reachable(action)
     /\ before[who] >= params["proposalThreshold"]
     /\ proposalCount' = id
     /\ proposals' = [proposals EXCEPT ![id] =
          [NoProposal EXCEPT !.proposer = who, !.action = action,
             !.voteStart = voteStart, !.voteEnd = voteEnd,
             !.state = "PENDING"]]
     /\ UNCHANGED <<now, token, params, ballots, timelock, changes>>

Support == {"forVotes", "againstVotes", "abstainVotes"}
NotVoted == "none"

(* Votes count as they stand when they are cast. *)
MutantCastVote(who, id, support) ==
  /\ LiveState(id) = "ACTIVE"
  /\ ballots[id][who] = NotVoted
  /\ votes[who] > 0
  /\ ballots' = [ballots EXCEPT ![id][who] = support]
  /\ proposals' = [proposals EXCEPT ![id][support] = @ + votes[who]]
  /\ UNCHANGED <<now, token, params, proposalCount, timelock, changes>>

CastVote(who, id, support) ==
  LET weight == snapshot[id][who]
  IN /\ LiveState(id) = "ACTIVE"
     /\ ballots[id][who] = NotVoted
     /\ weight > 0
     /\ ballots' = [ballots EXCEPT ![id][who] = support]
     /\ proposals' = [proposals EXCEPT ![id][support] = @ + weight]
     /\ UNCHANGED <<now, token, params, proposalCount, timelock, changes>>

(* The timelock takes the operation without a number of its own. *)
MutantQueue(id) ==
  /\ LiveState(id) = "SUCCEEDED"
  /\ operations' = [operations EXCEPT ![operationCount + 1] =
       [action |-> proposals[id].action,
        executableAt |-> now + params["delay"], state |-> "SCHEDULED"]]
  /\ proposals' = [proposals EXCEPT ![id].state = "QUEUED",
                                    ![id].operationId = operationCount + 1]
  /\ UNCHANGED <<now, token, params, proposalCount, ballots, operationCount,
                 published, performed, changes>>

(* With Timelock.schedule, which stamps the delay in force. *)
Queue(id) ==
  LET operation == operationCount + 1
  IN /\ LiveState(id) = "SUCCEEDED"
     /\ operationCount' = operation
     /\ operations' = [operations EXCEPT ![operation] =
          [action |-> proposals[id].action,
           executableAt |-> now + params["delay"], state |-> "SCHEDULED"]]
     /\ proposals' = [proposals EXCEPT ![id].state = "QUEUED",
                                       ![id].operationId = operation]
     /\ UNCHANGED <<now, token, params, proposalCount, ballots, published,
                    performed, changes>>

(* Timelock.cancel is left out. *)
MutantCancel(who, id) ==
  /\ LiveState(id) \notin {"NONE", "EXECUTED", "CANCELLED", "DISPATCHED"}
  /\ who \in {proposals[id].proposer, Guardian}
  /\ proposals' = [proposals EXCEPT ![id].state = "CANCELLED"]
  /\ UNCHANGED <<now, token, params, proposalCount, ballots, timelock,
                 changes>>

(* With Timelock.cancel when the action waits in the timelock. *)
Cancel(who, id) ==
  LET operation == proposals[id].operationId
      state == LiveState(id)
  IN /\ state \notin {"NONE", "EXECUTED", "CANCELLED", "DISPATCHED"}
     /\ who \in {proposals[id].proposer, Guardian}
     /\ proposals' = [proposals EXCEPT ![id].state = "CANCELLED"]
     /\ \/ state # "QUEUED" /\ UNCHANGED operations
        \/ /\ state = "QUEUED"
           /\ operations[operation].state = "SCHEDULED"
           /\ operations' =
                [operations EXCEPT ![operation].state = "CANCELLED"]
     /\ UNCHANGED <<now, token, params, proposalCount, ballots,
                    operationCount, published, performed, changes>>

-----------------------------------------------------------------------------
(* Timelock.execute, reached through Governor.execute. *)

(* A call that sets a parameter, or one that leaves governance alone.  A   *)
(* call that reverts takes the whole transaction with it.                  *)
Call(action) ==
  IF action.name \in Parameters
  THEN params' = [params EXCEPT ![action.name] = action.value]
  ELSE UNCHANGED params

Publish(operation) ==
  /\ params["routed"]
  /\ published' = Append(published,
       [operationId |-> operation, action |-> operations[operation].action])
  /\ UNCHANGED params

Execute(id) ==
  LET operation == proposals[id].operationId
      action == operations[operation].action
      remote == action.chain # Home
      done == IF remote THEN "DISPATCHED" ELSE "EXECUTED"
  IN /\ proposals[id].state = "QUEUED"
     /\ operations[operation].state = "SCHEDULED"
     /\ now >= operations[operation].executableAt
     /\ \/ remote /\ Publish(operation)
        \/ ~remote /\ Call(action) /\ UNCHANGED published
     /\ proposals' = [proposals EXCEPT ![id].state = done]
     /\ operations' = [operations EXCEPT ![operation].state = done]
     /\ performed' = [performed EXCEPT ![id] = Append(@, now)]
     /\ UNCHANGED <<now, token, proposalCount, ballots, operationCount,
                    changes>>

-----------------------------------------------------------------------------
(* AegisToken, the admin and the clock. *)

(* A transfer or a new delegate moves votes. *)
Transfer(from, to) ==
  /\ changes < MaxChanges
  /\ changes' = changes + 1
  /\ from # to
  /\ votes[from] > 0
  /\ votes' = [votes EXCEPT ![from] = @ - 1, ![to] = @ + 1]
  /\ UNCHANGED <<now, before, snapshot, params, governor, timelock>>

(* DEFAULT_ADMIN_ROLE, until it is handed to the timelock. *)
AdminSets(setting) ==
  /\ changes < MaxChanges
  /\ changes' = changes + 1
  /\ params[setting.name] # setting.value
  /\ params' = [params EXCEPT ![setting.name] = setting.value]
  /\ UNCHANGED <<now, token, governor, timelock>>

(* The votes a second ends with are the ones its checkpoint shows later. *)
Tick ==
  /\ now < MaxTime
  /\ now' = now + 1
  /\ before' = votes
  /\ snapshot' = [id \in ProposalIds |->
       IF id <= proposalCount /\ proposals[id].voteStart = now
       THEN votes ELSE snapshot[id]]
  /\ UNCHANGED <<votes, params, governor, timelock, changes>>

-----------------------------------------------------------------------------
Init ==
  /\ now = 0
  /\ votes = InitialVotes
  /\ before = InitialVotes
  /\ snapshot = [id \in ProposalIds |-> [v \in Voters |-> 0]]
  /\ params = InitialParams
  /\ proposalCount = 0
  /\ proposals = [id \in ProposalIds |-> NoProposal]
  /\ ballots = [id \in ProposalIds |-> [v \in Voters |-> NotVoted]]
  /\ operationCount = 0
  /\ operations = [id \in 0..MaxProposals |-> NoOperation]
  /\ published = <<>>
  /\ performed = [id \in ProposalIds |-> <<>>]
  /\ changes = 0

Next ==
  \/ \E v \in Voters, a \in Actions : Propose(v, a)
  \/ \E v \in Voters, id \in ProposalIds, s \in Support : CastVote(v, id, s)
  \/ \E id \in ProposalIds : Queue(id) \/ Execute(id)
  \/ \E w \in Voters \cup {Guardian}, id \in ProposalIds : Cancel(w, id)
  \/ \E v, w \in Voters : Transfer(v, w)
  \/ \E s \in AdminSettings : AdminSets(s)
  \/ Tick

Spec == Init /\ [][Next]_vars

-----------------------------------------------------------------------------
(* Properties. *)

ProposalState == {"NONE", "PENDING", "QUEUED", "DISPATCHED", "EXECUTED",
                  "CANCELLED"}

OperationState == {"NONE", "SCHEDULED", "EXECUTED", "CANCELLED", "DISPATCHED"}

TypeOK ==
  /\ now \in 0..MaxTime
  /\ votes \in [Voters -> Nat] /\ before \in [Voters -> Nat]
  /\ snapshot \in [ProposalIds -> [Voters -> Nat]]
  /\ \A p \in Parameters : params[p] \in Settings[p]
  /\ proposalCount \in 0..MaxProposals
  /\ \A id \in ProposalIds :
       /\ proposals[id].state \in ProposalState
       /\ proposals[id].state = "NONE" <=> id > proposalCount
       /\ proposals[id].operationId \in 0..operationCount
  /\ ballots \in [ProposalIds -> [Voters -> Support \cup {NotVoted}]]
  /\ operationCount \in 0..MaxProposals
  /\ \A o \in 1..MaxProposals :
       /\ operations[o].state \in OperationState
       /\ operations[o].state = "NONE" <=> o > operationCount
  /\ operations[0] = NoOperation

(* The votes at the snapshot of those who chose one of the answers. *)
Chosen(id, answers) ==
  SumFunctionOnSet(snapshot[id], {v \in Voters : ballots[id][v] \in answers})

Lowest(name) == Min(Settings[name])

(* An action is called or published at most once, only for a proposal on   *)
(* which more votes were counted for than against, and not before the      *)
(* delay that was stamped when it was queued, after its vote, has passed;  *)
(* a proposal that acted is never recorded as stopped.                     *)
ActedInTime(id) ==
  LET p == proposals[id]
      operation == operations[p.operationId]
  IN performed[id] # <<>> =>
       /\ Len(performed[id]) = 1
       /\ p.state \in {"EXECUTED", "DISPATCHED"}
       /\ p.forVotes > p.againstVotes
       /\ operation.executableAt > p.voteEnd + Lowest("delay")
       /\ performed[id][1] >= operation.executableAt

(* However votes move, parameters change and holders, guardian and         *)
(* executors race: no vote counts twice, and an action runs as above, only *)
(* when more votes of the snapshot were for it than against and enough     *)
(* took part.                                                              *)
PerformedAsVoted ==
  \A id \in ProposalIds :
    /\ ActedInTime(id)
    /\ Chosen(id, Support) <= Supply
    /\ Participation(proposals[id]) = Chosen(id, Support)
    /\ performed[id] # <<>> =>
         /\ Chosen(id, {"forVotes"}) > Chosen(id, {"againstVotes"})
         /\ Chosen(id, Support)
              >= (Supply * Lowest("quorumNumerator")) \div QuorumDenominator

(* The two contracts agree: a queued proposal has a scheduled operation of *)
(* its own with its action, a proposal that ended took its operation with  *)
(* it, and the dispatcher has published the dispatched ones, once each.    *)
ProposalMatchesOperation ==
  /\ \A id \in ProposalIds :
       LET p == proposals[id]
           operation == operations[p.operationId]
       IN /\ operation.state = CASE p.state = "QUEUED" -> "SCHEDULED"
                                 [] p.operationId = 0 -> "NONE"
                                 [] OTHER -> p.state
          /\ p.operationId # 0 => operation.action = p.action
          /\ p.operationId = 0 => p.state \in {"NONE", "PENDING", "CANCELLED"}
  /\ \A a, b \in ProposalIds :
       proposals[a].operationId = proposals[b].operationId =>
         a = b \/ proposals[a].operationId = 0
  /\ \A o \in 1..operationCount :
       LET messages == {i \in 1..Len(published) :
                          published[i].operationId = o}
       IN /\ operations[o].state = "DISPATCHED" <=> messages # {}
          /\ \A i, j \in messages :
               i = j /\ published[i].action = operations[o].action
=============================================================================
