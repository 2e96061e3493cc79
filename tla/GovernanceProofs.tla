-------------------------- MODULE GovernanceProofs --------------------------
(***************************************************************************)
(* Theorems about Governance, for any holders and votes, any proposals and *)
(* actions, and any parameters the contracts accept.                       *)
(***************************************************************************)
EXTENDS Governance, DataFacts, TLAPS

AnyAction == Actions \cup {NoAction}

Proposal ==
  [proposer : Voters \cup {"nobody"}, action : AnyAction, voteStart : Nat,
   voteEnd : Nat, state : ProposalState, forVotes : Nat, againstVotes : Nat,
   abstainVotes : Nat, operationId : 0..MaxProposals]

Operation ==
  [action : AnyAction, executableAt : Nat, state : OperationState]

Message == [operationId : 0..MaxProposals, action : AnyAction]

Typed ==
  /\ now \in 0..MaxTime
  /\ votes \in [Voters -> Nat] /\ before \in [Voters -> Nat]
  /\ snapshot \in [ProposalIds -> [Voters -> Nat]]
  /\ DOMAIN params = Parameters
  /\ \A p \in Parameters : params[p] \in Settings[p]
  /\ proposalCount \in 0..MaxProposals
  /\ proposals \in [ProposalIds -> Proposal]
  /\ ballots \in [ProposalIds -> [Voters -> Support \cup {NotVoted}]]
  /\ operationCount \in 0..MaxProposals
  /\ operations \in [0..MaxProposals -> Operation]
  /\ published \in Seq(Message)
  /\ performed \in [ProposalIds -> Seq(Nat)]

(* Identifiers are given in order, and one not yet given stands for        *)
(* nothing.                                                                *)
InOrder ==
  /\ \A id \in ProposalIds :
       /\ proposals[id].state = "NONE" <=> id > proposalCount
       /\ proposals[id].operationId <= operationCount
  /\ \A o \in 1..MaxProposals :
       operations[o].state = "NONE" <=> o > operationCount
  /\ operations[0] = NoOperation
  /\ \A i \in 1..Len(published) :
       published[i].operationId \in 1..operationCount

(* Every operation belongs to a proposal, so there is room for another as  *)
(* long as some proposal has none.                                         *)
Scheduled == {id \in ProposalIds : proposals[id].operationId # 0}

OperationsCounted == Cardinality(Scheduled) = operationCount

(* What is known of a proposal since it was queued. *)
Passed(id) ==
  LET p == proposals[id]
  IN p.state \in {"QUEUED", "EXECUTED", "DISPATCHED"} =>
       /\ p.forVotes > p.againstVotes
       /\ operations[p.operationId].executableAt > p.voteEnd + Lowest("delay")

Acted(id) ==
  LET p == proposals[id]
  IN /\ performed[id] # <<>> => p.state \in {"EXECUTED", "DISPATCHED"}
     /\ performed[id] # <<>> =>
          /\ Len(performed[id]) = 1
          /\ performed[id][1] >= operations[p.operationId].executableAt

GovInv ==
  /\ Typed
  /\ InOrder
  /\ OperationsCounted
  /\ ProposalMatchesOperation
  /\ \A id \in ProposalIds : Passed(id) /\ Acted(id)

-----------------------------------------------------------------------------
LEMMA DelayIsLong ==
  ASSUME Typed
  PROVE  /\ params["delay"] \in Nat
         /\ Lowest("delay") \in Nat /\ Lowest("delay") <= params["delay"]
<1>1. "delay" \in Parameters
  BY DEF Parameters
<1>2. params["delay"] \in Settings["delay"] /\ Settings["delay"] \in SUBSET Nat
  BY <1>1, GovernanceAssumption DEF Typed, GovernanceAssumption
<1> QED
  BY <1>2, LowestIsLeast DEF Lowest

(* A proposal that is not queued yet has no operation. *)
LEMMA UnqueuedHasNone ==
  ASSUME GovInv, NEW id \in ProposalIds,
         proposals[id].state \in {"NONE", "PENDING"}
  PROVE  proposals[id].operationId = 0 /\ performed[id] = <<>>
<1> DEFINE p == proposals[id]
           o == p.operationId
<1>1. o \in 0..MaxProposals /\ o <= operationCount /\ operationCount \in Nat
  BY DEF GovInv, Typed, Proposal, InOrder
<1>2. o # 0 => operations[o].state # "NONE"
  <2>1. o # 0 => o \in 1..MaxProposals /\ ~ (o > operationCount)
    BY <1>1, GovernanceAssumption DEF GovernanceAssumption
  <2> QED
    BY <2>1 DEF GovInv, InOrder
<1>3. o # 0 => operations[o].state = p.state
  BY DEF GovInv, ProposalMatchesOperation
<1>4. o = 0 \/ p.state = "PENDING"
  BY <1>2, <1>3
<1>5. operations[o].state \in OperationState
  BY <1>1 DEF GovInv, Typed, Operation
<1>6. o = 0
  BY <1>3, <1>4, <1>5 DEF OperationState
<1> QED
  BY <1>6 DEF GovInv, Acted

(* An operation a proposal refers to is another proposal's only if there   *)
(* is none.                                                                *)
LEMMA OwnOperation ==
  ASSUME GovInv, NEW a \in ProposalIds, NEW b \in ProposalIds, a # b,
         proposals[a].operationId # 0
  PROVE  proposals[a].operationId # proposals[b].operationId
BY DEF GovInv, ProposalMatchesOperation

(* As long as some proposal has no operation, there is room for one more.  *)
LEMMA RoomForOperation ==
  ASSUME GovInv, NEW id \in ProposalIds, proposals[id].operationId = 0
  PROVE  operationCount + 1 <= MaxProposals
<1>1. MaxProposals \in Nat /\ operationCount \in Nat
  BY GovernanceAssumption DEF GovernanceAssumption, GovInv, Typed
<1>2. IsFiniteSet(ProposalIds) /\ Cardinality(ProposalIds) = MaxProposals
  BY <1>1, IntervalCount DEF ProposalIds
<1>3. Scheduled \in SUBSET ProposalIds /\ Scheduled # ProposalIds
  BY DEF Scheduled
<1>4. /\ Cardinality(Scheduled) <= MaxProposals
      /\ Cardinality(Scheduled) # MaxProposals
  BY <1>2, <1>3, FS_Subset
<1> QED
  BY <1>1, <1>4 DEF GovInv, OperationsCounted

-----------------------------------------------------------------------------
(* Steps that leave proposals and operations alone. *)

LEMMA Aside ==
  ASSUME GovInv, Typed',
         UNCHANGED <<proposalCount, proposals, operationCount, operations,
                     published, performed>>
  PROVE  GovInv'
<1>1. InOrder'
  BY DEF GovInv, InOrder
<1>2. OperationsCounted'
  BY DEF GovInv, OperationsCounted, Scheduled
<1>3. ProposalMatchesOperation'
  BY DEF GovInv, ProposalMatchesOperation
<1>4. ASSUME NEW id \in ProposalIds PROVE (Passed(id) /\ Acted(id))'
  BY DEF GovInv, Passed, Acted
<1> QED
  BY <1>1, <1>2, <1>3, <1>4 DEF GovInv

LEMMA TransferInv ==
  ASSUME GovInv, NEW v \in Voters, NEW w \in Voters, Transfer(v, w)
  PROVE  GovInv'
<1>1. votes' \in [Voters -> Nat]
  <2>1. votes \in [Voters -> Nat] /\ votes[v] > 0
    BY DEF GovInv, Typed, Transfer
  <2>2. votes' = [votes EXCEPT ![v] = @ - 1, ![w] = @ + 1]
    BY DEF Transfer
  <2> QED
    BY ONLY <2>1, <2>2
<1>2. Typed'
  <2>1. Typed /\ UNCHANGED <<governor, timelock, now>>
    BY DEF GovInv, Transfer
  <2> QED
    BY <1>1, <2>1 DEF Typed, Transfer, governor, timelock
<1> QED
  BY <1>2, Aside DEF Transfer, governor, timelock

LEMMA AdminSetsInv ==
  ASSUME GovInv, NEW s \in AdminSettings, AdminSets(s)
  PROVE  GovInv'
<1>1. DOMAIN params' = Parameters
  BY DEF GovInv, Typed, AdminSets
<1>2. \A p \in Parameters : params'[p] \in Settings[p]
  BY GovernanceAssumption DEF GovernanceAssumption, GovInv, Typed, AdminSets
<1>3. Typed'
  BY <1>1, <1>2 DEF GovInv, Typed, AdminSets, token, governor, timelock
<1> QED
  BY <1>3, Aside DEF AdminSets, governor, timelock

LEMMA TickInv ==
  ASSUME GovInv, Tick
  PROVE  GovInv'
<1>1. now' \in 0..MaxTime /\ before' \in [Voters -> Nat]
  BY GovernanceAssumption DEF GovernanceAssumption, GovInv, Typed, Tick
<1>2. snapshot' \in [ProposalIds -> [Voters -> Nat]]
  BY DEF GovInv, Typed, Tick
<1>3. Typed'
  BY <1>1, <1>2 DEF GovInv, Typed, Tick, governor, timelock
<1> QED
  BY <1>3, Aside DEF Tick, governor, timelock

-----------------------------------------------------------------------------
(* The governor's operations. *)

LEMMA CountsHold ==
  ASSUME GovInv, operationCount' = operationCount,
         \A i \in ProposalIds :
           proposals'[i].operationId = proposals[i].operationId
  PROVE  OperationsCounted'
<1>1. Scheduled' = Scheduled
  BY DEF Scheduled
<1> QED
  BY <1>1 DEF GovInv, OperationsCounted

LEMMA PeriodsAreNumbers ==
  ASSUME Typed
  PROVE  /\ now \in Nat
         /\ params["votingDelay"] \in Nat /\ params["votingPeriod"] \in Nat
<1>1. "votingDelay" \in Parameters /\ "votingPeriod" \in Parameters
  BY DEF Parameters
<1>2. /\ params["votingDelay"] \in Settings["votingDelay"]
      /\ params["votingPeriod"] \in Settings["votingPeriod"]
  BY <1>1 DEF Typed
<1> QED
  BY <1>2, GovernanceAssumption DEF GovernanceAssumption, Typed

LEMMA ProposeInv ==
  ASSUME GovInv, NEW v \in Voters, NEW a \in Actions, Propose(v, a)
  PROVE  GovInv'
<1> DEFINE id == proposalCount + 1
           new == proposals'[id]
<1>1. id \in ProposalIds /\ proposalCount \in Nat /\ MaxProposals \in Nat
  <2>1. proposalCount \in Nat /\ MaxProposals \in Nat
    BY GovernanceAssumption DEF GovernanceAssumption, GovInv, Typed
  <2>2. id <= MaxProposals
    BY DEF Propose
  <2> QED
    BY <2>1, <2>2 DEF ProposalIds
<1>2. /\ proposals[id].state = "NONE"
      /\ proposals[id].operationId = 0
      /\ performed[id] = <<>>
  <2>1. proposals[id].state = "NONE"
    BY <1>1 DEF GovInv, InOrder
  <2> QED
    BY <1>1, <2>1, UnqueuedHasNone
<1>3. /\ new.proposer = v /\ new.action = a /\ new.state = "PENDING"
      /\ new.operationId = 0
      /\ \A i \in ProposalIds \ {id} : proposals'[i] = proposals[i]
  BY <1>1 DEF GovInv, Typed, Propose, NoProposal
<1>4. proposals' \in [ProposalIds -> Proposal]
  <2>1. now \in Nat /\ params["votingDelay"] \in Nat
        /\ params["votingPeriod"] \in Nat
    BY PeriodsAreNumbers DEF GovInv
  <2>2. new = [proposer |-> v, action |-> a,
               voteStart |-> now + params["votingDelay"],
               voteEnd |-> now + params["votingDelay"] + params["votingPeriod"],
               state |-> "PENDING", forVotes |-> 0, againstVotes |-> 0,
               abstainVotes |-> 0, operationId |-> 0]
    BY <1>1 DEF GovInv, Typed, Propose, NoProposal
  <2>3. new \in Proposal
    <3>1. 0 \in 0..MaxProposals
      BY <1>1
    <3> HIDE DEF new
    <3> QED
      BY <2>1, <2>2, <3>1 DEF Proposal, ProposalState, AnyAction
  <2> QED
    BY <1>1, <2>3 DEF GovInv, Typed, Propose
<1>5. Typed'
  BY <1>1, <1>4 DEF GovInv, Typed, Propose, token, timelock, ProposalIds
<1>6. /\ proposalCount' = id
      /\ UNCHANGED <<operationCount, operations, published, performed>>
  BY DEF Propose, timelock
<1> HIDE DEF new, id
<1>7. InOrder'
  <2>1. ASSUME NEW i \in ProposalIds
        PROVE  /\ proposals'[i].state = "NONE" <=> i > proposalCount'
               /\ proposals'[i].operationId <= operationCount'
    <3>1. CASE i = id
      BY <1>1, <1>3, <1>6, <3>1 DEF GovInv, Typed, new, ProposalIds
    <3>2. CASE i # id
      <4>1. proposals'[i] = proposals[i]
        BY <1>3, <3>2
      <4>2. i > proposalCount <=> i > proposalCount'
        BY <1>1, <1>6, <3>2 DEF id, ProposalIds
      <4> QED
        BY <4>1, <4>2, <1>6 DEF GovInv, InOrder
    <3> QED
      BY <3>1, <3>2
  <2> QED
    BY <2>1, <1>6 DEF GovInv, InOrder
<1>8. OperationsCounted'
  BY <1>2, <1>3, <1>6, CountsHold DEF new
<1>9. ProposalMatchesOperation'
  <2>1. operations[0].state = "NONE"
    BY DEF GovInv, InOrder, NoOperation
  <2> QED
    BY <1>1, <1>2, <1>3, <1>6, <2>1
       DEF GovInv, ProposalMatchesOperation, new
<1>10. ASSUME NEW i \in ProposalIds PROVE (Passed(i) /\ Acted(i))'
  BY <1>2, <1>3, <1>6 DEF GovInv, Passed, Acted, new
<1> QED
  BY <1>5, <1>7, <1>8, <1>9, <1>10 DEF GovInv

LEMMA LiveIsPending ==
  ASSUME GovInv, NEW id \in ProposalIds,
         LiveState(id) \in {"PENDING", "ACTIVE", "SUCCEEDED", "DEFEATED"}
  PROVE  proposals[id].state = "PENDING"
<1>1. proposals[id].state \in ProposalState
  BY DEF GovInv, Typed, Proposal
<1> QED
  BY <1>1 DEF LiveState, ProposalState

(* A step that changes one proposal, which stays without an operation, and *)
(* no operation.                                                           *)
LEMMA UnqueuedInv ==
  ASSUME GovInv, Typed', NEW id \in ProposalIds,
         proposals[id].state = "PENDING",
         proposals'[id].state \in {"PENDING", "CANCELLED"},
         proposals'[id].operationId = proposals[id].operationId,
         \A i \in ProposalIds \ {id} : proposals'[i] = proposals[i],
         UNCHANGED <<proposalCount, operationCount, operations, published,
                     performed>>
  PROVE  GovInv'
<1>1. proposals[id].operationId = 0 /\ performed[id] = <<>>
  BY UnqueuedHasNone
<1>2. InOrder'
  BY DEF GovInv, InOrder
<1>3. OperationsCounted'
  BY CountsHold
<1>4. ProposalMatchesOperation'
  <2>1. operations[0].state = "NONE"
    BY DEF GovInv, InOrder, NoOperation
  <2> QED
    BY <1>1, <2>1 DEF GovInv, ProposalMatchesOperation
<1>5. ASSUME NEW i \in ProposalIds PROVE (Passed(i) /\ Acted(i))'
  BY <1>1 DEF GovInv, Passed, Acted
<1> QED
  BY <1>2, <1>3, <1>4, <1>5 DEF GovInv

LEMMA CastVoteInv ==
  ASSUME GovInv, NEW v \in Voters, NEW id \in ProposalIds, NEW s \in Support,
         CastVote(v, id, s)
  PROVE  GovInv'
<1> DEFINE p == proposals[id]
           weight == snapshot[id][v]
<1>1. p.state = "PENDING"
  BY LiveIsPending DEF CastVote
<1>2. weight \in Nat /\ p \in Proposal
  BY DEF GovInv, Typed
<1>3. proposals'[id] = [p EXCEPT ![s] = @ + weight]
  BY DEF GovInv, Typed, CastVote
<1>4. \A i \in ProposalIds \ {id} : proposals'[i] = proposals[i]
  BY DEF GovInv, Typed, CastVote
<1>5. /\ proposals'[id] \in Proposal
      /\ proposals'[id].state = "PENDING"
      /\ proposals'[id].operationId = p.operationId
  <2> HIDE DEF p, weight
  <2>1. CASE s = "forVotes"
    BY <1>1, <1>2, <1>3, <2>1 DEF Proposal
  <2>2. CASE s = "againstVotes"
    BY <1>1, <1>2, <1>3, <2>2 DEF Proposal
  <2>3. CASE s = "abstainVotes"
    BY <1>1, <1>2, <1>3, <2>3 DEF Proposal
  <2> QED
    BY <2>1, <2>2, <2>3 DEF Support
<1>6. proposals' \in [ProposalIds -> Proposal]
  BY <1>5 DEF GovInv, Typed, CastVote
<1>7. ballots' \in [ProposalIds -> [Voters -> Support \cup {NotVoted}]]
  BY DEF GovInv, Typed, CastVote
<1>8. Typed'
  BY <1>6, <1>7 DEF GovInv, Typed, CastVote, token, timelock
<1> QED
  BY <1>1, <1>4, <1>5, <1>8, UnqueuedInv DEF CastVote, timelock

LEMMA QueueInv ==
  ASSUME GovInv, NEW id \in ProposalIds, Queue(id)
  PROVE  GovInv'
<1> DEFINE p == proposals[id]
           o == operationCount + 1
           added == [action |-> p.action,
                     executableAt |-> now + params["delay"],
                     state |-> "SCHEDULED"]
<1>1. p.state = "PENDING" /\ p \in Proposal
  BY LiveIsPending DEF Queue, GovInv, Typed
<1>2. p.operationId = 0 /\ performed[id] = <<>>
  BY <1>1, UnqueuedHasNone
<1>3. o \in 1..MaxProposals /\ operationCount \in Nat
  BY <1>2, RoomForOperation, GovernanceAssumption
     DEF GovernanceAssumption, GovInv, Typed
<1>4. /\ now \in Nat /\ p.voteEnd \in Nat /\ p.voteStart \in Nat
      /\ p.forVotes \in Nat /\ p.againstVotes \in Nat
      /\ p.action \in AnyAction
  BY <1>1, PeriodsAreNumbers DEF GovInv, Proposal
<1>5. now > p.voteEnd /\ p.forVotes > p.againstVotes
  <2>1. LiveState(id) = "SUCCEEDED"
    BY DEF Queue
  <2>2. /\ ~ (now <= p.voteStart)
        /\ ~ (now <= p.voteEnd)
        /\ Outcome(p) = "SUCCEEDED"
    BY <1>1, <2>1 DEF LiveState
  <2>3. ~ (p.forVotes <= p.againstVotes)
    BY <2>2 DEF Outcome
  <2> QED
    BY <1>4, <2>2, <2>3
<1>6. added \in Operation /\ added.executableAt > p.voteEnd + Lowest("delay")
  <2>1. now + params["delay"] > p.voteEnd + Lowest("delay")
    BY <1>4, <1>5, DelayIsLong DEF GovInv
  <2>2. now + params["delay"] \in Nat
    BY <1>4, DelayIsLong DEF GovInv
  <2> QED
    BY <1>4, <2>1, <2>2 DEF Operation, OperationState
<1>7. /\ operationCount' = o
      /\ operations'[o] = added
      /\ \A q \in 0..MaxProposals : q # o => operations'[q] = operations[q]
      /\ operations' \in [0..MaxProposals -> Operation]
  BY <1>3, <1>6 DEF GovInv, Typed, Queue
<1>8. /\ proposals'[id] = [p EXCEPT !.state = "QUEUED", !.operationId = o]
      /\ \A i \in ProposalIds \ {id} : proposals'[i] = proposals[i]
  BY DEF GovInv, Typed, Queue
<1>9. /\ proposals'[id] \in Proposal
      /\ proposals'[id].state = "QUEUED"
      /\ proposals'[id].operationId = o
      /\ proposals'[id].action = p.action
      /\ proposals'[id].voteEnd = p.voteEnd
      /\ proposals'[id].forVotes = p.forVotes
      /\ proposals'[id].againstVotes = p.againstVotes
  <2>1. o \in 0..MaxProposals
    BY <1>3
  <2> HIDE DEF o, p
  <2> QED
    BY <1>1, <1>8, <2>1 DEF Proposal, ProposalState
<1>10. UNCHANGED <<proposalCount, published, performed>>
  BY DEF Queue
<1>11. Typed'
  <2>1. proposals' \in [ProposalIds -> Proposal]
    BY <1>9 DEF GovInv, Typed, Queue
  <2> QED
    BY <1>3, <1>7, <2>1 DEF GovInv, Typed, Queue, token
<1> HIDE DEF o, added, p
<1>12. InOrder'
  <2>1. ASSUME NEW i \in ProposalIds
        PROVE  /\ proposals'[i].state = "NONE" <=> i > proposalCount'
               /\ proposals'[i].operationId <= operationCount'
    <3>1. CASE i = id
      BY <1>1, <1>3, <1>7, <1>9, <1>10, <3>1 DEF GovInv, InOrder, p
    <3>2. CASE i # id
      <4>1. proposals'[i] = proposals[i]
        BY <1>8, <3>2
      <4>2. proposals[i].operationId \in Nat
        BY DEF GovInv, Typed, Proposal
      <4>3. proposals[i].operationId <= operationCount'
        BY <1>3, <1>7, <4>2 DEF GovInv, InOrder, o
      <4> QED
        BY <1>10, <4>1, <4>3 DEF GovInv, InOrder
    <3> QED
      BY <3>1, <3>2
  <2>2. ASSUME NEW q \in 1..MaxProposals
        PROVE  operations'[q].state = "NONE" <=> q > operationCount'
    <3>1. CASE q = o
      BY <1>3, <1>7, <3>1 DEF added
    <3>2. CASE q # o
      <4>1. operations'[q] = operations[q]
        BY <1>7, <3>2
      <4>2. q > operationCount' <=> q > operationCount
        BY <1>3, <1>7, <3>2 DEF o
      <4> QED
        BY <4>1, <4>2 DEF GovInv, InOrder
    <3> QED
      BY <3>1, <3>2
  <2>3. operations'[0] = NoOperation
    <3>1. 0 \in 0..MaxProposals /\ o # 0
      BY <1>3, GovernanceAssumption DEF GovernanceAssumption
    <3> QED
      BY <1>7, <3>1 DEF GovInv, InOrder
  <2>4. \A i \in 1..Len(published') :
          published'[i].operationId \in 1..operationCount'
    BY <1>3, <1>7, <1>10 DEF GovInv, InOrder, o
  <2> QED
    BY <2>1, <2>2, <2>3, <2>4 DEF InOrder
<1>13. OperationsCounted'
  <2>1. Scheduled' = Scheduled \cup {id} /\ id \notin Scheduled
    <3>1. o # 0
      BY <1>3
    <3>2. \A i \in ProposalIds : proposals'[i].operationId # 0
            <=> proposals[i].operationId # 0 \/ i = id
      BY <1>8, <1>9, <3>1
    <3> QED
      BY <1>2, <3>2 DEF Scheduled, p
  <2>2. IsFiniteSet(ProposalIds)
    BY FS_Interval, GovernanceAssumption
       DEF GovernanceAssumption, ProposalIds
  <2>3. IsFiniteSet(Scheduled)
    BY <2>2, FS_Subset DEF Scheduled
  <2>4. Cardinality(Scheduled') = Cardinality(Scheduled) + 1
    BY <2>1, <2>3, FS_AddElement
  <2> QED
    BY <1>7, <2>4 DEF GovInv, OperationsCounted, o
<1>14. \A i \in ProposalIds :
         /\ proposals[i].operationId \in 0..MaxProposals
         /\ proposals[i].operationId # o
  <2> SUFFICES ASSUME NEW i \in ProposalIds
               PROVE  /\ proposals[i].operationId \in 0..MaxProposals
                      /\ proposals[i].operationId # o
    OBVIOUS
  <2>1. proposals[i].operationId \in 0..MaxProposals
    BY DEF GovInv, Typed, Proposal
  <2>2. proposals[i].operationId <= operationCount
    BY DEF GovInv, InOrder
  <2> QED
    BY <1>3, <2>1, <2>2 DEF o
<1>15. ProposalMatchesOperation'
  <2>1. ASSUME NEW i \in ProposalIds
        PROVE  (LET q == proposals[i]
                    operation == operations[q.operationId]
                IN /\ operation.state =
                        CASE q.state = "QUEUED" -> "SCHEDULED"
                          [] q.operationId = 0 -> "NONE"
                          [] OTHER -> q.state
                   /\ q.operationId # 0 => operation.action = q.action
                   /\ q.operationId = 0 =>
                        q.state \in {"NONE", "PENDING", "CANCELLED"})'
    <3>1. CASE i = id
      BY <1>3, <1>7, <1>9, <3>1 DEF added
    <3>2. CASE i # id
      <4>1. /\ proposals'[i] = proposals[i]
            /\ operations'[proposals[i].operationId]
                 = operations[proposals[i].operationId]
        BY <1>7, <1>8, <1>14, <3>2
      <4> QED
        BY <4>1 DEF GovInv, ProposalMatchesOperation
    <3> QED
      BY <3>1, <3>2
  <2>2. ASSUME NEW a \in ProposalIds, NEW b \in ProposalIds,
               proposals'[a].operationId = proposals'[b].operationId
        PROVE  a = b \/ proposals'[a].operationId = 0
    <3>1. CASE a = id \/ b = id
      <4>1. proposals'[id].operationId = o
        BY <1>9
      <4>2. ASSUME NEW i \in ProposalIds, i # id
            PROVE  proposals'[i].operationId # o
        BY <1>8, <1>14, <4>2
      <4> QED
        BY <2>2, <3>1, <4>1, <4>2
    <3>2. CASE a # id /\ b # id
      <4>1. proposals'[a] = proposals[a] /\ proposals'[b] = proposals[b]
        BY <1>8, <3>2
      <4> QED
        BY <2>2, <4>1 DEF GovInv, ProposalMatchesOperation
    <3> QED
      BY <3>1, <3>2
  <2>3. ASSUME NEW q \in 1..operationCount'
        PROVE  LET messages == {i \in 1..Len(published') :
                                  published'[i].operationId = q}
               IN /\ operations'[q].state = "DISPATCHED" <=> messages # {}
                  /\ \A i, j \in messages :
                       i = j /\ published'[i].action = operations'[q].action
    <3>1. CASE q = o
      BY <1>3, <1>7, <1>10, <3>1 DEF GovInv, InOrder, added, o
    <3>2. CASE q # o
      <4>1. q \in 1..operationCount /\ q \in 0..MaxProposals
        BY <1>3, <1>7, <3>2, GovernanceAssumption
           DEF GovernanceAssumption, o
      <4>2. operations'[q] = operations[q]
        BY <1>7, <3>2, <4>1
      <4> QED
        BY <1>10, <4>1, <4>2 DEF GovInv, ProposalMatchesOperation
    <3> QED
      BY <3>1, <3>2
  <2> QED
    BY <2>1, <2>2, <2>3 DEF ProposalMatchesOperation
<1>16. ASSUME NEW i \in ProposalIds PROVE (Passed(i) /\ Acted(i))'
  <2>1. CASE i = id
    BY <1>2, <1>5, <1>6, <1>7, <1>9, <1>10, <2>1 DEF Passed, Acted, p
  <2>2. CASE i # id
    <3>1. /\ proposals'[i] = proposals[i]
          /\ operations'[proposals[i].operationId]
               = operations[proposals[i].operationId]
      BY <1>7, <1>8, <1>14, <2>2
    <3> QED
      BY <1>10, <3>1 DEF GovInv, Passed, Acted
  <2> QED
    BY <2>1, <2>2
<1> QED
  BY <1>11, <1>12, <1>13, <1>15, <1>16 DEF GovInv

(* What a queued proposal's operation is. *)
LEMMA QueuedIsScheduled ==
  ASSUME GovInv, NEW id \in ProposalIds, proposals[id].state = "QUEUED"
  PROVE  LET o == proposals[id].operationId
         IN /\ o \in 1..MaxProposals /\ o \in 1..operationCount
            /\ operations[o].state = "SCHEDULED"
            /\ performed[id] = <<>>
<1> DEFINE o == proposals[id].operationId
<1>1. o \in 0..MaxProposals /\ o <= operationCount /\ MaxProposals \in Nat
      /\ operationCount \in Nat
  BY GovernanceAssumption
     DEF GovernanceAssumption, GovInv, Typed, Proposal, InOrder
<1>2. o # 0 /\ operations[o].state = "SCHEDULED"
  BY DEF GovInv, ProposalMatchesOperation
<1>3. performed[id] = <<>>
  BY DEF GovInv, Acted
<1> QED
  BY <1>1, <1>2, <1>3

(* A queued proposal and its operation end together.  What was published   *)
(* of it, if it was dispatched, is the one new message.                    *)
LEMMA EndedInv ==
  ASSUME GovInv, Typed', NEW id \in ProposalIds,
         NEW done \in {"CANCELLED", "EXECUTED", "DISPATCHED"},
         proposals[id].state = "QUEUED",
         proposals' = [proposals EXCEPT ![id].state = done],
         operations' =
           [operations EXCEPT ![proposals[id].operationId].state = done],
         done = "DISPATCHED" =>
           published' = Append(published,
             [operationId |-> proposals[id].operationId,
              action |-> operations[proposals[id].operationId].action]),
         done # "DISPATCHED" => published' = published,
         done = "CANCELLED" => performed' = performed,
         done # "CANCELLED" =>
           /\ performed' = [performed EXCEPT ![id] = Append(@, now)]
           /\ now >= operations[proposals[id].operationId].executableAt,
         UNCHANGED <<proposalCount, operationCount>>
  PROVE  GovInv'
<1> DEFINE p == proposals[id]
           o == p.operationId
<1>1. /\ o \in 1..MaxProposals /\ o \in 1..operationCount
      /\ operations[o].state = "SCHEDULED"
      /\ performed[id] = <<>>
  BY QueuedIsScheduled
<1>2. p \in Proposal /\ operations[o] \in Operation /\ o \in 0..MaxProposals
      /\ MaxProposals \in Nat /\ operationCount \in Nat /\ now \in Nat
  BY <1>1, GovernanceAssumption DEF GovernanceAssumption, GovInv, Typed
<1>3. /\ proposals'[id] = [p EXCEPT !.state = done]
      /\ \A i \in ProposalIds \ {id} : proposals'[i] = proposals[i]
  BY DEF GovInv, Typed
<1>4. /\ operations'[o] = [operations[o] EXCEPT !.state = done]
      /\ \A q \in 0..MaxProposals : q # o => operations'[q] = operations[q]
  BY <1>2 DEF GovInv, Typed
<1> HIDE DEF o, p
<1>5. /\ proposals'[id].state = done
      /\ proposals'[id].operationId = o
      /\ proposals'[id].action = p.action
      /\ proposals'[id].voteEnd = p.voteEnd
      /\ proposals'[id].forVotes = p.forVotes
      /\ proposals'[id].againstVotes = p.againstVotes
  BY <1>2, <1>3 DEF Proposal, o
<1>6. /\ operations'[o].state = done
      /\ operations'[o].action = operations[o].action
      /\ operations'[o].executableAt = operations[o].executableAt
  BY <1>2, <1>4 DEF Operation
<1>7. o # 0 /\ p.state = "QUEUED" /\ operations[o].action = p.action
  <2>1. o # 0
    BY <1>1
  <2> QED
    BY <2>1 DEF GovInv, ProposalMatchesOperation, o, p
<1>8. published \in Seq(Message)
  BY DEF GovInv, Typed
<1>9. \A i \in ProposalIds \ {id} : proposals[i].operationId # o
  BY <1>7, OwnOperation DEF o, p
<1>10. \A i \in ProposalIds : proposals[i].operationId \in 0..MaxProposals
  BY DEF GovInv, Typed, Proposal
<1>11. Len(published) \in Nat
  BY <1>8
<1>12. InOrder'
  <2>1. ASSUME NEW i \in ProposalIds
        PROVE  /\ proposals'[i].state = "NONE" <=> i > proposalCount'
               /\ proposals'[i].operationId <= operationCount'
    <3>1. CASE i = id
      BY <1>1, <1>5, <1>7, <3>1 DEF GovInv, InOrder, p, o
    <3>2. CASE i # id
      BY <1>3, <3>2 DEF GovInv, InOrder
    <3> QED
      BY <3>1, <3>2
  <2>2. ASSUME NEW q \in 1..MaxProposals
        PROVE  operations'[q].state = "NONE" <=> q > operationCount'
    <3>1. CASE q = o
      BY <1>1, <1>6, <3>1 DEF GovInv, InOrder
    <3>2. CASE q # o
      <4>1. operations'[q] = operations[q]
        BY <1>2, <1>4, <3>2
      <4> QED
        BY <4>1 DEF GovInv, InOrder
    <3> QED
      BY <3>1, <3>2
  <2>3. operations'[0] = NoOperation
    <3>1. 0 \in 0..MaxProposals
      BY <1>2
    <3> QED
      BY <1>4, <1>7, <3>1 DEF GovInv, InOrder
  <2>4. ASSUME NEW i \in 1..Len(published')
        PROVE  published'[i].operationId \in 1..operationCount'
    <3>1. CASE done = "DISPATCHED"
      <4>1. CASE i \in 1..Len(published)
        BY <1>8, <3>1, <4>1 DEF GovInv, InOrder
      <4>2. CASE i = Len(published) + 1
        BY <1>1, <1>8, <3>1, <4>2 DEF o, p
      <4> QED
        BY <1>8, <3>1, <4>1, <4>2
    <3>2. CASE done # "DISPATCHED"
      BY <3>2 DEF GovInv, InOrder
    <3> QED
      BY <3>1, <3>2
  <2> QED
    BY <2>1, <2>2, <2>3, <2>4 DEF InOrder
<1>13. OperationsCounted'
  BY <1>3, <1>5, CountsHold DEF o, p
<1>14. \A i \in ProposalIds \ {id} :
         /\ proposals'[i] = proposals[i]
         /\ operations'[proposals[i].operationId]
              = operations[proposals[i].operationId]
  BY <1>3, <1>4, <1>9, <1>10
<1>15. ProposalMatchesOperation'
  <2>1. ASSUME NEW i \in ProposalIds
        PROVE  (LET q == proposals[i]
                    operation == operations[q.operationId]
                IN /\ operation.state =
                        CASE q.state = "QUEUED" -> "SCHEDULED"
                          [] q.operationId = 0 -> "NONE"
                          [] OTHER -> q.state
                   /\ q.operationId # 0 => operation.action = q.action
                   /\ q.operationId = 0 =>
                        q.state \in {"NONE", "PENDING", "CANCELLED"})'
    <3>1. CASE i = id
      BY <1>5, <1>6, <1>7, <3>1
    <3>2. CASE i # id
      BY <1>14, <3>2 DEF GovInv, ProposalMatchesOperation
    <3> QED
      BY <3>1, <3>2
  <2>2. ASSUME NEW a \in ProposalIds, NEW b \in ProposalIds,
               proposals'[a].operationId = proposals'[b].operationId
        PROVE  a = b \/ proposals'[a].operationId = 0
    <3>1. \A i \in ProposalIds :
            proposals'[i].operationId = proposals[i].operationId
      BY <1>3, <1>5 DEF o, p
    <3> QED
      BY <2>2, <3>1 DEF GovInv, ProposalMatchesOperation
  <2>3. ASSUME NEW q \in 1..operationCount'
        PROVE  LET messages == {i \in 1..Len(published') :
                                  published'[i].operationId = q}
               IN /\ operations'[q].state = "DISPATCHED" <=> messages # {}
                  /\ \A i, j \in messages :
                       i = j /\ published'[i].action = operations'[q].action
    <3> DEFINE Of(k) == {i \in 1..Len(published) :
                           published[i].operationId = k}
               New(k) == {i \in 1..Len(published') :
                            published'[i].operationId = k}
    <3>1. /\ operations[q].state = "DISPATCHED" <=> Of(q) # {}
          /\ \A i, j \in Of(q) :
               i = j /\ published[i].action = operations[q].action
      BY DEF GovInv, ProposalMatchesOperation
    <3>2. q \in 0..MaxProposals
      BY <1>2 DEF GovInv, Typed
    <3>3. CASE done # "DISPATCHED"
      <4>1. published' = published
        BY <3>3
      <4>2. operations'[q].action = operations[q].action
        BY <1>4, <1>6, <3>2
      <4>3. operations'[q].state = "DISPATCHED"
              <=> operations[q].state = "DISPATCHED"
        BY <1>1, <1>4, <1>6, <3>2, <3>3 DEF o, p
      <4> QED
        BY <3>1, <4>1, <4>2, <4>3
    <3>4. CASE done = "DISPATCHED"
      <4>1. published' = Append(published, [operationId |-> o,
                                  action |-> operations[o].action])
        BY <3>4 DEF o, p
      <4>2. /\ Len(published') = Len(published) + 1
            /\ published'[Len(published) + 1].operationId = o
            /\ published'[Len(published) + 1].action = operations[o].action
            /\ \A i \in 1..Len(published) : published'[i] = published[i]
        BY <1>8, <4>1
      <4>3. CASE q = o
        <5>1. Of(q) = {}
          BY <1>1, <3>1, <4>3 DEF o, p
        <5>2. New(q) = {Len(published) + 1}
          <6>1. ASSUME NEW i \in 1..Len(published)
                PROVE  published'[i].operationId # q
            BY <4>2, <5>1
          <6>2. \A i : i \in 1..Len(published') <=>
                         i \in 1..Len(published) \/ i = Len(published) + 1
            BY <1>11, <4>2
          <6> QED
            BY <4>2, <4>3, <6>1, <6>2
        <5> QED
          BY <1>6, <3>4, <4>2, <4>3, <5>2
      <4>4. CASE q # o
        <5>1. New(q) = Of(q)
          BY <1>11, <4>2, <4>4
        <5>2. operations'[q] = operations[q]
          BY <1>4, <3>2, <4>4
        <5> QED
          BY <3>1, <4>2, <5>1, <5>2
      <4> QED
        BY <4>3, <4>4
    <3> QED
      BY <3>3, <3>4
  <2> QED
    BY <2>1, <2>2, <2>3 DEF ProposalMatchesOperation
<1>16. ASSUME NEW i \in ProposalIds PROVE (Passed(i) /\ Acted(i))'
  <2>1. CASE i # id
    <3>1. performed'[i] = performed[i]
      BY <2>1 DEF GovInv, Typed
    <3> QED
      BY <1>14, <2>1, <3>1 DEF GovInv, Passed, Acted
  <2>2. CASE i = id /\ done = "CANCELLED"
    BY <1>1, <1>5, <2>2 DEF Passed, Acted, p, o
  <2>3. CASE i = id /\ done # "CANCELLED"
    <3>1. performed'[id] = <<now>>
      BY <1>1, <2>3 DEF GovInv, Typed
    <3>2. Passed(id)'
      BY <1>5, <1>6, <1>7 DEF GovInv, Passed, p, o
    <3>3. now >= operations'[o].executableAt
      BY <1>6, <2>3 DEF o, p
    <3> QED
      BY <1>5, <2>3, <3>1, <3>2, <3>3 DEF Acted
  <2> QED
    BY <2>1, <2>2, <2>3
<1> QED
  BY <1>12, <1>13, <1>15, <1>16 DEF GovInv

LEMMA CancelInv ==
  ASSUME GovInv, NEW w \in Voters \cup {Guardian}, NEW id \in ProposalIds,
         Cancel(w, id)
  PROVE  GovInv'
<1> DEFINE p == proposals[id]
           o == p.operationId
<1>1. p \in Proposal /\ o \in 0..MaxProposals
  BY DEF GovInv, Typed, Proposal
<1>2. /\ proposals' = [proposals EXCEPT ![id].state = "CANCELLED"]
      /\ UNCHANGED <<now, token, params, proposalCount, ballots,
                     operationCount, published, performed>>
  BY DEF Cancel
<1>3. proposals' \in [ProposalIds -> Proposal]
  BY <1>1, <1>2 DEF GovInv, Typed, Proposal, ProposalState
<1>4. CASE LiveState(id) = "QUEUED"
  <2>1. operations' = [operations EXCEPT ![o].state = "CANCELLED"]
    BY <1>4 DEF Cancel
  <2>2. operations' \in [0..MaxProposals -> Operation]
    BY <1>1, <2>1 DEF GovInv, Typed, Operation, OperationState
  <2>3. Typed'
    BY <1>2, <1>3, <2>2 DEF GovInv, Typed, token
  <2>4. p.state = "QUEUED"
    BY <1>4 DEF LiveState, Outcome
  <2> QED
    BY <1>2, <2>1, <2>3, <2>4, EndedInv
<1>5. CASE LiveState(id) # "QUEUED"
  <2>1. UNCHANGED operations
    BY <1>5 DEF Cancel
  <2>2. Typed'
    BY <1>2, <1>3, <2>1 DEF GovInv, Typed, token
  <2>3. p.state = "PENDING"
    BY <1>1, <1>5 DEF Cancel, LiveState, Proposal, ProposalState
  <2>4. /\ proposals'[id].state = "CANCELLED"
        /\ proposals'[id].operationId = o
        /\ \A i \in ProposalIds \ {id} : proposals'[i] = proposals[i]
    BY <1>1, <1>2 DEF GovInv, Typed, Proposal
  <2> QED
    BY <1>2, <2>1, <2>2, <2>3, <2>4, UnqueuedInv
<1> QED
  BY <1>4, <1>5

LEMMA ExecuteInv ==
  ASSUME GovInv, NEW id \in ProposalIds, Execute(id)
  PROVE  GovInv'
<1> DEFINE p == proposals[id]
           o == p.operationId
           action == operations[o].action
           done == IF action.chain # Home THEN "DISPATCHED" ELSE "EXECUTED"
<1>1. p \in Proposal /\ o \in 0..MaxProposals /\ now \in Nat
  BY DEF GovInv, Typed, Proposal
<1>2. operations[o] \in Operation /\ action \in AnyAction
  BY <1>1 DEF GovInv, Typed, Operation
<1>3. /\ p.state = "QUEUED"
      /\ now >= operations[o].executableAt
      /\ \/ action.chain # Home /\ Publish(o)
         \/ action.chain = Home /\ Call(action) /\ UNCHANGED published
      /\ proposals' = [proposals EXCEPT ![id].state = done]
      /\ operations' = [operations EXCEPT ![o].state = done]
      /\ performed' = [performed EXCEPT ![id] = Append(@, now)]
      /\ UNCHANGED <<now, token, proposalCount, ballots, operationCount>>
  BY DEF Execute
<1>4. proposals' \in [ProposalIds -> Proposal]
  BY <1>1, <1>3 DEF GovInv, Typed, Proposal, ProposalState
<1>5. operations' \in [0..MaxProposals -> Operation]
  BY <1>1, <1>2, <1>3 DEF GovInv, Typed, Operation, OperationState
<1>6. performed' \in [ProposalIds -> Seq(Nat)]
  BY <1>1, <1>3 DEF GovInv, Typed
<1>7. published' \in Seq(Message)
  <2> DEFINE message == [operationId |-> o, action |-> action]
  <2>1. message \in Message
    BY <1>1, <1>2 DEF Message
  <2>2. published' = published \/ published' = Append(published, message)
    BY <1>3 DEF Publish
  <2>3. published \in Seq(Message)
    BY DEF GovInv, Typed
  <2> HIDE DEF message
  <2> QED
    BY <2>1, <2>2, <2>3
<1>8. /\ DOMAIN params' = Parameters
      /\ \A q \in Parameters : params'[q] \in Settings[q]
  <2>1. CASE UNCHANGED params
    BY <2>1 DEF GovInv, Typed
  <2>2. CASE /\ action.name \in Parameters
             /\ params' = [params EXCEPT ![action.name] = action.value]
    <3>1. action \in Actions
      BY <1>2, <2>2 DEF AnyAction, NoAction, Parameters
    <3>2. action.value \in Settings[action.name]
      BY <2>2, <3>1, GovernanceAssumption DEF GovernanceAssumption
    <3> QED
      BY <2>2, <3>2 DEF GovInv, Typed
  <2> QED
    BY <1>3, <2>1, <2>2 DEF Publish, Call
<1>9. Typed'
  BY <1>3, <1>4, <1>5, <1>6, <1>7, <1>8 DEF GovInv, Typed, token
<1>10. done = "DISPATCHED" =>
         published' = Append(published, [operationId |-> o, action |-> action])
  BY <1>3 DEF Publish
<1>11. done # "DISPATCHED" => published' = published
  BY <1>3
<1>12. done \in {"EXECUTED", "DISPATCHED"} /\ done # "CANCELLED"
  OBVIOUS
<1> HIDE DEF done
<1> QED
  BY <1>3, <1>9, <1>10, <1>11, <1>12, EndedInv

-----------------------------------------------------------------------------
(* The inductive invariant. *)

LEMMA InitInv == Init => GovInv
<1> SUFFICES ASSUME Init PROVE GovInv
  OBVIOUS
<1>1. MaxProposals \in Nat /\ MaxTime \in Nat
  BY GovernanceAssumption DEF GovernanceAssumption
<1>2. NoProposal \in Proposal /\ NoOperation \in Operation
  BY <1>1 DEF NoProposal, NoOperation, Proposal, Operation, AnyAction,
              ProposalState, OperationState
<1>3. /\ DOMAIN params = Parameters
      /\ \A q \in Parameters : params[q] \in Settings[q]
  BY GovernanceAssumption DEF GovernanceAssumption, Init
<1>4. Typed
  BY <1>1, <1>2, <1>3, GovernanceAssumption
     DEF GovernanceAssumption, Init, Typed
<1>5. /\ \A id \in ProposalIds :
           proposals[id].state = "NONE" /\ proposals[id].operationId = 0
      /\ \A o \in 0..MaxProposals :
           operations[o] = NoOperation /\ operations[o].state = "NONE"
      /\ proposalCount = 0 /\ operationCount = 0 /\ published = <<>>
  BY DEF Init, NoProposal, NoOperation
<1>6. InOrder
  BY <1>1, <1>5 DEF InOrder, ProposalIds
<1>7. OperationsCounted
  <2>1. Scheduled = {}
    BY <1>5 DEF Scheduled
  <2> QED
    BY <1>5, <2>1, FS_EmptySet DEF OperationsCounted
<1>8. ProposalMatchesOperation
  <2>1. operations[0].state = "NONE"
    BY <1>1, <1>5
  <2> QED
    BY <1>5, <2>1 DEF ProposalMatchesOperation
<1>9. ASSUME NEW id \in ProposalIds PROVE Passed(id) /\ Acted(id)
  BY <1>5 DEF Init, Passed, Acted
<1> QED
  BY <1>4, <1>6, <1>7, <1>8, <1>9 DEF GovInv

LEMMA NextInv == GovInv /\ [Next]_vars => GovInv'
<1> SUFFICES ASSUME GovInv, [Next]_vars PROVE GovInv'
  OBVIOUS
<1>1. ASSUME NEW v \in Voters, NEW a \in Actions, Propose(v, a)
      PROVE  GovInv'
  BY <1>1, ProposeInv
<1>2. ASSUME NEW v \in Voters, NEW id \in ProposalIds, NEW s \in Support,
             CastVote(v, id, s)
      PROVE  GovInv'
  BY <1>2, CastVoteInv
<1>3. ASSUME NEW id \in ProposalIds, Queue(id) PROVE GovInv'
  BY <1>3, QueueInv
<1>4. ASSUME NEW id \in ProposalIds, Execute(id) PROVE GovInv'
  BY <1>4, ExecuteInv
<1>5. ASSUME NEW w \in Voters \cup {Guardian}, NEW id \in ProposalIds,
             Cancel(w, id)
      PROVE  GovInv'
  BY <1>5, CancelInv
<1>6. ASSUME NEW v \in Voters, NEW w \in Voters, Transfer(v, w) PROVE GovInv'
  BY <1>6, TransferInv
<1>7. ASSUME NEW s \in AdminSettings, AdminSets(s) PROVE GovInv'
  BY <1>7, AdminSetsInv
<1>8. ASSUME Tick PROVE GovInv'
  BY <1>8, TickInv
<1>9. ASSUME UNCHANGED vars PROVE GovInv'
  <2>1. Typed'
    BY <1>9 DEF GovInv, Typed, vars, token, governor, timelock
  <2> QED
    BY <1>9, <2>1, Aside DEF vars, token, governor, timelock
<1> QED
  BY <1>1, <1>2, <1>3, <1>4, <1>5, <1>6, <1>7, <1>8, <1>9 DEF Next

(* Governor.sol and Timelock.sol: a proposal and its operation keep their  *)
(* books together, whatever holders, guardian, executors and the admin do. *)
THEOREM GovernanceInvariant == Spec => []GovInv
BY InitInv, NextInv, PTL DEF Spec

(* Identifiers, counts and parameters stay in their ranges, and a proposal *)
(* or operation is recorded exactly if its number has been given.          *)
THEOREM GovernanceTypeCorrect == Spec => []TypeOK
<1>1. GovInv => TypeOK
  <2> SUFFICES ASSUME GovInv PROVE TypeOK
    OBVIOUS
  <2>1. ASSUME NEW id \in ProposalIds
        PROVE  /\ proposals[id].state \in ProposalState
               /\ proposals[id].state = "NONE" <=> id > proposalCount
               /\ proposals[id].operationId \in 0..operationCount
    BY DEF GovInv, Typed, Proposal, InOrder
  <2>2. ASSUME NEW o \in 1..MaxProposals
        PROVE  /\ operations[o].state \in OperationState
               /\ operations[o].state = "NONE" <=> o > operationCount
    <3>1. o \in 0..MaxProposals
      BY GovernanceAssumption DEF GovernanceAssumption
    <3> QED
      BY <3>1 DEF GovInv, Typed, Operation, InOrder
  <2> QED
    BY <2>1, <2>2 DEF GovInv, Typed, InOrder, TypeOK
<1> QED
  BY <1>1, GovernanceInvariant, PTL

(* Governor.queue, cancel and execute with Timelock's: a queued proposal   *)
(* has a scheduled operation of its own with its action, both end together *)
(* and a dispatched one has been published once, with that action.         *)
THEOREM GovernorMatchesTimelock == Spec => []ProposalMatchesOperation
<1>1. GovInv => ProposalMatchesOperation
  BY DEF GovInv
<1> QED
  BY <1>1, GovernanceInvariant, PTL

ActsInTime == \A id \in ProposalIds : ActedInTime(id)

(* Timelock.execute: an action is called or published at most once, only   *)
(* for a proposal with more votes for it than against, and only when the   *)
(* delay stamped after its vote has passed, however the delay is changed   *)
(* in between and whoever cancels.                                         *)
THEOREM ActionsRunInTime == Spec => []ActsInTime
<1>1. GovInv => ActsInTime
  <2> SUFFICES ASSUME GovInv, NEW id \in ProposalIds PROVE ActedInTime(id)
    BY DEF ActsInTime
  <2> QED
    BY DEF GovInv, Passed, Acted, ActedInTime
<1> QED
  BY <1>1, GovernanceInvariant, PTL

-----------------------------------------------------------------------------
(* The counting of votes. *)

Voting(id, s) == {v \in Voters : ballots[id][v] = s}

(* Votes move but do not multiply, and a proposal's snapshot is some       *)
(* moment's votes.                                                         *)
VotesKept ==
  /\ Sum(votes, Voters) = Supply
  /\ \A id \in ProposalIds : Sum(snapshot[id], Voters) <= Supply

(* The counters are the snapshot's votes of those who voted so, and nobody *)
(* votes before the snapshot is taken.                                     *)
BallotsCounted(id) ==
  /\ \A s \in Support : proposals[id][s] = Sum(snapshot[id], Voting(id, s))
  /\ \A v \in Voters : ballots[id][v] # NotVoted =>
       id <= proposalCount /\ proposals[id].voteStart < now

Needed == (Supply * Lowest("quorumNumerator")) \div QuorumDenominator

QuorumMet(id) ==
  proposals[id].state \in {"QUEUED", "EXECUTED", "DISPATCHED"} =>
    Participation(proposals[id]) >= Needed

Counted ==
  /\ VotesKept
  /\ \A id \in ProposalIds : BallotsCounted(id) /\ QuorumMet(id)

LEMMA SupplyIsSum ==
  /\ IsFiniteSet(Voters)
  /\ Supply = Sum(InitialVotes, Voters) /\ Supply \in Nat
<1>1. IsFiniteSet(Voters) /\ InitialVotes \in [Voters -> Nat]
  BY GovernanceAssumption DEF GovernanceAssumption
<1>2. Supply = SumFunctionOnSet(InitialVotes, Voters)
  BY <1>1 DEF Supply, SumFunction
<1>3. SumFunctionOnSet(InitialVotes, Voters) = Sum(InitialVotes, Voters)
  BY <1>1, FunctionSum
<1>4. Sum(InitialVotes, Voters) \in Nat
  BY <1>1, SumIsNat
<1> QED
  BY <1>1, <1>2, <1>3, <1>4

(* The quorum in force is at least that of the lowest numerator.           *)
LEMMA QuorumIsEnough ==
  ASSUME Typed
  PROVE  Needed \in Int /\ Quorum \in Int /\ Needed <= Quorum
<1>1. "quorumNumerator" \in Parameters
  BY DEF Parameters
<1>2. /\ params["quorumNumerator"] \in Settings["quorumNumerator"]
      /\ Settings["quorumNumerator"] \in SUBSET Nat
  <2>1. params["quorumNumerator"] \in Settings["quorumNumerator"]
    BY <1>1 DEF Typed
  <2>2. Settings["quorumNumerator"] \subseteq 1..100
    BY GovernanceAssumption DEF GovernanceAssumption, QuorumDenominator
  <2> QED
    BY <2>1, <2>2
<1> DEFINE a == Lowest("quorumNumerator")
           b == params["quorumNumerator"]
<1>3. a \in Nat /\ b \in Nat /\ a <= b
  BY <1>2, LowestIsLeast DEF Lowest
<1> HIDE DEF a, b
<1>4. ASSUME NEW n \in Nat
      PROVE  n * a \in Nat /\ n * b \in Nat /\ n * a <= n * b
  BY <1>3
<1> DEFINE x == Supply * a
           y == Supply * b
<1>5. x \in Nat /\ y \in Nat /\ x <= y
  BY <1>4, SupplyIsSum
<1>6. Needed = x \div 100 /\ Quorum = y \div 100
  BY DEF Needed, Quorum, QuorumDenominator, a, b
<1> HIDE DEF x, y
<1> QED
  BY <1>5, <1>6

(* A step that leaves the counters, the ballots and the snapshots alone.   *)
LEMMA CountedAside ==
  ASSUME GovInv, Counted, GovInv', VotesKept',
         UNCHANGED <<snapshot, ballots>>, now' >= now,
         proposalCount' >= proposalCount,
         \A id \in ProposalIds :
           /\ \A s \in Support : proposals'[id][s] = proposals[id][s]
           /\ \/ id > proposalCount
              \/ proposals'[id].voteStart = proposals[id].voteStart
           /\ QuorumMet(id)'
  PROVE  Counted'
<1> SUFFICES ASSUME NEW id \in ProposalIds PROVE BallotsCounted(id)'
  BY DEF Counted
<1>1. BallotsCounted(id)
  BY DEF Counted
<1>2. \A s \in Support : Voting(id, s)' = Voting(id, s)
  BY DEF Voting
<1>3. \A s \in Support : proposals'[id][s] = Sum(snapshot'[id], Voting(id, s)')
  BY <1>1, <1>2 DEF BallotsCounted
<1>4. ASSUME NEW v \in Voters, ballots'[id][v] # NotVoted
      PROVE  id <= proposalCount' /\ proposals'[id].voteStart < now'
  <2>1. id <= proposalCount /\ proposals[id].voteStart < now
    BY <1>1, <1>4 DEF BallotsCounted
  <2>2. /\ id \in Int /\ proposalCount \in Int /\ proposalCount' \in Int
        /\ proposals[id].voteStart \in Int /\ now \in Int /\ now' \in Int
    <3>1. /\ proposals[id] \in Proposal /\ proposalCount \in Int
          /\ now \in Int
      BY DEF GovInv, Typed
    <3>2. proposalCount' \in Int /\ now' \in Int
      BY DEF GovInv, Typed
    <3>3. proposals[id].voteStart \in Int
      BY <3>1 DEF Proposal
    <3> QED
      BY <3>1, <3>2, <3>3 DEF ProposalIds
  <2> QED
    BY <2>1, <2>2
<1> QED
  BY <1>3, <1>4 DEF BallotsCounted

LEMMA VotesAside ==
  ASSUME VotesKept, UNCHANGED <<votes, snapshot>>
  PROVE  VotesKept'
BY DEF VotesKept

SameCounters(old, new) ==
  /\ \A s \in Support : new[s] = old[s]
  /\ new.voteStart = old.voteStart

(* A proposal's own fields change, the counters do not. *)
LEMMA StateChangeCounted ==
  ASSUME GovInv, Counted, GovInv', NEW id \in ProposalIds,
         UNCHANGED <<token, ballots, proposalCount, now>>,
         SameCounters(proposals[id], proposals'[id]),
         \A i \in ProposalIds \ {id} : proposals'[i] = proposals[i],
         QuorumMet(id)'
  PROVE  Counted'
<1>1. VotesKept'
  BY VotesAside DEF Counted, token
<1>2. ASSUME NEW i \in ProposalIds
      PROVE  /\ \A s \in Support : proposals'[i][s] = proposals[i][s]
             /\ proposals'[i].voteStart = proposals[i].voteStart
             /\ QuorumMet(i)'
  <2>1. CASE i = id
    BY <2>1 DEF SameCounters
  <2>2. CASE i # id
    BY <2>2 DEF Counted, QuorumMet, Participation, Needed
  <2> QED
    BY <2>1, <2>2
<1>3. now \in Int /\ proposalCount \in Int
  BY DEF GovInv, Typed
<1> QED
  BY <1>1, <1>2, <1>3, CountedAside DEF token

LEMMA ProposeCounted ==
  ASSUME GovInv, Counted, GovInv', NEW v \in Voters, NEW a \in Actions,
         Propose(v, a)
  PROVE  Counted'
<1> DEFINE id == proposalCount + 1
<1>1. id \in ProposalIds /\ proposalCount \in Nat /\ now \in Int
  BY GovernanceAssumption
     DEF GovernanceAssumption, GovInv, Typed, Propose, ProposalIds
<1>2. /\ \A i \in ProposalIds \ {id} : proposals'[i] = proposals[i]
      /\ \A s \in Support : proposals'[id][s] = 0
      /\ proposals'[id].state = "PENDING"
      /\ proposalCount' = id
      /\ UNCHANGED <<now, token, ballots>>
  BY <1>1 DEF GovInv, Typed, Propose, NoProposal, Support
<1>3. \A s \in Support : proposals[id][s] = 0
  <2>1. \A h \in Voters : ballots[id][h] = NotVoted
    BY <1>1 DEF Counted, BallotsCounted
  <2>2. \A s \in Support : Voting(id, s) = {}
    BY <2>1 DEF Voting, Support, NotVoted
  <2>3. \A F : Sum(F, {}) = 0
    BY FS_EmptySet, SumStep
  <2>4. BallotsCounted(id)
    BY <1>1 DEF Counted
  <2> QED
    BY <2>2, <2>3, <2>4 DEF BallotsCounted
<1>4. VotesKept'
  BY <1>2, VotesAside DEF Counted, token
<1>5. ASSUME NEW i \in ProposalIds
      PROVE  /\ \A s \in Support : proposals'[i][s] = proposals[i][s]
             /\ i > proposalCount \/ proposals'[i].voteStart = proposals[i].voteStart
             /\ QuorumMet(i)'
  <2>1. CASE i = id
    BY <1>1, <1>2, <1>3, <2>1 DEF QuorumMet
  <2>2. CASE i # id
    BY <1>2, <2>2 DEF Counted, QuorumMet, Participation, Needed
  <2> QED
    BY <2>1, <2>2
<1>6. now' >= now /\ proposalCount' >= proposalCount
  BY <1>1, <1>2
<1> HIDE DEF id
<1> QED
  BY <1>2, <1>4, <1>5, <1>6, CountedAside DEF token

LEMMA CastVoteCounted ==
  ASSUME GovInv, Counted, GovInv', NEW v \in Voters, NEW id \in ProposalIds,
         NEW s \in Support, CastVote(v, id, s)
  PROVE  Counted'
<1> DEFINE p == proposals[id]
           snap == snapshot[id]
<1>1. p.state = "PENDING" /\ p.voteStart < now /\ id <= proposalCount
  <2>1. p.state = "PENDING"
    BY LiveIsPending DEF CastVote
  <2>2. p.voteStart < now
    <3>1. p.voteStart \in Nat /\ now \in Nat
      BY DEF GovInv, Typed, Proposal
    <3>2. LiveState(id) = "ACTIVE"
      BY DEF CastVote
    <3>3. ~ (now <= p.voteStart)
      BY <2>1, <3>2 DEF LiveState
    <3> QED
      BY <3>1, <3>3
  <2>3. ~ (id > proposalCount)
    BY <2>1 DEF GovInv, InOrder
  <2> QED
    BY <2>1, <2>2, <2>3 DEF GovInv, Typed, ProposalIds
<1>2. p \in Proposal /\ snap \in [Voters -> Nat]
  BY DEF GovInv, Typed
<1>3. /\ proposals'[id] = [p EXCEPT ![s] = @ + snap[v]]
      /\ \A i \in ProposalIds \ {id} : proposals'[i] = proposals[i]
      /\ ballots[id][v] = NotVoted
      /\ \A w \in Voters : ballots'[id][w] = IF w = v THEN s ELSE ballots[id][w]
      /\ \A i \in ProposalIds \ {id} : ballots'[i] = ballots[i]
      /\ UNCHANGED <<now, token, proposalCount>>
  BY DEF GovInv, Typed, CastVote
<1>4. /\ s \in DOMAIN p
      /\ proposals'[id][s] = p[s] + snap[v]
      /\ \A t \in Support \ {s} : proposals'[id][t] = p[t]
      /\ proposals'[id].voteStart = p.voteStart
      /\ proposals'[id].state = p.state
  <2> HIDE DEF p, snap
  <2>1. CASE s = "forVotes"
    BY <1>2, <1>3, <2>1 DEF Proposal, Support
  <2>2. CASE s = "againstVotes"
    BY <1>2, <1>3, <2>2 DEF Proposal, Support
  <2>3. CASE s = "abstainVotes"
    BY <1>2, <1>3, <2>3 DEF Proposal, Support
  <2> QED
    BY <2>1, <2>2, <2>3 DEF Support
<1>5. BallotsCounted(id)
  BY DEF Counted
<1>6. Voting(id, s)' = Voting(id, s) \cup {v} /\ v \notin Voting(id, s)
  BY <1>3 DEF Voting, Support, NotVoted
<1>7. \A t \in Support \ {s} : Voting(id, t)' = Voting(id, t)
  BY <1>3 DEF Voting, Support, NotVoted
<1>8. Sum(snap, Voting(id, s) \cup {v}) = snap[v] + Sum(snap, Voting(id, s))
  <2> DEFINE A == Voting(id, s)
             B == A \cup {v}
  <2>1. B \in SUBSET Voters /\ v \in B /\ B \ {v} = A
    BY <1>6 DEF Voting
  <2>2. IsFiniteSet(B) /\ \A y \in B : snap[y] \in Nat
    BY <1>2, <2>1, SupplyIsSum, FS_Subset
  <2> HIDE DEF A, B, snap
  <2>3. Sum(snap, B) = snap[v] + Sum(snap, B \ {v})
    <3>1. CountsOn(snap, B)
      BY <2>2 DEF CountsOn
    <3>2. SplitsAt(snap, B, v)
      BY ONLY <2>1, <3>1, SumSplits
    <3> QED
      BY <3>2 DEF SplitsAt
  <2> QED
    BY <2>1, <2>3 DEF A, B
<1>9. Sum(snap, Voting(id, s)) \in Nat /\ snap[v] \in Nat
  <2>1. Voting(id, s) \in SUBSET Voters
    BY DEF Voting
  <2>2. \A y \in Voters : snap[y] \in Nat
    BY <1>2
  <2> QED
    BY <2>1, <2>2, SupplyIsSum, SumPart
<1>10. snapshot' = snapshot
  BY <1>3 DEF token
<1>11. BallotsCounted(id)'
  <2>1. proposals'[id][s] = Sum(snapshot'[id], Voting(id, s)')
    BY <1>4, <1>5, <1>6, <1>8, <1>9, <1>10 DEF BallotsCounted
  <2>2. \A t \in Support \ {s} :
          proposals'[id][t] = Sum(snapshot'[id], Voting(id, t)')
    BY <1>4, <1>5, <1>7, <1>10 DEF BallotsCounted
  <2>3. id <= proposalCount' /\ proposals'[id].voteStart < now'
    BY <1>1, <1>3, <1>4
  <2> QED
    BY <2>1, <2>2, <2>3 DEF BallotsCounted
<1>12. QuorumMet(id)'
  BY <1>1, <1>4 DEF QuorumMet
<1>13. ASSUME NEW i \in ProposalIds \ {id}
       PROVE  BallotsCounted(i)' /\ QuorumMet(i)'
  <2>1. \A t \in Support : Voting(i, t)' = Voting(i, t)
    BY <1>3 DEF Voting
  <2>2. BallotsCounted(i) /\ QuorumMet(i)
    BY DEF Counted
  <2>3. BallotsCounted(i)'
    BY <1>3, <1>10, <2>1, <2>2 DEF BallotsCounted
  <2> QED
    BY <1>3, <2>2, <2>3 DEF QuorumMet, Participation, Needed
<1>14. VotesKept'
  BY <1>3, VotesAside DEF Counted, token
<1> QED
  BY <1>11, <1>12, <1>13, <1>14 DEF Counted

LEMMA QueueCounted ==
  ASSUME GovInv, Counted, GovInv', NEW id \in ProposalIds, Queue(id)
  PROVE  Counted'
<1> DEFINE p == proposals[id]
<1>1. p.state = "PENDING"
  BY LiveIsPending DEF Queue
<1>2. p \in Proposal
  BY DEF GovInv, Typed
<1>3. Outcome(p) = "SUCCEEDED"
  BY <1>1 DEF Queue, LiveState
<1>4. ~ (Participation(p) < Quorum)
  BY <1>3 DEF Outcome
<1>5. Participation(p) \in Nat
  BY <1>2 DEF Participation, Proposal
<1>6. Participation(p) >= Needed
  BY <1>4, <1>5, QuorumIsEnough DEF GovInv
<1>7. /\ SameCounters(p, proposals'[id])
      /\ \A i \in ProposalIds \ {id} : proposals'[i] = proposals[i]
  BY <1>2 DEF GovInv, Typed, Queue, SameCounters, Support, Proposal
<1>8. QuorumMet(id)'
  BY <1>6, <1>7 DEF QuorumMet, Participation, SameCounters, Support, Needed
<1> QED
  BY <1>7, <1>8, StateChangeCounted DEF Queue

LEMMA EndCounted ==
  ASSUME GovInv, Counted, GovInv', NEW id \in ProposalIds,
         Execute(id) \/ \E w \in Voters \cup {Guardian} : Cancel(w, id)
  PROVE  Counted'
<1> DEFINE p == proposals[id]
<1>1. p \in Proposal
  BY DEF GovInv, Typed
<1>2. \E done \in {"DISPATCHED", "EXECUTED", "CANCELLED"} :
        /\ proposals' = [proposals EXCEPT ![id].state = done]
        /\ done = "CANCELLED" \/ p.state = "QUEUED"
  BY DEF Execute, Cancel
<1>3. /\ SameCounters(p, proposals'[id])
      /\ \A i \in ProposalIds \ {id} : proposals'[i] = proposals[i]
      /\ proposals'[id].state = "CANCELLED" \/ p.state = "QUEUED"
  BY <1>1, <1>2 DEF GovInv, Typed, SameCounters, Support, Proposal
<1>4. UNCHANGED <<token, ballots, proposalCount, now>>
  BY DEF Execute, Cancel
<1>5. QuorumMet(id)'
  BY <1>3 DEF Counted, QuorumMet, Participation, SameCounters, Support, Needed
<1> QED
  BY <1>3, <1>4, <1>5, StateChangeCounted

LEMMA TransferKeepsVotes ==
  ASSUME GovInv, VotesKept, NEW v \in Voters, NEW w \in Voters, Transfer(v, w)
  PROVE  VotesKept'
<1> DEFINE F == votes
           G == [votes EXCEPT ![v] = @ - 1]
           H == votes'
<1>1. /\ F \in [Voters -> Nat] /\ v # w /\ F[v] > 0
      /\ H = [F EXCEPT ![v] = @ - 1, ![w] = @ + 1]
      /\ snapshot' = snapshot
  BY DEF GovInv, Typed, Transfer
<1>2. /\ \A x \in Voters : F[x] \in Nat /\ G[x] \in Nat /\ H[x] \in Nat
      /\ \A x \in Voters \ {v} : F[x] = G[x]
      /\ \A x \in Voters \ {w} : G[x] = H[x]
      /\ G[v] = F[v] - 1 /\ H[w] = G[w] + 1
  BY <1>1
<1>3. Sum(F, Voters) = Supply
  BY DEF VotesKept
<1> HIDE DEF F, G, H
<1>4. Sum(G, Voters) = Sum(F, Voters) - F[v] + G[v] /\ Sum(F, Voters) \in Nat
  <2>1. /\ \A x \in Voters : F[x] \in Nat /\ G[x] \in Nat
        /\ \A x \in Voters \ {v} : F[x] = G[x]
    BY <1>2
  <2> QED
    BY ONLY v \in Voters, SupplyIsSum, <2>1, SumUpdate
<1>5. Sum(H, Voters) = Sum(G, Voters) - G[w] + H[w] /\ Sum(G, Voters) \in Nat
  <2>1. /\ \A x \in Voters : G[x] \in Nat /\ H[x] \in Nat
        /\ \A x \in Voters \ {w} : G[x] = H[x]
    BY <1>2
  <2> QED
    BY ONLY w \in Voters, SupplyIsSum, <2>1, SumUpdate
<1>6. Sum(H, Voters) = Sum(F, Voters)
  BY <1>2, <1>4, <1>5
<1> QED
  BY <1>1, <1>3, <1>6 DEF VotesKept, H

LEMMA TickCounted ==
  ASSUME GovInv, Counted, GovInv', Tick
  PROVE  Counted'
<1>1. /\ now' = now + 1 /\ now \in Nat
      /\ UNCHANGED <<votes, proposals, ballots, proposalCount>>
      /\ \A id \in ProposalIds : snapshot'[id] =
           IF id <= proposalCount /\ proposals[id].voteStart = now
           THEN votes ELSE snapshot[id]
  BY DEF GovInv, Typed, Tick, governor
<1>2. VotesKept'
  <2>1. Supply \in Nat
    BY SupplyIsSum
  <2> QED
    BY <1>1, <2>1 DEF Counted, VotesKept
<1>3. ASSUME NEW id \in ProposalIds PROVE BallotsCounted(id)'
  <2>1. BallotsCounted(id)
    BY DEF Counted
  <2>2. \A t \in Support : Voting(id, t)' = Voting(id, t)
    BY <1>1 DEF Voting
  <2>3. \A v \in Voters : ballots'[id][v] # NotVoted =>
          id <= proposalCount' /\ proposals'[id].voteStart < now'
    <3>1. proposals[id].voteStart \in Nat
      BY DEF GovInv, Typed, Proposal
    <3> QED
      BY <1>1, <2>1, <3>1 DEF BallotsCounted
  <2>4. CASE snapshot'[id] = snapshot[id]
    BY <1>1, <2>1, <2>2, <2>3, <2>4 DEF BallotsCounted
  <2>5. CASE proposals[id].voteStart = now
    <3>1. \A v \in Voters : ballots[id][v] = NotVoted
      BY <1>1, <2>1, <2>5 DEF BallotsCounted
    <3>2. \A t \in Support : Voting(id, t) = {}
      BY <3>1 DEF Voting, Support, NotVoted
    <3>3. \A F : Sum(F, {}) = 0
      BY FS_EmptySet, SumStep
    <3> QED
      BY <1>1, <2>1, <2>2, <2>3, <3>2, <3>3 DEF BallotsCounted
  <2> QED
    BY <1>1, <2>4, <2>5
<1>4. ASSUME NEW id \in ProposalIds PROVE QuorumMet(id)'
  BY <1>1 DEF Counted, QuorumMet, Participation, Needed
<1> QED
  BY <1>2, <1>3, <1>4 DEF Counted

(* Steps that leave the proposals alone. *)
LEMMA ElsewhereCounted ==
  ASSUME GovInv, Counted, GovInv', VotesKept',
         UNCHANGED <<now, snapshot, proposalCount, proposals, ballots>>
  PROVE  Counted'
<1>1. \A id \in ProposalIds : QuorumMet(id)'
  BY DEF Counted, QuorumMet, Participation, Needed
<1>2. now \in Int /\ proposalCount \in Int
  BY DEF GovInv, Typed
<1> QED
  BY <1>1, <1>2, CountedAside

LEMMA CountedNext ==
  ASSUME GovInv, Counted, [Next]_vars
  PROVE  Counted'
<1>0. GovInv'
  BY NextInv
<1>1. ASSUME NEW v \in Voters, NEW a \in Actions, Propose(v, a)
      PROVE  Counted'
  BY <1>0, <1>1, ProposeCounted
<1>2. ASSUME NEW v \in Voters, NEW id \in ProposalIds, NEW s \in Support,
             CastVote(v, id, s)
      PROVE  Counted'
  BY <1>0, <1>2, CastVoteCounted
<1>3. ASSUME NEW id \in ProposalIds, Queue(id) PROVE Counted'
  BY <1>0, <1>3, QueueCounted
<1>4. ASSUME NEW id \in ProposalIds,
             Execute(id) \/ \E w \in Voters \cup {Guardian} : Cancel(w, id)
      PROVE  Counted'
  BY <1>0, <1>4, EndCounted
<1>5. ASSUME NEW v \in Voters, NEW w \in Voters, Transfer(v, w)
      PROVE  Counted'
  <2>1. VotesKept'
    BY <1>5, TransferKeepsVotes DEF Counted
  <2> QED
    BY <1>0, <1>5, <2>1, ElsewhereCounted DEF Transfer, governor
<1>6. ASSUME NEW s \in AdminSettings, AdminSets(s) PROVE Counted'
  <2>1. VotesKept'
    BY <1>6, VotesAside DEF Counted, AdminSets, token
  <2> QED
    BY <1>0, <1>6, <2>1, ElsewhereCounted DEF AdminSets, governor, token
<1>7. CASE Tick
  BY <1>0, <1>7, TickCounted
<1>8. CASE UNCHANGED vars
  <2>1. VotesKept'
    BY <1>8, VotesAside DEF Counted, vars, token
  <2> QED
    BY <1>0, <1>8, <2>1, ElsewhereCounted DEF vars, governor, token
<1> QED
  BY <1>1, <1>2, <1>3, <1>4, <1>5, <1>6, <1>7, <1>8 DEF Next

LEMMA CountedInit == Init => Counted
<1> SUFFICES ASSUME Init PROVE Counted
  OBVIOUS
<1>1. Sum(votes, Voters) = Supply /\ Supply \in Nat
  BY SupplyIsSum DEF Init
<1>2. ASSUME NEW id \in ProposalIds
      PROVE  Sum(snapshot[id], Voters) = 0
  <2>1. \A v \in Voters : snapshot[id][v] = 0
    BY DEF Init
  <2> QED
    BY <2>1, SupplyIsSum, SumOfZeros
<1>3. ASSUME NEW id \in ProposalIds PROVE BallotsCounted(id) /\ QuorumMet(id)
  <2>1. \A v \in Voters : ballots[id][v] = NotVoted
    BY DEF Init
  <2>2. \A t \in Support : Voting(id, t) = {} /\ proposals[id][t] = 0
    BY <2>1 DEF Voting, Support, NotVoted, Init, NoProposal
  <2>3. \A F : Sum(F, {}) = 0
    BY FS_EmptySet, SumStep
  <2>4. proposals[id].state = "NONE"
    BY DEF Init, NoProposal
  <2> QED
    BY <2>1, <2>2, <2>3, <2>4 DEF BallotsCounted, QuorumMet
<1> QED
  BY <1>1, <1>2, <1>3 DEF Counted, VotesKept

(* The sums the property is stated with. *)
LEMMA ChosenIsSum ==
  ASSUME GovInv, Counted, NEW id \in ProposalIds
  PROVE  /\ \A s \in Support : Chosen(id, {s}) = proposals[id][s]
         /\ Chosen(id, Support) = Participation(proposals[id])
         /\ Chosen(id, Support) <= Supply
<1> DEFINE F == snapshot[id]
           A == Voting(id, "forVotes")
           B == Voting(id, "againstVotes")
           C == Voting(id, "abstainVotes")
<1>1. IsFiniteSet(Voters) /\ \A v \in Voters : F[v] \in Nat
  BY SupplyIsSum DEF GovInv, Typed
<1>2. \A s \in Support : Voting(id, s) \in SUBSET Voters
  BY DEF Voting
<1>3. \A S \in SUBSET Voters : IsFiniteSet(S) /\ SumFunctionOnSet(F, S) = Sum(F, S)
  BY <1>1, FS_Subset, FunctionSum
<1>4. ASSUME NEW s \in Support PROVE Chosen(id, {s}) = proposals[id][s]
  <2>1. {v \in Voters : ballots[id][v] \in {s}} = Voting(id, s)
    BY DEF Voting
  <2> QED
    BY <1>2, <1>3, <2>1 DEF Chosen, Counted, BallotsCounted
<1>5. {v \in Voters : ballots[id][v] \in Support} = (A \cup B) \cup C
  BY DEF Voting, Support
<1>6. Chosen(id, Support) = Sum(F, (A \cup B) \cup C)
  <2>1. (A \cup B) \cup C \in SUBSET Voters
    BY DEF Voting
  <2> QED
    BY <1>3, <1>5, <2>1 DEF Chosen
<1>7. /\ Sum(F, A) = proposals[id].forVotes
      /\ Sum(F, B) = proposals[id].againstVotes
      /\ Sum(F, C) = proposals[id].abstainVotes
  BY DEF Counted, BallotsCounted, Support
<1>8. /\ A \in SUBSET Voters /\ B \in SUBSET Voters /\ C \in SUBSET Voters
      /\ A \cap B = {} /\ (A \cup B) \cap C = {}
  BY DEF Voting
<1>9. Sum(F, Voters) <= Supply
  BY DEF Counted, VotesKept
<1> HIDE DEF A, B, C, F
<1>10. /\ Sum(F, A \cup B) = Sum(F, A) + Sum(F, B)
       /\ Sum(F, A) \in Nat /\ Sum(F, B) \in Nat
  BY <1>1, <1>3, <1>8, SumDisjoint
<1>11. Sum(F, (A \cup B) \cup C) = Sum(F, A \cup B) + Sum(F, C)
  <2> DEFINE D == A \cup B
  <2>1. D \in SUBSET Voters /\ IsFiniteSet(D) /\ IsFiniteSet(C)
        /\ D \cap C = {} /\ \A y \in D \cup C : F[y] \in Nat
    BY <1>1, <1>3, <1>8
  <2> HIDE DEF D
  <2>2. Sum(F, D \cup C) = Sum(F, D) + Sum(F, C)
    BY ONLY <2>1, SumDisjoint
  <2> QED
    BY <2>2 DEF D
<1>12. /\ Sum(F, (A \cup B) \cup C) <= Sum(F, Voters)
       /\ Sum(F, Voters) \in Nat /\ Sum(F, (A \cup B) \cup C) \in Nat
  <2>1. (A \cup B) \cup C \in SUBSET Voters
    BY <1>8
  <2> QED
    BY <1>1, <2>1, SumPart
<1>13. Chosen(id, Support) = Participation(proposals[id])
  BY <1>6, <1>7, <1>10, <1>11 DEF Participation
<1>14. Chosen(id, Support) <= Supply
  BY <1>6, <1>9, <1>12, SupplyIsSum
<1> QED
  BY <1>4, <1>13, <1>14

(* Governor.castVote and queue, AegisToken's checkpoints: the counters are *)
(* the snapshot's votes, each counted once, however votes move; whatever   *)
(* ran had a majority of them and the quorum of the supply.                *)
THEOREM VotesCountOnce == Spec => []PerformedAsVoted
<1>1. GovInv /\ Counted /\ [Next]_vars => Counted'
  BY CountedNext
<1>2. GovInv /\ Counted => PerformedAsVoted
  <2> SUFFICES ASSUME GovInv, Counted, NEW id \in ProposalIds
               PROVE  /\ ActedInTime(id)
                      /\ Chosen(id, Support) <= Supply
                      /\ Participation(proposals[id]) = Chosen(id, Support)
                      /\ performed[id] # <<>> =>
                           /\ Chosen(id, {"forVotes"})
                                > Chosen(id, {"againstVotes"})
                           /\ Chosen(id, Support) >= Needed
    BY DEF PerformedAsVoted, Needed
  <2>1. ActedInTime(id)
    BY DEF GovInv, Passed, Acted, ActedInTime
  <2>2. performed[id] # <<>> =>
          Participation(proposals[id]) >= Needed
    BY DEF GovInv, Acted, Counted, QuorumMet
  <2>3. /\ Chosen(id, {"forVotes"}) = proposals[id].forVotes
        /\ Chosen(id, {"againstVotes"}) = proposals[id].againstVotes
    BY ChosenIsSum DEF Support
  <2> QED
    BY <2>1, <2>2, <2>3, ChosenIsSum DEF ActedInTime
<1> QED
  BY <1>1, <1>2, CountedInit, GovernanceInvariant, PTL DEF Spec
=============================================================================
