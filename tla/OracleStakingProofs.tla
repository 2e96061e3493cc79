------------------------ MODULE OracleStakingProofs ------------------------
(***************************************************************************)
(* Theorems about OracleStaking, for any number of operators, any amounts  *)
(* and any configuration the code accepts.                                 *)
(***************************************************************************)
EXTENDS OracleStaking, DataFacts, TLAPS

(* What the withdrawal property needs in every state: the period in force  *)
(* is never shorter than the minimum, and a pending request was made after *)
(* the operator last was active.                                           *)
UnbondingSound ==
  /\ unbondingPeriod >= MinUnbonding
  /\ \A n \in Nodes :
       /\ lastActiveAt[n] <= now
       /\ nodes[n].pendingUnstake # 0 =>
            nodes[n].claimableAt >= lastActiveAt[n] + MinUnbonding

(* An address that never registered holds nothing in the registry. *)
BlankUntilRegistered ==
  \A n \in Nodes : ~nodes[n].registered =>
    ~nodes[n].active /\ nodes[n].stake = 0 /\ nodes[n].pendingUnstake = 0

StakingInv ==
  /\ TypeOK
  /\ MembershipSound
  /\ StakeConserved
  /\ UnbondingSound
  /\ BlankUntilRegistered

-----------------------------------------------------------------------------
(* The three ways an operation writes a node's record. *)

LEMMA KeepWrites ==
  ASSUME TypeOK, NEW n \in Nodes, NEW info \in NodeInfo, Keep(n, info)
  PROVE  /\ nodes' \in [Nodes -> NodeInfo]
         /\ nodes'[n] = info
         /\ \A m \in Nodes \ {n} : nodes'[m] = nodes[m]
         /\ UNCHANGED membership
BY DEF Keep, TypeOK

(* The fields no membership change touches. *)
SameStake(old, new) ==
  /\ new.stake = old.stake
  /\ new.pendingUnstake = old.pendingUnstake
  /\ new.claimableAt = old.claimableAt
  /\ new.slashedTotal = old.slashedTotal
  /\ new.registered = old.registered

LEMMA ActivateWrites ==
  ASSUME TypeOK, NEW n \in Nodes, NEW info \in NodeInfo, Activate(n, info)
  PROVE  /\ nodes' \in [Nodes -> NodeInfo]
         /\ SameStake(info, nodes'[n])
         /\ nodes'[n].active
         /\ nodes'[n].activatedAtVersion = nodeSetVersion + 1
         /\ \A m \in Nodes \ {n} : nodes'[m] = nodes[m]
         /\ nodeSetVersion' \in 0..MaxVersion
         /\ UNCHANGED lastActiveAt
<1> DEFINE new == [info EXCEPT !.active = TRUE,
                               !.activatedAtVersion = nodeSetVersion + 1]
<1>1. nodeSetVersion + 1 \in 0..MaxVersion
  BY StakingAssumption DEF Activate, TypeOK, StakingAssumption
<1>2. new \in NodeInfo
  BY <1>1 DEF NodeInfo
<1>3. /\ new.active
      /\ new.activatedAtVersion = nodeSetVersion + 1
      /\ SameStake(info, new)
  BY DEF NodeInfo, SameStake
<1>4. nodes' = [nodes EXCEPT ![n] = new]
  BY DEF Activate
<1> HIDE DEF new
<1> QED
  BY <1>1, <1>2, <1>3, <1>4 DEF Activate, TypeOK

LEMMA DeactivateWrites ==
  ASSUME TypeOK, NEW n \in Nodes, NEW info \in NodeInfo, Deactivate(n, info)
  PROVE  /\ nodes' \in [Nodes -> NodeInfo]
         /\ SameStake(info, nodes'[n])
         /\ ~nodes'[n].active
         /\ nodes'[n].activatedAtVersion = info.activatedAtVersion
         /\ \A m \in Nodes \ {n} : nodes'[m] = nodes[m]
         /\ nodeSetVersion' \in 0..MaxVersion
         /\ lastActiveAt' = [lastActiveAt EXCEPT ![n] = now]
         /\ lastActiveAt' \in [Nodes -> 0..MaxTime]
<1> DEFINE new == [info EXCEPT !.active = FALSE]
<1>1. nodeSetVersion + 1 \in 0..MaxVersion
  BY StakingAssumption DEF Deactivate, TypeOK, StakingAssumption
<1>2. new \in NodeInfo
  BY DEF NodeInfo
<1>3. /\ ~new.active
      /\ new.activatedAtVersion = info.activatedAtVersion
      /\ SameStake(info, new)
  BY DEF NodeInfo, SameStake
<1>4. nodes' = [nodes EXCEPT ![n] = new]
  BY DEF Deactivate
<1>5. lastActiveAt' \in [Nodes -> 0..MaxTime]
  BY DEF Deactivate, TypeOK
<1> HIDE DEF new
<1> QED
  BY <1>1, <1>2, <1>3, <1>4, <1>5 DEF Deactivate, TypeOK

-----------------------------------------------------------------------------
(* The count follows the set through each of the three. *)

LEMMA ActiveNodesFinite == IsFiniteSet(ActiveNodes)
<1>1. ActiveNodes \in SUBSET Nodes
  BY DEF ActiveNodes
<1> QED
  BY <1>1, FS_Subset, StakingAssumption DEF StakingAssumption

LEMMA KeepMembership ==
  ASSUME TypeOK, MembershipSound, NEW n \in Nodes, NEW info \in NodeInfo,
         Keep(n, info), info.active = nodes[n].active,
         info.active => info.pendingUnstake = 0
  PROVE  MembershipSound'
<1>1. ActiveNodes' = ActiveNodes
  BY KeepWrites DEF ActiveNodes
<1>2. activeNodeCount' = activeNodeCount
  BY DEF Keep, membership
<1>3. \A m \in Nodes : nodes'[m].pendingUnstake # 0 => ~nodes'[m].active
  BY KeepWrites DEF MembershipSound
<1> QED
  BY <1>1, <1>2, <1>3 DEF MembershipSound

LEMMA ActivateMembership ==
  ASSUME TypeOK, MembershipSound, NEW n \in Nodes, NEW info \in NodeInfo,
         Activate(n, info), ~nodes[n].active, activeNodeCount < maxNodes,
         info.pendingUnstake = 0
  PROVE  MembershipSound' /\ activeNodeCount' \in Nat
<1>1. nodes'[n].active /\ nodes'[n].pendingUnstake = 0
  BY ActivateWrites DEF SameStake
<1>2. ActiveNodes' = ActiveNodes \cup {n}
  BY <1>1, ActivateWrites DEF ActiveNodes
<1>3. Cardinality(ActiveNodes') = Cardinality(ActiveNodes) + 1
  <2>1. n \notin ActiveNodes
    BY DEF ActiveNodes
  <2> QED
    BY ONLY <1>2, <2>1, ActiveNodesFinite, FS_AddElement
<1>4. activeNodeCount' = activeNodeCount + 1
  BY DEF Activate
<1>5. activeNodeCount' <= MaxNodesCeiling
  BY <1>4, StakingAssumption DEF TypeOK, StakingAssumption
<1>6. \A m \in Nodes : nodes'[m].pendingUnstake # 0 => ~nodes'[m].active
  BY <1>1, ActivateWrites DEF MembershipSound
<1> QED
  BY <1>3, <1>4, <1>5, <1>6 DEF MembershipSound, TypeOK

LEMMA DeactivateMembership ==
  ASSUME TypeOK, MembershipSound, NEW n \in Nodes, NEW info \in NodeInfo,
         Deactivate(n, info), nodes[n].active
  PROVE  MembershipSound' /\ activeNodeCount' \in Nat
<1>1. ~nodes'[n].active
  BY DeactivateWrites
<1>2. ActiveNodes' = ActiveNodes \ {n}
  BY <1>1, DeactivateWrites DEF ActiveNodes
<1>3. Cardinality(ActiveNodes') = Cardinality(ActiveNodes) - 1
  BY <1>2, ActiveNodesFinite, FS_RemoveElement DEF ActiveNodes
<1>4. activeNodeCount' = activeNodeCount - 1
  BY DEF Deactivate
<1>5. Cardinality(ActiveNodes') \in Nat
  <2>1. IsFiniteSet(ActiveNodes')
    BY <1>2, ActiveNodesFinite, FS_RemoveElement
  <2> QED BY <2>1, FS_CardinalityType
<1>6. \A m \in Nodes : nodes'[m].pendingUnstake # 0 => ~nodes'[m].active
  BY <1>1, DeactivateWrites DEF MembershipSound
<1> QED
  BY <1>3, <1>4, <1>5, <1>6, StakingAssumption
     DEF MembershipSound, TypeOK, StakingAssumption

-----------------------------------------------------------------------------
(* One operation on node n: `info` is the record it writes, before a        *)
(* membership change.  The operator's tokens move so that the account      *)
(* still adds up, and the membership changes only from the right side.     *)
Accounted(n, info) ==
  /\ wallet' \in [Nodes -> Nat]
  /\ \A m \in Nodes \ {n} : wallet'[m] = wallet[m]
  /\ wallet'[n] + info.stake + info.slashedTotal = InitialWallet
  /\ custody' \in Nat
  /\ slashedInRound' \subseteq RoundIds \X Nodes
  /\ UNCHANGED <<parameters, now>>

StaysAsItWas(n, info) ==
  /\ Keep(n, info)
  /\ info.active => info.pendingUnstake = 0
  /\ info.pendingUnstake # 0 =>
       info.claimableAt >= lastActiveAt[n] + MinUnbonding

ComesIn(n, info) ==
  /\ Activate(n, info)
  /\ ~nodes[n].active
  /\ activeNodeCount < maxNodes
  /\ info.pendingUnstake = 0

GoesOut(n, info) ==
  /\ Deactivate(n, info)
  /\ nodes[n].active
  /\ info.pendingUnstake # 0 => info.claimableAt >= now + MinUnbonding

Writes(n, info) ==
  /\ info.registered
  /\ info.active = nodes[n].active
  /\ info.activatedAtVersion = nodes[n].activatedAtVersion
  /\ Accounted(n, info)
  /\ StaysAsItWas(n, info) \/ ComesIn(n, info) \/ GoesOut(n, info)

LEMMA KeepInv ==
  ASSUME StakingInv, NEW n \in Nodes, NEW info \in NodeInfo,
         Writes(n, info), StaysAsItWas(n, info)
  PROVE  StakingInv'
<1>1. /\ TypeOK /\ MembershipSound /\ StakeConserved /\ UnbondingSound
      /\ BlankUntilRegistered
  BY DEF StakingInv
<1>2. /\ Keep(n, info) /\ Accounted(n, info) /\ info.registered
      /\ info.active = nodes[n].active
  BY DEF Writes, StaysAsItWas
<1>3. TypeOK'
  BY <1>1, <1>2, KeepWrites DEF TypeOK, Accounted, parameters, membership
<1>4. MembershipSound'
  BY <1>1, <1>2, KeepMembership DEF StaysAsItWas
<1>5. StakeConserved'
  BY <1>1, <1>2, KeepWrites DEF StakeConserved, Accounted
<1>6. UnbondingSound'
  BY <1>1, <1>2, KeepWrites
     DEF UnbondingSound, Accounted, parameters, membership, StaysAsItWas
<1>7. BlankUntilRegistered'
  BY <1>1, <1>2, KeepWrites DEF BlankUntilRegistered
<1> QED
  BY <1>3, <1>4, <1>5, <1>6, <1>7 DEF StakingInv

LEMMA ActivateInv ==
  ASSUME StakingInv, NEW n \in Nodes, NEW info \in NodeInfo,
         Writes(n, info), ComesIn(n, info)
  PROVE  StakingInv'
<1>1. /\ TypeOK /\ MembershipSound /\ StakeConserved /\ UnbondingSound
      /\ BlankUntilRegistered
  BY DEF StakingInv
<1>2. /\ Activate(n, info) /\ Accounted(n, info) /\ info.registered
      /\ info.active = nodes[n].active
  BY DEF Writes, ComesIn
<1>3. MembershipSound' /\ activeNodeCount' \in Nat
  BY <1>1, <1>2, ActivateMembership DEF ComesIn
<1>4. TypeOK'
  BY <1>1, <1>2, <1>3, ActivateWrites DEF TypeOK, Accounted, parameters
<1>5. StakeConserved'
  BY <1>1, <1>2, ActivateWrites DEF StakeConserved, Accounted, SameStake
<1>6. UnbondingSound'
  BY <1>1, <1>2, ActivateWrites
     DEF UnbondingSound, Accounted, parameters, SameStake, ComesIn
<1>7. BlankUntilRegistered'
  BY <1>1, <1>2, ActivateWrites DEF BlankUntilRegistered, SameStake
<1> QED
  BY <1>3, <1>4, <1>5, <1>6, <1>7 DEF StakingInv

LEMMA DeactivateInv ==
  ASSUME StakingInv, NEW n \in Nodes, NEW info \in NodeInfo,
         Writes(n, info), GoesOut(n, info)
  PROVE  StakingInv'
<1>1. /\ TypeOK /\ MembershipSound /\ StakeConserved /\ UnbondingSound
      /\ BlankUntilRegistered
  BY DEF StakingInv
<1>2. /\ Deactivate(n, info) /\ Accounted(n, info) /\ info.registered
      /\ info.active = nodes[n].active
  BY DEF Writes, GoesOut
<1>3. MembershipSound' /\ activeNodeCount' \in Nat
  BY <1>1, <1>2, DeactivateMembership DEF GoesOut
<1>4. TypeOK'
  BY <1>1, <1>2, <1>3, DeactivateWrites DEF TypeOK, Accounted, parameters
<1>5. StakeConserved'
  BY <1>1, <1>2, DeactivateWrites DEF StakeConserved, Accounted, SameStake
<1>6. UnbondingSound'
  <2>1. now' = now /\ unbondingPeriod' = unbondingPeriod
    BY <1>2 DEF Accounted, parameters
  <2>2. now \in Nat /\ lastActiveAt \in [Nodes -> 0..MaxTime]
    BY <1>1, StakingAssumption DEF TypeOK, StakingAssumption
  <2>3. lastActiveAt'[n] = now
    BY <1>1, <1>2, <2>2, DeactivateWrites
  <2>4. \A m \in Nodes \ {n} : lastActiveAt'[m] = lastActiveAt[m]
    BY <1>1, <1>2, <2>2, DeactivateWrites
  <2> QED
    BY <1>1, <1>2, <2>1, <2>2, <2>3, <2>4, DeactivateWrites
       DEF UnbondingSound, SameStake, GoesOut
<1>7. BlankUntilRegistered'
  BY <1>1, <1>2, DeactivateWrites DEF BlankUntilRegistered, SameStake
<1> QED
  BY <1>3, <1>4, <1>5, <1>6, <1>7 DEF StakingInv

LEMMA WritesInv ==
  ASSUME StakingInv, NEW n \in Nodes, NEW info \in NodeInfo, Writes(n, info)
  PROVE  StakingInv'
BY KeepInv, ActivateInv, DeactivateInv DEF Writes

(* Each operation is such a write.  All but slash leave slashedTotal.     *)

SameLoss(n, info) == info.slashedTotal = nodes[n].slashedTotal

LEMMA RegisterWrites ==
  ASSUME StakingInv, NEW n \in Nodes, NEW amount \in Amounts,
         Register(n, amount)
  PROVE  \E info \in NodeInfo : Writes(n, info) /\ SameLoss(n, info)
<1> DEFINE info == [nodes[n] EXCEPT !.registered = TRUE, !.stake = amount]
<1>1. nodes[n] \in NodeInfo /\ amount \in Nat
  BY StakingAssumption DEF StakingInv, TypeOK, StakingAssumption
<1>2. info \in NodeInfo
  BY <1>1 DEF NodeInfo
<1>3. /\ info.registered
      /\ info.stake = amount
      /\ info.slashedTotal = nodes[n].slashedTotal
      /\ info.pendingUnstake = nodes[n].pendingUnstake
      /\ info.active = nodes[n].active
      /\ info.activatedAtVersion = nodes[n].activatedAtVersion
  BY <1>1 DEF NodeInfo
<1>4. /\ Activate(n, info) /\ activeNodeCount < maxNodes
      /\ PayIn(n, amount) /\ UNCHANGED <<slashedInRound, parameters, now>>
  BY DEF Register
<1> HIDE DEF info
<1>5. ~nodes[n].active /\ nodes[n].stake = 0 /\ nodes[n].pendingUnstake = 0
  BY DEF Register, StakingInv, BlankUntilRegistered
<1>6. Accounted(n, info)
  BY <1>1, <1>3, <1>4, <1>5, StakingAssumption
     DEF Accounted, PayIn, StakingInv, TypeOK, StakeConserved, NodeInfo,
         StakingAssumption
<1>7. Writes(n, info) /\ SameLoss(n, info)
  BY <1>3, <1>4, <1>5, <1>6 DEF Writes, ComesIn, SameLoss
<1> QED
  BY <1>2, <1>7

LEMMA StakeWrites ==
  ASSUME StakingInv, NEW n \in Nodes, NEW amount \in Amounts,
         Stake(n, amount)
  PROVE  \E info \in NodeInfo : Writes(n, info) /\ SameLoss(n, info)
<1> DEFINE info == [nodes[n] EXCEPT !.stake = @ + amount]
<1>1. nodes[n] \in NodeInfo /\ amount \in Nat
  BY StakingAssumption DEF StakingInv, TypeOK, StakingAssumption
<1>2. info \in NodeInfo
  BY <1>1 DEF NodeInfo
<1>3. /\ info.registered = nodes[n].registered
      /\ info.stake = nodes[n].stake + amount
      /\ info.slashedTotal = nodes[n].slashedTotal
      /\ info.pendingUnstake = nodes[n].pendingUnstake
      /\ info.claimableAt = nodes[n].claimableAt
      /\ info.active = nodes[n].active
      /\ info.activatedAtVersion = nodes[n].activatedAtVersion
  BY <1>1 DEF NodeInfo
<1>4. /\ nodes[n].registered
      /\ PayIn(n, amount) /\ UNCHANGED <<slashedInRound, parameters, now>>
      /\ \/ /\ ~info.active
            /\ info.pendingUnstake = 0
            /\ activeNodeCount < maxNodes
            /\ Activate(n, info)
         \/ Keep(n, info)
  BY DEF Stake
<1> HIDE DEF info
<1>5. Accounted(n, info)
  BY <1>1, <1>3, <1>4, StakingAssumption
     DEF Accounted, PayIn, StakingInv, TypeOK, StakeConserved, NodeInfo,
         StakingAssumption
<1>6. /\ info.active => info.pendingUnstake = 0
      /\ info.pendingUnstake # 0 =>
           info.claimableAt >= lastActiveAt[n] + MinUnbonding
  BY <1>3 DEF StakingInv, MembershipSound, UnbondingSound
<1>7. Writes(n, info) /\ SameLoss(n, info)
  BY <1>3, <1>4, <1>5, <1>6 DEF Writes, ComesIn, StaysAsItWas, SameLoss
<1> QED
  BY <1>2, <1>7

LEMMA RequestUnstakeWrites ==
  ASSUME StakingInv, NEW n \in Nodes, NEW amount \in Amounts,
         RequestUnstake(n, amount)
  PROVE  \E info \in NodeInfo : Writes(n, info) /\ SameLoss(n, info)
<1> DEFINE info == [nodes[n] EXCEPT !.pendingUnstake = amount,
                                    !.claimableAt = now + unbondingPeriod]
<1>1. /\ nodes[n] \in NodeInfo /\ amount \in Nat
      /\ now \in Nat /\ unbondingPeriod \in Nat
      /\ now + unbondingPeriod \in Nat
  BY StakingAssumption DEF StakingInv, TypeOK, StakingAssumption
<1>2. info \in NodeInfo
  BY <1>1 DEF NodeInfo
<1>3. /\ info.registered = nodes[n].registered
      /\ info.stake = nodes[n].stake
      /\ info.slashedTotal = nodes[n].slashedTotal
      /\ info.claimableAt = now + unbondingPeriod
      /\ info.active = nodes[n].active
      /\ info.activatedAtVersion = nodes[n].activatedAtVersion
  BY <1>1 DEF NodeInfo
<1>4. /\ nodes[n].registered
      /\ UNCHANGED <<slashedInRound, parameters, tokens, now>>
      /\ \/ nodes[n].active /\ Deactivate(n, info)
         \/ ~nodes[n].active /\ Keep(n, info)
  BY DEF RequestUnstake
<1> HIDE DEF info
<1>5. Accounted(n, info)
  BY <1>1, <1>3, <1>4
     DEF Accounted, tokens, StakingInv, TypeOK, StakeConserved
<1>6. /\ info.claimableAt >= now + MinUnbonding
      /\ info.claimableAt >= lastActiveAt[n] + MinUnbonding
  BY <1>1, <1>3, StakingAssumption
     DEF StakingInv, UnbondingSound, TypeOK, StakingAssumption
<1>7. Writes(n, info) /\ SameLoss(n, info)
  BY <1>3, <1>4, <1>5, <1>6 DEF Writes, GoesOut, StaysAsItWas, SameLoss
<1> QED
  BY <1>2, <1>7

LEMMA CancelUnstakeWrites ==
  ASSUME StakingInv, NEW n \in Nodes, CancelUnstake(n)
  PROVE  \E info \in NodeInfo : Writes(n, info) /\ SameLoss(n, info)
<1> DEFINE info == [nodes[n] EXCEPT !.pendingUnstake = 0, !.claimableAt = 0]
<1>1. nodes[n] \in NodeInfo
  BY DEF StakingInv, TypeOK
<1>2. info \in NodeInfo
  BY <1>1 DEF NodeInfo
<1>3. /\ info.registered = nodes[n].registered
      /\ info.stake = nodes[n].stake
      /\ info.slashedTotal = nodes[n].slashedTotal
      /\ info.pendingUnstake = 0
      /\ info.active = nodes[n].active
      /\ info.activatedAtVersion = nodes[n].activatedAtVersion
  BY <1>1 DEF NodeInfo
<1>4. /\ UNCHANGED <<slashedInRound, parameters, tokens, now>>
      /\ \/ activeNodeCount < maxNodes /\ Activate(n, info)
         \/ Keep(n, info)
  BY DEF CancelUnstake
<1> HIDE DEF info
<1>5. Accounted(n, info)
  BY <1>1, <1>3, <1>4
     DEF Accounted, tokens, StakingInv, TypeOK, StakeConserved
<1>6. nodes[n].registered /\ ~nodes[n].active
  BY DEF CancelUnstake, StakingInv, MembershipSound, BlankUntilRegistered
<1>7. Writes(n, info) /\ SameLoss(n, info)
  BY <1>3, <1>4, <1>5, <1>6 DEF Writes, ComesIn, StaysAsItWas, SameLoss
<1> QED
  BY <1>2, <1>7

LEMMA CompleteUnstakeWrites ==
  ASSUME StakingInv, NEW n \in Nodes, CompleteUnstake(n)
  PROVE  \E info \in NodeInfo : Writes(n, info) /\ SameLoss(n, info)
<1> DEFINE amount == Lesser(nodes[n].pendingUnstake, nodes[n].stake)
           info == [nodes[n] EXCEPT !.pendingUnstake = 0, !.claimableAt = 0,
                                    !.stake = @ - amount]
<1>1. nodes[n] \in NodeInfo
  BY DEF StakingInv, TypeOK
<1>2. amount \in Nat /\ nodes[n].stake - amount \in Nat
  BY <1>1 DEF Lesser, NodeInfo
<1>3. /\ Keep(n, info) /\ PayOut(n, amount)
      /\ UNCHANGED <<slashedInRound, parameters, now>>
  BY DEF CompleteUnstake
<1> HIDE DEF amount
<1>4. info \in NodeInfo
  BY <1>1, <1>2 DEF NodeInfo
<1>5. /\ info.registered = nodes[n].registered
      /\ info.stake = nodes[n].stake - amount
      /\ info.slashedTotal = nodes[n].slashedTotal
      /\ info.pendingUnstake = 0
      /\ info.active = nodes[n].active
      /\ info.activatedAtVersion = nodes[n].activatedAtVersion
  BY <1>1, <1>2 DEF NodeInfo
<1> HIDE DEF info
<1>6. Accounted(n, info)
  <2>1. /\ wallet \in [Nodes -> Nat] /\ wallet[n] \in Nat
        /\ nodes[n].stake \in Nat /\ nodes[n].slashedTotal \in Nat
        /\ wallet[n] + nodes[n].stake + nodes[n].slashedTotal = InitialWallet
        /\ custody \in Nat /\ slashedInRound \subseteq RoundIds \X Nodes
    BY <1>1 DEF StakingInv, TypeOK, StakeConserved, NodeInfo
  <2>2. /\ wallet' \in [Nodes -> Nat]
        /\ \A m \in Nodes \ {n} : wallet'[m] = wallet[m]
        /\ wallet'[n] = wallet[n] + amount
        /\ custody' \in Nat
    BY <2>1, <1>2, <1>3 DEF PayOut
  <2> QED
    BY <1>2, <1>3, <1>5, <2>1, <2>2 DEF Accounted
<1>7. nodes[n].registered
  BY DEF CompleteUnstake, StakingInv, BlankUntilRegistered
<1>8. Writes(n, info) /\ SameLoss(n, info)
  BY <1>3, <1>5, <1>6, <1>7 DEF Writes, StaysAsItWas, SameLoss,
     CompleteUnstake, StakingInv, MembershipSound
<1> QED
  BY <1>4, <1>8

LEMMA AdminDeactivateWrites ==
  ASSUME StakingInv, NEW n \in Nodes, AdminDeactivate(n)
  PROVE  \E info \in NodeInfo : Writes(n, info) /\ SameLoss(n, info)
<1>1. nodes[n] \in NodeInfo /\ nodes[n].active /\ nodes[n].registered
  BY DEF AdminDeactivate, StakingInv, TypeOK
<1>2. Deactivate(n, nodes[n])
  BY DEF AdminDeactivate
<1>3. Accounted(n, nodes[n])
  BY DEF AdminDeactivate, Accounted, tokens, StakingInv, TypeOK,
         StakeConserved
<1>4. nodes[n].pendingUnstake = 0
  BY <1>1 DEF StakingInv, MembershipSound
<1>5. Writes(n, nodes[n]) /\ SameLoss(n, nodes[n])
  BY <1>1, <1>2, <1>3, <1>4 DEF Writes, GoesOut, SameLoss
<1> QED
  BY <1>1, <1>5

LEMMA ProductNat ==
  ASSUME NEW a \in Nat, NEW b \in Nat
  PROVE  a * b \in Nat
OBVIOUS

(* The cap is rounded down. *)
LEMMA CapRoundsDown ==
  ASSUME TypeOK, NEW n \in Nodes
  PROVE  /\ SlashCap(n) \in Int
         /\ nodes[n].stake * MaxSlashBps \in Nat
         /\ SlashCap(n) * BPS <= nodes[n].stake * MaxSlashBps
<1>1. nodes[n].stake \in Nat
  BY DEF TypeOK, NodeInfo
<1>2. MaxSlashBps \in Nat
  BY StakingAssumption DEF StakingAssumption, BPS
<1> DEFINE x == nodes[n].stake * MaxSlashBps
<1>3. x \in Nat
  BY <1>1, <1>2, ProductNat
<1>4. SlashCap(n) = x \div 10000
  BY DEF SlashCap, BPS
<1> HIDE DEF x
<1>5. x \div 10000 \in Int /\ (x \div 10000) * 10000 <= x
  BY <1>3
<1>6. SlashCap(n) \in Int /\ x \in Nat /\ SlashCap(n) * BPS <= x
  BY <1>3, <1>4, <1>5 DEF BPS
<1> QED
  BY <1>6 DEF x

(* What a slash takes is within the cap on the stake at that moment. *)
Charged(n, info) ==
  /\ \E r \in RoundIds : slashedInRound' \ slashedInRound = {<<r, n>>}
  /\ info.slashedTotal - nodes[n].slashedTotal <= SlashCap(n)

LEMMA SlashWrites ==
  ASSUME StakingInv, NEW n \in Nodes, NEW r \in RoundIds,
         NEW amount \in Amounts, Slash(n, r, amount)
  PROVE  \E info \in NodeInfo : Writes(n, info) /\ Charged(n, info)
<1> DEFINE slashed == Lesser(amount, nodes[n].stake)
           info == [nodes[n] EXCEPT !.stake = @ - slashed,
                                    !.slashedTotal = @ + slashed]
<1>1. nodes[n] \in NodeInfo /\ amount \in Nat
  BY StakingAssumption DEF StakingInv, TypeOK, StakingAssumption
<1>2. /\ slashed \in Nat /\ nodes[n].stake - slashed \in Nat
      /\ nodes[n].slashedTotal + slashed \in Nat
      /\ slashed <= amount
  BY <1>1 DEF Lesser, NodeInfo
<1>3. /\ nodes[n].registered
      /\ <<r, n>> \notin slashedInRound
      /\ slashedInRound' = slashedInRound \cup {<<r, n>>}
      /\ amount <= SlashCap(n)
      /\ \/ info.active /\ Deactivate(n, info)
         \/ Keep(n, info)
      /\ UNCHANGED <<parameters, tokens, now>>
  BY DEF Slash
<1> HIDE DEF slashed
<1>4. info \in NodeInfo
  BY <1>1, <1>2 DEF NodeInfo
<1>5. /\ info.registered = nodes[n].registered
      /\ info.stake = nodes[n].stake - slashed
      /\ info.slashedTotal = nodes[n].slashedTotal + slashed
      /\ info.pendingUnstake = nodes[n].pendingUnstake
      /\ info.claimableAt = nodes[n].claimableAt
      /\ info.active = nodes[n].active
      /\ info.activatedAtVersion = nodes[n].activatedAtVersion
  BY <1>1, <1>2 DEF NodeInfo
<1> HIDE DEF info
<1>6. Accounted(n, info)
  BY <1>1, <1>2, <1>3, <1>5
     DEF Accounted, tokens, StakingInv, TypeOK, StakeConserved, NodeInfo
<1>7. /\ info.active => info.pendingUnstake = 0
      /\ info.pendingUnstake # 0 =>
           info.claimableAt >= lastActiveAt[n] + MinUnbonding
  BY <1>5 DEF StakingInv, MembershipSound, UnbondingSound
<1>8. Writes(n, info)
  BY <1>3, <1>5, <1>6, <1>7 DEF Writes, GoesOut, StaysAsItWas
<1>9. SlashCap(n) \in Int
  BY CapRoundsDown DEF StakingInv
<1>10. Charged(n, info)
  BY <1>1, <1>2, <1>3, <1>5, <1>9 DEF Charged, NodeInfo
<1> QED
  BY <1>4, <1>8, <1>10

LEMMA OperatorWrites ==
  ASSUME StakingInv, NEW n \in Nodes, Operator(n)
  PROVE  \E info \in NodeInfo : Writes(n, info) /\ SameLoss(n, info)
BY RegisterWrites, StakeWrites, RequestUnstakeWrites, CancelUnstakeWrites,
   CompleteUnstakeWrites DEF Operator

(* The setters and the clock write no record. *)
Elsewhere ==
  /\ UNCHANGED <<nodes, membership, slashedInRound, tokens>>
  /\ minimumStake' \in Nat /\ minStakeFloor' \in Nat
  /\ unbondingPeriod' \in Nat /\ unbondingPeriod' >= MinUnbonding
  /\ maxNodes' \in 1..MaxNodesCeiling
  /\ now' \in 0..MaxTime /\ now' >= now

(* Every step is a write of one record, charged if it is a slash, or       *)
(* happens elsewhere.                                                      *)
LEMMA StepCases ==
  ASSUME StakingInv, [Next]_vars
  PROVE  \/ \E n \in Nodes : \E info \in NodeInfo :
              Writes(n, info) /\ (SameLoss(n, info) \/ Charged(n, info))
         \/ Elsewhere
<1>0. /\ minimumStake \in Nat /\ minStakeFloor \in Nat
      /\ unbondingPeriod \in Nat /\ unbondingPeriod >= MinUnbonding
      /\ maxNodes \in 1..MaxNodesCeiling /\ now \in 0..MaxTime
  BY DEF StakingInv, TypeOK, UnbondingSound
<1>1. CASE UNCHANGED vars
  BY <1>0, <1>1, StakingAssumption
     DEF Elsewhere, vars, parameters, StakingAssumption
<1>2. ASSUME NEW n \in Nodes, Operator(n)
      PROVE  \E info \in NodeInfo : Writes(n, info) /\ SameLoss(n, info)
  BY <1>2, OperatorWrites
<1>3. ASSUME NEW n \in Nodes, NEW r \in RoundIds, NEW a \in Amounts,
             Slash(n, r, a)
      PROVE  \E info \in NodeInfo : Writes(n, info) /\ Charged(n, info)
  BY <1>3, SlashWrites
<1>4. ASSUME NEW n \in Nodes, AdminDeactivate(n)
      PROVE  \E info \in NodeInfo : Writes(n, info) /\ SameLoss(n, info)
  BY <1>4, AdminDeactivateWrites
<1>5. ASSUME NEW v \in StakeLevels, SetMinimumStake(v) PROVE Elsewhere
  BY <1>0, <1>5, StakingAssumption
     DEF SetMinimumStake, Elsewhere, StakingAssumption
<1>6. ASSUME NEW v \in StakeLevels, SetMinStakeFloor(v) PROVE Elsewhere
  BY <1>0, <1>6, StakingAssumption
     DEF SetMinStakeFloor, Elsewhere, StakingAssumption
<1>7. ASSUME NEW p \in Periods, SetUnbondingPeriod(p) PROVE Elsewhere
  BY <1>0, <1>7, StakingAssumption
     DEF SetUnbondingPeriod, Elsewhere, StakingAssumption
<1>8. ASSUME NEW m \in 1..MaxNodesCeiling, SetMaxNodes(m) PROVE Elsewhere
  BY <1>0, <1>8, StakingAssumption
     DEF SetMaxNodes, Elsewhere, StakingAssumption
<1>9. CASE Tick
  BY <1>0, <1>9, StakingAssumption
     DEF Tick, Elsewhere, parameters, StakingAssumption
<1> QED
  BY <1>1, <1>2, <1>3, <1>4, <1>5, <1>6, <1>7, <1>8, <1>9 DEF Next, Admin

-----------------------------------------------------------------------------
(* The invariant. *)

LEMMA StakingInitInv == Init => StakingInv
<1> SUFFICES ASSUME Init PROVE StakingInv
  OBVIOUS
<1>1. TypeOK
  BY StakingAssumption
     DEF Init, TypeOK, NodeInfo, Unknown, StakingAssumption
<1>2. ActiveNodes = {}
  BY DEF Init, ActiveNodes, Unknown
<1>3. MembershipSound
  BY <1>2, FS_EmptySet, StakingAssumption
     DEF Init, MembershipSound, Unknown, StakingAssumption
<1>4. StakeConserved
  BY StakingAssumption DEF Init, StakeConserved, Unknown, StakingAssumption
<1>5. UnbondingSound
  BY StakingAssumption DEF Init, UnbondingSound, Unknown, StakingAssumption
<1>6. BlankUntilRegistered
  BY DEF Init, BlankUntilRegistered, Unknown
<1> QED
  BY <1>1, <1>3, <1>4, <1>5, <1>6 DEF StakingInv

LEMMA ElsewhereInv ==
  ASSUME StakingInv, Elsewhere
  PROVE  StakingInv'
<1>1. TypeOK'
  BY DEF Elsewhere, StakingInv, TypeOK, membership, tokens
<1>2. ActiveNodes' = ActiveNodes
  BY DEF Elsewhere, ActiveNodes
<1>3. MembershipSound'
  BY <1>2 DEF Elsewhere, StakingInv, MembershipSound, membership
<1>4. StakeConserved'
  BY DEF Elsewhere, StakingInv, StakeConserved, tokens
<1>5. UnbondingSound'
  BY StakingAssumption
     DEF Elsewhere, StakingInv, TypeOK, UnbondingSound, membership,
         StakingAssumption
<1>6. BlankUntilRegistered'
  BY DEF Elsewhere, StakingInv, BlankUntilRegistered
<1> QED
  BY <1>1, <1>3, <1>4, <1>5, <1>6 DEF StakingInv

LEMMA StakingNextInv == StakingInv /\ [Next]_vars => StakingInv'
BY StepCases, WritesInv, ElsewhereInv

(* The strengthened invariant holds in every reachable state. *)
THEOREM StakingInvariant == Spec => []StakingInv
BY StakingInitInv, StakingNextInv, PTL DEF Spec

(* Every field and counter keeps its type. *)
THEOREM StakingTypeCorrect == Spec => []TypeOK
BY StakingInvariant, PTL DEF StakingInv

(* The cached count is the size of the active set, stays within the        *)
(* ceiling, and no member has a withdrawal pending.                        *)
THEOREM StakingMembership == Spec => []MembershipSound
BY StakingInvariant, PTL DEF StakingInv

(* Each operator's tokens are staked, slashed or in the wallet. *)
THEOREM StakingConservation == Spec => []StakeConserved
BY StakingInvariant, PTL DEF StakingInv

-----------------------------------------------------------------------------
(* Action properties. *)

LEMMA PaymentsStep == StakingInv /\ [Next]_vars => [PaidAfterUnbonding]_vars
<1> SUFFICES ASSUME StakingInv, Next, NEW n \in Nodes,
                    wallet'[n] > wallet[n]
             PROVE  /\ ~nodes[n].active
                    /\ now >= lastActiveAt[n] + MinUnbonding
  BY DEF PaidAfterUnbonding
<1>1. wallet \in [Nodes -> Nat]
  BY DEF StakingInv, TypeOK
<1>2. wallet' # wallet
  BY <1>1
<1>3. ASSUME NEW m \in Nodes, NEW a \in Amounts, PayIn(m, a) PROVE FALSE
  BY <1>1, <1>3, StakingAssumption DEF PayIn, StakingAssumption
<1>4. PICK m \in Nodes : CompleteUnstake(m)
  <2>1. ASSUME NEW k \in Nodes, Operator(k) PROVE CompleteUnstake(k)
    BY <1>2, <1>3, <2>1
       DEF Operator, Register, Stake, RequestUnstake, CancelUnstake, tokens
  <2>2. ASSUME NEW k \in Nodes, NEW r \in RoundIds, NEW a \in Amounts,
               Slash(k, r, a)
        PROVE  FALSE
    BY <1>2, <2>2 DEF Slash, tokens
  <2>3. ASSUME Admin \/ Tick PROVE FALSE
    BY <1>2, <2>3
       DEF Admin, AdminDeactivate, SetMinimumStake, SetMinStakeFloor,
           SetUnbondingPeriod, SetMaxNodes, Tick, tokens
  <2> QED
    BY <2>1, <2>2, <2>3 DEF Next
<1>5. m = n
  BY <1>1, <1>4 DEF CompleteUnstake, PayOut
<1>6. nodes[n].pendingUnstake # 0 /\ now >= nodes[n].claimableAt
  BY <1>4, <1>5 DEF CompleteUnstake
<1>7. /\ nodes[n].claimableAt >= lastActiveAt[n] + MinUnbonding
      /\ nodes[n].claimableAt \in Nat /\ now \in Nat
      /\ lastActiveAt[n] \in Nat
      /\ ~nodes[n].active
  BY <1>6, StakingAssumption
     DEF StakingInv, TypeOK, NodeInfo, UnbondingSound, MembershipSound,
         StakingAssumption
<1> QED
  BY <1>6, <1>7, StakingAssumption DEF StakingAssumption

(* No operator is paid before the shortest unbonding period has passed     *)
(* since the operator last was active.                                     *)
THEOREM ExitsWaitForUnbonding == Spec => ExitWaitsForUnbonding
BY StakingInvariant, PaymentsStep, PTL DEF Spec, ExitWaitsForUnbonding

LEMMA WrittenFields ==
  ASSUME StakingInv, NEW m \in Nodes, NEW info \in NodeInfo,
         Writes(m, info)
  PROVE  /\ nodes'[m].slashedTotal = info.slashedTotal
         /\ \A n \in Nodes \ {m} : nodes'[n] = nodes[n]
BY KeepWrites, ActivateWrites, DeactivateWrites
   DEF StakingInv, SameStake, Writes, StaysAsItWas, ComesIn, GoesOut

LEMMA LossStep == StakingInv /\ [Next]_vars => [LossCharged]_vars
<1> SUFFICES ASSUME StakingInv, [Next]_vars, NEW n \in Nodes,
                    nodes'[n].slashedTotal # nodes[n].slashedTotal
             PROVE  /\ \E r \in RoundIds :
                         slashedInRound' \ slashedInRound = {<<r, n>>}
                    /\ (nodes'[n].slashedTotal - nodes[n].slashedTotal) * BPS
                         <= nodes[n].stake * MaxSlashBps
  BY DEF LossCharged
<1>1. ~Elsewhere
  BY DEF Elsewhere
<1>2. PICK m \in Nodes : \E info \in NodeInfo :
        Writes(m, info) /\ (SameLoss(m, info) \/ Charged(m, info))
  BY <1>1, StepCases
<1>3. PICK info \in NodeInfo :
        Writes(m, info) /\ (SameLoss(m, info) \/ Charged(m, info))
  BY <1>2
<1>4. m = n /\ nodes'[n].slashedTotal = info.slashedTotal /\ Charged(n, info)
  BY <1>3, WrittenFields DEF SameLoss
<1>5. /\ nodes'[n].slashedTotal \in Nat /\ nodes[n].slashedTotal \in Nat
      /\ nodes[n].stake * MaxSlashBps \in Int
      /\ SlashCap(n) \in Int
      /\ SlashCap(n) * BPS <= nodes[n].stake * MaxSlashBps
      /\ nodes'[n].slashedTotal - nodes[n].slashedTotal <= SlashCap(n)
  <2>1. StakingInv'
    BY StakingNextInv
  <2> QED
    BY <1>4, <2>1, CapRoundsDown DEF StakingInv, TypeOK, NodeInfo, Charged
<1> QED
  BY <1>4, <1>5 DEF Charged, BPS

(* A slash is charged to one round, once, and stays within the cap. *)
THEOREM SlashesAreCharged == Spec => OneBoundedSlashPerRound
BY StakingInvariant, LossStep, PTL DEF Spec, OneBoundedSlashPerRound

(* The minimum never goes below the floor, so whoever comes in is above it. *)
FloorBelowMinimum == minStakeFloor <= minimumStake

LEMMA FloorStaysBelow ==
  ASSUME StakingInv, FloorBelowMinimum, [Next]_vars
  PROVE  FloorBelowMinimum'
<1> USE DEF FloorBelowMinimum
<1>1. ASSUME NEW n \in Nodes, Operator(n) PROVE UNCHANGED parameters
  BY <1>1 DEF Operator, Register, Stake, RequestUnstake, CancelUnstake,
              CompleteUnstake
<1>2. ASSUME NEW n \in Nodes, NEW r \in RoundIds, NEW a \in Amounts,
             Slash(n, r, a)
      PROVE  UNCHANGED parameters
  BY <1>2 DEF Slash
<1>3. CASE Admin
  <2>1. ASSUME NEW n \in Nodes, AdminDeactivate(n) PROVE FloorBelowMinimum'
    BY <2>1 DEF AdminDeactivate, parameters
  <2>2. ASSUME NEW v \in StakeLevels, SetMinimumStake(v) \/ SetMinStakeFloor(v)
        PROVE  FloorBelowMinimum'
    BY <2>2, StakingAssumption
       DEF SetMinimumStake, SetMinStakeFloor, StakingAssumption
  <2>3. ASSUME NEW p \in Periods, SetUnbondingPeriod(p)
        PROVE  FloorBelowMinimum'
    BY <2>3 DEF SetUnbondingPeriod
  <2>4. ASSUME NEW m \in 1..MaxNodesCeiling, SetMaxNodes(m)
        PROVE  FloorBelowMinimum'
    BY <2>4 DEF SetMaxNodes
  <2> QED
    BY <1>3, <2>1, <2>2, <2>3, <2>4 DEF Admin
<1>4. Tick \/ UNCHANGED vars => UNCHANGED parameters
  BY DEF Tick, vars, parameters
<1> QED
  BY <1>1, <1>2, <1>3, <1>4 DEF Next, parameters

LEMMA FloorInv == Spec => []FloorBelowMinimum
<1>1. Init => FloorBelowMinimum
  BY DEF Init, FloorBelowMinimum
<1>2. StakingInv /\ FloorBelowMinimum /\ [Next]_vars => FloorBelowMinimum'
  BY FloorStaysBelow
<1> QED
  BY <1>1, <1>2, StakingInvariant, PTL DEF Spec

(* Only the operations that write an active record with less stake than    *)
(* the floor could break the property, for the node they write.            *)
LEMMA FloorKeptFor ==
  ASSUME StakingInv, FloorBelowMinimum, NEW n \in Nodes,
         Operator(n) \/ AdminDeactivate(n)
           \/ \E r \in RoundIds, a \in Amounts : Slash(n, r, a)
  PROVE  FloorKept
<1>1. /\ nodes \in [Nodes -> NodeInfo] /\ nodes[n] \in NodeInfo
      /\ minStakeFloor \in Nat /\ minimumStake \in Nat
      /\ nodes[n].stake \in Nat
  BY DEF StakingInv, TypeOK, NodeInfo
<1>2. minStakeFloor' = minStakeFloor
  BY DEF Operator, Register, Stake, RequestUnstake, CancelUnstake,
         CompleteUnstake, AdminDeactivate, Slash, parameters
<1>3. nodes[n].pendingUnstake # 0 => ~nodes[n].active
  BY DEF StakingInv, MembershipSound
<1> DEFINE Fine == /\ \A m \in Nodes \ {n} : nodes'[m] = nodes[m]
                   /\ nodes'[n].active =>
                        \/ nodes'[n].stake >= minStakeFloor
                        \/ nodes[n].active /\ nodes'[n].stake >= nodes[n].stake
                   /\ nodes'[n].stake \in Nat
<1>4. ASSUME NEW a \in Amounts, Register(n, a) PROVE Fine
  <2>1. /\ nodes'[n].stake = a /\ a >= minStakeFloor /\ a \in Nat
        /\ \A m \in Nodes \ {n} : nodes'[m] = nodes[m]
    BY <1>1, <1>4, StakingAssumption
       DEF Register, Activate, NodeInfo, FloorBelowMinimum, StakingAssumption
  <2> QED
    BY <2>1
<1>5. ASSUME NEW a \in Amounts, Stake(n, a) PROVE Fine
  <2> DEFINE info == [nodes[n] EXCEPT !.stake = @ + a]
  <2>1. a \in Nat /\ info \in NodeInfo /\ info.stake = nodes[n].stake + a
        /\ info.active = nodes[n].active
    BY <1>1, StakingAssumption DEF NodeInfo, StakingAssumption
  <2>2. \/ info.stake >= minimumStake /\ Activate(n, info)
        \/ Keep(n, info)
    BY <1>5 DEF Stake
  <2> HIDE DEF info
  <2>3. CASE Keep(n, info)
    BY <1>1, <2>1, <2>3 DEF Keep
  <2>4. CASE info.stake >= minimumStake /\ Activate(n, info)
    BY <1>1, <2>1, <2>4 DEF Activate, NodeInfo, FloorBelowMinimum
  <2> QED
    BY <2>2, <2>3, <2>4
<1>6. ASSUME NEW a \in Amounts, RequestUnstake(n, a) PROVE Fine
  <2> DEFINE info == [nodes[n] EXCEPT !.pendingUnstake = a,
                                      !.claimableAt = now + unbondingPeriod]
  <2>1. \/ Deactivate(n, info)
        \/ ~nodes[n].active /\ Keep(n, info)
    BY <1>6 DEF RequestUnstake
  <2>2. info.stake = nodes[n].stake /\ info.active = nodes[n].active
    BY <1>1 DEF NodeInfo
  <2>3. [info EXCEPT !.active = FALSE].stake = nodes[n].stake
        /\ ~ [info EXCEPT !.active = FALSE].active
    BY <1>1 DEF NodeInfo
  <2> HIDE DEF info
  <2>4. CASE Deactivate(n, info)
    BY <1>1, <2>3, <2>4 DEF Deactivate
  <2>5. CASE ~nodes[n].active /\ Keep(n, info)
    BY <1>1, <2>2, <2>5 DEF Keep
  <2> QED
    BY <2>1, <2>4, <2>5
<1>7. ASSUME CancelUnstake(n) PROVE Fine
  <2> DEFINE info == [nodes[n] EXCEPT !.pendingUnstake = 0, !.claimableAt = 0]
  <2>1. info \in NodeInfo /\ info.stake = nodes[n].stake
        /\ info.active = nodes[n].active
    BY <1>1 DEF NodeInfo
  <2>2. \/ nodes[n].stake >= minimumStake /\ Activate(n, info)
        \/ Keep(n, info)
    BY <1>7 DEF CancelUnstake
  <2> HIDE DEF info
  <2>3. CASE Keep(n, info)
    BY <1>1, <2>1, <2>3 DEF Keep
  <2>4. CASE nodes[n].stake >= minimumStake /\ Activate(n, info)
    BY <1>1, <2>1, <2>4 DEF Activate, NodeInfo, FloorBelowMinimum
  <2> QED
    BY <2>2, <2>3, <2>4
<1>8. ASSUME CompleteUnstake(n) PROVE Fine
  <2> DEFINE amount == Lesser(nodes[n].pendingUnstake, nodes[n].stake)
  <2>1. amount \in Nat /\ nodes[n].stake - amount \in Nat
    BY <1>1 DEF Lesser, NodeInfo
  <2>2. Keep(n, [nodes[n] EXCEPT !.pendingUnstake = 0, !.claimableAt = 0,
                                 !.stake = @ - amount])
        /\ ~nodes[n].active
    BY <1>3, <1>8 DEF CompleteUnstake
  <2> HIDE DEF amount
  <2> QED
    BY <1>1, <2>1, <2>2 DEF Keep, NodeInfo
<1>9. ASSUME AdminDeactivate(n) PROVE Fine
  BY <1>1, <1>9 DEF AdminDeactivate, Deactivate, NodeInfo
<1>10. ASSUME NEW r \in RoundIds, NEW a \in Amounts, Slash(n, r, a)
       PROVE  Fine
  <2> DEFINE slashed == Lesser(a, nodes[n].stake)
             info == [nodes[n] EXCEPT !.stake = @ - slashed,
                                      !.slashedTotal = @ + slashed]
  <2>1. /\ slashed \in Nat /\ nodes[n].stake - slashed \in Nat
        /\ nodes[n].slashedTotal + slashed \in Nat
    BY <1>1, StakingAssumption DEF Lesser, NodeInfo, StakingAssumption
  <2>2. \/ Deactivate(n, info)
        \/ ~ (info.active /\ info.stake < minStakeFloor) /\ Keep(n, info)
    BY <1>10 DEF Slash
  <2> HIDE DEF slashed
  <2>3. info \in NodeInfo
    BY <1>1, <2>1 DEF NodeInfo
  <2> HIDE DEF info
  <2>4. info.stake \in Nat
    BY <2>3 DEF NodeInfo
  <2> QED
    BY <1>1, <2>2, <2>3, <2>4 DEF Keep, Deactivate, NodeInfo
<1>11. Fine
  BY <1>4, <1>5, <1>6, <1>7, <1>8, <1>9, <1>10 DEF Operator
<1>12. ASSUME NEW m \in Nodes, nodes'[m].active,
              nodes'[m].stake < minStakeFloor'
       PROVE  /\ nodes[m].active
              /\ nodes[m].stake < minStakeFloor
              /\ nodes'[m].stake >= nodes[m].stake
  <2>1. nodes[m].stake \in Nat
    BY <1>1 DEF NodeInfo
  <2>2. CASE m = n
    BY <1>1, <1>2, <1>11, <1>12, <2>2
  <2>3. CASE m # n
    BY <1>2, <1>11, <1>12, <2>1, <2>3
  <2> QED
    BY <2>2, <2>3
<1> QED
  BY <1>12 DEF FloorKept

LEMMA FloorStep ==
  StakingInv /\ FloorBelowMinimum /\ [Next]_vars => [FloorKept]_vars
<1> SUFFICES ASSUME StakingInv, FloorBelowMinimum, Next PROVE FloorKept
  OBVIOUS
<1>1. \/ \E n \in Nodes :
           Operator(n) \/ AdminDeactivate(n)
             \/ \E r \in RoundIds, a \in Amounts : Slash(n, r, a)
      \/ UNCHANGED nodes /\ minStakeFloor' \in Nat
  BY StakingAssumption
     DEF Next, Admin, SetMinimumStake, SetMinStakeFloor, SetUnbondingPeriod,
         SetMaxNodes, Tick, parameters, StakingAssumption, StakingInv, TypeOK
<1>2. CASE UNCHANGED nodes /\ minStakeFloor' \in Nat
  <2>1. minStakeFloor \in Nat /\ \A n \in Nodes : nodes[n].stake \in Nat
    BY DEF StakingInv, TypeOK, NodeInfo
  <2> QED
    BY <1>2, <2>1 DEF FloorKept
<1> QED
  BY <1>1, <1>2, FloorKeptFor

(* OracleStaking's activations and slash: a node is active with less than  *)
(* the floor only since the floor was raised over it, and then stays as    *)
(* high as it was.                                                         *)
THEOREM ActiveAboveFloor == Spec => FloorHeld
BY StakingInvariant, FloorInv, FloorStep, PTL DEF Spec, FloorHeld

-----------------------------------------------------------------------------
(* The contract's balance. *)

PaidIn == [n \in Nodes |-> InitialWallet - wallet[n]]

(* CustodyBacked's sum, of the records `info` of the nodes.                 *)
LEMMA HeldUnfolds ==
  ASSUME NEW info, NEW F, IsFiniteSet(Nodes),
         \A n \in Nodes : F[n] = info[n].stake + info[n].slashedTotal
  PROVE  MapThenSumSet(LAMBDA n : info[n].stake + info[n].slashedTotal, Nodes)
           = Sum(F, Nodes)
<1>1. \A s \in SUBSET Nodes : s # {} =>
        F[SomeOf(s)] = info[SomeOf(s)].stake + info[SomeOf(s)].slashedTotal
  BY SomeOfIn
<1> DEFINE Unfolds(g) ==
      g = [s \in SUBSET Nodes |-> IF s = {} THEN 0
             ELSE (info[SomeOf(s)].stake + info[SomeOf(s)].slashedTotal)
                    + g[s \ {SomeOf(s)}]]
<1>2. \A g : Unfolds(g) <=> Adds(g, F, Nodes)
  BY <1>1 DEF Adds
<1>3. MapThenSumSet(LAMBDA n : info[n].stake + info[n].slashedTotal, Nodes)
        = (CHOOSE g : Unfolds(g))[Nodes]
  BY DEF MapThenSumSet, MapThenFoldSet, SomeOf
<1> HIDE DEF Unfolds
<1>4. Unfolds(CHOOSE g : Unfolds(g))
  BY <1>2, AddsExists
<1>5. (CHOOSE g : Unfolds(g))[Nodes] = Sum(F, Nodes)
  BY <1>2, <1>4, AddsAgree, AddsExists DEF Sum
<1> QED
  BY <1>3, <1>5

(* What the contract holds for a node is what the operator paid in. *)
LEMMA HeldIsPaidIn ==
  ASSUME NEW info \in [Nodes -> NodeInfo], NEW paid \in [Nodes -> Nat],
         \A n \in Nodes :
           paid[n] + info[n].stake + info[n].slashedTotal = InitialWallet
  PROVE  LET F == [n \in Nodes |-> InitialWallet - paid[n]]
         IN  /\ IsFiniteSet(Nodes)
             /\ \A n \in Nodes : F[n] \in Nat
             /\ MapThenSumSet(LAMBDA n : info[n].stake + info[n].slashedTotal,
                              Nodes)
                  = Sum(F, Nodes)
<1> DEFINE F == [n \in Nodes |-> InitialWallet - paid[n]]
<1>1. IsFiniteSet(Nodes)
  BY StakingAssumption DEF StakingAssumption
<1>2. ASSUME NEW n \in Nodes
      PROVE  F[n] \in Nat /\ F[n] = info[n].stake + info[n].slashedTotal
  BY StakingAssumption DEF NodeInfo, StakingAssumption
<1> HIDE DEF F
<1>3. MapThenSumSet(LAMBDA n : info[n].stake + info[n].slashedTotal, Nodes)
        = Sum(F, Nodes)
  BY <1>1, <1>2, HeldUnfolds
<1> QED
  BY <1>1, <1>2, <1>3 DEF F

(* Tokens move between one operator's wallet and the contract. *)
LEMMA TokensMove ==
  ASSUME StakingInv, [Next]_vars
  PROVE  \/ UNCHANGED tokens
         \/ \E n \in Nodes :
              /\ \A m \in Nodes \ {n} : wallet'[m] = wallet[m]
              /\ custody' + wallet'[n] = custody + wallet[n]
              /\ wallet'[n] \in Nat
<1>1. /\ wallet \in [Nodes -> Nat] /\ custody \in Nat
      /\ \A n \in Nodes : nodes[n] \in NodeInfo
  BY DEF StakingInv, TypeOK
<1>2. ASSUME NEW n \in Nodes, NEW a \in Nat, PayIn(n, a) \/ PayOut(n, a)
      PROVE  /\ \A m \in Nodes \ {n} : wallet'[m] = wallet[m]
             /\ custody' + wallet'[n] = custody + wallet[n]
             /\ wallet'[n] \in Nat
  BY <1>1, <1>2 DEF PayIn, PayOut
<1>3. ASSUME NEW n \in Nodes, NEW a \in Amounts, Register(n, a) \/ Stake(n, a)
      PROVE  a \in Nat /\ PayIn(n, a)
  BY <1>3, StakingAssumption DEF Register, Stake, StakingAssumption
<1>4. ASSUME NEW n \in Nodes, CompleteUnstake(n)
      PROVE  \E a \in Nat : PayOut(n, a)
  <2>1. Lesser(nodes[n].pendingUnstake, nodes[n].stake) \in Nat
    BY <1>1 DEF Lesser, NodeInfo
  <2> QED
    BY <1>4, <2>1 DEF CompleteUnstake
<1>5. \/ UNCHANGED tokens
      \/ \E n \in Nodes, a \in Amounts : Register(n, a) \/ Stake(n, a)
      \/ \E n \in Nodes : CompleteUnstake(n)
  <2>1. ASSUME NEW n \in Nodes, Operator(n)
        PROVE  \/ UNCHANGED tokens
               \/ \E a \in Amounts : Register(n, a) \/ Stake(n, a)
               \/ CompleteUnstake(n)
    BY <2>1 DEF Operator, RequestUnstake, CancelUnstake
  <2>2. ASSUME \E n \in Nodes, r \in RoundIds, a \in Amounts : Slash(n, r, a)
        PROVE  UNCHANGED tokens
    BY <2>2 DEF Slash
  <2>3. ASSUME Admin \/ Tick \/ UNCHANGED vars PROVE UNCHANGED tokens
    BY <2>3 DEF Admin, AdminDeactivate, SetMinimumStake, SetMinStakeFloor,
                SetUnbondingPeriod, SetMaxNodes, Tick, vars, tokens
  <2> QED
    BY <2>1, <2>2, <2>3 DEF Next
<1> QED
  BY <1>2, <1>3, <1>4, <1>5

Backed == custody = Sum(PaidIn, Nodes)

LEMMA BackedStep ==
  ASSUME StakingInv, Backed, [Next]_vars
  PROVE  Backed'
<1>1. /\ IsFiniteSet(Nodes)
      /\ InitialWallet \in Nat /\ custody \in Nat
      /\ \A n \in Nodes : wallet[n] \in 0..InitialWallet
  BY StakingAssumption
     DEF StakingInv, TypeOK, NodeInfo, StakeConserved, StakingAssumption
<1>2. \A n \in Nodes : wallet'[n] \in 0..InitialWallet
  <2>1. StakingInv'
    BY StakingNextInv
  <2> QED
    BY <2>1, StakingAssumption
       DEF StakingInv, TypeOK, NodeInfo, StakeConserved, StakingAssumption
<1>3. CASE UNCHANGED tokens
  <2>1. PaidIn' = PaidIn /\ custody' = custody
    BY <1>3 DEF tokens, PaidIn
  <2> QED
    BY <2>1 DEF Backed
<1>4. ASSUME NEW n \in Nodes,
             \A m \in Nodes \ {n} : wallet'[m] = wallet[m],
             custody' + wallet'[n] = custody + wallet[n],
             custody' \in Nat
      PROVE  custody' = Sum(PaidIn', Nodes)
  <2> DEFINE F == PaidIn
             G == PaidIn'
  <2>1. \A m \in Nodes : F[m] \in Nat /\ G[m] \in Nat
    BY <1>1, <1>2 DEF PaidIn
  <2>2. \A m \in Nodes \ {n} : F[m] = G[m]
    BY <1>4 DEF PaidIn
  <2>3. F[n] = InitialWallet - wallet[n] /\ G[n] = InitialWallet - wallet'[n]
    BY DEF PaidIn
  <2>4. custody = Sum(F, Nodes)
    BY DEF Backed
  <2> HIDE DEF F, G
  <2>5. Sum(G, Nodes) = Sum(F, Nodes) - F[n] + G[n] /\ Sum(F, Nodes) \in Nat
    BY ONLY n \in Nodes, <1>1, <2>1, <2>2, SumUpdate
  <2>6. wallet[n] \in Nat /\ wallet'[n] \in Nat
    BY <1>1, <1>2
  <2>7. custody' = Sum(G, Nodes)
    BY <1>1, <1>4, <2>3, <2>4, <2>5, <2>6
  <2> QED
    BY <2>7 DEF G
<1>5. custody' \in Nat
  <2>1. StakingInv'
    BY StakingNextInv
  <2> QED
    BY <2>1 DEF StakingInv, TypeOK
<1> QED
  BY <1>3, <1>4, <1>5, TokensMove DEF Backed

LEMMA BackedInit == Init => Backed
<1> SUFFICES ASSUME Init PROVE Backed
  OBVIOUS
<1>1. \A n \in Nodes : PaidIn[n] = 0
  BY StakingAssumption DEF Init, PaidIn, StakingAssumption
<1>2. IsFiniteSet(Nodes)
  BY StakingAssumption DEF StakingAssumption
<1>3. Sum(PaidIn, Nodes) = 0
  BY <1>1, <1>2, SumOfZeros
<1> QED
  BY <1>3 DEF Init, Backed

(* register, stake, completeUnstake and slash: the contract's balance is   *)
(* the sum of every node's stake and of everything slashed, so that no     *)
(* operator's withdrawal can fail for want of tokens.                      *)
THEOREM CustodyCoversStakes == Spec => []CustodyBacked
<1>1. StakingInv /\ Backed /\ [Next]_vars => Backed'
  BY BackedStep
<1>2. StakingInv /\ Backed => CustodyBacked
  <2> SUFFICES ASSUME StakingInv, Backed PROVE CustodyBacked
    OBVIOUS
  <2>1. /\ nodes \in [Nodes -> NodeInfo] /\ wallet \in [Nodes -> Nat]
        /\ \A n \in Nodes :
             wallet[n] + nodes[n].stake + nodes[n].slashedTotal = InitialWallet
    BY DEF StakingInv, TypeOK, StakeConserved
  <2> QED
    BY <2>1, HeldIsPaidIn DEF CustodyBacked, Backed, PaidIn
<1> QED
  BY <1>1, <1>2, BackedInit, StakingInvariant, PTL DEF Spec

-----------------------------------------------------------------------------
(* The registry implements the view its readers rely on. *)

JoinedAt == [n \in Nodes |-> nodes[n].activatedAtVersion]

LEMMA KeepIsStutter ==
  ASSUME StakingInv, NEW n \in Nodes, NEW info \in NodeInfo,
         Writes(n, info), StaysAsItWas(n, info)
  PROVE  UNCHANGED View!vars
<1>1. /\ nodes'[n].active = nodes[n].active
      /\ nodes'[n].activatedAtVersion = nodes[n].activatedAtVersion
      /\ \A m \in Nodes \ {n} : nodes'[m] = nodes[m]
      /\ nodeSetVersion' = nodeSetVersion
  BY KeepWrites DEF Writes, StaysAsItWas, StakingInv, membership
<1>2. ActiveNodes' = ActiveNodes
  BY <1>1 DEF ActiveNodes
<1>3. JoinedAt' = JoinedAt
  BY <1>1 DEF JoinedAt
<1> QED
  BY <1>1, <1>2, <1>3 DEF View!vars, JoinedAt

LEMMA ActivateIsJoin ==
  ASSUME StakingInv, NEW n \in Nodes, NEW info \in NodeInfo,
         Writes(n, info), ComesIn(n, info)
  PROVE  View!Join(n)
<1>1. TypeOK /\ MembershipSound /\ Activate(n, info) /\ ~nodes[n].active
  BY DEF ComesIn, StakingInv
<1>2. /\ nodes'[n].active
      /\ nodes'[n].activatedAtVersion = nodeSetVersion + 1
      /\ \A m \in Nodes \ {n} : nodes'[m] = nodes[m]
  BY <1>1, ActivateWrites
<1>3. nodeSetVersion < MaxVersion /\ nodeSetVersion' = nodeSetVersion + 1
  BY <1>1 DEF Activate
<1>4. n \notin ActiveNodes /\ ActiveNodes' = ActiveNodes \cup {n}
  BY <1>1, <1>2 DEF ActiveNodes
<1>5. Cardinality(ActiveNodes) < MaxNodesCeiling
  BY <1>1, StakingAssumption
     DEF ComesIn, MembershipSound, TypeOK, StakingAssumption
<1>6. JoinedAt' = [JoinedAt EXCEPT ![n] = nodeSetVersion + 1]
  BY <1>2 DEF JoinedAt
<1>7. [m \in Nodes |-> nodes[m].activatedAtVersion]'
        = [[m \in Nodes |-> nodes[m].activatedAtVersion]
             EXCEPT ![n] = nodeSetVersion + 1]
  BY <1>6, Zenon DEF JoinedAt
<1> QED
  BY <1>3, <1>4, <1>5, <1>7, Zenon
     DEF View!Join, Cardinality, View!Cardinality

LEMMA DeactivateIsLeave ==
  ASSUME StakingInv, NEW n \in Nodes, NEW info \in NodeInfo,
         Writes(n, info), GoesOut(n, info)
  PROVE  View!Leave(n)
<1>1. /\ TypeOK /\ Deactivate(n, info) /\ nodes[n].active
      /\ info.activatedAtVersion = nodes[n].activatedAtVersion
  BY DEF GoesOut, Writes, StakingInv
<1>2. /\ ~nodes'[n].active
      /\ nodes'[n].activatedAtVersion = nodes[n].activatedAtVersion
      /\ \A m \in Nodes \ {n} : nodes'[m] = nodes[m]
  BY <1>1, DeactivateWrites
<1>3. nodeSetVersion < MaxVersion /\ nodeSetVersion' = nodeSetVersion + 1
  BY <1>1 DEF Deactivate
<1>4. n \in ActiveNodes /\ ActiveNodes' = ActiveNodes \ {n}
  BY <1>1, <1>2 DEF ActiveNodes
<1>5. JoinedAt' = JoinedAt
  BY <1>2 DEF JoinedAt
<1> QED
  BY <1>3, <1>4, <1>5 DEF View!Leave, JoinedAt

LEMMA ViewStep == StakingInv /\ [Next]_vars => [View!Next]_(View!vars)
<1> SUFFICES ASSUME StakingInv, [Next]_vars
             PROVE  View!Next \/ UNCHANGED View!vars
  OBVIOUS
<1>1. CASE Elsewhere
  <2>1. nodes' = nodes /\ nodeSetVersion' = nodeSetVersion
    BY <1>1 DEF Elsewhere, membership
  <2>2. ActiveNodes' = ActiveNodes /\ JoinedAt' = JoinedAt
    BY <2>1 DEF ActiveNodes, JoinedAt
  <2> QED
    BY <2>1, <2>2 DEF View!vars, JoinedAt
<1>2. ASSUME NEW n \in Nodes, NEW info \in NodeInfo, Writes(n, info)
      PROVE  View!Next \/ UNCHANGED View!vars
  BY <1>2, KeepIsStutter, ActivateIsJoin, DeactivateIsLeave
     DEF Writes, View!Next
<1> QED
  BY <1>1, <1>2, StepCases

LEMMA ViewInit == Init => View!Init
<1> SUFFICES ASSUME Init PROVE View!Init
  OBVIOUS
<1>1. ActiveNodes = {}
  BY DEF Init, ActiveNodes, Unknown
<1>2. JoinedAt = [n \in Nodes |-> 0]
  BY DEF Init, JoinedAt, Unknown
<1> QED
  BY <1>1, <1>2 DEF View!Init, Init, JoinedAt

(* What the rounds contract and the services see of the registry is a set  *)
(* that nodes join and leave, each change under a fresh version.           *)
THEOREM RegistryImplementsNodeSet == Spec => ImplementsNodeSet
BY StakingInvariant, ViewInit, ViewStep, PTL
   DEF Spec, ImplementsNodeSet, View!Spec
=============================================================================
