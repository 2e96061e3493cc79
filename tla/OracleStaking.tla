--------------------------- MODULE OracleStaking ---------------------------
(***************************************************************************)
(* contracts/src/oracle/OracleStaking.sol: the bonded registry of oracle   *)
(* nodes.  Every external function is one action: a transaction is atomic, *)
(* a revert leaves the state alone, and the nonReentrant guard with the    *)
(* plain ERC20 stake token leaves no callback to interleave.  `wallet` and *)
(* `custody` are the ERC20 balances of the operators and of the contract.  *)
(***************************************************************************)
EXTENDS Integers, FiniteSets, FiniteSetsExt

CONSTANTS
  Nodes,            \* operator addresses
  RoundIds,         \* round ids a slash may name (0 is refused by the code)
  Amounts,          \* token amounts a caller may pass
  StakeLevels,      \* values of the minimum stake and of the stake floor
  Periods,          \* values of the unbonding period
  InitialWallet,    \* stake tokens an operator starts with
  MaxSlashBps,      \* _maxSlashBps: set by initialize, no setter
  MinUnbonding,     \* _MIN_UNBONDING_PERIOD (1 day)
  MaxNodesCeiling,  \* _MAX_NODES_CEILING (31)
  MaxTime,          \* bound on the clock
  MaxVersion        \* bound on the number of membership changes

BPS == 10000        \* _BPS_DENOMINATOR

ASSUME StakingAssumption ==
  /\ IsFiniteSet(Nodes)
  /\ RoundIds \subseteq Nat \ {0}
  /\ Amounts \subseteq Nat
  /\ StakeLevels \subseteq Nat
  /\ Periods \subseteq Nat
  /\ InitialWallet \in Nat
  /\ MaxSlashBps \in 1..BPS
  /\ MinUnbonding \in Nat
  /\ MaxNodesCeiling \in Nat \ {0}
  /\ MaxTime \in Nat
  /\ MaxVersion \in Nat

VARIABLES
  nodes,            \* _nodes: NodeInfo of every address
  activeNodeCount,
  nodeSetVersion,
  slashedInRound,   \* _slashedInRound, as the set of flagged <<round, node>>
  minimumStake, minStakeFloor, unbondingPeriod, maxNodes,
  wallet,           \* stake token balance of each operator
  custody,          \* stake token balance of the contract
  now,              \* block.timestamp
  lastActiveAt      \* history: when the node last stopped being active

membership == <<activeNodeCount, nodeSetVersion, lastActiveAt>>
parameters == <<minimumStake, minStakeFloor, unbondingPeriod, maxNodes>>
tokens     == <<wallet, custody>>
vars == <<nodes, membership, slashedInRound, parameters, tokens, now>>

NodeInfo ==
  [stake : Nat, pendingUnstake : Nat, claimableAt : Nat, slashedTotal : Nat,
   activatedAtVersion : 0..MaxVersion, registered : BOOLEAN, active : BOOLEAN]

Unknown ==
  [stake |-> 0, pendingUnstake |-> 0, claimableAt |-> 0, slashedTotal |-> 0,
   activatedAtVersion |-> 0, registered |-> FALSE, active |-> FALSE]

ActiveNodes == {n \in Nodes : nodes[n].active}

(* The external view the rounds contract reads. *)
EligibleAt(v) == {n \in ActiveNodes : nodes[n].activatedAtVersion <= v}

Lesser(a, b) == IF a <= b THEN a ELSE b

(* Operators named Mutant... are variants with a bug the code could have   *)
(* had; each is there to be refuted by a property, none is part of Next.   *)

-----------------------------------------------------------------------------
(* Private functions.  `info` is the node's record as the caller left it.  *)

Keep(n, info) ==
  /\ nodes' = [nodes EXCEPT ![n] = info]
  /\ UNCHANGED membership

(* The version is stamped before it is incremented. *)
MutantActivate(n, info) ==
  /\ nodeSetVersion < MaxVersion
  /\ nodes' = [nodes EXCEPT ![n] =
                 [info EXCEPT !.active = TRUE,
                              !.activatedAtVersion = nodeSetVersion]]
  /\ activeNodeCount' = activeNodeCount + 1
  /\ nodeSetVersion' = nodeSetVersion + 1
  /\ UNCHANGED lastActiveAt

Activate(n, info) ==
  /\ nodeSetVersion < MaxVersion
  /\ nodes' = [nodes EXCEPT ![n] =
                 [info EXCEPT !.active = TRUE,
                              !.activatedAtVersion = nodeSetVersion + 1]]
  /\ activeNodeCount' = activeNodeCount + 1
  /\ nodeSetVersion' = nodeSetVersion + 1
  /\ UNCHANGED lastActiveAt

Deactivate(n, info) ==
  /\ nodeSetVersion < MaxVersion
  /\ nodes' = [nodes EXCEPT ![n] = [info EXCEPT !.active = FALSE]]
  /\ activeNodeCount' = activeNodeCount - 1
  /\ nodeSetVersion' = nodeSetVersion + 1
  /\ lastActiveAt' = [lastActiveAt EXCEPT ![n] = now]

(* safeTransferFrom(msg.sender, this, amount) and safeTransfer back. *)
PayIn(n, amount) ==
  /\ wallet[n] >= amount
  /\ wallet' = [wallet EXCEPT ![n] = @ - amount]
  /\ custody' = custody + amount

PayOut(n, amount) ==
  /\ custody >= amount
  /\ wallet' = [wallet EXCEPT ![n] = @ + amount]
  /\ custody' = custody - amount

-----------------------------------------------------------------------------
(* Operator functions. *)

Register(n, amount) ==
  /\ ~nodes[n].registered
  /\ amount >= minimumStake
  /\ activeNodeCount < maxNodes
  /\ Activate(n, [nodes[n] EXCEPT !.registered = TRUE, !.stake = amount])
  /\ PayIn(n, amount)
  /\ UNCHANGED <<slashedInRound, parameters, now>>

(* A top-up puts a node back only if nothing else keeps it out. *)
Stake(n, amount) ==
  LET info == [nodes[n] EXCEPT !.stake = @ + amount]
      returns == /\ ~info.active
                 /\ info.pendingUnstake = 0
                 /\ info.stake >= minimumStake
                 /\ activeNodeCount < maxNodes
  IN /\ nodes[n].registered
     /\ amount # 0
     /\ \/ returns /\ Activate(n, info)
        \/ ~returns /\ Keep(n, info)
     /\ PayIn(n, amount)
     /\ UNCHANGED <<slashedInRound, parameters, now>>

(* The node stays in the set until the withdrawal is paid. *)
MutantRequestUnstake(n, amount) ==
  /\ nodes[n].registered
  /\ amount # 0
  /\ nodes[n].pendingUnstake = 0
  /\ amount <= nodes[n].stake
  /\ Keep(n, [nodes[n] EXCEPT !.pendingUnstake = amount,
                              !.claimableAt = now + unbondingPeriod])
  /\ UNCHANGED <<slashedInRound, parameters, tokens, now>>

RequestUnstake(n, amount) ==
  LET info == [nodes[n] EXCEPT !.pendingUnstake = amount,
                               !.claimableAt = now + unbondingPeriod]
  IN /\ nodes[n].registered
     /\ amount # 0
     /\ nodes[n].pendingUnstake = 0
     /\ amount <= nodes[n].stake
     /\ \/ nodes[n].active /\ Deactivate(n, info)
        \/ ~nodes[n].active /\ Keep(n, info)
     /\ UNCHANGED <<slashedInRound, parameters, tokens, now>>

(* No test of `active`: an operator with a pending request is never active,*)
(* or the count would be incremented twice for one node.                   *)
CancelUnstake(n) ==
  LET info == [nodes[n] EXCEPT !.pendingUnstake = 0, !.claimableAt = 0]
      returns == nodes[n].stake >= minimumStake /\ activeNodeCount < maxNodes
  IN /\ nodes[n].pendingUnstake # 0
     /\ \/ returns /\ Activate(n, info)
        \/ ~returns /\ Keep(n, info)
     /\ UNCHANGED <<slashedInRound, parameters, tokens, now>>

(* The request is deducted whole, whatever was slashed meanwhile. *)
MutantCompleteUnstake(n) ==
  /\ nodes[n].pendingUnstake # 0
  /\ now >= nodes[n].claimableAt
  /\ Keep(n, [nodes[n] EXCEPT !.pendingUnstake = 0, !.claimableAt = 0,
                              !.stake = @ - nodes[n].pendingUnstake])
  /\ PayOut(n, nodes[n].pendingUnstake)
  /\ UNCHANGED <<slashedInRound, parameters, now>>

(* The stake is cut to what is left, the payment is not. *)
MutantPaidInFull(n) ==
  /\ nodes[n].pendingUnstake # 0
  /\ now >= nodes[n].claimableAt
  /\ Keep(n, [nodes[n] EXCEPT !.pendingUnstake = 0, !.claimableAt = 0,
                 !.stake = @ - Lesser(nodes[n].pendingUnstake, @)])
  /\ PayOut(n, nodes[n].pendingUnstake)
  /\ UNCHANGED <<slashedInRound, parameters, now>>

(* Pays what slashing left of the request. *)
CompleteUnstake(n) ==
  LET amount == Lesser(nodes[n].pendingUnstake, nodes[n].stake)
  IN /\ nodes[n].pendingUnstake # 0
     /\ now >= nodes[n].claimableAt
     /\ Keep(n, [nodes[n] EXCEPT !.pendingUnstake = 0, !.claimableAt = 0,
                                 !.stake = @ - amount])
     /\ PayOut(n, amount)
     /\ UNCHANGED <<slashedInRound, parameters, now>>

-----------------------------------------------------------------------------
(* SLASHER_ROLE.  The slashed tokens stay in the contract's balance. *)

SlashCap(n) == (nodes[n].stake * MaxSlashBps) \div BPS

(* A retry after a lost answer is not recognised. *)
MutantSlashAgain(n, r, amount) ==
  LET slashed == Lesser(amount, nodes[n].stake)
      info == [nodes[n] EXCEPT !.stake = @ - slashed,
                               !.slashedTotal = @ + slashed]
      falls == info.active /\ info.stake < minStakeFloor
  IN /\ nodes[n].registered
     /\ amount # 0
     /\ amount <= SlashCap(n)
     /\ slashedInRound' = slashedInRound \cup {<<r, n>>}
     /\ IF falls THEN Deactivate(n, info) ELSE Keep(n, info)
     /\ UNCHANGED <<parameters, tokens, now>>

(* What is slashed is not recorded. *)
MutantSlashUnrecorded(n, r, amount) ==
  LET info == [nodes[n] EXCEPT !.stake = @ - Lesser(amount, @)]
      falls == info.active /\ info.stake < minStakeFloor
  IN /\ nodes[n].registered
     /\ amount # 0
     /\ <<r, n>> \notin slashedInRound
     /\ amount <= SlashCap(n)
     /\ slashedInRound' = slashedInRound \cup {<<r, n>>}
     /\ IF falls THEN Deactivate(n, info) ELSE Keep(n, info)
     /\ UNCHANGED <<parameters, tokens, now>>

Slash(n, r, amount) ==
  LET slashed == Lesser(amount, nodes[n].stake)
      info == [nodes[n] EXCEPT !.stake = @ - slashed,
                               !.slashedTotal = @ + slashed]
      falls == info.active /\ info.stake < minStakeFloor
  IN /\ nodes[n].registered
     /\ amount # 0
     /\ <<r, n>> \notin slashedInRound
     /\ amount <= SlashCap(n)
     /\ slashedInRound' = slashedInRound \cup {<<r, n>>}
     /\ \/ falls /\ Deactivate(n, info)
        \/ ~falls /\ Keep(n, info)
     /\ UNCHANGED <<parameters, tokens, now>>

-----------------------------------------------------------------------------
(* DEFAULT_ADMIN_ROLE and ORACLE_MANAGER_ROLE. *)

AdminDeactivate(n) ==
  /\ nodes[n].registered
  /\ nodes[n].active
  /\ Deactivate(n, nodes[n])
  /\ UNCHANGED <<slashedInRound, parameters, tokens, now>>

(* The minimum may go below the floor. *)
MutantSetMinimumStake(value) ==
  /\ minimumStake' = value
  /\ UNCHANGED <<nodes, membership, slashedInRound, minStakeFloor,
                 unbondingPeriod, maxNodes, tokens, now>>

SetMinimumStake(value) ==
  /\ value >= minStakeFloor
  /\ minimumStake' = value
  /\ UNCHANGED <<nodes, membership, slashedInRound, minStakeFloor,
                 unbondingPeriod, maxNodes, tokens, now>>

SetMinStakeFloor(value) ==
  /\ value <= minimumStake
  /\ minStakeFloor' = value
  /\ UNCHANGED <<nodes, membership, slashedInRound, minimumStake,
                 unbondingPeriod, maxNodes, tokens, now>>

(* The period may be shortened to nothing. *)
MutantSetUnbondingPeriod(value) ==
  /\ unbondingPeriod' = value
  /\ UNCHANGED <<nodes, membership, slashedInRound, minimumStake,
                 minStakeFloor, maxNodes, tokens, now>>

SetUnbondingPeriod(value) ==
  /\ value >= MinUnbonding
  /\ unbondingPeriod' = value
  /\ UNCHANGED <<nodes, membership, slashedInRound, minimumStake,
                 minStakeFloor, maxNodes, tokens, now>>

(* May go below the number of nodes already active: nobody is evicted. *)
SetMaxNodes(value) ==
  /\ value # 0
  /\ value <= MaxNodesCeiling
  /\ maxNodes' = value
  /\ UNCHANGED <<nodes, membership, slashedInRound, minimumStake,
                 minStakeFloor, unbondingPeriod, tokens, now>>

Tick ==
  /\ now < MaxTime
  /\ now' = now + 1
  /\ UNCHANGED <<nodes, membership, slashedInRound, parameters, tokens>>

-----------------------------------------------------------------------------
(* initialize *)
Init ==
  /\ nodes = [n \in Nodes |-> Unknown]
  /\ activeNodeCount = 0
  /\ nodeSetVersion = 0
  /\ slashedInRound = {}
  /\ minimumStake \in StakeLevels
  /\ minStakeFloor \in {f \in StakeLevels : f <= minimumStake}
  /\ unbondingPeriod \in {p \in Periods : p >= MinUnbonding}
  /\ maxNodes \in 1..MaxNodesCeiling
  /\ wallet = [n \in Nodes |-> InitialWallet]
  /\ custody = 0
  /\ now = 0
  /\ lastActiveAt = [n \in Nodes |-> 0]

Operator(n) ==
  \/ \E a \in Amounts : Register(n, a) \/ Stake(n, a) \/ RequestUnstake(n, a)
  \/ CancelUnstake(n)
  \/ CompleteUnstake(n)

Admin ==
  \/ \E n \in Nodes : AdminDeactivate(n)
  \/ \E v \in StakeLevels : SetMinimumStake(v) \/ SetMinStakeFloor(v)
  \/ \E p \in Periods : SetUnbondingPeriod(p)
  \/ \E m \in 1..MaxNodesCeiling : SetMaxNodes(m)

Next ==
  \/ \E n \in Nodes : Operator(n)
  \/ \E n \in Nodes, r \in RoundIds, a \in Amounts : Slash(n, r, a)
  \/ Admin
  \/ Tick

Spec == Init /\ [][Next]_vars

-----------------------------------------------------------------------------
(* Properties. *)

TypeOK ==
  /\ nodes \in [Nodes -> NodeInfo]
  /\ activeNodeCount \in Nat
  /\ nodeSetVersion \in 0..MaxVersion
  /\ slashedInRound \subseteq RoundIds \X Nodes
  /\ minimumStake \in Nat
  /\ minStakeFloor \in Nat
  /\ unbondingPeriod \in Nat
  /\ maxNodes \in 1..MaxNodesCeiling
  /\ wallet \in [Nodes -> Nat]
  /\ custody \in Nat
  /\ now \in 0..MaxTime
  /\ lastActiveAt \in [Nodes -> 0..MaxTime]

(* The cached count is the size of the set it stands for and never passes  *)
(* the ceiling the settlement sort relies on; it stays so because a node   *)
(* with a withdrawal pending is never a member (cancelUnstake activates    *)
(* without looking at `active`).                                           *)
MembershipSound ==
  /\ activeNodeCount = Cardinality(ActiveNodes)
  /\ activeNodeCount <= MaxNodesCeiling
  /\ \A n \in Nodes : nodes[n].pendingUnstake # 0 => ~nodes[n].active

(* Every token an operator paid in is staked, slashed, or back in their    *)
(* wallet: no path of top-ups, requests, cancellations and slashes creates *)
(* or loses any, and nobody is paid out of another operator's stake.       *)
StakeConserved ==
  \A n \in Nodes :
    wallet[n] + nodes[n].stake + nodes[n].slashedTotal = InitialWallet

(* The contract's balance covers every stake and everything it slashed, so *)
(* the last operator to leave is paid like the first.                      *)
CustodyBacked ==
  custody = MapThenSumSet(LAMBDA n : nodes[n].stake + nodes[n].slashedTotal,
                          Nodes)

(* Stake leaves the contract only after the operator has been out of the   *)
(* active set for at least the shortest unbonding period the code allows,  *)
(* whatever the admin sets meanwhile: a node cannot submit and run.        *)
PaidAfterUnbonding ==
  \A n \in Nodes : wallet'[n] > wallet[n] =>
    /\ ~nodes[n].active
    /\ now >= lastActiveAt[n] + MinUnbonding

ExitWaitsForUnbonding == [][PaidAfterUnbonding]_vars

(* An active node is below the floor only because the floor was raised     *)
(* over it: no activation, top-up or slash leaves one there.               *)
FloorKept ==
  \A n \in Nodes :
    nodes'[n].active /\ nodes'[n].stake < minStakeFloor' =>
      \/ minStakeFloor' > minStakeFloor
      \/ /\ nodes[n].active
         /\ nodes[n].stake < minStakeFloor
         /\ nodes'[n].stake >= nodes[n].stake

FloorHeld == [][FloorKept]_vars

(* A node answers for a round once: what it loses in one step is charged   *)
(* to a round not charged before and is within the cap on the stake it     *)
(* then had, also while it is unbonding.                                   *)
LossCharged ==
  \A n \in Nodes : nodes'[n].slashedTotal # nodes[n].slashedTotal =>
    /\ \E r \in RoundIds : slashedInRound' \ slashedInRound = {<<r, n>>}
    /\ (nodes'[n].slashedTotal - nodes[n].slashedTotal) * BPS
         <= nodes[n].stake * MaxSlashBps

OneBoundedSlashPerRound == [][LossCharged]_vars

(* The registry implements the view its readers rely on. *)
View == INSTANCE NodeSet WITH
  Ceiling <- MaxNodesCeiling,
  active <- ActiveNodes,
  activatedAt <- [n \in Nodes |-> nodes[n].activatedAtVersion],
  version <- nodeSetVersion

ImplementsNodeSet == View!Spec
=============================================================================
