------------------------- MODULE IndexedContracts -------------------------
(***************************************************************************)
(* The chain as the indexer reads it: a ledger of transactions in blocks   *)
(* and, for each of the six kinds of contract an indexer follows, what a   *)
(* call does to the contract's own storage and which events it emits, in   *)
(* which order.  A behaviour follows one kind of contract; every handler   *)
(* ignores the events of the contracts that are not its own.               *)
(*                                                                         *)
(* What makes a call legal by amount, role or clock is left open: a vote   *)
(* may come at any time before the queueing, a settlement may go either    *)
(* way.  What orders the events is kept: nothing is settled that was not   *)
(* opened, nobody votes twice, a closed message stays closed.  So the      *)
(* ledgers here include every one the contracts write.                     *)
(***************************************************************************)
EXTENDS Integers, Sequences, FiniteSets, SequencesExt, FiniteSetsExt

CONSTANTS
    Kinds,           \* the contracts a behaviour may follow
    Accounts,        \* voters, depositors and the nodes that submit (finitely many)
    Stakers,         \* the nodes that stake
    Weight,          \* [Accounts -> Nat \ {0}], voting power at the snapshot
    MaxId,           \* bound, by kind: proposals, messages, rounds, leaves, actions
    Quorum,          \* submissions that make a round's quorum
    MaxNodes,        \* the size of the active node set
    MaxCalls,        \* bound, by kind: transactions on the ledger
    MaxEmpty,        \* bound: blocks without a transaction
    Confirms,        \* blocks that bury a block for good
    CallsPerBlock    \* bound, by kind: transactions in one block

ASSUME ContractsAssumption ==
    /\ Kinds \subseteq {"governor", "receiver", "vault", "rounds", "staking", "zk"}
    /\ Weight \in [Accounts -> Nat \ {0}]
    /\ IsFiniteSet(Accounts)
    /\ {Quorum, MaxNodes} \subseteq Nat \ {0}
    /\ CallsPerBlock \in [Kinds -> Nat \ {0}]
    /\ Stakers \subseteq Accounts
    /\ {MaxEmpty, Confirms} \subseteq Nat
    /\ {MaxCalls, MaxId} \subseteq [Kinds -> Nat]

VARIABLES
    contract,  \* the kind this behaviour follows
    start,     \* the configured start block of the indexer
    ledger,    \* the transactions, oldest first: [slot, ok, events, post]
    head,      \* the newest block
    final      \* the newest block no reorganisation can remove

Ids == 1..MaxId[contract]

chainVars == <<contract, start, ledger, head, final>>

---------------------------------------------------------------------------
(* Storage, as each contract is deployed. *)

(* A mapping of a contract after one of its entries is written. *)
With(f, key, value) ==
    [k \in DOMAIN f \union {key} |-> IF k = key THEN value ELSE f[k]]

MinStake == 2
StakeFloor == 2

NewNode == [registered |-> FALSE, stake |-> 0, pending |-> 0, active |-> FALSE]
NewRound == [state |-> "none", met |-> 0, value |-> 0, votes |-> <<>>]

Deployed(kind) ==
    CASE kind = "governor" -> [state |-> [p \in Ids |-> "none"],
                               remote |-> [p \in Ids |-> FALSE], cast |-> <<>>]
      [] kind = "receiver" -> [status |-> [m \in Ids |-> "none"]]
      [] kind = "vault"    -> [shares |-> [u \in Accounts |-> 0]]
      [] kind = "rounds"   -> [feed |-> "none", round |-> [r \in Ids |-> NewRound]]
      [] kind = "staking"  -> [version |-> 0, node |-> [n \in Stakers |-> NewNode],
                               spans |-> <<>>, slashed |-> <<>>]
      [] kind = "zk"       -> [leaves |-> <<>>, action |-> [a \in Ids |-> "none"],
                               spent |-> <<>>]

Storage == IF ledger = <<>> THEN Deployed(contract) ELSE Last(ledger).post

(* The storage after every transaction up to block b. *)
StorageAt(b) ==
    LET past == {i \in DOMAIN ledger : ledger[i].slot <= b}
    IN  IF past = {} THEN Deployed(contract) ELSE ledger[Max(past)].post

---------------------------------------------------------------------------
(* The chain. *)

(* A transaction joins the newest block while it can still be replaced, or *)
(* a new block.  What is buried under Confirms blocks is final.            *)
Append1(tx) ==
    /\ Len(ledger) < MaxCalls[contract]
    /\ \E slot \in {head, head + 1} :
          /\ slot > final
          /\ Cardinality({i \in DOMAIN ledger : ledger[i].slot = slot}) < CallsPerBlock[contract]
          /\ ledger' = Append(ledger, [tx EXCEPT !.slot = slot])
          /\ head' = slot
          /\ final' = Max({final, slot - Confirms})
    /\ UNCHANGED <<contract, start>>

Call(events, post) == Append1([slot |-> 0, ok |-> TRUE, events |-> events, post |-> post])

EmptyBlock ==
    /\ head < Len(ledger) + MaxEmpty
    /\ head' = head + 1
    /\ final' = Max({final, head + 1 - Confirms})
    /\ UNCHANGED <<contract, start, ledger>>

(* The blocks above one that is not final are replaced by others. *)
Reorg ==
    /\ \E kept \in final..(head - 1), n \in 0..Len(ledger) :
          /\ \A i \in DOMAIN ledger : ledger[i].slot <= kept <=> i <= n
          /\ ledger' = SubSeq(ledger, 1, n)
          /\ head' = kept
    /\ UNCHANGED <<contract, start, final>>

(* On Solana a failed transaction is listed with the rest, and the events  *)
(* of the calls it made before it failed can still be reported.            *)
FailedTransaction ==
    /\ contract = "receiver"
    /\ \E m \in Ids : Append1([slot |-> 0, ok |-> FALSE, post |-> Storage,
                               events |-> <<[name |-> "MessageCancelled", id |-> m]>>])

(* A setter: every contract emits events nobody indexes. *)
ParameterChanged ==
    /\ contract \in {"receiver", "zk"}
    /\ Call(<<[name |-> "ParameterChanged", id |-> 0]>>, Storage)

---------------------------------------------------------------------------
(* Governor. *)

Propose ==
    /\ contract = "governor"
    /\ \E p \in Ids :
          /\ Storage.state[p] = "none"
          /\ \A q \in 1..(p - 1) : Storage.state[q] # "none"
          /\ \E remote \in BOOLEAN :
               Call(<<[name |-> "ProposalCreated", id |-> p]>>,
                    [Storage EXCEPT !.state[p] = "pending", !.remote[p] = remote])

CastVote ==
    /\ contract = "governor"
    /\ \E p \in Ids, v \in Accounts, support \in {"for", "against"} :
          /\ Storage.state[p] = "pending"
          /\ <<p, v>> \notin DOMAIN Storage.cast
          /\ Call(<<[name |-> "VoteCast", id |-> p, who |-> v,
                     support |-> support, weight |-> Weight[v]]>>,
                  [Storage EXCEPT !.cast = With(@, <<p, v>>, support)])

Tally(storage, p, support) ==
    MapThenSumSet(LAMBDA c : Weight[c[2]],
        {c \in DOMAIN storage.cast : c[1] = p /\ storage.cast[c] = support})

Queue ==
    /\ contract = "governor"
    /\ \E p \in Ids :
          /\ Storage.state[p] = "pending"
          /\ Tally(Storage, p, "for") > Tally(Storage, p, "against")
          /\ Call(<<[name |-> "ProposalQueued", id |-> p]>>,
                  [Storage EXCEPT !.state[p] = "queued"])

ExecuteProposal ==
    /\ contract = "governor"
    /\ \E p \in Ids :
          /\ Storage.state[p] = "queued"
          /\ IF Storage.remote[p]
               THEN Call(<<[name |-> "ProposalDispatched", id |-> p]>>,
                         [Storage EXCEPT !.state[p] = "dispatched"])
               ELSE Call(<<[name |-> "ProposalExecuted", id |-> p]>>,
                         [Storage EXCEPT !.state[p] = "executed"])

CancelProposal ==
    /\ contract = "governor"
    /\ \E p \in Ids :
          /\ Storage.state[p] \in {"pending", "queued"}
          /\ Call(<<[name |-> "ProposalCancelled", id |-> p]>>,
                  [Storage EXCEPT !.state[p] = "cancelled"])

---------------------------------------------------------------------------
(* The Solana governance receiver. *)

ReceiveMessage ==
    /\ contract = "receiver"
    /\ \E m \in Ids :
          /\ Storage.status[m] = "none"
          /\ Call(<<[name |-> "MessageReceived", id |-> m]>>,
                  [Storage EXCEPT !.status[m] = "pending"])

(* A message runs seconds after its receipt at the earliest (MIN_DELAY):   *)
(* in a later slot.  It may be cancelled in the same one.                  *)
CloseMessage ==
    /\ contract = "receiver"
    /\ \E m \in Ids, how \in {"executed", "cancelled"} :
          /\ Storage.status[m] = "pending"
          /\ Call(<<[name |-> IF how = "executed" THEN "MessageExecuted"
                                                  ELSE "MessageCancelled", id |-> m]>>,
                  [Storage EXCEPT !.status[m] = how])
          /\ how = "executed" =>
               \A i \in DOMAIN ledger :
                  ledger[i].events = <<[name |-> "MessageReceived", id |-> m]>> =>
                      ledger[i].slot < head'

---------------------------------------------------------------------------
(* VaultEngine. *)

Deposit ==
    /\ contract = "vault"
    /\ \E u \in Accounts : LET n == Weight[u] IN
          Call(<<[name |-> "Deposited", id |-> 0, who |-> u, shares |-> n]>>,
               [Storage EXCEPT !.shares[u] = @ + n])

Withdraw ==
    /\ contract = "vault"
    /\ \E u \in Accounts : \E n \in 1..Storage.shares[u] :
          Call(<<[name |-> "Withdrawn", id |-> 0, who |-> u, shares |-> n]>>,
               [Storage EXCEPT !.shares[u] = @ - n])

---------------------------------------------------------------------------
(* OracleRounds: one feed. *)

RegisterFeed ==
    /\ contract = "rounds"
    /\ Storage.feed # "active"
    /\ Call(<<[name |-> "FeedRegistered", id |-> 0]>>, [Storage EXCEPT !.feed = "active"])

DeregisterFeed ==
    /\ contract = "rounds"
    /\ Storage.feed = "active"
    /\ Call(<<[name |-> "FeedDeregistered", id |-> 0]>>, [Storage EXCEPT !.feed = "retired"])

OpenRound ==
    /\ contract = "rounds"
    /\ Storage.feed = "active"
    /\ \E r \in Ids :
          /\ Storage.round[r].state = "none"
          /\ \A q \in 1..(r - 1) : Storage.round[q].state # "none"
          /\ Call(<<[name |-> "RoundStarted", id |-> r]>>,
                  [Storage EXCEPT !.round[r].state = "open"])

(* The submission that brings an open round to its quorum announces it. *)
SubmitValue ==
    /\ contract = "rounds"
    /\ \E r \in Ids, n \in Accounts :
          LET round == Storage.round[r]
              count == Cardinality(DOMAIN round.votes) + 1
              meets == round.state = "open" /\ count >= Quorum
              heard == [name |-> "SubmissionReceived", id |-> r, who |-> n, value |-> count]
          IN  /\ round.state \in {"open", "quorum_met"}
              /\ n \notin DOMAIN round.votes
              /\ Call(<<heard>> \o
                      (IF meets THEN <<[name |-> "RoundQuorumMet", id |-> r, count |-> count]>>
                                ELSE <<>>),
                      [Storage EXCEPT !.round[r] =
                         [@ EXCEPT !.votes = With(@, n, count),
                                   !.state = IF meets THEN "quorum_met" ELSE @,
                                   !.met   = IF meets THEN count ELSE @]])

SettleRound ==
    /\ contract = "rounds"
    /\ \E r \in Ids :
          LET round == Storage.round[r]
              count == Cardinality(DOMAIN round.votes)
          IN  /\ round.state \in {"open", "quorum_met"}
              /\ \/ /\ count > 0
                    /\ \E n \in DOMAIN round.votes :
                         Call(<<[name |-> "RoundSettled", id |-> r, count |-> count,
                                 value |-> round.votes[n]]>>,
                              [Storage EXCEPT !.round[r] =
                                 [@ EXCEPT !.state = "settled", !.met = count,
                                           !.value = round.votes[n]]])
                 \/ Call(<<[name |-> "RoundFailed", id |-> r, count |-> count]>>,
                         [Storage EXCEPT !.round[r] =
                            [@ EXCEPT !.state = "failed", !.met = count]])

---------------------------------------------------------------------------
(* OracleStaking.  A span is the time a node is in the set: the version    *)
(* that admitted it, and the one that removed it (0 while it is in).       *)

ActiveCount == Cardinality({n \in Stakers : Storage.node[n].active})

Joined(s, n) ==
    [s EXCEPT !.version = @ + 1, !.node[n].active = TRUE,
              !.spans = With(@, <<n, s.version + 1>>, [closed |-> 0])]

Left(s, n) ==
    LET open == CHOOSE v \in 1..s.version : <<n, v>> \in DOMAIN s.spans
                                            /\ s.spans[<<n, v>>].closed = 0
    IN  [s EXCEPT !.version = @ + 1, !.node[n].active = FALSE,
                  !.spans[<<n, open>>].closed = s.version + 1]

Reactivated(s, n) == <<[name |-> "NodeReactivated", id |-> s.version + 1, who |-> n]>>
Deactivated(s, n) == <<[name |-> "NodeDeactivated", id |-> s.version + 1, who |-> n]>>

(* One call about node n leaves the storage s and emits these events; when  *)
(* the node joins or leaves the set with it, that event comes first.       *)
StakingCall(n, s, moves, events) ==
    CASE moves = "joins"  -> Call(Reactivated(s, n) \o events, Joined(s, n))
      [] moves = "leaves" -> Call(Deactivated(s, n) \o events, Left(s, n))
      [] moves = "stays"  -> Call(events, s)

WithNode(n, node) == [Storage EXCEPT !.node[n] = node]

Register ==
    /\ contract = "staking"
    /\ ActiveCount < MaxNodes
    /\ \E n \in Stakers :
          /\ ~Storage.node[n].registered
          /\ StakingCall(n, WithNode(n, [NewNode EXCEPT !.registered = TRUE, !.stake = MinStake]), "joins",
                 <<[name |-> "NodeRegistered", id |-> 0, who |-> n, stake |-> MinStake],
                   [name |-> "NodeStaked", id |-> 0, who |-> n, stake |-> MinStake]>>)

TopUp ==
    /\ contract = "staking"
    /\ \E n \in Stakers :
          LET node == Storage.node[n]
          IN  /\ node.registered
              /\ node.stake < MinStake + 1
              /\ StakingCall(n, WithNode(n, [node EXCEPT !.stake = @ + 1]),
                     IF ~node.active /\ node.pending = 0 /\ node.stake + 1 >= MinStake
                            /\ ActiveCount < MaxNodes
                       THEN "joins" ELSE "stays",
                     <<[name |-> "NodeStaked", id |-> 0, who |-> n, stake |-> node.stake + 1]>>)

RequestUnstake ==
    /\ contract = "staking"
    /\ \E n \in Stakers :
          LET node == Storage.node[n]
          IN  /\ node.registered /\ node.pending = 0 /\ node.stake > 0
              /\ StakingCall(n, WithNode(n, [node EXCEPT !.pending = 1]),
                     IF node.active THEN "leaves" ELSE "stays",
                     <<[name |-> "UnstakeRequested", id |-> 0, who |-> n, pending |-> 1]>>)

CancelUnstake ==
    /\ contract = "staking"
    /\ \E n \in Stakers :
          LET node == Storage.node[n]
          IN  /\ node.pending # 0
              /\ StakingCall(n, WithNode(n, [node EXCEPT !.pending = 0]),
                     IF node.stake >= MinStake /\ ActiveCount < MaxNodes
                       THEN "joins" ELSE "stays",
                     <<[name |-> "UnstakeCancelled", id |-> 0, who |-> n]>>)

CompleteUnstake ==
    /\ contract = "staking"
    /\ \E n \in Stakers :
          LET node == Storage.node[n]
              left == node.stake - Min({node.pending, node.stake})
          IN  /\ node.pending # 0
              /\ StakingCall(n, WithNode(n, [node EXCEPT !.pending = 0, !.stake = left]), "stays",
                     <<[name |-> "NodeUnstaked", id |-> 0, who |-> n, stake |-> left]>>)

SlashNode ==
    /\ contract = "staking"
    /\ \E n \in Stakers, r \in Ids :
          LET node == Storage.node[n]
              s    == [WithNode(n, [node EXCEPT !.stake = @ - 1])
                         EXCEPT !.slashed = With(@, <<n, r>>, [amount |-> 1])]
          IN  /\ node.registered /\ node.stake > 0
              /\ <<n, r>> \notin DOMAIN Storage.slashed
              /\ StakingCall(n, s,
                     IF node.active /\ node.stake - 1 < StakeFloor THEN "leaves" ELSE "stays",
                     <<[name |-> "NodeSlashed", id |-> r, who |-> n, amount |-> 1,
                        stake |-> node.stake - 1]>>)

Deactivate ==
    /\ contract = "staking"
    /\ \E n \in Stakers :
          /\ Storage.node[n].active
          /\ StakingCall(n, Storage, "leaves", <<>>)

---------------------------------------------------------------------------
(* CommitmentTree and ZkVaultGate. *)

InsertCommitment ==
    /\ contract = "zk"
    /\ \E c \in Ids :
          /\ c \notin Range(Storage.leaves)
          /\ Call(<<[name |-> "CommitmentInserted", id |-> Len(Storage.leaves), commitment |-> c]>>,
                  [Storage EXCEPT !.leaves = Append(@, c)])

RegisterAction ==
    /\ contract = "zk"
    /\ \E a \in Ids :
          /\ Storage.action[a] # "on"
          /\ Call(<<[name |-> "ActionRegistered", id |-> a]>>, [Storage EXCEPT !.action[a] = "on"])

DeregisterAction ==
    /\ contract = "zk"
    /\ \E a \in Ids :
          /\ Storage.action[a] = "on"
          /\ Call(<<[name |-> "ActionDeregistered", id |-> a]>>, [Storage EXCEPT !.action[a] = "off"])

ExecutePrivateAction ==
    /\ contract = "zk"
    /\ \E a \in Ids, nullifier \in Ids :
          /\ Storage.action[a] = "on"
          /\ nullifier \notin DOMAIN Storage.spent
          /\ Call(<<[name |-> "PrivateActionExecuted", id |-> nullifier, action |-> a]>>,
                  [Storage EXCEPT !.spent = With(@, nullifier, [action |-> a])])

ContractCall ==
    \/ Propose \/ CastVote \/ Queue \/ ExecuteProposal \/ CancelProposal
    \/ ReceiveMessage \/ CloseMessage \/ FailedTransaction \/ ParameterChanged
    \/ Deposit \/ Withdraw
    \/ RegisterFeed \/ DeregisterFeed \/ OpenRound \/ SubmitValue \/ SettleRound
    \/ Register \/ TopUp \/ RequestUnstake \/ CancelUnstake \/ CompleteUnstake
    \/ SlashNode \/ Deactivate
    \/ InsertCommitment \/ RegisterAction \/ DeregisterAction \/ ExecutePrivateAction

ChainNext == ContractCall \/ EmptyBlock \/ Reorg
============================================================================
