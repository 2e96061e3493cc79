--------------------------- MODULE MirrorTables ---------------------------
(***************************************************************************)
(* The tables the indexer writes and the statements it writes them with.   *)
(* A table is a function from its natural key to its row.  `at' is the     *)
(* event a row came from, the (tx_hash, log_index) most inserts are        *)
(* idempotent on.  Each operator below is one statement of db/*.go, applied *)
(* to the tables db for the event ev; StatementRefused says when a foreign *)
(* key, a uniqueness constraint or the statement's own check rejects it.   *)
(***************************************************************************)
EXTENDS Integers, FiniteSets, FiniteSetsExt

EmptyTables ==
    [parents |-> {},           \* assets, vaults, governors, gates written so far
     proposals |-> <<>>, votes |-> <<>>, remote |-> <<>>,
     deposits |-> <<>>, withdrawals |-> <<>>,
     feeds |-> <<>>, rounds |-> <<>>, submissions |-> <<>>,
     nodes |-> <<>>, intervals |-> <<>>, slashings |-> <<>>,
     leaves |-> <<>>, actions |-> <<>>, spent |-> <<>>]

(* INSERT ... ON CONFLICT (key) DO NOTHING *)
InsertNew(table, key, row) ==
    [k \in DOMAIN table \union {key} |-> IF k \in DOMAIN table THEN table[k] ELSE row]

(* INSERT ... ON CONFLICT (key) DO UPDATE *)
Upsert(table, key, row) ==
    [k \in DOMAIN table \union {key} |-> IF k = key THEN row ELSE table[k]]

(* The rows of a table the event ev has already written. *)
From(table, ev) == {k \in DOMAIN table : table[k].at = ev.at}

---------------------------------------------------------------------------
(* assets.go and the parents of vault.go, governance.go and zk.go: their   *)
(* upserts refresh metadata that never changes here.                       *)

UpsertAsset(db, ev)    == [db EXCEPT !.parents = @ \union {"asset"}]
UpsertVault(db, ev)    == [db EXCEPT !.parents = @ \union {"vault"}]
UpsertGovernor(db, ev) == [db EXCEPT !.parents = @ \union {"governor"}]
UpsertZkGate(db, ev)   == [db EXCEPT !.parents = @ \union {"gate"}]

---------------------------------------------------------------------------
(* governance.go *)

InsertGovernanceProposal(db, ev) ==
    [db EXCEPT !.proposals =
        InsertNew(@, ev.id, [state |-> "pending", for |-> 0, against |-> 0])]

InsertVote(db, ev) ==
    IF From(db.votes, ev) # {} THEN db
    ELSE [db EXCEPT !.votes = InsertNew(@, <<ev.id, ev.who>>,
            [support |-> ev.support, weight |-> ev.weight, at |-> ev.at])]

VotesOf(db, p, support) ==
    MapThenSumSet(LAMBDA v : db.votes[v].weight,
        {v \in DOMAIN db.votes : v[1] = p /\ db.votes[v].support = support})

RetallyProposal(db, p) ==
    IF p \notin DOMAIN db.proposals THEN db
    ELSE [db EXCEPT !.proposals[p].for = VotesOf(db, p, "for"),
                    !.proposals[p].against = VotesOf(db, p, "against")]

(* One transaction: the vote and the tally derived from all votes. *)
InsertGovernanceVote(db, ev) == RetallyProposal(InsertVote(db, ev), ev.id)

MutantMayLeave(state) ==
    {"pending", "active", "succeeded", "defeated", "queued", "dispatched", "executed"}

(* A proposal moves to a state only from those the transition may leave. *)
MayLeave(state) ==
    CASE state = "queued"     -> {"pending", "active", "succeeded"}
      [] state = "dispatched" -> {"queued"}
      [] state = "executed"   -> {"queued", "dispatched"}
      [] state = "cancelled"  -> {"pending", "active", "succeeded", "defeated", "queued",
                                  "dispatched"}

MarkProposal(db, ev, state) ==
    IF ev.id \in DOMAIN db.proposals /\ db.proposals[ev.id].state \in MayLeave(state)
      THEN [db EXCEPT !.proposals[ev.id].state = state] ELSE db

---------------------------------------------------------------------------
(* governance_remote.go *)

InsertRemoteAction(db, ev) ==
    [db EXCEPT !.remote = InsertNew(@, ev.id, [status |-> "pending"])]

CloseRemoteAction(db, ev, status) ==
    IF ev.id \in DOMAIN db.remote /\ db.remote[ev.id].status = "pending"
      THEN [db EXCEPT !.remote[ev.id].status = status] ELSE db

---------------------------------------------------------------------------
(* vault.go *)

InsertVaultDeposit(db, ev) ==
    IF From(db.deposits, ev) # {} THEN db
    ELSE [db EXCEPT !.deposits =
            InsertNew(@, ev.at, [user |-> ev.who, shares |-> ev.shares, at |-> ev.at])]

InsertVaultWithdrawal(db, ev) ==
    IF From(db.withdrawals, ev) # {} THEN db
    ELSE [db EXCEPT !.withdrawals =
            InsertNew(@, ev.at, [user |-> ev.who, shares |-> ev.shares, at |-> ev.at])]

SharesOf(table, user) ==
    MapThenSumSet(LAMBDA k : table[k].shares, {k \in DOMAIN table : table[k].user = user})

(* What the position and the TVL are read as: sums over the events. *)
VaultPosition(db, user) == SharesOf(db.deposits, user) - SharesOf(db.withdrawals, user)

VaultTVL(db) ==
    MapThenSumSet(LAMBDA k : db.deposits[k].shares, DOMAIN db.deposits)
      - MapThenSumSet(LAMBDA k : db.withdrawals[k].shares, DOMAIN db.withdrawals)

---------------------------------------------------------------------------
(* oracle.go: feeds, rounds and submissions *)

UpsertOracleFeed(db, ev) ==
    [db EXCEPT !.feeds = Upsert(@, "feed", [name |-> "registered", active |-> TRUE])]

EnsureOracleFeed(db, ev) ==
    [db EXCEPT !.feeds = InsertNew(@, "feed", [name |-> "placeholder", active |-> TRUE])]

DeactivateOracleFeed(db, ev) ==
    IF "feed" \in DOMAIN db.feeds THEN [db EXCEPT !.feeds["feed"].active = FALSE] ELSE db

InsertOracleRound(db, ev) ==
    [db EXCEPT !.rounds = InsertNew(@, ev.id, [state |-> "open", count |-> 0, value |-> 0])]

(* Guarded on the state the round may leave, so a replay moves nothing back. *)
MoveRound(db, ev, from, row) ==
    IF ev.id \in DOMAIN db.rounds /\ db.rounds[ev.id].state \in from
      THEN [db EXCEPT !.rounds[ev.id] =
               [c \in DOMAIN @ |-> IF c \in DOMAIN row THEN row[c] ELSE @[c]]]
      ELSE db

MarkOracleRoundQuorumMet(db, ev) ==
    MoveRound(db, ev, {"open"}, [state |-> "quorum_met", count |-> ev.count])

SettleOracleRound(db, ev) ==
    MoveRound(db, ev, {"open", "quorum_met"},
              [state |-> "settled", count |-> ev.count, value |-> ev.value])

FailOracleRound(db, ev) ==
    MoveRound(db, ev, {"open", "quorum_met"}, [state |-> "failed", count |-> ev.count])

InsertOracleSubmission(db, ev) ==
    IF From(db.submissions, ev) # {} THEN db
    ELSE [db EXCEPT !.submissions =
            InsertNew(@, <<ev.id, ev.who>>, [value |-> ev.value, at |-> ev.at])]

---------------------------------------------------------------------------
(* oracle.go: nodes, the intervals they were in the set, slashes *)

UpsertOracleNode(db, ev) ==
    [db EXCEPT !.nodes =
        IF ev.who \in DOMAIN @
          THEN [@ EXCEPT ![ev.who].stake = ev.stake, ![ev.who].active = TRUE]
          ELSE Upsert(@, ev.who, [stake |-> ev.stake, pending |-> 0, active |-> TRUE])]

SetOracleNodeStake(db, ev) ==
    IF ev.who \in DOMAIN db.nodes THEN [db EXCEPT !.nodes[ev.who].stake = ev.stake] ELSE db

SetOracleNodeUnstake(db, ev, pending) ==
    IF ev.who \in DOMAIN db.nodes THEN [db EXCEPT !.nodes[ev.who].pending = pending] ELSE db

SetOracleNodeActive(db, ev, active) ==
    IF ev.who \in DOMAIN db.nodes THEN [db EXCEPT !.nodes[ev.who].active = active] ELSE db

OpenOracleNodeInterval(db, ev) ==
    [db EXCEPT !.intervals = InsertNew(@, <<ev.who, ev.id>>, [closed |-> 0])]

(* The latest interval that began before this deactivation, unless another *)
(* deactivation closed it.                                                 *)
CloseOracleNodeInterval(db, ev) ==
    LET began == {k \in DOMAIN db.intervals : k[1] = ev.who /\ k[2] < ev.id}
        last  == <<ev.who, Max({k[2] : k \in began})>>
    IN  IF began # {} /\ db.intervals[last].closed \in {0, ev.id}
          THEN [db EXCEPT !.intervals[last].closed = ev.id] ELSE db

(* One transaction: the audit row, for a slash no decision of the service  *)
(* preceded, and the stake it left.                                        *)
RecordOracleSlash(db, ev) ==
    LET recorded == IF From(db.slashings, ev) # {} THEN db
                    ELSE [db EXCEPT !.slashings =
                            InsertNew(@, <<ev.who, ev.id>>, [amount |-> ev.amount, at |-> ev.at])]
    IN  SetOracleNodeStake(recorded, ev)

---------------------------------------------------------------------------
(* zk.go *)

InsertZkCommitment(db, ev) ==
    IF From(db.leaves, ev) # {} THEN db
    ELSE [db EXCEPT !.leaves =
            InsertNew(@, ev.id, [commitment |-> ev.commitment, at |-> ev.at])]

UpsertZkAction(db, ev) ==
    [db EXCEPT !.actions = Upsert(@, ev.id, [registered |-> TRUE])]

DeregisterZkAction(db, ev) ==
    IF ev.id \in DOMAIN db.actions THEN [db EXCEPT !.actions[ev.id].registered = FALSE] ELSE db

InsertZkPrivateAction(db, ev) ==
    IF From(db.spent, ev) # {} THEN db
    ELSE [db EXCEPT !.spent = InsertNew(@, ev.id, [action |-> ev.action, at |-> ev.at])]

---------------------------------------------------------------------------
(* What the schema rejects: a missing parent row, or a key another event   *)
(* already holds.                                                          *)

Taken(table, key, ev) == key \in DOMAIN table /\ table[key].at # ev.at

New(table, ev) == From(table, ev) = {}

GovernanceRefused(db, op, ev) ==
    \/ op = "UpsertGovernor" /\ "asset" \notin db.parents
    \/ op = "InsertGovernanceProposal" /\ "governor" \notin db.parents
    \/ op = "InsertGovernanceVote"
         /\ \/ ev.id \notin DOMAIN db.proposals
            \/ New(db.votes, ev) /\ Taken(db.votes, <<ev.id, ev.who>>, ev)

(* A closing that finds no row is an error of the statement's own. *)
RemoteRefused(db, op, ev) ==
    op \in {"CloseRemoteActionExecuted", "CloseRemoteActionCancelled"}
      /\ ev.id \notin DOMAIN db.remote

VaultRefused(db, op, ev) ==
    \/ op = "UpsertVault" /\ "asset" \notin db.parents
    \/ op \in {"InsertVaultDeposit", "InsertVaultWithdrawal"}
         /\ ~({"asset", "vault"} \subseteq db.parents)

OracleRefused(db, op, ev) ==
    \/ op = "InsertOracleRound" /\ "feed" \notin DOMAIN db.feeds
    \/ op = "InsertOracleSubmission"
         /\ \/ ev.id \notin DOMAIN db.rounds
            \/ New(db.submissions, ev) /\ Taken(db.submissions, <<ev.id, ev.who>>, ev)
    \/ op = "UpsertOracleNode" /\ "asset" \notin db.parents
    \/ op = "RecordOracleSlash"
         /\ \/ ev.who \notin DOMAIN db.nodes
            \/ New(db.slashings, ev) /\ Taken(db.slashings, <<ev.who, ev.id>>, ev)

ZkRefused(db, op, ev) ==
    \/ op = "InsertZkCommitment" /\ New(db.leaves, ev)
         /\ \/ Taken(db.leaves, ev.id, ev)
            \/ \E k \in DOMAIN db.leaves : db.leaves[k].commitment = ev.commitment
    \/ op = "UpsertZkAction" /\ "gate" \notin db.parents
    \/ op = "InsertZkPrivateAction"
         /\ \/ "gate" \notin db.parents
            \/ New(db.spent, ev) /\ Taken(db.spent, ev.id, ev)

StatementRefused(kind, db, op, ev) ==
    CASE kind = "governor" -> GovernanceRefused(db, op, ev)
      [] kind = "receiver" -> RemoteRefused(db, op, ev)
      [] kind = "vault" -> VaultRefused(db, op, ev)
      [] kind \in {"rounds", "staking"} -> OracleRefused(db, op, ev)
      [] kind = "zk" -> ZkRefused(db, op, ev)

---------------------------------------------------------------------------
(* The store as each handler sees it: its methods by name, one statement   *)
(* or one transaction each.                                                *)

GovernanceStore(db, op, ev) ==
    CASE op = "UpsertAsset" -> UpsertAsset(db, ev)
      [] op = "UpsertGovernor" -> UpsertGovernor(db, ev)
      [] op = "InsertGovernanceProposal" -> InsertGovernanceProposal(db, ev)
      [] op = "InsertGovernanceVote" -> InsertGovernanceVote(db, ev)
      [] op = "MarkProposalQueued" -> MarkProposal(db, ev, "queued")
      [] op = "MarkProposalDispatched" -> MarkProposal(db, ev, "dispatched")
      [] op = "MarkProposalExecuted" -> MarkProposal(db, ev, "executed")
      [] op = "MarkProposalCancelled" -> MarkProposal(db, ev, "cancelled")

GovernanceReceiverStore(db, op, ev) ==
    CASE op = "InsertRemoteAction" -> InsertRemoteAction(db, ev)
      [] op = "CloseRemoteActionExecuted" -> CloseRemoteAction(db, ev, "executed")
      [] op = "CloseRemoteActionCancelled" -> CloseRemoteAction(db, ev, "cancelled")

VaultStore(db, op, ev) ==
    CASE op = "UpsertAsset" -> UpsertAsset(db, ev)
      [] op = "UpsertVault" -> UpsertVault(db, ev)
      [] op = "InsertVaultDeposit" -> InsertVaultDeposit(db, ev)
      [] op = "InsertVaultWithdrawal" -> InsertVaultWithdrawal(db, ev)

OracleRoundStore(db, op, ev) ==
    CASE op = "UpsertOracleFeed" -> UpsertOracleFeed(db, ev)
      [] op = "EnsureOracleFeed" -> EnsureOracleFeed(db, ev)
      [] op = "DeactivateOracleFeed" -> DeactivateOracleFeed(db, ev)
      [] op = "InsertOracleRound" -> InsertOracleRound(db, ev)
      [] op = "MarkOracleRoundQuorumMet" -> MarkOracleRoundQuorumMet(db, ev)
      [] op = "SettleOracleRound" -> SettleOracleRound(db, ev)
      [] op = "FailOracleRound" -> FailOracleRound(db, ev)
      [] op = "InsertOracleSubmission" -> InsertOracleSubmission(db, ev)

OracleNodeStore(db, op, ev) ==
    CASE op = "UpsertAsset" -> UpsertAsset(db, ev)
      [] op = "UpsertOracleNode" -> UpsertOracleNode(db, ev)
      [] op = "SetOracleNodeStake" -> SetOracleNodeStake(db, ev)
      [] op = "SetOracleNodeUnstake" -> SetOracleNodeUnstake(db, ev, ev.pending)
      [] op = "ClearOracleNodeUnstake" -> SetOracleNodeUnstake(db, ev, 0)
      [] op = "SetOracleNodeActive" -> SetOracleNodeActive(db, ev, TRUE)
      [] op = "SetOracleNodeInactive" -> SetOracleNodeActive(db, ev, FALSE)
      [] op = "OpenOracleNodeInterval" -> OpenOracleNodeInterval(db, ev)
      [] op = "CloseOracleNodeInterval" -> CloseOracleNodeInterval(db, ev)
      [] op = "RecordOracleSlash" -> RecordOracleSlash(db, ev)

ZkStore(db, op, ev) ==
    CASE op = "UpsertZkGate" -> UpsertZkGate(db, ev)
      [] op = "InsertZkCommitment" -> InsertZkCommitment(db, ev)
      [] op = "UpsertZkAction" -> UpsertZkAction(db, ev)
      [] op = "DeregisterZkAction" -> DeregisterZkAction(db, ev)
      [] op = "InsertZkPrivateAction" -> InsertZkPrivateAction(db, ev)

(* The statement op carried out for the event ev of a contract. *)
Exec(kind, db, op, ev) ==
    CASE kind = "governor" -> GovernanceStore(db, op, ev)
      [] kind = "receiver" -> GovernanceReceiverStore(db, op, ev)
      [] kind = "vault" -> VaultStore(db, op, ev)
      [] kind = "rounds" -> OracleRoundStore(db, op, ev)
      [] kind = "staking" -> OracleNodeStore(db, op, ev)
      [] kind = "zk" -> ZkStore(db, op, ev)
============================================================================
