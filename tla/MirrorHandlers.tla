-------------------------- MODULE MirrorHandlers --------------------------
(***************************************************************************)
(* What the indexer's handlers do with an event: the statements, in order. *)
(* `known' is what the handlers of this process remember to have written:  *)
(* metadata is resolved from the chain and upserted once per process.      *)
(***************************************************************************)
EXTENDS Sequences

Once(op, known) == IF op \in known THEN <<>> ELSE <<op>>

(* indexer/governance.go *)

(* Set only after both rows: a process that stops between them redoes both. *)
EnsureGovernor(known) ==
    IF "UpsertGovernor" \in known THEN <<>> ELSE <<"UpsertAsset", "UpsertGovernor">>

HandleProposalCreated(known) == EnsureGovernor(known) \o <<"InsertGovernanceProposal">>
HandleVoteCast   == <<"InsertGovernanceVote">>
HandleQueued     == <<"MarkProposalQueued">>
HandleExecuted   == <<"MarkProposalExecuted">>
HandleDispatched == <<"MarkProposalDispatched">>
HandleCancelled  == <<"MarkProposalCancelled">>

GovernanceHandler(ev, known) ==
    CASE ev.name = "ProposalCreated"    -> HandleProposalCreated(known)
      [] ev.name = "VoteCast"           -> HandleVoteCast
      [] ev.name = "ProposalQueued"     -> HandleQueued
      [] ev.name = "ProposalExecuted"   -> HandleExecuted
      [] ev.name = "ProposalDispatched" -> HandleDispatched
      [] ev.name = "ProposalCancelled"  -> HandleCancelled
      [] OTHER -> <<>>

(* indexer/governance_receiver.go *)

HandleReceived == <<"InsertRemoteAction">>

HandleClosed(status) ==
    IF status = "executed" THEN <<"CloseRemoteActionExecuted">>
                           ELSE <<"CloseRemoteActionCancelled">>

GovernanceReceiverHandler(ev) ==
    CASE ev.name = "MessageReceived"  -> HandleReceived
      [] ev.name = "MessageExecuted"  -> HandleClosed("executed")
      [] ev.name = "MessageCancelled" -> HandleClosed("cancelled")
      [] OTHER -> <<>>

(* indexer/vault.go *)

EnsureAsset(known) == Once("UpsertAsset", known)
EnsureVault(known) == Once("UpsertVault", known)

VaultHandler(ev, known) ==
    CASE ev.name = "Deposited" -> EnsureAsset(known) \o EnsureVault(known) \o <<"InsertVaultDeposit">>
      [] ev.name = "Withdrawn" -> EnsureAsset(known) \o EnsureVault(known) \o <<"InsertVaultWithdrawal">>
      [] OTHER -> <<>>

(* indexer/oracle.go *)

HandleFeedRegistered == <<"UpsertOracleFeed">>
MutantRoundStarted   == <<"InsertOracleRound">>
HandleRoundStarted   == <<"EnsureOracleFeed", "InsertOracleRound">>
HandleQuorumMet      == <<"MarkOracleRoundQuorumMet">>
HandleSettled        == <<"SettleOracleRound">>
HandleFailed         == <<"FailOracleRound">>
HandleSubmission     == <<"InsertOracleSubmission">>

OracleRoundsHandler(ev) ==
    CASE ev.name = "FeedRegistered"     -> HandleFeedRegistered
      [] ev.name = "FeedDeregistered"   -> <<"DeactivateOracleFeed">>
      [] ev.name = "RoundStarted"       -> HandleRoundStarted
      [] ev.name = "RoundQuorumMet"     -> HandleQuorumMet
      [] ev.name = "RoundSettled"       -> HandleSettled
      [] ev.name = "RoundFailed"        -> HandleFailed
      [] ev.name = "SubmissionReceived" -> HandleSubmission
      [] OTHER -> <<>>

(* indexer/oracle_staking.go *)

EnsureStakeAsset(known) == Once("UpsertAsset", known)

HandleRegistered(known) == EnsureStakeAsset(known) \o <<"UpsertOracleNode">>
HandleUnstakeRequested  == <<"SetOracleNodeUnstake">>
HandleDeactivated       == <<"CloseOracleNodeInterval", "SetOracleNodeInactive">>
HandleSlashed           == <<"RecordOracleSlash">>

(* Whether a node is active is set only by the two events of the set. *)
OracleStakingHandler(ev, known) ==
    CASE ev.name = "NodeRegistered"   -> HandleRegistered(known)
      [] ev.name = "NodeStaked"       -> <<"SetOracleNodeStake">>
      [] ev.name = "UnstakeRequested" -> HandleUnstakeRequested
      [] ev.name = "UnstakeCancelled" -> <<"ClearOracleNodeUnstake">>
      [] ev.name = "NodeUnstaked"     -> <<"ClearOracleNodeUnstake", "SetOracleNodeStake">>
      [] ev.name = "NodeSlashed"      -> HandleSlashed
      [] ev.name = "NodeDeactivated"  -> HandleDeactivated
      [] ev.name = "NodeReactivated"  -> <<"OpenOracleNodeInterval", "SetOracleNodeActive">>
      [] OTHER -> <<>>

(* indexer/zk.go: commitments reference no gate. *)

EnsureGate(known) == Once("UpsertZkGate", known)

HandleCommitmentInserted        == <<"InsertZkCommitment">>
HandlePrivateAction(known)      == EnsureGate(known) \o <<"InsertZkPrivateAction">>
HandleActionRegistered(known)   == EnsureGate(known) \o <<"UpsertZkAction">>
HandleActionDeregistered        == <<"DeregisterZkAction">>

ZkHandler(ev, known) ==
    CASE ev.name = "CommitmentInserted"    -> HandleCommitmentInserted
      [] ev.name = "PrivateActionExecuted" -> HandlePrivateAction(known)
      [] ev.name = "ActionRegistered"      -> HandleActionRegistered(known)
      [] ev.name = "ActionDeregistered"    -> HandleActionDeregistered
      [] OTHER -> <<>>

(* Every handler sees every event and ignores what is not its contract's. *)
Dispatch(kind, ev, known) ==
    CASE kind = "governor" -> GovernanceHandler(ev, known)
      [] kind = "receiver" -> GovernanceReceiverHandler(ev)
      [] kind = "vault"    -> VaultHandler(ev, known)
      [] kind = "rounds"   -> OracleRoundsHandler(ev)
      [] kind = "staking"  -> OracleStakingHandler(ev, known)
      [] kind = "zk"       -> ZkHandler(ev, known)

(* The events a handler subscribes to. *)

GovernanceFilters ==
    {"ProposalCreated", "VoteCast", "ProposalQueued", "ProposalExecuted",
     "ProposalDispatched", "ProposalCancelled"}
GovernanceReceiverFilters == {"MessageReceived", "MessageExecuted", "MessageCancelled"}
VaultFilters == {"Deposited", "Withdrawn"}
OracleRoundsFilters ==
    {"FeedRegistered", "FeedDeregistered", "RoundStarted", "RoundQuorumMet",
     "RoundSettled", "RoundFailed", "SubmissionReceived"}
OracleStakingFilters ==
    {"NodeRegistered", "NodeStaked", "UnstakeRequested", "UnstakeCancelled",
     "NodeUnstaked", "NodeSlashed", "NodeDeactivated", "NodeReactivated"}
ZkFilters ==
    {"CommitmentInserted", "PrivateActionExecuted", "ActionRegistered", "ActionDeregistered"}

Filters(kind) ==
    CASE kind = "governor" -> GovernanceFilters
      [] kind = "receiver" -> GovernanceReceiverFilters
      [] kind = "vault"    -> VaultFilters
      [] kind = "rounds"   -> OracleRoundsFilters
      [] kind = "staking"  -> OracleStakingFilters
      [] kind = "zk"       -> ZkFilters
============================================================================
