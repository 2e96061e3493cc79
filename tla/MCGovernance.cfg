\* Two proposals, one of which shortens the delay the other waits for, or one
\* of which goes to another chain; a vote changes hands, the admin changes a
\* parameter.
CONSTANTS
  Voters = {"alice", "bob"}
  Guardian = "guardian"
  InitialVotes <- MCInitialVotes
  Home = "arbitrum"
  Actions <- MCActions
  Settings <- MCSettings
  InitialParams <- MCInitialParams
  AdminSettings <- MCAdminSettings
  MaxProposals = 2
  MaxChanges = 1
  MaxTime = 4
SPECIFICATION Spec
INVARIANTS TypeOK PerformedAsVoted ProposalMatchesOperation
CHECK_DEADLOCK FALSE
