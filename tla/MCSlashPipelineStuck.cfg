\* A decision and a slash by hand race for one round; one crash of the
\* indexer.
CONSTANTS
  Chains = {"evm"}
  Nodes = {n1}
  Rounds = {1}
  Workers = {w1}
  Penalty <- MCPenalty
  InitialStake = 200
  Restakes = {}
  ManualAmounts = {1}
  MaxSlashBps = 1000
  MaxAttempts = 3
  MaxFaults = 1
  MaxLog = 1
SPECIFICATION FairSpec
PROPERTY EveryEventCommitted
CHECK_DEADLOCK FALSE
