\* Two workers race for one decision, a slash by hand and a change of stake
\* race both; two faults among crashes, lost answers and dropped calls.
CONSTANTS
  Chains = {"evm", "svm"}
  Nodes = {n1}
  Rounds = {1}
  Workers = {w1, w2}
  Penalty <- MCPenalty
  InitialStake = 200
  Restakes = {100}
  ManualAmounts = {1}
  MaxSlashBps = 1000
  MaxAttempts = 3
  MaxFaults = 2
  MaxLog = 1
SPECIFICATION FairSpec
INVARIANTS TypeOK OnePenaltyPerRound AuditMatchesChain AbandonedForCause
PROPERTIES DecisionsLeaveQueue
CHECK_DEADLOCK FALSE
