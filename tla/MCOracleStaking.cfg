CONSTANTS
  Nodes = {n1, n2}
  RoundIds = {1, 2}
  Amounts = {1, 2}
  StakeLevels = {1, 2}
  Periods = {0, 1}
  InitialWallet = 3
  MaxSlashBps = 5000
  MinUnbonding = 1
  MaxNodesCeiling = 2
  MaxTime = 2
  MaxVersion = 4
SPECIFICATION Spec
INVARIANTS TypeOK MembershipSound StakeConserved CustodyBacked
PROPERTIES ExitWaitsForUnbonding FloorHeld OneBoundedSlashPerRound ImplementsNodeSet
SYMMETRY MCSymmetry
CHECK_DEADLOCK FALSE
