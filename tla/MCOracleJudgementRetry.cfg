\* One signature that fails to load, and one restart.
CONSTANTS
  NodeOrder <- MCNodeOrder
  MaxRounds = 1
  Shapes <- MCTwo
  Late <- MCNobody
  ByHand <- MCNobody
  Threshold = 1000
  BatchSize = 2
  MissLimit = 2
  Dust = {}
  MaxUnread = 1
  MaxCrashes = 1
SPECIFICATION FairSpec
PROPERTIES EveryRoundRetried
CHECK_DEADLOCK FALSE
