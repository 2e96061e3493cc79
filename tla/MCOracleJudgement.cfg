\* Three rounds in any order of settlement, six ways a round can go; the
\* streak is two misses here, so that it completes and restarts in three.
CONSTANTS
  NodeOrder <- MCNodeOrder
  MaxRounds = 3
  Shapes <- MCShapes
  Late <- MCLate
  ByHand <- MCByHand
  Threshold = 1000
  BatchSize = 2
  MissLimit = 2
  Dust = {3}
  MaxUnread = 1
  MaxCrashes = 1
ACTION_CONSTRAINT MCOneTrouble
SPECIFICATION FairSpec
INVARIANTS TypeOK PenaltiesFollowRoundOrder NoMissForHeard
PROPERTIES EveryRoundHandled
CHECK_DEADLOCK FALSE
