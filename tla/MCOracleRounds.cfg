CONSTANTS
  n1 = n1
  n2 = n2
  n3 = n3
  f1 = f1
  f2 = f2
  Nodes = {n1, n2, n3}
  Feeds = {f1, f2}
  Values = {1, 2, 5}
  Durations = {1}
  QuorumLevels = {5000, 10000}
  QuorumCounts = {1}
  Ceiling = 3
  MaxVersion = 3
  MaxSubmissions = 3
  MaxTime = 2
  MaxRounds = 2
  NoFeed = NoFeed
SPECIFICATION FairSpec
INVARIANTS TypeOK CountedOnceFromSnapshot RoomForMembers OneLiveRoundPerFeed MedianIsCentral
PROPERTIES ClosedRoundsAreFinal EveryRoundCloses
ACTION_CONSTRAINT MCCases
CHECK_DEADLOCK FALSE
