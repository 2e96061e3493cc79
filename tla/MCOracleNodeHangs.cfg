\* One round and one Solana transaction that never lands.
CONSTANTS
  Nodes = {n1, n2}
  Self = n1
  Feeds = {f1}
  MyFeed = f1
  NoFeed = NoFeed
  Values = {5}
  Durations = {3}
  QuorumLevels = {5000}
  QuorumCounts = {1}
  Ceiling = 2
  MaxVersion = 4
  MaxSubmissions = 2
  MaxTime = 6
  MaxRounds = 1
  Vms = {"svm"}
  Sources = {s1, s2, s3}
  Faulty = s1
  Honest = {41}
  Wild = {90}
  Precision = 10
  MinSources = 3
  SubmitBefore = 1
  MaxPool = 2
  MaxFaults = 1
SPECIFICATION Spec
PROPERTIES AnotherChance
CHECK_DEADLOCK FALSE
