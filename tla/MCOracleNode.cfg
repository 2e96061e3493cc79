\* Two rounds one after the other; a source that lies, or is truncated to
\* zero, among three; both chains.
CONSTANTS
  Nodes = {n1, n2}
  Self = n1
  Feeds = {f1}
  MyFeed = f1
  NoFeed = NoFeed
  Values = {5}
  Durations = {2, 3}
  QuorumLevels = {5000}
  QuorumCounts = {1}
  Ceiling = 2
  MaxVersion = 4
  MaxSubmissions = 2
  MaxTime = 6
  MaxRounds = 2
  Vms = {"evm", "svm"}
  Sources = {s1, s2, s3, s4}
  Faulty = s1
  Honest = {41, 47}
  Wild = {3, 90}
  Precision = 10
  MinSources = 3
  SubmitBefore = 1
  MaxPool = 2
  MaxFaults = 1
ACTION_CONSTRAINT MCCases
SPECIFICATION Spec
INVARIANTS TypeOK OneSourceCannotMovePrice PriceIsOfItsRound HeardUnlessExcused
PROPERTIES NodeComesBack
CHECK_DEADLOCK FALSE
