SPECIFICATION MirrorSpec
CONSTANTS
    a = a
    b = b
    Accounts = {a, b}
    Stakers = {a, b}
    Kinds = {"governor", "receiver", "vault", "rounds", "staking", "zk"}
    SvmKinds = {"receiver", "vault"}
    LateKinds = {"rounds", "staking"}
    Weight <- MCWeight
    MaxId <- MCMaxId
    Quorum = 2
    MaxNodes = 2
    MaxCalls <- MCMaxCalls
    MaxEmpty = 1
    Confirms = 1
    CallsPerBlock <- MCPerBlock
    PageLimit = 2
    BatchSize = 2
    MaxFailures <- MCFailures
INVARIANTS MirrorTypeOK 
PROPERTIES FinalRowsStay CursorNeverRewinds 
ACTION_CONSTRAINT MCFirstIsA
CHECK_DEADLOCK FALSE
