\* Messages of a Solana receiver, two transactions in one slot.
SPECIFICATION MirrorSpec
CONSTANTS
    a = a
    b = b
    Accounts = {a, b}
    Stakers = {a, b}
    Kinds = {"receiver"}
    SvmKinds = {"receiver"}
    LateKinds = {}
    Weight <- MCWeight
    MaxId <- MCMaxId
    Quorum = 2
    MaxNodes = 2
    MaxCalls <- MCMaxCalls
    MaxEmpty = 1
    Confirms = 1
    CallsPerBlock <- MCPerBlock
    PageLimit = 2
    BatchSize = 2
    MaxFailures <- MCFailures
INVARIANT ReceivedBeforeClosed
CHECK_DEADLOCK FALSE
