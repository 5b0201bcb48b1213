SPECIFICATION Spec
CONSTANTS
    Tasks = {t1, t2, t3}
    MaxIssues = 2
    MaxDepth = 1
    Names <- CellNames
    KernelOps <- KernelNames
    Streams <- NoStreams
    Table <- ByTable
    Route <- Chain
    Contract <- Contracts
    Capabilities <- Caps
    Asks <- Requests
    None = None
    Refused = Refused
SYMMETRY Hot
INVARIANTS
    ReadYourWrites
    NoDepthInCache
    CachedWithinAuthority
    ConcealedIsMissing
    ExplainedAsAnswered
    ProbedAsServed
CHECK_DEADLOCK FALSE
