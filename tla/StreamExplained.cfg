SPECIFICATION Spec
CONSTANTS
    Tasks = {t1, t2, t3}
    MaxIssues = 2
    MaxDepth = 1
    Names <- CellNames
    KernelOps <- KernelNames
    Streams <- StreamNames
    Table <- ByTable
    Route <- Chain
    Contract <- Contracts
    Capabilities <- Caps
    Asks <- StreamRequests
    None = None
    Refused = Refused
SYMMETRY Hot
INVARIANT ExplainedAsAnswered
CHECK_DEADLOCK FALSE
