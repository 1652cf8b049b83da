SPECIFICATION FairSpec
CONSTANTS
    Clauses = {1, 2, 3, 4}
    WorkItems <- MCWorkItems
    Rankings <- MCRankings
    RecallLimit = 3
    RerankLimit = 2
    TopK = 2
    Width = 2
    MaxRuns = 2
    MaxFaults = 1
CHECK_DEADLOCK FALSE
INVARIANTS
    FirstErrorInOrder
    RelatedIsFresh
    NothingBetterLeftOut
PROPERTIES
    CancelledCallsDropped
    PhaseEnds
