SPECIFICATION FairSpec
CONSTANTS
    N = 3
    Width = 2
    MaxRuns = 2
    Failures = {"RETRIEVAL_FAILED"}
CHECK_DEADLOCK FALSE
INVARIANTS
    InSourceOrder
    OwnAnalysis
    VerifiedIsComplete
    NoCandidateLost
PROPERTY
    FanoutEnds
