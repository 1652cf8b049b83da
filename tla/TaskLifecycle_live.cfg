SPECIFICATION FairSpec
CONSTANTS
    Cancellers = {c1}
    Recoverers = {r1}
    MaxCalls = 2
    MaxFaults = 3
    FaultKinds = {"crash", "node_timeout", "tool", "error", "upload"}
    BootDuringSubmit = FALSE
CHECK_DEADLOCK FALSE
INVARIANTS
    NoOrphan
PROPERTIES
    CompletedNotReopened
    ReviewSettles
    
