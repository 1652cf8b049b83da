SPECIFICATION Spec
CONSTANTS
    Cancellers = {c1, c2}
    Recoverers = {r1}
    MaxCalls = 2
    MaxFaults = 2
    FaultKinds = {"crash", "api_crash", "node_timeout", "tool", "llm", "error",
                  "finally", "handler", "upload", "enqueue", "lost_reply"}
    BootDuringSubmit = TRUE
CHECK_DEADLOCK FALSE
INVARIANTS
    TypeOK
    FailureHasCheckpoint
    RetryBudget
    CheckpointSaved
PROPERTY
    CancellationFreezes
