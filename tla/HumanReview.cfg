SPECIFICATION FairSpec
CONSTANTS
    Risks = {r1, r2}
    Actions = {"accept"}
    Reviewers = {v1, v2}
    Reporters = {p1, p2}
    MaxFeedbacks = 2
    MaxReports = 2
    MaxFaults = 2
    FaultKinds = {"store", "checkpoint", "release", "api", "worker"}
CHECK_DEADLOCK FALSE
INVARIANTS
    DecisionRemembered
    ControlExclusive
    OneReportPerVersion
    ReportsDecided
PROPERTIES
    CheckpointKeepsFeedback
    FeedbackReturns
