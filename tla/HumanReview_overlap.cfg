SPECIFICATION Spec
CONSTANTS
    Risks = {r1, r2}
    Actions = {"accept", "ignore"}
    Reviewers = {v1, v2}
    Reporters = {p1}
    MaxFeedbacks = 2
    MaxReports = 0
    MaxFaults = 0
    FaultKinds = {}
CHECK_DEADLOCK FALSE
PROPERTY HandledStaysHandled
