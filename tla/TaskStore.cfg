SPECIFICATION Spec
CONSTANTS
    N = 2
    Width = 2
    Risks = {r1, r2}
    r1 = r1
    r2 = r2
    MaxEvents = 16
    MaxFaults = 1
CHECK_DEADLOCK FALSE
INVARIANTS
    TablesAreTheState
PROPERTIES
    NothingTakenBack
